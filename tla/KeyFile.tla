------------------------------ MODULE KeyFile -------------------------------
(***************************************************************************)
(* The generated backup key (services/archive_keys.py): a file of          *)
(* identities on the state volume, the first encrypting and all of them    *)
(* opening archives.  A start makes it when there is none, the rotate      *)
(* command puts a new identity first.  Both write a file beside it under   *)
(* one fixed name and link or move that into place, and either may be      *)
(* stopped between two steps.  An identity, and the file written with it,  *)
(* is the number of the writer that minted it.                             *)
(***************************************************************************)
EXTENDS Naturals, Sequences

CONSTANTS
  KeyWriters,     \* starts and rotations at work at one time
  MaxIdentities   \* bound: starts and rotations

ASSUME KeyFileAssumption == MaxIdentities \in Nat

VARIABLES
  names,     \* the file under each name, 0 for none
  text,      \* the identities in each file ever created, none until it is written
  minted,    \* identities minted
  writer,    \* what each writer is at
  used,      \* identities archives have been encrypted with
  contested  \* ghost: those there were when a rotation last had another writer beside it

keyfile == <<names, text, minted, writer, used, contested>>

None == 0
Resting == [at |-> "rests", kind |-> "start", id |-> None, was |-> <<>>]

KeyFileInit ==
  /\ names = [n \in {"key", "partial"} |-> None] /\ text = [f \in 1..MaxIdentities |-> <<>>]
  /\ minted = 0 /\ writer = [w \in KeyWriters |-> Resting] /\ used = {}
  /\ contested = {}

InFile == IF names["key"] = None THEN <<>> ELSE text[names["key"]]

Working == {w \in KeyWriters : writer[w] # Resting}

\* Nothing keeps a writer from beginning while others are at work.
BesideRotation(kind) ==
  \/ \E v \in Working : writer[v].kind = "rotate"
  \/ kind = "rotate" /\ Working # {}

At(w, at) == writer' = [writer EXCEPT ![w].at = at]
Rests(w) == writer' = [writer EXCEPT ![w] = Resting]

Sets(w, kind) ==
  /\ writer[w] = Resting /\ minted < MaxIdentities /\ minted' = minted + 1
  /\ writer' = [writer EXCEPT ![w] = [at |-> "clears", kind |-> kind, id |-> minted + 1, was |-> InFile]]
  /\ contested' = IF BesideRotation(kind) THEN 1..minted' ELSE contested
  /\ UNCHANGED <<names, text, used>>

\* ensure_key makes an identity whether or not there is a key already.
Ensures(w) == Sets(w, "start")

\* rotate: a key that cannot be read is refused before anything is written.
Rotates(w) == InFile # <<>> /\ Sets(w, "rotate")

\* _write_partial: a file another start left is removed, whoever's it is.
Clears(w) ==
  /\ writer[w].at = "clears" /\ names' = [names EXCEPT !["partial"] = None] /\ At(w, "creates")
  /\ UNCHANGED <<text, minted, used, contested>>

Creates(w) ==
  /\ writer[w].at = "creates"
  /\ IF names["partial"] = None
       THEN names' = [names EXCEPT !["partial"] = writer[w].id] /\ At(w, "fills")
       ELSE Rests(w) /\ UNCHANGED names   \* O_EXCL: the writer fails
  /\ UNCHANGED <<text, minted, used, contested>>

Fills(w) ==
  /\ writer[w].at = "fills"
  /\ text' = [text EXCEPT ![writer[w].id] = <<writer[w].id>> \o
                                            (IF writer[w].kind = "rotate" THEN writer[w].was ELSE <<>>)]
  /\ At(w, "places") /\ UNCHANGED <<names, minted, used, contested>>

\* Mutant of Linked: the file is moved into place, whatever is there.
LinkedOver == names["partial"]

\* A hard link fails when the name is taken.
Linked == IF names["key"] = None THEN names["partial"] ELSE names["key"]

\* _create_exclusively: the partial may be another writer's by now, or gone,
\* which fails the start.
Placed(w) ==
  /\ writer[w].at = "places" /\ writer[w].kind = "start"
  /\ IF names["partial"] = None
       THEN Rests(w) /\ UNCHANGED names
       ELSE names' = [names EXCEPT !["key"] = Linked] /\ At(w, "tidies")
  /\ UNCHANGED <<text, minted, used, contested>>

Tidies(w) ==
  /\ writer[w].at = "tidies" /\ names' = [names EXCEPT !["partial"] = None] /\ Rests(w)
  /\ UNCHANGED <<text, minted, used, contested>>

\* _replace.
Replaces(w) ==
  /\ writer[w].at = "places" /\ writer[w].kind = "rotate" /\ Rests(w)
  /\ names' = IF names["partial"] = None THEN names
              ELSE [key |-> names["partial"], partial |-> None]
  /\ UNCHANGED <<text, minted, used, contested>>

\* The process that writes is stopped.
Cut(w) == w \in Working /\ Rests(w) /\ UNCHANGED <<names, text, minted, used, contested>>

\* A backup takes the first identity; without one it fails.
Encrypts ==
  /\ InFile # <<>> /\ used' = used \union {Head(InFile)}
  /\ UNCHANGED <<names, text, minted, writer, contested>>

KeyFileNext ==
  \/ \E w \in KeyWriters :
       \/ Ensures(w) \/ Rotates(w) \/ Clears(w) \/ Creates(w) \/ Fills(w)
       \/ Placed(w) \/ Tidies(w) \/ Replaces(w) \/ Cut(w)
  \/ Encrypts

KeyFileSpec == KeyFileInit /\ [][KeyFileNext]_keyfile

-----------------------------------------------------------------------------
(* Properties.                                                             *)

StillOpens(u) == \E i \in DOMAIN InFile : InFile[i] = u

\* An identity an archive was encrypted with stays in the key file, so that
\* the archive can be opened ("a key already there is never replaced, even if
\* looking for it failed", archive_keys.py:311), whenever a start or a rotation
\* is stopped and whatever an earlier one left under the partial name.
\* Excepted is what was minted before a rotation and another writer were last
\* at work together; what is minted after them is kept again.
KeyKept == \A u \in used \ contested : StillOpens(u)

\* "Put a new identity first in the generated key file, keeping the old ones so
\* older archives stay readable" (archive_keys.py:362), without that exception.
KeyNeverLost == \A u \in used : StillOpens(u)
=============================================================================
