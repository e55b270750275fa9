------------------------------ MODULE Secrets -------------------------------
(***************************************************************************)
(* The stored secrets and the key they are encrypted with                  *)
(* (services/crypto.py, services/app_settings.py, routers/settings.py,     *)
(* scheduled.clear_secrets).  No SECRET_KEY is set: the key is generated   *)
(* at its first use and kept in a file.  A secret that is not encrypted    *)
(* with it, which a restore may bring, is cleared and named in             *)
(* secrets_cleared until it is entered again.  Key 0 stands for another    *)
(* deployment's, or for none.                                              *)
(***************************************************************************)
EXTENDS Naturals, FiniteSets

CONSTANTS
  Secrets,   \* SECRET_KEYS
  Putters,  \* PUTs of Settings at work at one time
  Faults,    \* known defects whose circumstances are explored too (README)
  MaxKeys, MaxRestores, MaxRestarts

\*   "first_use"  two requests need the key before it is there
\*   "overlap"    a PUT and the hourly clearing, each whole-value writes, overlap
ASSUME SecretsAssumption ==
  Faults \subseteq {"first_use", "overlap"} /\ {MaxKeys, MaxRestores, MaxRestarts} \subseteq Nat

VARIABLES
  file,      \* SECRET_KEY_FILE: whether it is there, and the key in it
  cipher,    \* _cipher: the key it was made of, 0 for None
  keys,      \* keys generated
  stored,    \* each secret's row
  named,     \* secrets_cleared
  putting,   \* what each PUT is at
  clearing,  \* what the hourly clearing has read: {} or one such
  entered,   \* secrets whose row the owner entered last
  owed,      \* secrets cleared as unusable, not entered or emptied since
  restores, restarts

secrets == <<file, cipher, keys, stored, named, putting, clearing, entered, owed, restores, restarts>>

Unset == [as |-> "unset", key |-> 0]
Plain == [as |-> "plain", key |-> 0]
Under(k) == [as |-> "encrypted", key |-> k]
NoPut == [at |-> "idle"]

SecretsInit ==
  /\ file = [is |-> FALSE, key |-> 0] /\ cipher = 0 /\ keys = 0
  /\ stored = [s \in Secrets |-> Unset] /\ named = {}
  /\ putting = [q \in Putters |-> NoPut] /\ clearing = {}
  /\ entered = {} /\ owed = {} /\ restores = 0 /\ restarts = 0

PutAt(q, at) == putting[q].at = at
PutGoes(q, at) == putting' = [putting EXCEPT ![q].at = at]
Quiet == \A q \in Putters : PutAt(q, "idle")
Alone(fault, free) == free \/ fault \in Faults
Usable(row) == row.as = "encrypted"
Readable(row) == Usable(row) /\ row.key # 0 /\ row.key = file.key

-----------------------------------------------------------------------------
(* A PUT that enters or empties one secret: set_setting.                   *)

Puts(q, s, empty) ==
  /\ PutAt(q, "idle") /\ Alone("overlap", clearing = {})
  /\ putting' = [putting EXCEPT ![q] = [at |-> IF empty THEN "sealed" ELSE "sealing",
                                secret |-> s, empty |-> empty, key |-> 0, list |-> {}]]
  /\ UNCHANGED <<file, cipher, keys, stored, named, clearing, entered, owed, restores, restarts>>

\* get_cipher: the one in memory, else the file's, else a new one.
Keyed(q) ==
  /\ PutAt(q, "sealing") /\ cipher # 0 /\ putting' = [putting EXCEPT ![q].at = "sealed", ![q].key = cipher]
  /\ UNCHANGED <<file, cipher, keys, stored, named, clearing, entered, owed, restores, restarts>>

\* An empty file is no key: the PUT fails.
ReadsKey(q) ==
  /\ PutAt(q, "sealing") /\ cipher = 0 /\ file.is
  /\ IF file.key = 0 THEN putting' = [putting EXCEPT ![q] = NoPut] /\ UNCHANGED cipher
     ELSE cipher' = file.key /\ UNCHANGED putting
  /\ UNCHANGED <<file, keys, stored, named, clearing, entered, owed, restores, restarts>>

Making == {q \in Putters : putting[q].at \in {"generated", "created", "written"}}

Generates(q) ==
  /\ PutAt(q, "sealing") /\ cipher = 0 /\ ~file.is /\ keys < MaxKeys /\ Alone("first_use", Making = {})
  /\ keys' = keys + 1 /\ putting' = [putting EXCEPT ![q].at = "generated", ![q].key = keys + 1]
  /\ UNCHANGED <<file, cipher, stored, named, clearing, entered, owed, restores, restarts>>

\* O_CREAT | O_TRUNC, then the key.
CreatesFile(q) ==
  /\ PutAt(q, "generated") /\ PutGoes(q, "created") /\ file' = [is |-> TRUE, key |-> 0]
  /\ UNCHANGED <<cipher, keys, stored, named, clearing, entered, owed, restores, restarts>>

\* Mutant of Persisted: the key is only kept in memory.
PersistedNot(q) == file

Persisted(q) == [file EXCEPT !.key = putting[q].key]

WritesKey(q) ==
  /\ PutAt(q, "created") /\ PutGoes(q, "written") /\ file' = Persisted(q)
  /\ UNCHANGED <<cipher, keys, stored, named, clearing, entered, owed, restores, restarts>>

\* _cipher is assigned; what is returned and used is whatever it then is.
Ciphers(q) ==
  /\ PutAt(q, "written") /\ PutGoes(q, "sealing") /\ cipher' = putting[q].key
  /\ UNCHANGED <<file, keys, stored, named, clearing, entered, owed, restores, restarts>>

Lists(q) ==
  /\ PutAt(q, "sealed") /\ putting' = [putting EXCEPT ![q].at = "listed", ![q].list = named]
  /\ UNCHANGED <<file, cipher, keys, stored, named, clearing, entered, owed, restores, restarts>>

\* The list is written only when the secret was on it, as it was then.
Commits(q) ==
  LET r == putting[q]  s == r.secret IN
    /\ PutAt(q, "listed") /\ putting' = [putting EXCEPT ![q] = NoPut]
    /\ stored' = [stored EXCEPT ![s] = IF r.empty THEN Unset ELSE Under(r.key)]
    /\ named' = IF s \in r.list THEN r.list \ {s} ELSE named
    /\ entered' = IF r.empty THEN entered \ {s} ELSE entered \union {s}
    /\ owed' = owed \ {s}
    /\ UNCHANGED <<file, cipher, keys, clearing, restores, restarts>>

-----------------------------------------------------------------------------
(* Clearing what is unusable: clear_unusable_secrets.                      *)

Unusable(rows, undecryptable) ==
  {s \in Secrets : rows[s].as # "unset" /\ (~Usable(rows[s]) \/ (undecryptable /\ ~Readable(rows[s])))}

Renamed(list, refused) == list \union refused

ClearReads ==
  /\ clearing = {} /\ Alone("overlap", Quiet) /\ Unusable(stored, FALSE) # {}
  /\ clearing' = {[refused |-> Unusable(stored, FALSE), list |-> named]}
  /\ UNCHANGED <<file, cipher, keys, stored, named, putting, entered, owed, restores, restarts>>

ClearWrites ==
  /\ \E c \in clearing :
       /\ stored' = [s \in Secrets |-> IF s \in c.refused THEN Unset ELSE stored[s]]
       /\ named' = Renamed(c.list, c.refused) /\ owed' = owed \union c.refused
  /\ clearing' = {}
  /\ UNCHANGED <<file, cipher, keys, putting, entered, restores, restarts>>

-----------------------------------------------------------------------------
(* Restores and restarts.                                                  *)

\* What the archive's own list still names.
StillOwed(rows, list) == {s \in list : rows[s] = Unset}

Archived == [Secrets -> {Unset, Plain, Under(0), Under(file.key)}]

\* In the app: the archive's rows and list, and the clearing of all it can't
\* read, with nobody at work.
Restores(rows, list) ==
  /\ Quiet /\ clearing = {} /\ restores < MaxRestores /\ restores' = restores + 1
  /\ LET refused == Unusable(rows, TRUE) IN
       /\ stored' = [s \in Secrets |-> IF s \in refused THEN Unset ELSE rows[s]]
       /\ named' = Renamed(list, refused) /\ owed' = refused \union StillOwed(rows, list)
  /\ entered' = {} /\ UNCHANGED <<file, cipher, keys, putting, clearing, restarts>>

\* restore.sh, another process: the hourly clearing finds what it brings.
RestoresBeside(rows, list) ==
  /\ Quiet /\ clearing = {} /\ restores < MaxRestores /\ restores' = restores + 1
  /\ stored' = rows /\ named' = list /\ owed' = StillOwed(rows, list) /\ entered' = {}
  /\ UNCHANGED <<file, cipher, keys, putting, clearing, restarts>>

StartsOver ==
  /\ restarts < MaxRestarts /\ restarts' = restarts + 1
  /\ cipher' = 0 /\ putting' = [q \in Putters |-> NoPut] /\ clearing' = {}
  /\ UNCHANGED <<file, keys, stored, named, entered, owed, restores>>

SecretsNext ==
  \/ \E q \in Putters :
       \/ \E s \in Secrets, e \in BOOLEAN : Puts(q, s, e)
       \/ Keyed(q) \/ ReadsKey(q) \/ Generates(q) \/ CreatesFile(q) \/ WritesKey(q) \/ Ciphers(q)
       \/ Lists(q) \/ Commits(q)
  \/ ClearReads \/ ClearWrites \/ StartsOver
  \/ \E rows \in Archived, list \in SUBSET Secrets : Restores(rows, list) \/ RestoresBeside(rows, list)

SecretsSpec == SecretsInit /\ [][SecretsNext]_secrets

-----------------------------------------------------------------------------
(* A secret the owner entered stays there and can be read with the key in  *)
(* the file, after any restart and any clearing (crypto.get_cipher,        *)
(* app_settings.clear_unusable_secrets).                                   *)
EnteredReadable == \A s \in entered : Readable(stored[s])

(* A secret that was cleared as unusable is named in Settings until it is  *)
(* entered again, though other secrets are entered and cleared meanwhile   *)
(* (app_settings.clear_unusable_secrets, set_setting).                     *)
ClearedIsNamed == owed \subseteq named

(* The key that was generated and kept is the key for good: no later first *)
(* use replaces it (crypto._load_key_material).                            *)
KeyMadeOnce == [][file.key # 0 => file' = file]_secrets
=============================================================================
