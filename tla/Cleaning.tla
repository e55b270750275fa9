------------------------------ MODULE Cleaning -------------------------------
(***************************************************************************)
(* The pass that removes metadata from the photos stored before it existed *)
(* (services/photos.py), its marker, and the restore that brings photos    *)
(* which may carry metadata (services/restore.py).  A pass works through   *)
(* the volume on a thread of its own, file by file, while uploads,         *)
(* deletions and the renames of a restore change the volume under it.      *)
(* Each file is in a directory of its own (an item's), which a restore     *)
(* moves whole.                                                            *)
(***************************************************************************)
EXTENDS Naturals, FiniteSets

CONSTANTS
  Files,        \* photo files, each of its own item
  Passes,       \* threads that may be passes, at one time
  Before, Brought,   \* what may be stored from before, or come with an archive
  NoFile,
  MaxRestores, MaxStops   \* bounds on the restores that bring photos, and on stops

ASSUME CleaningAssumption ==
  /\ IsFiniteSet(Files) /\ NoFile \notin Files
  /\ Before \union Brought \subseteq [Files -> {"nodir", "dirty", "clean", "broken"}]
  /\ MaxRestores \in Nat /\ MaxStops \in Nat

VARIABLES
  live,         \* each file's directory: the photo, and the pass's temporary files
  old,          \* the same in OLD_DIR
  deleted,      \* ghost: photos deleted for good, while no pass was past its look
  marker,       \* photos_clean exists
  refused,      \* the files it lists as unreadable
  unlisted,     \* ghost: those in folders the pass that wrote it could not list
  generation,   \* _marker_generation
  pass,         \* what each pass is at
  failed,       \* ghost: the last pass of this generation could not rewrite everything
  restore,      \* what the restore is at
  archive,      \* the photos it brings
  putBack,      \* ghost: files put back by an undo since a restore last began
  up,           \* the process runs
  restores, stops

files == <<live, old, deleted>>
marking == <<marker, refused, unlisted, generation>>
restoring == <<restore, archive, putBack, restores>>
process == <<up, stops>>
cleaning == <<files, marking, pass, failed, restoring, process>>

NoArchive == [f \in Files |-> "nodir"]
NoDir == [photo |-> "nodir", temps |-> {}]
Off == [at |-> "off", gen |-> 0, todo |-> {}, stale |-> {}, file |-> NoFile, bad |-> {},
        skipped |-> {}, fails |-> FALSE]

Dir == [photo : {"nodir", "none", "dirty", "clean", "broken"}, temps : SUBSET {"own", "fresh", "stale"}]

CleaningTypeOK ==
  /\ live \in [Files -> Dir] /\ old \in [Files -> Dir] /\ deleted \subseteq Files
  /\ \A f \in Files : \A d \in {live[f], old[f]} : d.photo = "nodir" => d.temps = {}
  /\ marker \in BOOLEAN /\ refused \union unlisted \subseteq Files
  /\ (refused \union unlisted # {} => marker)
  /\ generation \in 0..2 * MaxRestores
  /\ pass \in [Passes -> [at : {"off", "queued", "locked", "walk", "read", "wrote", "put"},
                          gen : 0..generation, todo : SUBSET Files, stale : SUBSET Files,
                          file : Files \union {NoFile}, bad : SUBSET Files, skipped : SUBSET Files,
                          fails : BOOLEAN]]
  /\ Cardinality({p \in Passes : pass[p].at \notin {"off", "queued"}}) <= 1
  /\ Cardinality({f \in Files : "own" \in live[f].temps \union old[f].temps}) <= 1
  /\ failed \in BOOLEAN /\ up \in BOOLEAN
  /\ restore \in {"none", "database", "out", "in", "swapped", "undo_out", "undo_in"}
  /\ archive \in Brought \union {NoArchive} /\ putBack \subseteq Files
  /\ restores \in 0..MaxRestores /\ stops \in 0..MaxStops

\* An upgrade: what is stored was never cleaned, and startup begins a pass.
CleaningInit ==
  /\ \E k \in Before : live = [f \in Files |-> [photo |-> k[f], temps |-> {}]]
  /\ old = [f \in Files |-> NoDir] /\ deleted = {}
  /\ marker = FALSE /\ refused = {} /\ unlisted = {} /\ generation = 0
  /\ \E p \in Passes : pass = [q \in Passes |-> [Off EXCEPT !.at = IF q = p THEN "queued" ELSE "off"]]
  /\ failed = FALSE
  /\ restore = "none" /\ archive = NoArchive /\ putBack = {} /\ restores = 0
  /\ up = TRUE /\ stops = 0

Serving == up /\ restore = "none"
Stored(f) == live[f].photo \in {"dirty", "clean", "broken"}

-----------------------------------------------------------------------------
\* The steps of a pass (strip_existing, _strip_one).

At(p, s) == up /\ pass[p].at = s
Do(p, r) == pass' = [pass EXCEPT ![p] = r]
Goes(p, s) == Do(p, [pass[p] EXCEPT !.at = s])
NextFile(p, r) == Do(p, [r EXCEPT !.at = "walk", !.file = NoFile])
OnlyPass == UNCHANGED <<files, marking, failed, restoring, process>>

\* _pass_lock, and the generation read under it.
Lock(p) ==
  /\ At(p, "queued") /\ \A q \in Passes : pass[q].at \in {"off", "queued"}
  /\ Do(p, [pass[p] EXCEPT !.at = "locked", !.gen = generation]) /\ OnlyPass

\* os.walk passes over the folders it cannot list, and says nothing of them.
List(p) ==
  /\ At(p, "locked")
  /\ \E unseen \in SUBSET {f \in Files : live[f] # NoDir} :
       Do(p, [pass[p] EXCEPT !.at = "walk", !.todo = {f \in Files \ unseen : Stored(f)},
                             !.stale = {f \in Files \ unseen : live[f].temps # {}},
                             !.skipped = unseen])
  /\ OnlyPass

\* is_dir or is_symlink raises: nothing is rewritten, nor marked.
ListFails(p) == At(p, "locked") /\ Do(p, [pass[p] EXCEPT !.at = "walk", !.fails = TRUE]) /\ OnlyPass

\* What an earlier pass that stopped half way left, once it is old enough.
DropStale(p, f) ==
  /\ At(p, "walk") /\ f \in pass[p].stale
  /\ Do(p, [pass[p] EXCEPT !.stale = @ \ {f}])
  /\ live' = [live EXCEPT ![f].temps = @ \ {"stale"}]
  /\ UNCHANGED <<old, deleted, marking, failed, restoring, process>>

\* A photo deleted since the walk is passed over, one that cannot be decoded listed.
Read(p, f) ==
  /\ At(p, "walk") /\ f \in pass[p].todo
  /\ LET r == [pass[p] EXCEPT !.todo = @ \ {f}] IN
     Do(p, CASE live[f].photo \in {"dirty", "clean"} -> [r EXCEPT !.at = "read", !.file = f]
             [] live[f].photo = "broken" -> [r EXCEPT !.bad = @ \union {f}]
             [] OTHER -> r)
  /\ OnlyPass

\* A read that raises: a PermissionError fails the pass ("readable to nginx,
\* maybe"), any other OSError lists the photo as unreadable, whatever it holds.
ReadFails(p, f) ==
  /\ At(p, "walk") /\ f \in pass[p].todo /\ Stored(f)
  /\ \/ Do(p, [pass[p] EXCEPT !.todo = @ \ {f}, !.fails = TRUE])
     \/ Do(p, [pass[p] EXCEPT !.todo = @ \ {f}, !.bad = @ \union {f}])
  /\ OnlyPass

\* The clean bytes, beside the photo; with its directory gone, this raises.
Write(p) ==
  LET f == pass[p].file IN
  /\ At(p, "read") /\ live[f].photo # "nodir"
  /\ live' = [live EXCEPT ![f].temps = @ \union {"own"}]
  /\ Goes(p, "wrote")
  /\ UNCHANGED <<old, deleted, marking, failed, restoring, process>>

WriteFails(p) ==
  /\ At(p, "read") /\ NextFile(p, [pass[p] EXCEPT !.fails = TRUE]) /\ OnlyPass

\* The temporary file is removed by its name in the live directory; one that
\* a restore has moved away is out of reach, and nobody's from then on.
TempGone(f, photo) ==
  /\ live' = [live EXCEPT ![f] = [photo |-> photo, temps |-> @.temps \ {"own"}]]
  /\ old' = [old EXCEPT ![f].temps = IF "own" \in @ THEN (@ \ {"own"}) \union {"fresh"} ELSE @]
  /\ UNCHANGED <<deleted, marking, failed, restoring, process>>

\* Mutant of Look: the photo is not looked for again.
LookAway(p) == At(p, "wrote") /\ Goes(p, "put") /\ OnlyPass

\* Deleted meanwhile: don't bring it back.
Look(p) ==
  LET f == pass[p].file IN
  /\ At(p, "wrote")
  /\ \/ Stored(f) /\ Goes(p, "put") /\ OnlyPass
     \/ ~Stored(f) /\ NextFile(p, pass[p]) /\ TempGone(f, live[f].photo)

\* os.replace: raises when the temporary file has gone with its directory.
Put(p) ==
  LET f == pass[p].file
      there == "own" \in live[f].temps IN
  /\ At(p, "put")
  /\ NextFile(p, [pass[p] EXCEPT !.fails = @ \/ ~there])
  /\ TempGone(f, IF there THEN "clean" ELSE live[f].photo)

Fails(p, yes) == failed' = IF pass[p].gen = generation THEN yes ELSE failed
Ended(p) == At(p, "walk") /\ pass[p].todo = {} /\ pass[p].stale = {}

Marks(p) == marker' = TRUE /\ refused' = pass[p].bad /\ unlisted' = pass[p].skipped
NotMarked == UNCHANGED <<marker, refused, unlisted>>

\* Mutant of Mark: the generation is not looked at.
MarkUngenerated(p) ==
  /\ Ended(p) /\ Do(p, Off) /\ Fails(p, pass[p].fails)
  /\ IF pass[p].fails THEN NotMarked ELSE Marks(p)
  /\ UNCHANGED <<generation, files, restoring, process>>

\* _write_marker_unless_moved, under the lock remove_marker takes.
Mark(p) ==
  /\ Ended(p) /\ Do(p, Off) /\ Fails(p, pass[p].fails)
  /\ IF pass[p].fails \/ pass[p].gen # generation THEN NotMarked ELSE Marks(p)
  /\ UNCHANGED <<generation, files, restoring, process>>

MarkFails(p) ==
  /\ Ended(p) /\ Do(p, Off) /\ Fails(p, TRUE)
  /\ UNCHANGED <<marking, files, restoring, process>>

\* A leftover temporary file passes STALE_TEMP.
Age(f) ==
  /\ "fresh" \in live[f].temps
  /\ live' = [live EXCEPT ![f].temps = (@ \ {"fresh"}) \union {"stale"}]
  /\ UNCHANGED <<old, deleted, marking, pass, failed, restoring, process>>

-----------------------------------------------------------------------------
\* Requests, which maintenance keeps out of a restore.

\* save_photo writes clean bytes, under a name no file ever had.
Upload(f) ==
  /\ Serving /\ live[f].photo = "nodir" /\ f \notin deleted
  /\ \A p \in Passes : f \notin pass[p].todo \union {pass[p].file} \union pass[p].bad
  /\ f \notin refused
  /\ live' = [live EXCEPT ![f].photo = "clean"]
  /\ UNCHANGED <<old, deleted, marking, pass, failed, restoring, process>>

\* The ghost leaves out a photo whose pass has looked and is about to rename.
Gone(f) == deleted' = IF \E p \in Passes : pass[p].at = "put" /\ pass[p].file = f
                      THEN deleted ELSE deleted \union {f}

DeletePhoto(f) ==
  /\ Serving /\ Stored(f) /\ Gone(f)
  /\ live' = [live EXCEPT ![f].photo = "none"]
  /\ UNCHANGED <<old, marking, pass, failed, restoring, process>>

DeleteItemDir(f) ==
  /\ Serving /\ live[f].photo # "nodir" /\ Gone(f)
  /\ live' = [live EXCEPT ![f] = NoDir]
  /\ UNCHANGED <<old, marking, pass, failed, restoring, process>>

-----------------------------------------------------------------------------
\* A restore that brings photos.

RemoveMarker ==
  /\ marker' = FALSE /\ refused' = {} /\ unlisted' = {}
  /\ generation' = generation + 1 /\ failed' = FALSE
\* Other than by remove_marker, nothing of the marking changes.
KeepMarker == UNCHANGED <<marking, failed>>
\* The second argument says in which passes a new one is queued.
Queue(P, passes) == \E p \in P : passes[p].at = "off" /\ pass' = [passes EXCEPT ![p].at = "queued"]

Begin ==
  /\ Serving /\ restores < MaxRestores
  /\ restore' = "database" /\ restores' = restores + 1
  /\ archive' \in Brought /\ putBack' = {}
  /\ RemoveMarker
  /\ UNCHANGED <<files, pass, process>>

Moves(from, to) ==
  /\ up /\ restore = from /\ restore' = to
  /\ archive' = IF to = "none" THEN NoArchive ELSE archive
  /\ UNCHANGED <<putBack, restores, process>>

DatabaseFails == Moves("database", "none") /\ UNCHANGED <<files, marking, pass, failed>>
DatabaseDone == Moves("database", "out") /\ UNCHANGED <<files, marking, pass, failed>>

NoneLive == \A f \in Files : live[f] = NoDir
NoneOld == \A f \in Files : old[f] = NoDir

\* _Swap.apply: every entry to OLD_DIR, then every entry of NEW_DIR in.
MoveOut(f) ==
  /\ up /\ restore = "out" /\ live[f] # NoDir
  /\ live' = [live EXCEPT ![f] = NoDir] /\ old' = [old EXCEPT ![f] = live[f]]
  /\ UNCHANGED <<deleted, marking, pass, failed, restoring, process>>

MovedOut == NoneLive /\ Moves("out", "in") /\ UNCHANGED <<files, marking, pass, failed>>

ToMoveIn == {f \in Files : archive[f] # "nodir" /\ live[f] = NoDir}

MoveIn(f) ==
  /\ up /\ restore = "in" /\ f \in ToMoveIn
  /\ live' = [live EXCEPT ![f].photo = archive[f]] /\ deleted' = deleted \ {f}
  /\ UNCHANGED <<old, marking, pass, failed, restoring, process>>

Finish ==
  /\ ToMoveIn = {} /\ Moves("in", "swapped")
  /\ old' = [f \in Files |-> NoDir]
  /\ UNCHANGED <<live, deleted, marking, pass, failed>>

CleanAgain ==
  /\ Moves("swapped", "none") /\ RemoveMarker /\ Queue(Passes, pass)
  /\ UNCHANGED files

\* A rename failed: what came from the archive goes, the previous comes back.
SwapFails ==
  /\ \/ Moves("out", "undo_in") \/ Moves("in", "undo_out")
  /\ UNCHANGED <<files, marking, pass, failed>>

UndoOut(f) ==
  /\ up /\ restore = "undo_out" /\ live[f] # NoDir
  /\ live' = [live EXCEPT ![f] = NoDir]
  /\ UNCHANGED <<old, deleted, marking, pass, failed, restoring, process>>

UndoneOut == NoneLive /\ Moves("undo_out", "undo_in") /\ UNCHANGED <<files, marking, pass, failed>>

UndoIn(f) ==
  /\ up /\ restore = "undo_in" /\ old[f] # NoDir
  /\ live' = [live EXCEPT ![f] = old[f]] /\ old' = [old EXCEPT ![f] = NoDir]
  /\ putBack' = putBack \union {f}
  /\ UNCHANGED <<deleted, marking, pass, failed, restore, archive, restores, process>>

Undone == NoneOld /\ Moves("undo_in", "none") /\ UNCHANGED <<files, marking, pass, failed>>

-----------------------------------------------------------------------------
\* A stop, and the start after it: recover, then lifespan.

Stop ==
  /\ up /\ stops < MaxStops
  /\ up' = FALSE /\ stops' = stops + 1
  /\ pass' = [p \in Passes |-> Off] /\ generation' = 0 /\ failed' = FALSE
  /\ LET Leave(d) == [d EXCEPT !.temps = IF "own" \in @ THEN (@ \ {"own"}) \union {"fresh"} ELSE @] IN
     /\ live' = [f \in Files |-> Leave(live[f])] /\ old' = [f \in Files |-> Leave(old[f])]
  /\ UNCHANGED <<deleted, marker, refused, unlisted, restoring>>

\* What recover may leave of a file: before the swap, the database decides;
\* after, the swap is rolled forward (FileSwap has how, and what becomes of
\* a stopped undo: here either of its files).
Recovered(f, swaps) ==
  LET new == [photo |-> archive[f], temps |-> {}]
      previous == IF old[f] # NoDir THEN old[f] ELSE live[f] IN
  IF ~swaps THEN {live[f]}
  ELSE CASE restore = "in" -> {IF f \in ToMoveIn THEN new ELSE live[f]}
         [] restore = "swapped" -> {live[f]}
         [] restore \in {"database", "out"} -> {new}
         [] OTHER -> {new, previous}

Start ==
  /\ ~up /\ up' = TRUE /\ restore' = "none"
  /\ \E swaps \in (CASE restore = "none" -> {FALSE} [] restore = "database" -> BOOLEAN [] OTHER -> {TRUE}) :
       /\ live' \in {l \in [Files -> UNION {Recovered(f, swaps) : f \in Files}] :
                       \A f \in Files : l[f] \in Recovered(f, swaps)}
       /\ deleted' = IF swaps THEN {f \in deleted : live'[f].photo \in {"nodir", "none"}} ELSE deleted
       /\ IF swaps THEN RemoveMarker ELSE KeepMarker
  /\ old' = [f \in Files |-> NoDir]
  /\ IF restore = "none" THEN UNCHANGED putBack ELSE putBack' = {}
  /\ IF marker' THEN UNCHANGED pass ELSE Queue(Passes, pass)
  /\ archive' = NoArchive /\ UNCHANGED <<restores, stops>>

-----------------------------------------------------------------------------
PassStep(p) ==
  \/ Lock(p) \/ List(p) \/ ListFails(p) \/ Write(p) \/ WriteFails(p)
  \/ Look(p) \/ Put(p) \/ Mark(p) \/ MarkFails(p)
  \/ \E f \in Files : DropStale(p, f) \/ Read(p, f) \/ ReadFails(p, f)

RestoreStep ==
  \/ DatabaseFails \/ DatabaseDone \/ MovedOut \/ Finish \/ CleanAgain
  \/ SwapFails \/ UndoneOut \/ Undone
  \/ \E f \in Files : MoveOut(f) \/ MoveIn(f) \/ UndoOut(f) \/ UndoIn(f)

CleaningNext ==
  \/ \E p \in Passes : PassStep(p)
  \/ \E f \in Files : Age(f) \/ Upload(f) \/ DeletePhoto(f) \/ DeleteItemDir(f)
  \/ Begin \/ RestoreStep \/ Stop \/ Start

CleaningSpec ==
  /\ CleaningInit /\ [][CleaningNext]_cleaning
  /\ \A p \in Passes : WF_cleaning(PassStep(p))
  /\ WF_cleaning(RestoreStep) /\ WF_cleaning(Start)

-----------------------------------------------------------------------------
\* While requests are served, the marker means what it says of every stored
\* photo the walk came by: rewritten without metadata, or listed as one that
\* was not, which a link never shows (photos.py 697-707).  A pass that walks
\* while a restore moves photos in behind it must not write it.  Excepted are
\* what an undo put back, and the folders os.walk passed over (README).
Told(f) == live[f].photo \in {"dirty", "broken"} => f \in refused
MarkerMeansClean == Serving /\ marker => \A f \in Files \ (putBack \union unlisted) : Told(f)

\* The same with no exception: the pass "re-encodes every original and every
\* thumbnail", and "a file that can't be rewritten leaves the marker unwritten,
\* so the next start tries again" (docs/backup-restore.md).  Violated: a folder
\* that cannot be listed is passed over unsaid, and the marker is written.
MarkerMeansAllClean == Serving /\ marker => \A f \in Files : Told(f)

\* A photo deleted for good while a pass holds its bytes stays deleted
\* (photos.py 675: "don't bring it back"), through passes and restores that
\* do not bring it themselves.
DeletedStaysDeleted == \A f \in deleted : ~Stored(f)

\* After a restore that brought photos, the marker comes back, unless a file
\* of the new ones could not be rewritten (restore.py 1405-1411).
MarkerReturns == restore = "swapped" ~> marker \/ failed \/ ~up \/ restore = "database"

\* What a pass cut short left beside a photo is removed by the next pass that
\* finds it old, whatever becomes of that photo and of the other files, unless
\* that pass cannot list the folder (photos.py 622-624, 719-721).
StaleIsDropped ==
  \A f \in Files :
    ("stale" \in live[f].temps /\ \E p \in Passes : pass[p].at = "queued")
      ~> \/ "stale" \notin live[f].temps \/ failed \/ ~up \/ restore # "none"
         \/ \E p \in Passes : f \in pass[p].skipped
=============================================================================
