------------------------------ MODULE FileSwap ------------------------------
(***************************************************************************)
(* The file side of an in-app restore (services/restore.py): the archive's *)
(* photos and documents are unpacked beside the live files of each volume, *)
(* swapped in by renames once the database is the archive's, and the       *)
(* previous files are dropped once every rename held.  The program may     *)
(* stop between any two file system calls; `recover` reads the journal at  *)
(* the next start and drops what was unpacked, or rolls the swap forward.  *)
(*                                                                         *)
(* An entry of a volume is a name and what it holds: the file that was     *)
(* there before the restore, or the archive's.  One behaviour follows one  *)
(* set of previous files, through failed attempts, up to the first restore *)
(* that replaces them.                                                     *)
(***************************************************************************)
EXTENDS Naturals, FiniteSets

CONSTANTS
  Names,          \* names an entry of a volume can have
  Targets,        \* number of volumes: _file_targets() lists them in order
  InArchive,      \* the volumes the archive carries a member for
  Previous,       \* Previous[v]: the names live in volume v beforehand
  Archived,       \* Archived[v]: the names the archive holds for v
  UnsafeCrashes,  \* windows of the known defects that are explored too
  MaxCrashes, MaxFailures, MaxRuns

Volumes == 1 .. Targets

\* The windows in which a stop, or for "return" an exception, has a wrong
\* result (README, findings):
\*   "sweep"  between finish()'s rename of OLD_DIR and its removal of NEW_DIR
\*   "undo"   from a failed swap until the journal is removed
\*   "marker" between the marker row's removal and the journal's (Restore.tla)
\*   "return" between pg_restore's commit and the end of restore_database
CrashWindows == {"sweep", "undo", "marker", "return"}

ASSUME FileSwapAssumption ==
  /\ Targets \in Nat
  /\ InArchive \subseteq Volumes
  /\ Previous \in [Volumes -> SUBSET Names]
  /\ Archived \in [Volumes -> SUBSET Names]
  /\ UnsafeCrashes \subseteq CrashWindows
  /\ MaxCrashes \in Nat /\ MaxFailures \in Nat /\ MaxRuns \in Nat

VARIABLES
  live, new, old,  \* what each name holds: live in the volume, in NEW_DIR, in OLD_DIR
  newDir, oldDir,  \* whether NEW_DIR and OLD_DIR exist
  movedOut,        \* whether the MOVED_OUT marker is in OLD_DIR
  journal,         \* the phase in restore_journal.json, or "none"
  report,          \* what last_outcome() says of the latest attempt, and whether
                   \* restore_last.json exists (of this attempt or an older one)
  committed,       \* whether the run the journal is of replaced the database
  op, step, todo,  \* what the process is doing, and the volumes left to do
  swaps,           \* the volumes wholly unpacked by this run (`swaps`)
  outcome,         \* what this run will report
  crashes, failures, runs

files  == <<live, new, old>>
dirs   == <<newDir, oldDir, movedOut>>
disk   == <<files, dirs, journal, report, committed>>
memory == <<op, step, todo, swaps, outcome>>
bounds == <<crashes, failures, runs>>
fileVars == <<disk, memory, bounds>>

Ops == {"idle", "clear", "unpack", "discard", "database", "restored", "apply",
        "undo", "finish", "settle", "record", "down", "drop", "forward", "resolve", "close"}
Steps == {"none", "look", "mkdir", "out", "in", "keep", "sweep", "back", "return", "rmdir"}
Outcomes == {"none", "ok", "nothing_changed", "partial", "failed", "put_back", "stuck"}

\* A directory that holds exactly the names in S, all from one side.
Holds(dir, S, what) == \A n \in Names : dir[n] = IF n \in S THEN what ELSE "none"
IsEmpty(dir) == \A n \in Names : dir[n] = "none"
IsPrevious(dir, v) == Holds(dir, Previous[v], "previous")
IsArchived(dir, v) == Holds(dir, Archived[v], "archived")
Empty == [n \in Names |-> "none"]

FileTypeOK ==
  /\ live \in [Volumes -> [Names -> {"none", "previous", "archived"}]]
  /\ new  \in [Volumes -> [Names -> {"none", "previous", "archived"}]]
  /\ old  \in [Volumes -> [Names -> {"none", "previous", "archived"}]]
  /\ newDir \in [Volumes -> BOOLEAN]
  /\ oldDir \in [Volumes -> BOOLEAN]
  /\ movedOut \in [Volumes -> BOOLEAN]
  /\ journal \in {"none", "preparing", "database", "swapping"}
  /\ report \in [what : Outcomes \union {"lost"}, kept : BOOLEAN]
  /\ committed \in BOOLEAN
  /\ op \in Ops /\ step \in Steps
  /\ todo \subseteq Volumes
  /\ swaps \subseteq InArchive
  /\ outcome \in Outcomes
  /\ crashes \in 0 .. MaxCrashes
  /\ failures \in 0 .. MaxFailures
  /\ runs \in 0 .. MaxRuns

FileInit ==
  /\ live = [v \in Volumes |->
               [n \in Names |-> IF n \in Previous[v] THEN "previous" ELSE "none"]]
  /\ new = [v \in Volumes |-> Empty]
  /\ old = [v \in Volumes |-> Empty]
  /\ newDir = [v \in Volumes |-> FALSE]
  /\ oldDir = [v \in Volumes |-> FALSE]
  /\ movedOut = [v \in Volumes |-> FALSE]
  /\ journal = "none" /\ committed = FALSE
  /\ report \in [what : {"none"}, kept : BOOLEAN]
  /\ op = "idle" /\ step = "none" /\ todo = {} /\ swaps = {} /\ outcome = "none"
  /\ crashes = 0 /\ failures = 0 /\ runs = 0

-----------------------------------------------------------------------------
\* Sequencing: a loop over volumes in the order _file_targets() gives them.
Turn(v) == v \in todo /\ \A w \in todo : v <= w

FirstStep(o) ==
  CASE o \in {"undo", "forward"} -> "look"
    [] o \in {"unpack", "apply"}   -> "mkdir"
    [] o = "finish"                -> "keep"
    [] o \in {"discard", "drop"}   -> "sweep"
    [] OTHER                       -> "none"

Go(o, S) == op' = o /\ step' = FirstStep(o) /\ todo' = S
AtStep(s) == step' = s /\ UNCHANGED <<op, todo>>
NextVolume(v) == todo' = todo \ {v} /\ step' = FirstStep(op) /\ UNCHANGED op

PreviousKept(v) == \A n \in Previous[v] : live[v][n] = "previous" \/ old[v][n] = "previous"
LeftInOld(v) == oldDir[v] /\ (movedOut[v] \/ ~IsEmpty(old[v]))
Unreplaced(v) == IsPrevious(live[v], v) \/ LeftInOld(v)

\* A rename inside the volume; whatever had the name in `to` is overwritten.
Move(v, n, from, to) ==
  /\ from[v][n] # "none"
  /\ from' = [from EXCEPT ![v][n] = "none"]
  /\ to' = [to EXCEPT ![v][n] = from[v][n]]

\* _record: the outcome is in memory, and goes to restore_last.json.  When that
\* write fails it is only logged, and last_outcome() shows the older word that
\* is in the file ("lost"), or where there is no file the one in memory.
Say(what) ==
  \/ report' = [what |-> what, kept |-> TRUE] /\ UNCHANGED failures
  \/ /\ failures < MaxFailures /\ failures' = failures + 1
     /\ report' = [report EXCEPT !.what = IF report.kept THEN "lost" ELSE what]

\* A stop: what was only in memory is gone, and with no journal left nobody
\* will say what became of an attempt that had not recorded it.
AfterStop ==
  IF \/ report.what # "none" /\ ~report.kept
     \/ report.what = "none" /\ journal = "none" /\ op # "idle"
  THEN "lost" ELSE report.what

NewAttempt == report' = [report EXCEPT !.what = "none"]

-----------------------------------------------------------------------------
\* A run begins: the journal says `preparing` before anything is unpacked.
Begin ==
  /\ op = "idle"
  /\ runs < MaxRuns /\ runs' = runs + 1
  /\ \A v \in Volumes : Unreplaced(v)
  /\ committed' = FALSE
  /\ journal' = "preparing"
  /\ swaps' = {} /\ outcome' = "none"
  /\ Go("clear", Volumes) /\ NewAttempt
  /\ UNCHANGED <<files, dirs, crashes, failures>>

\* The archive, its age or the volumes are refused: no journal was written.
RefuseEarly ==
  /\ op = "idle"
  /\ failures < MaxFailures /\ failures' = failures + 1
  /\ \A v \in Volumes : Unreplaced(v)
  /\ swaps' = {} /\ outcome' = "nothing_changed"
  /\ Go("settle", {}) /\ NewAttempt
  /\ UNCHANGED <<files, dirs, journal, committed, crashes, runs>>

\* The run's own failure up to the database step: what it unpacked is removed.
GiveUp(what) ==
  /\ outcome' = what
  /\ Go("discard", swaps)
  /\ UNCHANGED <<swaps, journal, report, committed>>

\* The safety backup, or reading what to put back, fails.
PrepareFails ==
  /\ op = "clear"
  /\ failures < MaxFailures /\ failures' = failures + 1
  /\ GiveUp("nothing_changed")
  /\ UNCHANGED <<files, dirs, crashes, runs>>

\* _clear_workdirs refuses while OLD_DIR may hold the only copy of a file.
ClearRefused(v) ==
  /\ op = "clear" /\ Turn(v) /\ LeftInOld(v)
  /\ GiveUp("nothing_changed")
  /\ UNCHANGED <<files, dirs, bounds>>

\* Mutant of Clear: OLD_DIR is cleared without a look at what it holds.
ClearBlindly(v) ==
  /\ op = "clear" /\ Turn(v)
  /\ new' = [new EXCEPT ![v] = Empty] /\ old' = [old EXCEPT ![v] = Empty]
  /\ newDir' = [newDir EXCEPT ![v] = FALSE] /\ oldDir' = [oldDir EXCEPT ![v] = FALSE]
  /\ movedOut' = [movedOut EXCEPT ![v] = FALSE]
  /\ NextVolume(v)
  /\ UNCHANGED <<live, journal, report, committed, swaps, outcome, bounds>>

Clear(v) ==
  /\ op = "clear" /\ Turn(v) /\ ~LeftInOld(v)
  /\ new' = [new EXCEPT ![v] = Empty]
  /\ old' = [old EXCEPT ![v] = Empty]
  /\ newDir' = [newDir EXCEPT ![v] = FALSE]
  /\ oldDir' = [oldDir EXCEPT ![v] = FALSE]
  /\ movedOut' = [movedOut EXCEPT ![v] = FALSE]
  /\ NextVolume(v)
  /\ UNCHANGED <<live, journal, report, committed, swaps, outcome, bounds>>

ClearDone ==
  /\ op = "clear" /\ todo = {}
  /\ Go("unpack", InArchive)
  /\ UNCHANGED <<disk, swaps, outcome, bounds>>

\* _extract: NEW_DIR, then the member's entries one at a time.
ExtractDir(v) ==
  /\ op = "unpack" /\ Turn(v) /\ step = "mkdir"
  /\ newDir' = [newDir EXCEPT ![v] = TRUE]
  /\ AtStep("in")
  /\ UNCHANGED <<files, oldDir, movedOut, journal, report, committed, swaps, outcome, bounds>>

Extract(v, n) ==
  /\ op = "unpack" /\ Turn(v) /\ step = "in"
  /\ n \in Archived[v] /\ new[v][n] = "none"
  /\ new' = [new EXCEPT ![v][n] = "archived"]
  /\ UNCHANGED <<live, old, dirs, journal, report, committed, memory, bounds>>

Extracted(v) ==
  /\ op = "unpack" /\ Turn(v) /\ step = "in"
  /\ IsArchived(new[v], v)
  /\ swaps' = swaps \union {v}
  /\ NextVolume(v)
  /\ UNCHANGED <<disk, outcome, bounds>>

\* A bad member, or no room: raised with the volume being unpacked not in `swaps`.
UnpackFails(v) ==
  /\ op = "unpack" /\ Turn(v)
  /\ failures < MaxFailures /\ failures' = failures + 1
  /\ GiveUp("nothing_changed")
  /\ UNCHANGED <<files, dirs, crashes, runs>>

UnpackDone ==
  /\ op = "unpack" /\ todo = {}
  /\ Go("database", {})
  /\ UNCHANGED <<disk, swaps, outcome, bounds>>

-----------------------------------------------------------------------------
\* The database step, seen from the files: pg_restore's one transaction.
JournalDatabase ==
  /\ op = "database" /\ ~committed
  /\ journal' = "database"
  /\ UNCHANGED <<files, dirs, report, committed, memory, bounds>>

\* "partial": tables newer than the archive are gone, the rest is as it was.
\* An exception once pg_restore committed ends the run here too.
DatabaseFails ==
  /\ op = "database"
  /\ committed => "return" \in UnsafeCrashes /\ journal = "database"
  /\ \E what \in {"nothing_changed", "partial"} : GiveUp(what)
  /\ UNCHANGED <<files, dirs, bounds>>

DatabaseCommits ==
  /\ op = "database" /\ ~committed /\ journal = "database"
  /\ committed' = TRUE
  /\ UNCHANGED <<files, dirs, journal, report, memory, bounds>>

JournalSwapping ==
  /\ op = "database" /\ committed
  /\ journal' = "swapping"
  /\ Go("restored", {})
  /\ UNCHANGED <<files, dirs, report, committed, swaps, outcome, bounds>>

\* Raised after the database step and before the swap: nothing is put back.
AfterDatabaseFails ==
  /\ op \in {"database", "restored"} /\ committed
  /\ failures < MaxFailures /\ failures' = failures + 1
  /\ outcome' = "failed"
  /\ Go("settle", {})
  /\ UNCHANGED <<disk, swaps, crashes, runs>>

StartSwap ==
  /\ op = "restored"
  /\ Go("apply", swaps)
  /\ UNCHANGED <<disk, swaps, outcome, bounds>>

-----------------------------------------------------------------------------
\* _Swap.apply, in a run and when recover rolls forward.
Applying == op \in {"apply", "forward"}

MakeOld(v) ==
  /\ Applying /\ Turn(v) /\ step = "mkdir"
  /\ oldDir' = [oldDir EXCEPT ![v] = TRUE]
  /\ AtStep(IF movedOut[v] THEN "in" ELSE "out")
  /\ UNCHANGED <<files, newDir, movedOut, journal, report, committed, swaps, outcome, bounds>>

MoveOut(v, n) ==
  /\ Applying /\ Turn(v) /\ step = "out"
  /\ Move(v, n, live, old)
  /\ UNCHANGED <<new, dirs, journal, report, committed, memory, bounds>>

TouchMovedOut(v) ==
  /\ Applying /\ Turn(v) /\ step = "out"
  /\ IsEmpty(live[v])
  /\ movedOut' = [movedOut EXCEPT ![v] = TRUE]
  /\ AtStep("in")
  /\ UNCHANGED <<files, newDir, oldDir, journal, report, committed, swaps, outcome, bounds>>

MoveIn(v, n) ==
  /\ Applying /\ Turn(v) /\ step = "in"
  /\ Move(v, n, new, live)
  /\ UNCHANGED <<old, dirs, journal, report, committed, memory, bounds>>

\* In a run the next volume is applied; rolling forward, this one is finished.
Applied(v) ==
  /\ Applying /\ Turn(v) /\ step = "in"
  /\ IsEmpty(new[v])
  /\ IF op = "apply" THEN NextVolume(v) ELSE AtStep("keep")
  /\ UNCHANGED <<disk, swaps, outcome, bounds>>

ApplyDone ==
  /\ op = "apply" /\ todo = {}
  /\ Go("finish", swaps)
  /\ UNCHANGED <<disk, swaps, outcome, bounds>>

\* A rename raises: every volume of the run is put back.
ApplyFails(v) ==
  /\ op = "apply" /\ Turn(v)
  /\ failures < MaxFailures /\ failures' = failures + 1
  /\ outcome' = "put_back"
  /\ Go("undo", swaps)
  /\ UNCHANGED <<disk, swaps, crashes, runs>>

-----------------------------------------------------------------------------
\* _Swap.finish: OLD_DIR is renamed away (what it held is gone from then on),
\* and NEW_DIR is removed.
DropOld(v) ==
  /\ op \in {"finish", "forward"} /\ Turn(v) /\ step = "keep"
  /\ old' = [old EXCEPT ![v] = Empty]
  /\ oldDir' = [oldDir EXCEPT ![v] = FALSE]
  /\ movedOut' = [movedOut EXCEPT ![v] = FALSE]
  /\ AtStep("sweep")
  /\ UNCHANGED <<live, new, newDir, journal, report, committed, swaps, outcome, bounds>>

FinishFails(v) ==
  /\ op = "finish" /\ Turn(v) /\ step = "keep" /\ oldDir[v]
  /\ failures < MaxFailures /\ failures' = failures + 1
  /\ outcome' = "failed"
  /\ Go("settle", {})
  /\ UNCHANGED <<disk, swaps, crashes, runs>>

\* rmtree of NEW_DIR: in finish, in undo, and when unpacked files are dropped.
Sweep(v, n) ==
  /\ Turn(v) /\ step = "sweep" /\ new[v][n] # "none"
  /\ new' = [new EXCEPT ![v][n] = "none"]
  /\ UNCHANGED <<live, old, dirs, journal, report, committed, memory, bounds>>

Swept(v) ==
  /\ Turn(v) /\ step = "sweep" /\ IsEmpty(new[v])
  /\ newDir' = [newDir EXCEPT ![v] = FALSE]
  /\ NextVolume(v)
  /\ UNCHANGED <<files, oldDir, movedOut, journal, report, committed, swaps, outcome, bounds>>

\* "failed" here: the files are in place, and migrating the database failed.
FinishDone ==
  /\ op = "finish" /\ todo = {}
  /\ outcome' \in {"ok", "failed"}
  /\ Go("settle", {})
  /\ UNCHANGED <<disk, swaps, bounds>>

-----------------------------------------------------------------------------
\* Mutant of UndoLook: the MOVED_OUT marker is not looked at.
UndoLookUnmarked(v) ==
  /\ op = "undo" /\ Turn(v) /\ step = "look"
  /\ IF oldDir[v] THEN AtStep("return") ELSE NextVolume(v)
  /\ UNCHANGED <<disk, swaps, outcome, bounds>>

\* _Swap.undo.
UndoLook(v) ==
  /\ op = "undo" /\ Turn(v) /\ step = "look"
  /\ \/ ~oldDir[v] /\ NextVolume(v) /\ UNCHANGED newDir
     \/ oldDir[v] /\ ~movedOut[v] /\ AtStep("return") /\ UNCHANGED newDir
     \/ /\ oldDir[v] /\ movedOut[v] /\ AtStep("back")
        /\ newDir' = [newDir EXCEPT ![v] = TRUE]
  /\ UNCHANGED <<files, oldDir, movedOut, journal, report, committed, swaps, outcome, bounds>>

MoveBack(v, n) ==
  /\ op = "undo" /\ Turn(v) /\ step = "back"
  /\ Move(v, n, live, new)
  /\ UNCHANGED <<old, dirs, journal, report, committed, memory, bounds>>

UnlinkMovedOut(v) ==
  /\ op = "undo" /\ Turn(v) /\ step = "back"
  /\ IsEmpty(live[v])
  /\ movedOut' = [movedOut EXCEPT ![v] = FALSE]
  /\ AtStep("return")
  /\ UNCHANGED <<files, newDir, oldDir, journal, report, committed, swaps, outcome, bounds>>

Return(v, n) ==
  /\ op = "undo" /\ Turn(v) /\ step = "return"
  /\ Move(v, n, old, live)
  /\ UNCHANGED <<new, dirs, journal, report, committed, memory, bounds>>

RemoveOld(v) ==
  /\ op = "undo" /\ Turn(v) /\ step = "return"
  /\ IsEmpty(old[v])
  /\ oldDir' = [oldDir EXCEPT ![v] = FALSE]
  /\ AtStep("sweep")
  /\ UNCHANGED <<files, newDir, movedOut, journal, report, committed, swaps, outcome, bounds>>

\* An OSError putting one volume back is logged, and the next volume is tried.
UndoFails(v) ==
  /\ op = "undo" /\ Turn(v) /\ step \in {"back", "return"}
  /\ failures < MaxFailures /\ failures' = failures + 1
  /\ NextVolume(v)
  /\ UNCHANGED <<disk, swaps, outcome, crashes, runs>>

UndoDone ==
  /\ op = "undo" /\ todo = {}
  /\ Go("settle", {})
  /\ UNCHANGED <<disk, swaps, outcome, bounds>>

-----------------------------------------------------------------------------
\* A failed run's cleanup is over; _finish removes the journal, then the
\* outcome is recorded.
DiscardDone ==
  /\ op = "discard" /\ todo = {}
  /\ Go("settle", {})
  /\ UNCHANGED <<disk, swaps, outcome, bounds>>

Settle ==
  /\ op = "settle"
  /\ journal' = "none"
  /\ Go("record", {})
  /\ UNCHANGED <<files, dirs, report, committed, swaps, outcome, bounds>>

\* Tidying up raised before the journal was removed: logged, and it stays.
SettleFails ==
  /\ op = "settle"
  /\ failures < MaxFailures /\ failures' = failures + 1
  /\ Go("record", {})
  /\ UNCHANGED <<disk, swaps, outcome, crashes, runs>>

Record ==
  /\ op = "record"
  /\ Say(outcome)
  /\ Go("idle", {})
  /\ UNCHANGED <<files, dirs, journal, committed, swaps, outcome, crashes, runs>>

-----------------------------------------------------------------------------
\* The process stops: memory is lost, the volumes and the journal are not.
Window ==
  CASE step = "sweep" /\ op \in {"finish", "forward"}   -> "sweep"
    [] journal = "swapping" /\ outcome \in {"put_back", "nothing_changed"} -> "undo"
    [] OTHER                                            -> "safe"

Crash ==
  /\ op # "down" /\ (op = "idle" => journal # "none")
  /\ Window \in UnsafeCrashes \union {"safe"}
  /\ crashes < MaxCrashes /\ crashes' = crashes + 1
  /\ swaps' = {} /\ outcome' = "none"
  /\ report' = [report EXCEPT !.what = AfterStop]
  /\ Go("down", {})
  /\ UNCHANGED <<files, dirs, journal, committed, failures, runs>>

\* A stop while no restore is under way, or before recover did anything.
Restarted ==
  /\ op \in {"idle", "down"}
  /\ report' = [report EXCEPT !.what = AfterStop]
  /\ UNCHANGED <<files, dirs, journal, committed, memory, bounds>>

\* recover: what the journal and the marker row say is done to the files.
RestartClean ==
  /\ op = "down" /\ journal = "none"
  /\ Go("idle", {})
  /\ UNCHANGED <<disk, swaps, outcome, bounds>>

\* _drop_unpacked, and _roll_forward below.
DropUnpacked(what) ==
  /\ outcome' = what
  /\ Go("drop", Volumes)
  /\ UNCHANGED <<disk, swaps, bounds>>

\* Mutant of RollForward: what was unpacked is dropped, and called restored.
RollForwardDropping ==
  /\ outcome' = "ok"
  /\ Go("drop", Volumes)
  /\ UNCHANGED <<disk, swaps, bounds>>

RollForward ==
  /\ outcome' = "ok"
  /\ Go("forward", Volumes)
  /\ UNCHANGED <<disk, swaps, bounds>>

RestartDrop ==
  /\ op = "down"
  /\ \/ journal = "preparing" /\ DropUnpacked("nothing_changed")
     \/ /\ journal = "database" /\ ~committed
        /\ \E what \in {"nothing_changed", "partial"} : DropUnpacked(what)

RestartForward ==
  /\ op = "down" /\ (journal = "swapping" \/ (journal = "database" /\ committed))
  /\ RollForward

\* _roll_forward: a volume with a NEW_DIR is applied, then each is finished.
ForwardLook(v) ==
  /\ op = "forward" /\ Turn(v) /\ step = "look"
  /\ AtStep(IF newDir[v] THEN "mkdir" ELSE "keep")
  /\ UNCHANGED <<disk, swaps, outcome, bounds>>

\* An OSError while rolling forward ends the attempt, and the journal goes.
ForwardFails(v) ==
  /\ op = "forward" /\ Turn(v)
  /\ step \in {"mkdir", "out", "in"} \/ (step = "keep" /\ oldDir[v])
  /\ failures < MaxFailures /\ failures' = failures + 1
  /\ outcome' = "stuck"
  /\ Go("resolve", {})
  /\ UNCHANGED <<disk, swaps, crashes, runs>>

\* Mutant of RecoverDone: a swap rolled forward is never concluded.
RecoverDoneDropOnly ==
  /\ op = "drop" /\ todo = {}
  /\ Go("resolve", {})
  /\ UNCHANGED <<disk, swaps, outcome, bounds>>

RecoverDone ==
  /\ op \in {"drop", "forward"} /\ todo = {}
  /\ Go("resolve", {})
  /\ UNCHANGED <<disk, swaps, outcome, bounds>>

\* recover records the outcome first, then removes the journal.
Resolve ==
  /\ op = "resolve"
  /\ Say(outcome)
  /\ Go("close", {})
  /\ UNCHANGED <<files, dirs, journal, committed, swaps, outcome, crashes, runs>>

Close ==
  /\ op = "close"
  /\ journal' = "none"
  /\ Go("idle", {})
  /\ UNCHANGED <<files, dirs, report, committed, swaps, outcome, bounds>>

-----------------------------------------------------------------------------
Failing(v) == UnpackFails(v) \/ ApplyFails(v) \/ FinishFails(v) \/ UndoFails(v) \/ ForwardFails(v)

VolumeStep(v) ==
  \/ ClearRefused(v) \/ Clear(v) \/ ExtractDir(v) \/ Extracted(v)
  \/ MakeOld(v) \/ TouchMovedOut(v) \/ Applied(v) \/ DropOld(v) \/ Swept(v)
  \/ UndoLook(v) \/ UnlinkMovedOut(v) \/ RemoveOld(v) \/ ForwardLook(v)
  \/ Failing(v)

EntryStep(v, n) ==
  \/ Extract(v, n) \/ MoveOut(v, n) \/ MoveIn(v, n) \/ Sweep(v, n)
  \/ MoveBack(v, n) \/ Return(v, n)

LoopStep ==
  \/ \E v \in Volumes : VolumeStep(v) \/ \E n \in Names : EntryStep(v, n)
  \/ ClearDone \/ UnpackDone \/ ApplyDone \/ FinishDone \/ UndoDone \/ DiscardDone
  \/ RecoverDone

\* What the process does of itself, once a run began or a restart happened.
Progress ==
  \/ LoopStep \/ PrepareFails
  \/ JournalDatabase \/ DatabaseFails \/ DatabaseCommits \/ JournalSwapping \/ AfterDatabaseFails \/ StartSwap
  \/ Settle \/ SettleFails \/ Record \/ RestartClean \/ RestartDrop \/ RestartForward \/ Resolve \/ Close

FileNext == Begin \/ RefuseEarly \/ Progress \/ Crash \/ Restarted

FileSpec == FileInit /\ [][FileNext]_fileVars

\* The thread runs on, and a stopped container is started again.
FairFileSpec == FileSpec /\ WF_fileVars(Progress)

-----------------------------------------------------------------------------
(* Properties.                                                             *)

\* An outcome that is final for this run, and about to be written.
Recording(what) == op \in {"settle", "record", "resolve", "close"} /\ outcome = what

\* At every instant, whatever stopped or failed, each volume either still has
\* every previous file (live or in OLD_DIR) or holds all of the archive's:
\* what the order unpack, swap, finish of _Swap is for.
KeptUntilReplaced ==
  \A v \in Volumes : PreviousKept(v) \/ (v \in InArchive /\ IsArchived(live[v], v))

\* A restore is only reported ok, by the run or by recover after a restart,
\* when every volume the archive carries is the archive's, wholly and only,
\* and the other volumes are untouched.
OkMeansArchiveInPlace ==
  Recording("ok") =>
    \A v \in Volumes :
      IF v \in InArchive THEN IsArchived(live[v], v) ELSE IsPrevious(live[v], v)

\* A restore reported as having changed nothing, or as having put the files
\* back, left each volume as it was, or left OLD_DIR in a state that makes
\* the next restore refuse until a person has looked.
UndoneMeansPrevious ==
  (\E what \in {"nothing_changed", "partial", "put_back"} : Recording(what)) =>
    \A v \in Volumes : Unreplaced(v)

\* A restore that replaced the database is accounted for: once the process is
\* idle again its outcome is shown, or was lost to a failed write or a stop;
\* never left unsaid by a run or a recovery that came to its end.
ReplacementRecorded == op = "idle" /\ committed => report.what # "none"

\* No rename overwrites a file: a name is never moved onto one that is there.
NothingOverwritten ==
  [][\A v \in Volumes, n \in Names :
       /\ live'[v][n] # live[v][n] => "none" \in {live[v][n], live'[v][n]}
       /\ old'[v][n] # old[v][n] => "none" \in {old[v][n], old'[v][n]}]_files

\* Every run, and every restart after a stop, comes to an end.
RunsSettle == op # "idle" ~> op = "idle"

-----------------------------------------------------------------------------
(* The inductive invariant: the shapes a volume can have.                  *)

\* Each previous file is live or in OLD_DIR, in one of them, and nothing else is.
Kept(v) ==
  \A n \in Names :
    IF n \in Previous[v]
      THEN \/ live[v][n] = "previous" /\ old[v][n] = "none"
           \/ live[v][n] = "none" /\ old[v][n] = "previous"
      ELSE live[v][n] = "none" /\ old[v][n] = "none"

\* Everything previous is in OLD_DIR; what is live came from the archive.
Moved(v) ==
  /\ oldDir[v] /\ IsPrevious(old[v], v)
  /\ \A n \in Names :
       \/ live[v][n] = "none"
       \/ live[v][n] = "archived" /\ n \in Archived[v] /\ new[v][n] = "none"

Replaced(v) == IsArchived(live[v], v) /\ IsEmpty(old[v]) /\ IsEmpty(new[v]) /\ ~oldDir[v]

Untouched(v) ==
  /\ IsPrevious(live[v], v) /\ IsEmpty(old[v]) /\ IsEmpty(new[v])
  /\ ~newDir[v] /\ ~oldDir[v] /\ ~movedOut[v]

VolumeShape(v) ==
  /\ IF movedOut[v] THEN Moved(v)
     ELSE (Kept(v) /\ (~IsEmpty(old[v]) => oldDir[v])) \/ Replaced(v)
  /\ \A n \in Names : new[v][n] = "none" \/ (new[v][n] = "archived" /\ n \in Archived[v])
  /\ ~IsEmpty(new[v]) => newDir[v]
  /\ v \notin InArchive => Untouched(v)

Shape == \A v \in Volumes : VolumeShape(v)

\* A volume the swap can still be finished on, by the run or after a restart.
Sweeping(v) == op \in {"finish", "forward"} /\ step = "sweep" /\ Turn(v)
AllThere(v) == \A n \in Archived[v] : new[v][n] = "archived" \/ live[v][n] = "archived"
Ready(v) ==
  \/ newDir[v] /\ ~movedOut[v] /\ Kept(v) /\ IsArchived(new[v], v)
  \/ newDir[v] /\ movedOut[v] /\ AllThere(v)
  \/ Replaced(v) /\ (newDir[v] => Sweeping(v)) /\ ~movedOut[v]

\* Whoever goes on from here goes on to finish the swap.
Armed ==
  \/ op \in {"database", "restored", "apply", "finish", "forward"}
  \/ journal = "swapping" /\ outcome \notin {"put_back", "nothing_changed"}
  \/ journal = "database" /\ committed

ReadyToFinish == Armed => \A v \in InArchive : Ready(v)

NothingDone ==
  \/ journal = "preparing" \/ (journal = "database" /\ ~committed)
  \/ \E what \in {"nothing_changed", "partial", "put_back"} : Recording(what)
NotReplaced == NothingDone => \A v \in Volumes : Unreplaced(v)

JournalTells ==
  /\ journal = "preparing" => ~committed
  /\ journal = "swapping" => committed
  /\ op \in {"clear", "unpack"} => journal = "preparing"
  /\ op = "database" => journal = "database" \/ (journal = "preparing" /\ ~committed)
  /\ op = "discard" => ~committed /\ journal \in {"preparing", "database"}
  /\ op \in {"restored", "apply", "undo", "finish"} => journal = "swapping"
  /\ op = "forward" => journal = "swapping" \/ (journal = "database" /\ committed)
  /\ op = "drop" => journal = "preparing" \/ (journal = "database" /\ ~committed)
  /\ op \in {"clear", "unpack", "database", "restored", "apply", "finish", "down"} => outcome = "none"
  /\ op \in {"discard", "drop"} => outcome \in {"nothing_changed", "partial"}
  /\ op = "undo" => outcome = "put_back"
  /\ op = "forward" => outcome = "ok"
  /\ outcome = "partial" => ~committed \/ journal # "swapping"

Between ==
  /\ op \in {"idle", "clear", "database", "restored", "settle", "record", "down", "resolve", "close"}
       => step = "none" /\ (op = "clear" \/ todo = {})
  /\ op \in {"database", "restored", "apply", "undo", "finish"} => swaps = InArchive
  /\ op \in {"discard", "drop"} => step = "sweep"
  /\ op = "clear" => swaps = {} /\ \A v \in Volumes \ todo : Untouched(v)
  /\ op \in {"database", "restored"} => \A v \in InArchive : newDir[v]

Unpacking ==
  op = "unpack" =>
    /\ step \in {"mkdir", "in"} /\ swaps \union todo = InArchive
    /\ \A v \in Volumes : IsPrevious(live[v], v) /\ IsEmpty(old[v]) /\ ~oldDir[v] /\ ~movedOut[v]
    /\ \A v \in swaps : newDir[v] /\ IsArchived(new[v], v)
    /\ \A v \in Volumes : step = "in" /\ Turn(v) => newDir[v]

Emptied(v) == movedOut[v] /\ newDir[v] /\ IsEmpty(new[v])

ApplyingTurn ==
  op \in {"apply", "forward"} =>
    \A v \in Volumes : Turn(v) =>
      /\ step = "out" => oldDir[v] /\ ~movedOut[v]
      /\ step = "in" => movedOut[v]
      /\ step \in {"mkdir", "out", "in"} => newDir[v]

ApplyLoop ==
  op = "apply" =>
    /\ todo \subseteq InArchive /\ step \in {"mkdir", "out", "in"}
    /\ \A v \in InArchive \ todo : Emptied(v)
    /\ \A v \in InArchive : newDir[v]

FinishLoop ==
  op = "finish" =>
    /\ todo \subseteq InArchive /\ step \in {"keep", "sweep"}
    /\ \A v \in InArchive \ todo : Replaced(v) /\ ~newDir[v]
    /\ \A v \in todo : IF Sweeping(v) THEN Replaced(v) ELSE Emptied(v)

ForwardLoop ==
  op = "forward" =>
    /\ step \in {"look", "mkdir", "out", "in", "keep", "sweep"}
    /\ \A v \in InArchive \ todo : Replaced(v) /\ ~newDir[v]
    /\ \A v \in InArchive : Turn(v) =>
         /\ step = "keep" => IsArchived(live[v], v) /\ IsEmpty(new[v])
         /\ step = "sweep" => Replaced(v)

UndoLoop ==
  op = "undo" =>
    /\ todo \subseteq InArchive /\ step \in {"look", "back", "return", "sweep"}
    /\ \A v \in Volumes : movedOut[v] \/ Kept(v)
    /\ \A v \in Volumes \ todo : Unreplaced(v)
    /\ \A v \in Volumes : Turn(v) =>
         /\ step = "back" => movedOut[v] /\ newDir[v]
         /\ step = "return" => oldDir[v] /\ ~movedOut[v]
         /\ step = "sweep" => IsPrevious(live[v], v) /\ IsEmpty(old[v]) /\ ~oldDir[v] /\ ~movedOut[v]

OkDone == Recording("ok") => \A v \in InArchive : Replaced(v) /\ ~newDir[v]

Recorded ==
  /\ committed /\ (op = "idle" \/ (journal = "none" /\ op \notin {"settle", "record"}))
       => report.what # "none"
  /\ op = "close" => report.what # "none"
  /\ op \in {"settle", "record", "resolve"} => outcome # "none"

SwapInv ==
  /\ FileTypeOK /\ Shape /\ ReadyToFinish /\ NotReplaced /\ JournalTells
  /\ Between /\ Unpacking /\ ApplyingTurn /\ ApplyLoop /\ FinishLoop /\ ForwardLoop /\ UndoLoop
  /\ OkDone /\ Recorded
=============================================================================
