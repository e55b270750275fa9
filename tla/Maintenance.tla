---------------------------- MODULE Maintenance -----------------------------
(***************************************************************************)
(* Who may work while a restore runs (services/maintenance.py, and its     *)
(* callers: restore.start and _run, the API middleware, the two scheduled  *)
(* loops, and backup.run_backup).  Requests are handled on the event loop  *)
(* and in worker threads, the loops and the restore in threads of their    *)
(* own; each step below is one the others can come between.                *)
(***************************************************************************)
EXTENDS Naturals, FiniteSets

CONSTANTS
  Requests,   \* API requests, other than those under /api/restore
  Ticks,      \* the scheduled loops: the hourly tick, the 12-hourly refresh
  Sessions    \* sessions that ask to run a restore

ASSUME MaintenanceAssumption ==
  /\ IsFiniteSet(Requests) /\ IsFiniteSet(Ticks) /\ IsFiniteSet(Sessions)
  /\ Requests \cap Ticks = {} /\ Requests \cap Sessions = {} /\ Ticks \cap Sessions = {}
  /\ "free" \notin Requests \union Ticks \union Sessions

VARIABLES
  on,            \* _on: maintenance is entered
  inFlight,      \* _in_flight: the counted requests
  scheduled,     \* _scheduled: who holds it, or "free"
  restoreLock,   \* restore._lock: the session whose run holds it, or "free"
  runLock,       \* backup._run_lock: who holds it, or "free"
  grant,         \* the session the restore grant is of, or "free"
  request, tick, starter,  \* what each request, loop and starting session is at
  run,           \* where the restore thread is
  drained,       \* drain() returned True
  late           \* whose turn began during maintenance: a tick's, or a counted request's

vars == <<on, inFlight, scheduled, restoreLock, runLock, grant,
          request, tick, starter, run, drained, late>>
locks == <<scheduled, restoreLock, runLock>>
threads == <<request, tick, starter, run>>
Actors == Requests \union Ticks \union Sessions

MaintenanceTypeOK ==
  /\ on \in BOOLEAN /\ drained \in BOOLEAN
  /\ inFlight \in 0 .. Cardinality(Requests)
  /\ scheduled \in Ticks \union {"free"}
  /\ restoreLock \in Sessions \union {"free"}
  /\ runLock \in Actors \union {"free"}
  /\ grant \in Sessions \union {"free"}
  /\ request \in [Requests -> {"away", "passed", "inside", "backup"}]
  /\ tick \in [Ticks -> {"away", "looked", "held", "work", "backup"}]
  /\ starter \in [Sessions -> {"away", "passed", "inspect", "locked", "alone", "clear", "granted", "failed"}]
  /\ run \in {"none", "spawned", "drain", "work", "left", "ended"}
  /\ late \in [Requests \union Ticks -> BOOLEAN]

Init ==
  /\ on = FALSE /\ inFlight = 0 /\ drained = FALSE
  /\ scheduled = "free" /\ restoreLock = "free" /\ runLock = "free" /\ grant = "free"
  /\ request = [r \in Requests |-> "away"]
  /\ tick = [t \in Ticks |-> "away"]
  /\ starter = [s \in Sessions |-> "away"]
  /\ run = "none"
  /\ late = [a \in Requests \union Ticks |-> FALSE]

-----------------------------------------------------------------------------
\* MaintenanceMiddleware: a request that sees active() gets its 503 at once.
Moves(who, r, from, to) == who[r] = from /\ who' = [who EXCEPT ![r] = to]

Arrive(r) ==
  /\ ~on
  /\ Moves(request, r, "away", "passed")
  /\ UNCHANGED <<on, inFlight, locks, grant, tick, starter, run, drained, late>>

\* It is counted without a second look: maintenance may have begun meanwhile.
Count(r) ==
  /\ Moves(request, r, "passed", "inside")
  /\ inFlight' = inFlight + 1
  /\ late' = [late EXCEPT ![r] = on]
  /\ UNCHANGED <<on, locks, grant, tick, starter, run, drained>>

\* Mutant of BackUp: the lock is taken over, not waited for.
BackUpAnyway(r) ==
  /\ Moves(request, r, "inside", "backup")
  /\ runLock' = r
  /\ UNCHANGED <<on, inFlight, scheduled, restoreLock, grant, tick, starter, run, drained, late>>

\* run_backup: busy (409) unless _run_lock is free; released in its `finally`.
BackUp(r) ==
  /\ Moves(request, r, "inside", "backup")
  /\ runLock = "free" /\ runLock' = r
  /\ UNCHANGED <<on, inFlight, scheduled, restoreLock, grant, tick, starter, run, drained, late>>

BackedUp(r) ==
  /\ Moves(request, r, "backup", "inside")
  /\ runLock' = "free"
  /\ UNCHANGED <<on, inFlight, scheduled, restoreLock, grant, tick, starter, run, drained, late>>

\* The setting is read between acquire and `try`: what it raises is answered,
\* and the lock is not released.
BackUpRaises(r) ==
  /\ request[r] = "inside"
  /\ runLock = "free" /\ runLock' = r
  /\ UNCHANGED <<on, inFlight, scheduled, restoreLock, grant, threads, drained, late>>

Answered(r) ==
  /\ Moves(request, r, "inside", "away")
  /\ inFlight' = inFlight - 1
  /\ late' = [late EXCEPT ![r] = FALSE]
  /\ UNCHANGED <<on, locks, grant, tick, starter, run, drained>>

-----------------------------------------------------------------------------
\* scheduled_task: `active() or not acquire`, then `yield not active()`.
Look(t) ==
  /\ ~on
  /\ Moves(tick, t, "away", "looked")
  /\ UNCHANGED <<on, inFlight, locks, grant, request, starter, run, drained, late>>

Hold(t) ==
  /\ Moves(tick, t, "looked", "held")
  /\ scheduled = "free" /\ scheduled' = t
  /\ late' = [late EXCEPT ![t] = on]
  /\ UNCHANGED <<on, inFlight, restoreLock, runLock, grant, request, starter, run, drained>>

Taken(t) ==
  /\ Moves(tick, t, "looked", "away")
  /\ scheduled # "free"
  /\ UNCHANGED <<on, inFlight, locks, grant, request, starter, run, drained, late>>

\* Mutant of Work: scheduled_task yields without a second look.
WorkRegardless(t) ==
  /\ Moves(tick, t, "held", "work")
  /\ UNCHANGED <<on, inFlight, locks, grant, request, starter, run, drained, late>>

Work(t) ==
  /\ ~on
  /\ Moves(tick, t, "held", "work")
  /\ UNCHANGED <<on, inFlight, locks, grant, request, starter, run, drained, late>>

SitOut(t) ==
  /\ on
  /\ Moves(tick, t, "held", "away")
  /\ scheduled' = "free"
  /\ late' = [late EXCEPT ![t] = FALSE]
  /\ UNCHANGED <<on, inFlight, restoreLock, runLock, grant, request, starter, run, drained>>

TickBackUp(t) ==
  /\ Moves(tick, t, "work", "backup")
  /\ runLock = "free" /\ runLock' = t
  /\ UNCHANGED <<on, inFlight, scheduled, restoreLock, grant, request, starter, run, drained, late>>

TickBackedUp(t) ==
  /\ Moves(tick, t, "backup", "work")
  /\ runLock' = "free"
  /\ UNCHANGED <<on, inFlight, scheduled, restoreLock, grant, request, starter, run, drained, late>>

TickBackUpRaises(t) ==
  /\ tick[t] = "work"
  /\ runLock = "free" /\ runLock' = t
  /\ UNCHANGED <<on, inFlight, scheduled, restoreLock, grant, threads, drained, late>>

TickDone(t) ==
  /\ Moves(tick, t, "work", "away")
  /\ scheduled' = "free"
  /\ late' = [late EXCEPT ![t] = FALSE]
  /\ UNCHANGED <<on, inFlight, restoreLock, runLock, grant, request, starter, run, drained>>

-----------------------------------------------------------------------------
\* restore.start, in the request of a session; /api/restore is not counted.
Ask(s) ==
  /\ ~on
  /\ Moves(starter, s, "away", "passed")
  /\ UNCHANGED <<on, inFlight, locks, grant, request, tick, run, drained, late>>

LockRestore(s) ==
  /\ Moves(starter, s, "passed", "locked")
  /\ restoreLock = "free" /\ restoreLock' = s
  /\ UNCHANGED <<on, inFlight, scheduled, runLock, grant, request, tick, run, drained, late>>

\* restore.inspect takes the same lock while it unpacks and reads an archive.
Inspect(s) ==
  /\ Moves(starter, s, "passed", "inspect")
  /\ restoreLock = "free" /\ restoreLock' = s
  /\ UNCHANGED <<on, inFlight, scheduled, runLock, grant, request, tick, run, drained, late>>

Inspected(s) ==
  /\ Moves(starter, s, "inspect", "away")
  /\ restoreLock' = "free"
  /\ UNCHANGED <<on, inFlight, scheduled, runLock, grant, request, tick, run, drained, late>>

AlreadyRunning(s) ==
  /\ Moves(starter, s, "passed", "away")
  /\ restoreLock # "free"
  /\ UNCHANGED <<on, inFlight, locks, grant, request, tick, run, drained, late>>

LockBackups(s) ==
  /\ Moves(starter, s, "locked", "alone")
  /\ runLock = "free" /\ runLock' = s
  /\ UNCHANGED <<on, inFlight, scheduled, restoreLock, grant, request, tick, run, drained, late>>

BackupRunning(s) ==
  /\ Moves(starter, s, "locked", "away")
  /\ runLock # "free"
  /\ restoreLock' = "free"
  /\ UNCHANGED <<on, inFlight, scheduled, runLock, grant, request, tick, run, drained, late>>

NothingScheduled(s) ==
  /\ Moves(starter, s, "alone", "clear")
  /\ scheduled = "free"
  /\ UNCHANGED <<on, inFlight, locks, grant, request, tick, run, drained, late>>

ScheduledBusy(s) ==
  /\ Moves(starter, s, "alone", "away")
  /\ scheduled # "free"
  /\ runLock' = "free" /\ restoreLock' = "free"
  /\ UNCHANGED <<on, inFlight, scheduled, grant, request, tick, run, drained, late>>

Issue(s) ==
  /\ Moves(starter, s, "clear", "granted")
  /\ grant' = s
  /\ UNCHANGED <<on, inFlight, locks, request, tick, run, drained, late>>

Spawn(s) ==
  /\ Moves(starter, s, "granted", "away")
  /\ run' = "spawned" /\ drained' = FALSE
  /\ UNCHANGED <<on, inFlight, locks, grant, request, tick, late>>

\* The thread did not start: the grant goes, then both locks.
SpawnFails(s) ==
  /\ Moves(starter, s, "granted", "failed")
  /\ grant' = "free"
  /\ UNCHANGED <<on, inFlight, locks, request, tick, run, drained, late>>

Unlock(s) ==
  /\ Moves(starter, s, "failed", "away")
  /\ runLock' = "free" /\ restoreLock' = "free"
  /\ UNCHANGED <<on, inFlight, scheduled, grant, request, tick, run, drained, late>>

-----------------------------------------------------------------------------
\* The restore thread: enter, drain (or its wait runs out), work, leave, release.
RunTo(from, to) == run = from /\ run' = to

Enter ==
  /\ RunTo("spawned", "drain") /\ on' = TRUE
  /\ UNCHANGED <<inFlight, locks, grant, request, tick, starter, drained, late>>

Drain ==
  /\ RunTo("drain", "work")
  /\ \/ inFlight = 0 /\ drained' = TRUE
     \/ inFlight # 0 /\ drained' = FALSE
  /\ UNCHANGED <<on, inFlight, locks, grant, request, tick, starter, late>>

Leave ==
  /\ RunTo("work", "left") /\ on' = FALSE
  /\ UNCHANGED <<inFlight, locks, grant, request, tick, starter, drained, late>>

ReleaseBackups ==
  /\ RunTo("left", "ended") /\ runLock' = "free"
  /\ UNCHANGED <<on, inFlight, scheduled, restoreLock, grant, request, tick, starter, drained, late>>

\* Mutant of ReleaseRestore: only a run that had drained gives the lock back.
ReleaseDrained ==
  /\ RunTo("ended", "none") /\ drained /\ restoreLock' = "free"
  /\ UNCHANGED <<on, inFlight, scheduled, runLock, grant, request, tick, starter, drained, late>>

ReleaseRestore ==
  /\ RunTo("ended", "none") /\ restoreLock' = "free"
  /\ UNCHANGED <<on, inFlight, scheduled, runLock, grant, request, tick, starter, drained, late>>

-----------------------------------------------------------------------------
RequestWork(r) == Count(r) \/ BackedUp(r) \/ Answered(r)
TickWork(t) == Hold(t) \/ Taken(t) \/ Work(t) \/ SitOut(t) \/ TickBackedUp(t) \/ TickDone(t)
StarterWork(s) ==
  \/ LockRestore(s) \/ AlreadyRunning(s) \/ Inspected(s) \/ LockBackups(s) \/ BackupRunning(s)
  \/ NothingScheduled(s) \/ ScheduledBusy(s) \/ Issue(s) \/ Spawn(s) \/ SpawnFails(s) \/ Unlock(s)
RunWork == Enter \/ Drain \/ Leave \/ ReleaseBackups \/ ReleaseRestore

Next ==
  \/ \E r \in Requests : Arrive(r) \/ BackUp(r) \/ BackUpRaises(r) \/ RequestWork(r)
  \/ \E t \in Ticks : Look(t) \/ TickBackUp(t) \/ TickBackUpRaises(t) \/ TickWork(t)
  \/ \E s \in Sessions : Ask(s) \/ Inspect(s) \/ StarterWork(s)
  \/ RunWork

Spec == Init /\ [][Next]_vars

\* Threads run on; nothing makes a request, a tick or a restore begin.
FairSpec ==
  /\ Spec
  /\ WF_vars(RunWork)
  /\ \A s \in Sessions : WF_vars(StarterWork(s))

-----------------------------------------------------------------------------
(* Properties.                                                             *)

\* "Held to the end, so no backup starts while the restore runs": from the
\* moment start holds the lock until the run is over, no request and no tick
\* is inside run_backup.
NoBackupBeside ==
  run \notin {"none", "ended"} \/ (\E s \in Sessions : starter[s] \in {"alone", "clear", "granted"}) =>
    /\ \A r \in Requests : request[r] # "backup"
    /\ \A t \in Ticks : tick[t] # "backup"

\* One restore at a time, and its thread's locks are its session's: an error
\* path, or the end of another attempt, never releases or takes them.
RunHoldsLocks ==
  /\ run \notin {"none", "ended"} => restoreLock # "free" /\ runLock = restoreLock
  /\ run # "none" => \A s \in Sessions : starter[s] \in {"away", "passed"}

\* "A refused second run never touches the first run's grant."
GrantOfRun == run # "none" => grant = restoreLock

\* docs/backup-restore.md:53: "A failed run is retried within the hour", which
\* it can only be if the run that failed gave run_backup's lock back.
FailedBackupReleases ==
  /\ runLock \in Requests => request[runLock] = "backup"
  /\ runLock \in Ticks => tick[runLock] = "backup"

\* Nothing is left locked: a lock that is held has a living holder (except
\* run_backup's after BackUpRaises, see FailedBackupReleases).
LocksAreHeld ==
  /\ runLock \in Sessions =>
       starter[runLock] \notin {"away", "passed", "inspect", "locked"} \/ run \notin {"none", "ended"}
  /\ restoreLock # "free" => run # "none" \/ starter[restoreLock] \notin {"away", "passed"}
  /\ scheduled # "free" => tick[scheduled] \in {"held", "work", "backup"}
  /\ on => run \in {"drain", "work"}

\* The second look in scheduled_task: a loop whose turn began after the
\* restore entered maintenance does no work beside it.
NoLateTick == \A t \in Ticks : on /\ tick[t] \in {"work", "backup"} => ~late[t]

\* A drained restore works beside no request that was counted before it
\* entered maintenance: drain() is "True once none are left".  One that saw
\* maintenance off and is counted since may be at work.
DrainedMeansNone ==
  run = "work" /\ drained => \A r \in Requests : request[r] \in {"inside", "backup"} => late[r]

\* maintenance.py:1-2: while a restore replaces the database and the files,
\* "the scheduled loops sit out".
LoopsSitOut == run = "work" => \A t \in Ticks : tick[t] \notin {"work", "backup"}

\* Every restore that was asked for gives its locks back, and the API reopens.
RestoreEnds == restoreLock # "free" ~> restoreLock = "free"

-----------------------------------------------------------------------------
(* The inductive invariant: who holds each lock, and since when.           *)

Locking == {"inspect", "locked", "alone", "clear", "granted", "failed"}  \* start or inspect has _lock
Alone == {"alone", "clear", "granted", "failed"}                         \* start has _run_lock too
Holding == {"held", "work", "backup"}                                    \* a loop has _scheduled
Counted == {r \in Requests : request[r] \in {"inside", "backup"}}

RestoreLockOwned ==
  /\ \A s \in Sessions : starter[s] \in Locking => restoreLock = s /\ run = "none"
  /\ run # "none" => restoreLock # "free"
  /\ restoreLock # "free" => run # "none" \/ starter[restoreLock] \in Locking

RunLockOwned ==
  /\ \A s \in Sessions : starter[s] \in Alone => runLock = s
  /\ run \notin {"none", "ended"} => runLock = restoreLock
  /\ runLock \in Sessions => starter[runLock] \in Alone \/ run \notin {"none", "ended"}
  /\ \A r \in Requests : request[r] = "backup" => runLock = r
  /\ \A t \in Ticks : tick[t] = "backup" => runLock = t

GrantOwned ==
  /\ \A s \in Sessions : starter[s] = "granted" => grant = s
  /\ run # "none" => grant = restoreLock

ScheduledOwned == \A t \in Ticks : tick[t] \in Holding <=> scheduled = t

\* A loop that began beside a restore keeps the next one from starting.
LateOnes ==
  /\ \A t \in Ticks : tick[t] \in Holding /\ late[t] =>
       run # "spawned" /\ \A s \in Sessions : starter[s] \notin {"clear", "granted"}
  /\ \A t \in Ticks : tick[t] \in {"work", "backup"} /\ late[t] => ~on

\* Each lock is owned by who took it, in start, in the restore thread, in
\* run_backup or in scheduled_task; the count is of the requests inside; and
\* no restore starts while a loop that began beside one has its turn.
LockInv ==
  /\ MaintenanceTypeOK
  /\ RestoreLockOwned /\ RunLockOwned /\ GrantOwned /\ ScheduledOwned
  /\ on <=> run \in {"drain", "work"}
  /\ inFlight = Cardinality(Counted)
  /\ LateOnes /\ DrainedMeansNone
=============================================================================
