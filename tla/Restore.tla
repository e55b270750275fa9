------------------------------ MODULE Restore -------------------------------
(***************************************************************************)
(* A whole in-app restore (services/restore.py `_run`, `_finish`,          *)
(* `recover`, and the part of main.py `lifespan` that follows it): the     *)
(* database step with its marker row, the migrations, maintenance mode and *)
(* the restart, around the file swap of FileSwap.tla.  Every step is one   *)
(* of FileSwap's together with what it does to the database, or leaves the *)
(* files alone.  recover may only look at what a restarted process can     *)
(* see: the journal and the marker row, never `committed`.                 *)
(***************************************************************************)
EXTENDS FileSwap

CONSTANT AutoMigrate  \* config.auto_migrate (AUTO_MIGRATE): startup migrates

ASSUME RestoreAssumption == AutoMigrate \in BOOLEAN

VARIABLES
  marker,   \* the marker row in the database in place: this run's value, another, none
  dropped,  \* tables newer than the archive were dropped, outside pg_restore's transaction
  named,    \* the journal names them
  behind,   \* the database in place is older than this version's schema
  serving,  \* "off" (starting or stopped), "maintenance" (503), "open"
  stage     \* how far the run is inside the database step

dbVars == <<marker, dropped, named, behind>>
restoreVars == <<fileVars, dbVars, serving, stage>>

Stages == {"none", "refused", "marked", "journalled", "dropping", "loading", "loaded", "cleared", "migrated"}

RestoreTypeOK ==
  /\ FileTypeOK
  /\ marker \in {"none", "this", "other"}
  /\ dropped \in BOOLEAN /\ named \in BOOLEAN /\ behind \in BOOLEAN
  /\ serving \in {"off", "maintenance", "open"}
  /\ stage \in Stages

RestoreInit ==
  /\ FileInit
  /\ marker = "none" /\ dropped = FALSE /\ named = FALSE /\ behind = FALSE
  /\ serving = "open" /\ stage = "none"

At(s) == stage = s
To(s) == stage' = s

-----------------------------------------------------------------------------
\* start took the locks; _run enters maintenance before it checks anything.
StartRun ==
  /\ serving = "open" /\ serving' = "maintenance"
  /\ Begin /\ To("none")
  /\ marker' = IF marker = "this" THEN "other" ELSE marker
  /\ dropped' = FALSE /\ named' = FALSE /\ UNCHANGED behind

RefuseRun ==
  /\ serving = "open" /\ serving' = "maintenance"
  /\ RefuseEarly /\ To("refused")
  /\ UNCHANGED dbVars

\* The marker row is committed before the journal says `database`.
WriteMarker ==
  /\ op = "database" /\ ~committed /\ At("none") /\ To("marked")
  /\ marker' = "this"
  /\ UNCHANGED <<fileVars, dropped, named, behind, serving>>

AskDatabase ==
  /\ At("marked") /\ JournalDatabase /\ To("journalled")
  /\ UNCHANGED <<dbVars, serving>>

\* on_drop: the journal names the leftover tables before they are dropped.
NameDropped ==
  /\ op = "database" /\ At("journalled") /\ To("dropping")
  /\ named' = TRUE
  /\ UNCHANGED <<fileVars, marker, dropped, behind, serving>>

DropTables ==
  /\ op = "database" /\ At("dropping") /\ To("loading")
  /\ dropped' = TRUE
  /\ UNCHANGED <<fileVars, marker, named, behind, serving>>

\* pg_restore's transaction commits: the archive's rows, settings included.
Load ==
  /\ stage \in {"journalled", "loading"} /\ DatabaseCommits /\ To("loaded")
  /\ marker' \in {"none", "other"} /\ behind' \in BOOLEAN
  /\ UNCHANGED <<dropped, named, serving>>

\* Only a nonzero exit of pg_restore says that tables are gone already; any
\* other exception after they were dropped is called "Nothing was changed".
LoadFails ==
  /\ DatabaseFails
  /\ outcome' = "partial" => dropped
  /\ To(IF At("none") THEN "none" ELSE "marked")
  /\ UNCHANGED <<dbVars, serving>>

\* The failure handler, after the unpacked files: only logged when it fails.
RemoveMarker ==
  /\ op = "discard" /\ todo = {} /\ At("marked") /\ To("none")
  /\ marker' \in {"none", marker}
  /\ UNCHANGED <<fileVars, dropped, named, behind, serving>>

JournalSwap == JournalSwapping /\ UNCHANGED <<dbVars, serving, stage>>

LaterFailure == AfterDatabaseFails /\ To("none") /\ UNCHANGED <<dbVars, serving>>

\* _after_database: an exception is logged, and the run goes on.
ClearMarker ==
  /\ op = "restored" /\ At("loaded") /\ To("cleared")
  /\ marker' \in {"none", marker}
  /\ UNCHANGED <<fileVars, dropped, named, behind, serving>>

\* A failed migration is kept for the end: the files are swapped first.
Migrate ==
  /\ op = "restored" /\ At("cleared") /\ To("migrated")
  /\ behind' \in {behind, FALSE}
  /\ UNCHANGED <<fileVars, marker, dropped, named, serving>>

Swap == At("migrated") /\ StartSwap /\ UNCHANGED <<dbVars, serving, stage>>

\* The file loops of the run and of recover.
Files ==
  /\ LoopStep \/ PrepareFails
  /\ op = "discard" /\ todo = {} => ~At("marked")
  /\ op = "finish" /\ todo = {} => outcome' = IF behind THEN "failed" ELSE "ok"
  /\ UNCHANGED <<dbVars, serving, stage>>

Tidy == (Settle \/ SettleFails \/ Record) /\ UNCHANGED <<dbVars, serving, stage>>

\* maintenance.leave() comes after the outcome is on disk.
Leave ==
  /\ op = "idle" /\ serving = "maintenance" /\ serving' = "open" /\ To("none")
  /\ UNCHANGED <<fileVars, dbVars>>

-----------------------------------------------------------------------------
\* A stop between the marker row's removal and the journal's: by the failure
\* handler, or by recover.
MarkerWindow == journal = "database" /\ ~committed /\ marker # "this" /\ op # "database"

Stop ==
  /\ Crash
  /\ MarkerWindow => "marker" \in UnsafeCrashes
  /\ serving' = "off" /\ To("none")
  /\ UNCHANGED dbVars

\* A restart with nothing to recover, and one while recover could not decide.
Reboot ==
  /\ \/ op = "idle" /\ journal = "none" /\ serving # "off"
     \/ op = "down" /\ serving = "maintenance"
  /\ Restarted
  /\ serving' = "off" /\ To("none")
  /\ UNCHANGED dbVars

Recovering == op = "down" /\ serving = "off"

RecoverClean == Recovering /\ RestartClean /\ UNCHANGED <<dbVars, serving, stage>>

RecoverPreparing ==
  /\ Recovering /\ journal = "preparing"
  /\ DropUnpacked("nothing_changed")
  /\ UNCHANGED <<dbVars, serving, stage>>

\* This restore's marker is still there: the transaction never committed.
DecideDrop ==
  /\ Recovering /\ journal = "database" /\ marker = "this"
  /\ marker' = "none"
  /\ DropUnpacked(IF named THEN "partial" ELSE "nothing_changed")
  /\ UNCHANGED <<dropped, named, behind, serving, stage>>

\* No row, or another value: the archive's database is in place.
DecideForward ==
  /\ Recovering /\ journal = "database" /\ marker # "this"
  /\ marker' = "none"
  /\ RollForward
  /\ UNCHANGED <<dropped, named, behind, serving, stage>>

RecoverSwapping ==
  /\ Recovering /\ journal = "swapping"
  /\ RollForward
  /\ UNCHANGED <<dbVars, serving, stage>>

\* The database cannot be asked, or the sharing snapshot cannot be kept: the
\* journal stays, and startup goes on (it may migrate) behind 503.
StayClosed ==
  /\ Recovering
  /\ \/ journal \in {"database", "swapping"} /\ UNCHANGED marker
     \/ journal = "database" /\ marker # "this" /\ marker' = "none"
  /\ behind' \in {behind, behind /\ ~AutoMigrate}
  /\ serving' = "maintenance"
  /\ UNCHANGED <<fileVars, dropped, named, stage>>

Resolved == (Resolve \/ Close) /\ UNCHANGED <<dbVars, serving, stage>>

\* lifespan: the schema is brought up before anything is served, unless
\* AUTO_MIGRATE is off and that is the operator's to do.
Boot ==
  /\ op = "idle" /\ serving = "off" /\ serving' = "open"
  /\ behind' = (behind /\ ~AutoMigrate)
  /\ UNCHANGED <<fileVars, marker, dropped, named, stage>>

-----------------------------------------------------------------------------
RestoreProgress ==
  \/ WriteMarker \/ AskDatabase \/ NameDropped \/ DropTables \/ Load \/ LoadFails \/ RemoveMarker
  \/ JournalSwap \/ LaterFailure \/ ClearMarker \/ Migrate \/ Swap
  \/ Files \/ Tidy \/ Leave
  \/ RecoverClean \/ RecoverPreparing \/ DecideDrop \/ DecideForward \/ RecoverSwapping
  \/ StayClosed \/ Resolved \/ Boot

RestoreNext == StartRun \/ RefuseRun \/ RestoreProgress \/ Stop \/ Reboot

RestoreSpec == RestoreInit /\ [][RestoreNext]_restoreVars

\* The restore thread and startup run on; nothing forces a new run or a stop.
FairRestoreSpec == RestoreSpec /\ WF_restoreVars(RestoreProgress)

-----------------------------------------------------------------------------
(* Properties.                                                             *)

\* recover's question has the right answer: whenever a restarted process
\* finds the journal at `database`, this restore's marker is in the database
\* exactly when pg_restore's transaction did not commit.
MarkerTells ==
  op = "down" /\ journal = "database" => (marker = "this" <=> ~committed)

\* What a run or recover reports is what happened to the database: "nothing
\* was changed" and "partial" are of a database that was not replaced, which
\* every other outcome is of.  recover only says that nothing was changed when
\* not even a leftover table is gone, and "partial" names the tables; that the
\* run itself may say so with tables gone is NothingIsGone, which fails.
OutcomeIsTrue ==
  stage # "refused" =>
    /\ Recording("nothing_changed") => ~committed /\ (op \in {"resolve", "close"} => ~dropped)
    /\ Recording("partial") => ~committed /\ named
    /\ (\E what \in {"ok", "failed", "put_back", "stuck"} : Recording(what)) => committed

\* "It is the one change made outside pg_restore's transaction, so a failure
\* after it says so (PartialDatabase)": a run that says nothing was changed
\* dropped no table.  The code says so of one failure only, pg_restore's exit.
NothingIsGone == stage # "refused" /\ Recording("nothing_changed") => ~dropped

\* "Record the outcome, reopen the API, ... so whoever sees that state can read
\* the rest": when the API answers, what it shows of the last attempt is not
\* an older attempt's outcome.  It is when the write failed and was only logged.
OutcomeIsShown == serving = "open" => report.what # "lost"

\* Whenever the API answers, the files go with the database: an unreplaced
\* database has its own files (or OLD_DIR says to look), and a replaced one
\* has the archive's unless the last outcome is not ok (the run's, or that of
\* an attempt refused after it), or was lost.
ServedWhole ==
  serving = "open" =>
    IF committed
      THEN \/ \A v \in InArchive : IsArchived(live[v], v)
           \/ report.what \notin {"none", "ok"}
      ELSE \A v \in Volumes : Unreplaced(v)

\* Where startup migrates, a database older than the code is never served
\* after a restore that was reported ok ("Restart the backend to try the
\* migration again").
BehindIsReported ==
  AutoMigrate /\ serving = "open" /\ behind /\ committed => report.what \notin {"none", "ok"}

\* Maintenance and startup end, in an open API or in a backend that waits for
\* a restart because it cannot tell what happened.
Reopens ==
  serving # "open" ~> (serving = "open" \/ (serving = "maintenance" /\ op = "down"))

\* Every step is one of the file swap's: what recover decides from the
\* journal and the marker row is what FileSwap allows knowing `committed`.
SwapsFiles == FileSpec

\* The refinement of the abstract restore: what whoever uses Cabinet sees.
Seen ==
  IF committed
    THEN IF \A v \in InArchive : IsArchived(live[v], v) THEN "archive" ELSE "mixed"
    ELSE IF \A v \in Volumes : IsPrevious(live[v], v) THEN "before" ELSE "mixed"

C == INSTANCE RestoreContract
       WITH collection <- Seen, open <- (serving = "open"), said <- report.what

\* A restore, with its stops and restarts, keeps the promise of RestoreContract.
Contract == C!Spec
=============================================================================
