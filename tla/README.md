# Verification of Cabinet

TLA+ models of the parts of Cabinet (a self-hosted catalogue of a coin
collection: a FastAPI backend, a PostgreSQL database, two volumes of photos and
documents) whose correctness depends on the order of steps, on what fails, on
what was read before it was used, and on where the process stops. Each module
is checked by TLC on a small instance. What the passing runs check of safety is
also proved with TLAPS for every value of the constants. Where the code does not
do what its documentation says, a run of its own shows that (section 5).

Paths are relative to the repository; `restore.py`, `share.py`, … without a
directory are in `backend/app/services/`. PROJECT.json maps each definition to
the lines it models.

## 1. The system

One backend process serves the API: an event loop with a middleware stack, a
pool of worker threads for the (synchronous) handlers, two scheduled loops (an
hourly tick, a 12-hourly refresh of prices), and a thread per restore. State is
kept in PostgreSQL (two schemas, the collection's and the sign-in data's), in
files on two volumes and a state directory, and in module-level variables of
the process. The process may stop at any moment and is started again by the
container runtime. Commands (`cli.py`) run beside it in processes of their own.

| part | state | operations | hard because | modelled by |
|---|---|---|---|---|
| **restore: file swap** (`_Swap`, `_clear_workdirs`, `_extract`, `_roll_forward`) | the live directory, `NEW_DIR`, `OLD_DIR` and `MOVED_OUT` of each volume; the journal; `restore_last.json` | clear, unpack, move out, move in, finish, undo, roll forward, drop | a stop or an `OSError` between any two renames; recover has only the disk to go by | `FileSwap` |
| **restore: the run** (`_run`, `_finish`, `recover`, `lifespan`) | the marker row, dropped tables, the schema's age, maintenance | marker, journal, drop, load, migrate, report, restart | two stores (database, journal) written in turn say together what happened | `Restore`, `RestoreContract` |
| **restore: asking for one** (`stage`, `inspect`, `start`, `_Archive`) | staged uploads, the staging folder, the pending phrase and code, the record of archives | upload, inspect, discard, start, open again, prune, delete | what was inspected can be replaced, deleted or outlived before it is used; a phrase depends on the archive's age | `Archives` |
| **restore: share links** (`_sharing_snapshot`, `_put_back_sharing`, `apply_pending_sharing`) and the switch (`share.py`) | `share_links`, `share_enabled`, `share._enabled` and its generation, `pending_sharing.json`, the journal's snapshot | snapshot, put back, switch off, load, PUT, revoke | the archive brings links and a switch of its own; reads and writes of the switch interleave | `Sharing` |
| **maintenance mode** (`maintenance.py`), `restore.start`, `run_backup`'s lock | `_on`, `_in_flight`, `_scheduled`, `restore._lock`, `backup._run_lock`, the grant | arrive, count, answer; look, hold, work; lock, issue, spawn; enter, drain, leave | five kinds of threads, three locks, look-then-act without a lock | `Maintenance` |
| **trash, documents** (`trash.py`, `routers/documents.py`) | item, photo, document and link rows; files and photo directories | delete, restore, purge, upload, link, unlink, delete a document | rows are transactional, files are not; links are counted, then acted on | `Trash` |
| **photos: rows and files** (`routers/photos.py`) | photo rows, image files, the primary flag, positions | upload, edit, replace, delete | counted, then inserted; files written and deleted around a commit | `Photos` |
| **photos: metadata** (`photos.py`) | the files, the marker `photos_clean`, its generation, `_pass_lock` | list, rewrite, mark; remove the marker; walk one file | a walk of a volume that requests and a restore's renames change under it; an allowlist in which what may come depends on what came | `Cleaning`, `Walks` |
| **backups** (`backup.py`) | archives, partial files, `_run_lock`, the last run and failure | run, due?, prune, delete | written in steps under a lock; a schedule that reads outcomes; retention beside a restore | `Backups` |
| **backup key** (`archive_keys.py`) | the key file and its partial | create, rotate | two processes, one fixed partial name | `KeyFile` |
| **stored secrets** (`crypto.py`, `app_settings.py`) | encrypted settings, the key file, the key in memory, `secrets_cleared` | first use, PUT, restore, clear on the hour | look, then write, with no lock; a list read and written whole | `Secrets` |
| **throttles, known devices** (`auth/throttle.py`, `auth/devices.py`) | failure counts per name and address in a bounded table; device rows | attempt, count, forgive, reserve, reset | a burst of attempts in parallel; a full table | `Throttle` |
| **accounts, sessions, tokens** (`auth/accounts.py`, …) | the admin, the setup code, sessions with their recent-password window, API tokens | claim, sign in and out, confirm, change password, end sessions | a password check takes time, and what was read before it is used after | `Accounts` |
| **single sign-on** (`auth/oidc.py`, `auth/config.py`, `routers/sso.py`) | providers, identities, flows, used states, the header mode | start, callback, link, confirm, unlink, repoint, remove | redirects come twice or late; a provider changes while one is under way | `Sso`, `Providers` |
| **audit log** (`auth/audit.py`) | rows, capped per kind | record, trim | trimmed in the writer's transaction, which may be rolled back | `Records` |
| **alerts** (`alerts.py`) | one JSON row of conditions | fail, recover, forget | read, changed and written whole by several threads | `Alerts` |
| **estimates** (`pricing.py`, `routers/estimates.py`) | estimates of a piece | type in, compute on save, refresh, delete | dated by the beginning of a transaction; a refresh commits in the middle | `Prices` |
| **making an estimate** (`numista.py`, `pcgs.py`, `comps.py`) | what an adapter read of the piece | choose an issue, ask, fall back | several requests of seconds each, while the piece is edited | `Quotes` |
| **reports on estimates** (`pricing_reports.py`) | none | stale, sources, accuracy | the choice of the shown value is made a second time | `Reports` |
| **caches** (`cached_fetch`, spot prices, rates, discovery) | one entry per key | look, ask, keep, fall back to stale | requests of one key overlap | `Caches` |
| **items, the stack** (`routers/items.py`, `schemas.py`, `stack.py`) | item rows and what is derived from them | create, update, bulk, duplicate, look up spot prices | derived from the row as it was read | `Items` |
| **importing** (`importing.py`, `import_formats.py`) | staged files, keys of origin | stage, preview, run | compared with what was there; one commit per row; repeated | `Imports` |
| **share links: making and reading** (`share.py`, `routers/share*.py`) | links, re-encoding slots | make, change, revoke; list, item, checklist, photo | a read is several queries while the owner edits | `Shares` |
| **dashboard** (`dashboard.py`) | the layout | GET, PUT, reset | validated strictly when saved, leniently when read by another release | `Layouts` |
| gate (`auth/gate.py`), scheduled work, settings, checklists, command line | – | – | – | guards and actions of the modules above (PROJECT.json) |
| statistics, insights, monitoring; frontend, proxy, scripts | none the backend relies on | – | – | not modelled |

**How they interact.** `restore.start` takes `restore._lock` and
`backup._run_lock`, looks at `scheduled_busy()`, issues the restore grant and
spawns the thread. The thread enters maintenance (the middleware then answers
503, the loops sit out), drains the requests in flight, runs the safety backup,
snapshots the share links, swaps database and files, puts the links back,
leaves maintenance and releases both locks. On a restart `recover` reads the
journal and the marker row before anything is served; `apply_pending_sharing`
and the migrations follow. The hourly tick purges the trash, tries pending
share links and unreadable secrets again, reloads the switch and backs up when
it is due; the other loop refreshes estimates and reports to the alerts.

**What makes each part correct.**
*File swap*: no previous file is lost before it is replaced; an outcome says
what the files are; every run and restart settles. *The run*: nothing half
replaced is served as a success; the API reopens. *Archives*: what is restored
is what was asked for, and the collection does not stay decrypted. *Sharing*:
no link of the archive ever opens, a revoked one stays revoked, no link is
lost. *Maintenance*: locks are given back; nothing works beside a restore that
should not. *Trash, documents, photos*: rows and files agree when all is quiet.
*Metadata*: nothing is called clean that is not. *Backups and the key*: every
archive opens with the key that is there; a backup that is due is tried.
*Sign-in*: tries are bounded in parallel too; a window is its session's own; a
way in that is cut ends what came through it; a flow is used once; a subject is
taken for the same person at one issuer only. *Estimates*: a refresh does not
bury what was typed in; an estimate rests on the best there was; the reports
tell of the value that is shown; a cached answer is as new as it says.
*Items, imports*: what is derived is in step; nothing is imported twice or left
out. *Links*: what is shown is what is shared, and clean. *Audit*: nobody can
fill the log with what is capped.

PROJECT.json `hazards` lists, line by line, what is hard to test in these parts.

## 2. The modules and the code

### FileSwap — `restore.py`, the files
One step per file system call: `MakeOld`, `MoveOut`, `TouchMovedOut`, `MoveIn`
are the calls of `_Swap.apply`; `DropOld`, `Sweep`, `Swept` those of `finish`;
`UndoLook` … `RemoveOld` those of `undo`. `op` is the function the process is
in, `step` the place in it, `todo` the volumes its loop still has to do (in the
order of `_file_targets()`), `swaps` the list of that name. A file is
`"previous"` or `"archived"`, so a volume is a function from names to what they
hold. The database is one step that commits or does not (`committed`), which
recover is allowed to know here; `Restore` removes that.
`Crash` empties `memory` and leaves `disk`; `Restart*` is `recover`.
`report` is what `last_outcome()` says of the latest attempt: `_record` only logs
an `OSError` (`Say` may fail), and then memory has the outcome while the file has
an older one or none. A stop leaves what the file says (`AfterStop`); `"lost"` is
an outcome that was never shown or was shown over by an older one.

*Bounds*: `MaxCrashes`, `MaxFailures`, `MaxRuns` count stops, exceptions and
restores. Two stops, three failures and two runs let a stop hit the recovery of
a stop, a failure hit the undo of a failure, and a second restore find what the
first left. Two volumes: one whose names overlap with the archive's in every
way (kept, dropped, replaced), one plain.

### Restore, RestoreContract — `restore.py` `_run`, `_finish`, `recover`; `main.py` `lifespan`
Each action is one of FileSwap's together with its effect on the database, or
leaves the files alone. recover may look only at the journal and the `marker`
row. Tables newer than the archive are dropped in a transaction of their own
(`DropTables`); pg_restore's nonzero exit is then reported as `"partial"`, and
any other exception as nothing changed (`LoadFails` allows both). A start
migrates only where `AutoMigrate` says so. `RestoreContract` is what a user of Cabinet may rely on, with no files,
journal or phases: the collection changes only behind closed doors, and the
doors open on a mixture only if the owner is told, or the word was lost to a
write that failed or a stop. `Contract` (each step is a
RestoreContract step under `Seen`, `serving` and `report`) is checked as a
refinement, and proved.

### Maintenance — `maintenance.py`, `restore.start`/`_run`, `run_backup`, the loops
Requests, loops, and sessions that start restores are sets of actors; every
step others can come between is an action: the middleware's look (`Arrive`) and
its count (`Count`) are two, so are `scheduled_task`'s look, acquire and second
look, and `start`'s locks, its look at the loops and the spawn. Requests under
`/api/restore`, which the middleware lets through uncounted, appear as sessions
only. `late` is a ghost: it says that an actor's turn began during maintenance.

### Sharing — `restore.py` share links, `share.py`, `routers/settings.py`
`memory` is `share._enabled`, `Moved` its `_generation`. A snapshot is a record
of the switch and the owner's links, held by the run, the journal or the pending
file. A put-back leaves out the links to sets and checklists the archive does
not have (`links_dropped`; the ghost `dropped`). When it fails, the snapshot is
written to the pending file, and that may fail too, which is only logged: the
ghost `unsaved` has what was lost so. `untidy` is a ghost: tidying up after some
restore failed. Making and
changing links is in `Shares`: nothing here tells a new link from an old one.

### Trash — `trash.py`, `routers/trash.py`, `routers/documents.py`, `routers/items.py`
A handler is a `job`; it goes from one transaction or file system call to the
next, and another handler can come between any two. `CutShort` is an exception
or a stop in the middle; `spoilt` (a ghost) is what such a handler had half
done, and what was linked or uploaded to an item that a purge was already
deleting (`TooLate`), of which the code makes no promise. `crossed` (a ghost) has
the items restored while a purge had them in its list, and the documents linked
between the count of their links and their deletion: nothing in the code stops
either, and the model lets all of them happen. `MaxMess` bounds how many rows are
in the two, for TLC only; what is proved holds for any bound.

### Cleaning — `photos.py` `strip_existing`, `_strip_one`, the marker; `restore.py` where it brings photos
A pass is a thread: `Lock`, `List`, then for each file `Read`, `Write` (the
temporary file), `Look` (is the photo still there), `Put` (the rename), and at
the end `Mark` under the generation. `live[f]` is a photo's directory with its
temporary files (`own`, those of a stopped pass `fresh` or `stale`), which a
restore moves whole to `old` and back; the restore's own steps are those of
`_Swap` on the photos volume, coarser than in FileSwap, as only what the pass
can see of them matters. A photo is `dirty`, `clean` or `broken` (cannot be
decoded); any `OSError` of reading one has it listed as unreadable, as the code
does. Listing the volume is one step; `os.walk` is called without `onerror`, so a
folder it cannot list is passed over, and the pass goes on to mark (`List` picks
what it did not see, the ghost `unlisted`). Ghosts: `putBack` (what an undo put
back), `deleted` (leaving out a photo deleted between `Look` and `Put`),
`failed`.

### Walks — `photos.py` `checked_bytes` and the walks under it
A file is read part by part (a JPEG segment, a PNG chunk, a WebP chunk), the
parts being chosen as the walk goes; a part `fits` when its bytes are what its
kind specifies. `NothingBeside` restates what a clean file is from the whole
list of its parts, without the walk's state.

**AfterRestore** puts `Sharing`, `Cleaning`, `Walks` and `Shares` (below) side by
side.

### Archives — `restore.py` `inspect`, `stage`, `start`, `_Archive`; `routers/restore.py`; `backup.py` staging and record
An archive is the date it was made and whether its checks pass. `disk` holds
them by name or restore id, `pending` the phrase an inspection answered, `ask` a
request under way, `run` the restore with what was typed. The run reads the file
again, and what it loads is compared with the phrase that was typed, not with
the one that was shown.

### Backups, KeyFile — `backup.py`, `archive_keys.py`, the backup of `scheduled.py`
A backup is a `job` of a thread: begin (the lock), encrypt, sign, put in place,
prune, record; each step may raise or be stopped. A failure is recorded only if
it is a `BackupError` or an `OSError`; any other is raised past the record
(`Fails` allows both). An outcome is dated the start of its run, so its age is
what the run took (`took`). `SettingUnread` is the read between the lock and the
`try`: the thread is gone and the lock is held. Identities are numbers, and an
archive is what it was encrypted and signed with. `KeyFile` has the steps of
`_create_exclusively` and `_replace` on the fixed `.partial` name, by any number
of starts and rotations at once; the ghost `contested` has the identities there
were when a rotation last had another writer beside it.

### Secrets — `crypto.py`, `app_settings.py`, `scheduled.clear_secrets`
`file`, `cipher` (the key in memory) and the rows with the key each was
encrypted with; a restore brings rows of key 0. `Faults` opens two overlaps.

### Accounts, Sso, Throttle, Providers — `auth/*`, `routers/auth.py`, `routers/sso.py`
A request is a chain of steps with the database's commits between them, since
checking a password takes time. `Sso` EXTENDS `Accounts` and shares its session
rows; a cut (unlinking, deleting, switching off) reads the sessions it ends
before it commits, and `late` marks those of sign-ins that committed between.
`Throttle` keeps the table in the order of its last failures, with ages in place
of clock readings. `Providers` has the rows of providers and identities with
each request's read and its commit, and what is repointed between; the ghost
`crossed` has the rows to which a link and a repointing wrote without having seen
one another. Signing in through an identity is in `Sso`.

### Items, Photos, Imports — `routers/items.py`, `routers/photos.py`, `importing.py`
Requests that read rows, work, and commit the columns they changed. A column an
ORM object holds unchanged is not written, so what another request committed
stays; `late` says which rows were committed by others since the read, and the
properties say that only such a request can break what they state. **Collection**
puts the three and `Trash` side by side.

### Prices, Quotes, Reports, Caches — `pricing.py` and the adapters
`Prices` has the rows of estimates and the two refreshes with their commits in
the middle; an estimate is dated by the beginning of its transaction. `Quotes`
is one estimate being made: the issues tried in the order of `_ranked`, the
requests one by one, the price nearest to the grade, the fallbacks of PCGS and
of the logged sales, and edits of the piece between requests. `Reports` has
`resolve_display_value` and the second form of it in `pricing_reports.py`. In
`Caches` an upstream's answer is named by the hour it changed to that, so that
`AsOf` can compare it with the time the entry claims.

### Shares, Records, Alerts, Layouts — `share.py`, `auth/audit.py`, `alerts.py`, `dashboard.py`
`Shares`: a read resolves its link once and goes on in several queries; a photo
is read (`Fetches`) and what was read is checked and sent (`Checks`), or it is
opened again and re-encoded in a slot; its file may be replaced between any two. `Records`: what a
transaction sees is the committed rows and its own. `Alerts`: one JSON value,
read, changed, committed whole, and only then told to the webhook; `forget` reads
and writes it the same way. A stop or another writer may come between any two;
the ghost `astray` has the conditions that lost an alert, had two on their way or
were set back, until an alert says again what is recorded. `Layouts`: releases differ in the types and options they
offer; a layout saved under one is read under others.

**Services** puts Prices, Quotes, Reports, Caches, Alerts, Archives, KeyFile,
Secrets, Records, Providers and Layouts side by side. In `Services`,
`Collection` and `AfterRestore` the parts share no variable, so their product
would add nothing: `part` (`settling` in `AfterRestore`) is chosen once, and the
others stand still. `MCSignIn` does the same with `Sso` and `Throttle`.

## 3. The runs

Deadlock is not checked: each of these systems may stop, having nothing asked of
it.

| run | instance | shows |
|---|---|---|
| `MCRestore` | a volume whose file the archive replaces, drops and adds, and one it leaves alone; 2 stops, 3 failures, 2 runs | `KeptUntilReplaced`, `UndoneMeansPrevious`, the refinement `Contract`, `Reopens` |
| `MCMaintenance` | two requests, two loops, two sessions | `NoBackupBeside`, `NoLateTick`, `RestoreEnds` |
| `MCAfterRestore` | one link of each side, 2 failures, a stop, 2 restores; two photos, two passes, a restore and a stop; files of up to 5 segments or PNG chunks, 3 WebP chunks; two readings of one link, two edits | `ArchiveLinksClosed`, `RevokedStaysRevoked`, `LinksKept`; `MarkerMeansClean`, `DeletedStaysDeleted`; `NothingBeside`; `CleanShown`, `OnlyShared` |
| `MCSignIn` | two requests, two browsers, two sessions, one identity, one flow, two starts; two attempts at a time, one name, two addresses, two devices, a table of three | `FreshIsOwn`, `WaysOut`, `FlowOnce`; `DeviceTries`, `Paced` |
| `Backups` | a worker and the ticker, two archives, two identities, one crash or restore | `ArchivesOpen`, `DueIsTried` |
| `MCCollection` | two requests at a time: two pieces, two edits or look-ups; three photos; two files of two rows; two items in the trash with two documents, one row crossed or left half done | `DerivedInStep`; `PrimaryKept`; `ImportedOnce`, `NothingLeftOut`; `NothingLeftBehind`, `HeldIsKept` |
| `MCServices` | two of whatever is worked on and two that work on it, one part at work | `BestPriced`, `SameChoice`, `NotBuried`, `AsOf`; `InTurn`; `AskedFor`, `PlainAtWork`; `KeyKept`; `EnteredReadable`; `KeptEvidence`; `LinkedAtIssuer`; `PutBack` |
| `FileSwapSweepCrash`, `SecretsFirstUse` | one window or fault opened | a counterexample: section 5 |
| `RestoreToldWrong`, `KeyFileOverlap`, `TrashRestored` | the specification of the passing run, in a smaller or the same instance | a counterexample to the property without its exception: section 5 |

**Why these bounds.** Everything here goes wrong, if it does, between two actors
over one or two things, with one stop or failure more than one handler takes
care of: two stops let a stop hit the recovery of a stop, two runs let a restore
find what the last one left, a table of three has one entry to lose. Larger
instances were checked once and agree: three imports (2.0 million states), a
clock of 5 for `Prices` (9.8 million), two restore ids for `Archives` (4.8),
any first set and two edits for `Shares` (8.8), six rows of `Records` (3.6), four hours
of `Caches` (1.1), five identities for `KeyFile`, six kinds of issue for
`Quotes`, three edits or look-ups for `Items` (3.0 with the parts beside it).
`MCSignIn` has a `CONSTRAINT`, `Apart`: once single sign-on is in use,
tokens, restarts and the claim are not explored beside it, and at most one
account request is (a recent-password confirmation or a password change); they
share nothing with it but the session rows. Symmetry is used where a run has no
liveness property and its model values are alike.

Not in a standing run, but checked in the instances above and true:
`OkMeansArchiveInPlace`, `ServedWhole`, `MarkerTells`, `OutcomeIsTrue`,
`BehindIsReported`, `SwapsFiles`, `NothingOverwritten` (`MCRestore`);
`DrainedMeansNone`, `LocksAreHeld` (`MCMaintenance`); `OffStaysOff`,
`SlotsBack`, `WideningTold` (`MCAfterRestore`); `RowHasFile`, `TrashedIsWhole`,
`AdminEndsDocuments`, `OnlyTrashIsPurged`, `HandKept`, `RowHasImage` (`MCCollection`); `WholeOnly`,
`NewestStays` (`Backups`); `OneWins`, `CodeSpent`, `LongestAgoGoes`
(`MCSignIn`); `RetryFits`, `RestoredStays`,
`RowsBounded`, `ClearedIsNamed` (`MCServices`; its `RestoredStays` is Archives'); the
type invariants of the modules that state one; and, with Sharing and Cleaning
alone under their fair specifications, `PendingEnds`, `MarkerReturns` and
`StaleIsDropped`.

**Fairness.** *Restore*: weak fairness of what the process does of itself; the
restore thread has no blocking wait without a timeout, and a stopped container
is started again (`docker-compose.yaml`, `restart: unless-stopped`). Nothing
forces a run or a stop to happen. *Maintenance*: the restore thread, and each
session inside `start`, run on; requests and loops need not, and `RestoreEnds`
holds without them since `drain` gives up. *Backups*: the hourly tick comes, and
each thread that has begun a backup runs on, but one that lost the lock it took;
what is asked for, and what fails, is not forced. `DueIsTried` excepts a lock
that was lost; `DueIsRetried` does not, and fails. *Sharing* (`PendingEnds`): the restore, startup, the hourly tick,
and reads and PUTs under way run on. *Cleaning*: a pass, a restore and the start
after a stop run on. The other runs are of safety only.

**Mutants.** Every property of a passing run has a mutant in the module it is
about: a definition with a guard dropped, an order swapped or a reset missing,
which TLC finds to violate that property. They are the operators introduced by
"Mutant of"; no specification uses them.

## 4. The proofs

Every safety property of the passing runs is proved for all values of the
constants, and so is every property that section 3 names beside them but for the
liveness. Each component's proof is by an inductive invariant, listed
here with what it adds to the properties and why they are not inductive by
themselves; one lemma per action, or group of actions alike, says that it is
preserved. Where a module composes parts that share nothing (AfterRestore,
Collection, Services), each part is proved about by itself, and a last theorem
says the whole of the composition that the run checks.

| proof module | proves | of |
|---|---|---|
| `Restore_proofs` | `NothingIsLost`, `OkIsArchive`, `UndoneIsPrevious`, `ReplacementIsRecorded`, `NothingIsOverwritten`; `RestoreSwapsFiles`, `RestoreOverwritesNothing`, `RestoreKeepsContract`, `ServedIsWhole`; `OutcomesAreTrue`, `BehindIsSaid`, … | FileSwap; Restore, RestoreContract |
| `Maintenance_proofs` | `NoBackupRunsBeside`, `NoTickIsLate`, `LocksHaveHolders`, `DrainedIsEmpty`, … | Maintenance |
| `AfterRestore_proofs` | `ArchiveLinksStayClosed`, `RevokedIsForGood`, `LinksAreKept`, `OffIsOff`; `ShownIsClean`, `WideningIsTold`, `ShownIsShared`, `SlotsComeBack`; `MarkedIsClean`, `DeletedIsForGood`; `SentIsPure`; `RestoreIsSettled` | Sharing; Shares; Cleaning; Walks; AfterRestore |
| `Trash_proofs` | `NothingStays`, `RowsHaveFiles`; `TrashStaysWhole`, `HeldDocumentsStay`, `TrashIsPurged`, `LastLinkIsAdmins` | Trash |
| `Sso_proofs` | `WaysAreOut`, `FreshHolds`, `OneWinsHolds`, `FlowIsOnce`, `SpentHolds` | Accounts, Sso |
| `Collection_proofs` | `NothingIsImportedTwice`, `NoRowIsLeftOut`; `DerivedStaysInStep`, `TypedIsKept`; `PrimaryStays`, `RowsHaveImages`; `CollectionIsKept` | Imports; Items; Photos; Collection |
| `Services_proofs` | `LoadedWasAskedFor`, `StagingIsAtWork`, `RetriesFit`, `RestoredIsKept`; `KeysAreKept`; `KeyIsKept`, `ClearedAreNamed`, `EnteredIsReadable`; `NumbersAreNotBuried`; `ChoiceIsSame`; `AlertsAreInTurn`; `AnswersAreAsOf`; `EvidenceIsKept`, `LogIsBounded`; `LinkedStaysAtIssuer`; `EstimatesAreBest`; `LayoutsGoBack`; `ServicesAreKept` | the parts of Services |
| `Alone_proofs` | `DeviceTriesHold`, `AttemptsArePaced`, `LongestGoesFirst`; `ArchivesStayOpen`, `NewestIsKept`, `OnlyWholeArchives` | Throttle; Backups |

**Restore.** `SwapInvHolds` is proved of the file swap by induction, for any
names, volumes, previous and archived files, stops, failures and runs. That an
outcome is ok says nothing about how the files came to be there; `SwapInv` adds

- the *shapes* a volume can have (`VolumeShape`): before `MOVED_OUT` each
  previous file is in exactly one of the live directory and `OLD_DIR` (`Kept`);
  with it, all are in `OLD_DIR` and what is live came from the archive
  (`Moved`); or the volume is the archive's (`Replaced`);
- that whoever goes on from here can finish the swap (`ReadyToFinish`): while
  the journal says so, each volume has everything of the archive live or in
  `NEW_DIR`;
- that nothing is replaced while the journal says it is not (`NotReplaced`), and
  what the journal says for each `op` (`JournalTells`);
- where each loop is: the volumes it has done and the one it is at (`ApplyLoop`,
  `FinishLoop`, `ForwardLoop`, `UndoLoop`, `Unpacking`, `Between`).

`RestoreInvHolds` is about the whole run, on top of it. FileSwap lets recover
know `committed`; the process has only the journal and the marker row. `Marks`
says why that is enough: the row is this restore's from before the journal says
`database` until the transaction commits, a committed database never has it, and
a stop that finds the journal at `database` finds the one or the other. So every
step is FileSwap's or leaves the files alone (`StepIsSwap`), which gives
`RestoreSwapsFiles` (RestoreSpec => FileSpec) and from the theorems of the swap
`RestoreLosesNothing` and `RestoreUndoneIsPrevious`. For the refinement of
`RestoreContract` (`RestoreKeepsContract`) the invariant adds that the doors are
closed while anybody is at work (`Closed`), that an outcome is there when it is
recorded and ok only of a replaced database (`Says`), and that what was last
reported goes with what is seen whenever nobody is at work (`Told`);
`ServedIsWhole` also needs `Unbegun`, that nothing is renamed before the
database is replaced. The file loops enter by what one step of them does to
`op`, `outcome` and `live` (`LoopMove`). What is reported is a matter of when it
is decided: `Truth` says that tables are dropped only once they are named and the
journal is at `database`, and that the outcome goes with the database from where
it is decided until it is recorded, by the run or by recover (`OutcomeHolds`);
`Upgraded`, that no run which leaves the database behind the code reports ok
(where a start migrates). Whether the write of an outcome fails is left open in
each of them: what was lost is not called ok. That a rename never lands on a file (`NothingIsOverwritten`)
is read off the shapes: a place that is moved to is empty in each of them.
Assumptions: `FileSwapAssumption`
(types) and `UnsafeCrashes = {}`: no stop falls into a window of section 5,
where the properties are false.

**Maintenance.** `LockInv` says of each lock who holds it and how far that
holder is, that `_in_flight` is the number of requests inside (by the library's
facts on cardinality), and, in `LateOnes`, why the second look of
`scheduled_task` is enough: a loop that began beside a restore still holds
`_scheduled`, so `start` refuses the next restore until it has sat out. For any
finite sets of requests, loops and sessions, from `MaintenanceAssumption`.

**What comes after a restore.**
- *Sharing*, `LinkInv`: for each phase of a restore where the owner's links are
  (the table, the run's snapshot, the journal, the pending file), that each
  snapshot there is has all of them that were not revoked (`SnapshotsCover`),
  and that the table has none of the archive's while requests are answered. The
  owner's links that are nowhere are among `revoked`, `dropped` and `unsaved`
  (`OwnersSafe`). The fault `"switch_off"` is left out. *The switch*, `SwitchInv`: one PUT is
  under way at a time; a read that a writer overtook finds the memory not empty,
  and one that was not overtaken has the switch as it is, unless a PUT has still
  to tell memory; from a stop until the first read memory is empty. `OffIsOff`
  leaves out two PUTs that race (`"racing"`) as well.
- *Shares*, `SharesInv`: a reader's memory of a link is of what was shown or
  alerted of (`Remembered`); what a reader has fetched is called clean only if
  the file was when it was read, however often it is replaced before the check. `SlotsComeBack` needs finitely many readers.
- *Cleaning*, `CleaningInv`: what a pass is to tell of a photo is said of each
  pass by itself (`PassTells`), so that the one whose generation still counts
  can write it as the marker (`MarkerTells`); while an archive's photos are half
  way in (`Mixed`) nothing can be told, and no telling outlasts that. A photo
  deleted for good is in neither directory and in no pass's put-back
  (`NotReturned`). Proved of the steps, without fairness (`CleaningSteps`).
- *Walks*, `WalksInv`: what the walk remembers at each part is what the parts
  before it are, for files of any length; the three formats each have their own
  (`JpegWalk`, `PngWalk`, and the types of RIFF chunks).

**Trash.** `TrashInv`: a document row without a holder, and a file without a
row, is always on the mind of a handler that will look at it (`Minded`,
`Filed`), since a purge knows every document its item holds (`Lists`) and an
unlink counts again what it took a link from. An upload's file has no row, and
no deletion under way is of it (`Uploads`, `Drops`). `PurgeInv` is of what a
handler may do: only the admin purges, and an unlink the admin did not ask for
had counted another holder (`Asking`); what is to be purged is in the trash, or
gone, unless it was asked for outright (`Sparing`); and a document that is being
deleted has no holder, unless outright (`Letting`). Nothing is assumed of the
order of purges, restores, links and unlinks: each part speaks of the rows that
are neither `spoilt` nor `crossed`, and the lemmas say that a restore beside a
purge's list, a link beside a deletion and two unlinks at once put what they
disturb there, and nothing else. An unlink that had counted another holder
(`shared`) is what `AdminEndsDocuments` names beside the admin.

**Sign-in.** `SsoInv` is over the sessions' rows and what each handler has read
of them. A way in that is cut rests on two facts: a request that no cut has
overtaken finds its way open (`StillOpen`), and the update of a cut has seen
every session that is not marked late (`FindsAll`). A session through an
identity names it (`Named`); a state accepted is one request's until that has
landed it (`OneEach`). To the single sign-on every step of Accounts is one that
at most ends sessions or opens one with a password (`Aside`).

**The collection.**
- *Imports*, `ImportsInv`: what is kept has a key that a file of its source has
  had (`KeptIsKnown`); what an import went past has its item here, or was
  reported or purged meanwhile (`ImportIs`).
- *Items*, `ItemsInv`: a request that is not behind on a piece has read it as it
  is (`UpToDate`), and a spot price and where it is from are written together.
- *Photos*, `PhotosInv`: a request nobody overtook has read the rows as they are
  (`Current`), and what it makes of rows in order is in order: one is primary
  and positions have no gap. `PictureInv`: the name a request has for a new file
  is no row's and no other request's (`OwnNames`), what it will delete is not
  what the row names by then, and what it is about to commit is written
  (`Sounds`).

**The services.**
- *Archives*, `ArchivesInv`: one inspection or run is at work at a time
  (`OneAtWork`), what is in staging is its own (`InStaging`), and from the run's
  own check of the age on, what it will load is what that check was of
  (`Confirmed`, `Loaded`), whatever is put under the name since. On top of it
  `RetryInv`: an id is one request's until something may be run under it
  (`NotYet`), all entries of an id and its run name the same archive
  (`SameEntry`), and an entry that is not out of date asks for what its
  archive's date asks for, or, of the one being run, names what is in staging
  (`Fitting`).
- *KeyFile*, `KeyInv`: each writer's file is its own until it is in place
  (`OwnFiles`, `Unwritten`), what a rotation will put in place has all the
  identities there were but the contested (`CarriesOver`), and a rotation with
  another writer beside it leaves everything minted contested (`RotatesAlone`). Any
  starts and rotations may overlap.
- *Secrets*: `MadeInv` (each key in memory is the file's: needs only that two
  first uses do not overlap), `OwedInv` (what a PUT or the clearing has read of
  the list has all that is owed: needs only that the clearing does not overlap a
  PUT), and `EnteredInv` of both. So each theorem names the one fault it excludes.
- *Prices*, `PricesInv`: no two estimates of a piece are of one date
  (`DatesApart`), and a run for melt values has read, or was beside, every
  number from before it began (`RunIsSound`).
- *Reports*, `ReportsInv`: days. The theorem is about the operators: a page that
  picks the latest by date, then by number, and one that goes through the list
  agree for any estimates (`Least`, of natural numbers).
- *Alerts*, `AlertsInv`: but for conditions that are astray, the last alert of
  each says what is recorded of it, or is on its way and the one before it says
  the opposite (`Agrees`); what a watcher puts goes with what it read (`HasRead`).
- *Caches*, `CachesInv`: what an entry, a request and an answer have, they have
  of the hour they claim or of a later one (`Honest`).
- *Records*, `RecordsInv`: what an open transaction is to delete is old, or has
  as many newer rows of its kind as the cap keeps, whichever commit before it.
  `TallyInv` counts what stays: a transaction leaves its cap of the rows it saw,
  and the rows it did not see are of transactions open then, each of which adds
  its own once; so, with finitely many writers and at least one, a kind has
  fewer rows than its cap and the writers together (`LogIsBounded`).
- *Providers*, `ProvidersInv`: a request that is repointing and that no link has
  overtaken finds no identity linked, and one that is linking and that no
  repointing has overtaken has the issuer the row is at (`Stands`); so an identity
  through a row that was not crossed is at the issuer of that row (`Situated`).
- *Quotes*, `QuotesInv`: the issues that are tried have each a place, the number
  of those better and itself (`AskedInOrder`), so that all that are better than
  one were tried before it (`InOrder`), however the piece is edited meanwhile.
- *Layouts*, `LayoutsInv`: what is stored is what PUT answered under a release
  that had all of it. That GET leaves out what a release no longer has and keeps
  the order is again a fact about places (`NthIs`).
- `ServicesAreKept` is the run's, without an assumption; the secrets' theorems,
  which have one each, stand by themselves.

**Alone.** `DeviceInv`: a row's count is never below what was let through with
it, as it is raised in the statement that lets the attempt through.
`PacedInv`: whatever was let through and is not forgotten has its entry in the
table, counted at least as often and no longer ago; the two keys of an attempt
are the newest two entries when it is counted, so that a full table keeps both;
and the delay never falls as the count rises. `OrderInv` adds that the ages
along the table never rise, with one entry of a key (`Orderly`), so that what is
cut off at its head failed longest ago (`LongestGoesFirst`). What `_live` and `_count` leave of
the table is a set of its places in their order (`Selected`), of which the
lemmas at the head of the module say what is where.
`BackupsInv`: what a thread or an archive has of the key file is in it, and a
rotate command between its read and its write has read it as it is: so a rotation
between the encrypting and the signing of an archive keeps both identities.
`SparesInv`: one thread is at work at a time and holds the lock, archives have
names of their own, and the list of what to prune has the newest of no kind;
taking one of that list from the directory leaves it so. `SignedInv`: whatever
is under an archive's own name, or about to be, is signed.

**Found by proving.** Assumptions the runs' instances happened to satisfy:
that no adapter is called `manual`, `average` or `none` (Reports; it is so in
`pricing.py`), and that a window of sales has room for one (Quotes: with
`SalesWindow = 0` late sales are not looked at and older ones stand in, so
`BestPriced` is false; the code has 20 and 10), and that the window, the limit per
minute and the free attempts of each kind are at least one (Throttle: with none
free, or a window of nothing, an attempt that was let through need not have an
entry, and `Paced` is false; the code has 15 minutes, 60 and 5 or more). `prune`'s list, `_ranked` and
the layout's filter are written as places in an order instead of with
`SelectSeq` and `SetToSortSeq`, which the provers cannot look into.

**Only model-checked.** All liveness (`RestoreEnds`, `Reopens`, `DueIsTried`,
`PendingEnds`, `MarkerReturns`, `StaleIsDropped`), since fairness and ENABLED are
beyond the prover.

## 5. Where the code and its documentation part

Windows and faults are named in `UnsafeCrashes` (Restore) and `Faults` (Sharing,
Secrets), which the passing runs leave closed. Everywhere else the passing runs
have what is wrong in them: a property that holds names what it excepts, by a
ghost. The same property without its exception is stated beside it and is false of
the code: for some there is a run that shows it violated, and for the others,
named in the first column in brackets, TLC finds the counterexample in the
instance of the run given with them: put the property in its cfg to see it.

| run, or (property; instance) | the code | what is said |
|---|---|---|
| `FileSwapSweepCrash` (`"sweep"`) | `finish` removes `OLD_DIR`, then `NEW_DIR` (`restore.py:723`); after a stop between, recover applies the swap again, moves the archive's live files out and deletes them, and reports ok | a swap that had begun is rolled forward (`restore.py:1516`) |
| `RestoreToldWrong` | tables are dropped, committed, before pg_restore; only its nonzero exit is reported as that, any other exception as "Nothing was changed" (`restore.py:1351`) | "a failure after it says so (PartialDatabase)" (`restore.py:830`) |
| (`OutcomeIsShown`; `MCRestore`) | `_record` only logs an `OSError` (`restore.py:235`); the API reopens, and after a restart an older outcome, or none, is shown | "record the outcome, reopen the API, … so whoever sees that state can read the rest" (`restore.py:1438`) |
| (`LinksTriedAgain`; `MCAfterRestore`) | the put-back fails, the write of the pending file fails and is only logged (`restore.py:1366`), the journal is removed | "kept in `pending_sharing.json` …, to be tried again" (`docs/backup-restore.md:318`) |
| (`MarkerMeansAllClean`; `MCAfterRestore`) | `os.walk` passes over a folder it cannot list (`photos.py:620`), and the marker is written | the pass "re-encodes every original and every thumbnail" (`docs/backup-restore.md:594`) |
| `SecretsFirstUse` (`"first_use"`) | the key file is looked for, then written over whatever is there (`crypto.py:46`, `50`); two first uses at once keep two keys in memory, one of which is lost | "a key is generated once and persisted" (`crypto.py:9`) |
| `KeyFileOverlap` | `rotate` reads, then replaces, the key file (`archive_keys.py:369`); of two at once, the later drops the other's identity, and so may a rotation beside a start | "keeping the old ones so older archives stay readable" (`archive_keys.py:363`) |
| (`PinnedWhileLinked`; `MCServices`) | the check that no identity is linked (`auth/config.py:215`) is overtaken by a link before its commit | pinned "while an identity is linked through it" (`routers/sso.py:788`) |
| (`FailsOnce`; `MCServices`) | one thread's write of the whole value undoes another's (`alerts.py:100`, `110`), whose condition is then alerted again | "an alert fires on the change only" (`alerts.py:6`) |
| (`DueIsRetried`; `Backups`) | a setting is read between taking the lock and the `try` that gives it back (`backup.py:757`); what that raises leaves the lock held until the process ends | "A failed run is retried within the hour." (`docs/backup-restore.md:53`) |
| (`OnlyUnheldGoes`; `MCCollection`) | a document's links are counted, then it is deleted (`routers/documents.py:162`, `trash.py:104`); a link committed between goes with it | "the file goes only when no item holds it any more" (`routers/documents.py:3`) |
| `TrashRestored` | a purge does not look again at the items of its list (`trash.py:133`) | "restoring it puts it back as it was" (`trash.py:1`) |

The others are excluded by a window or a fault, or left to a note:

- `"marker"` (Restore): the marker row goes before the journal (`restore.py:1344`,
  `1554`); a stop between makes an untouched database look replaced, against
  `restore.py:1513`.
- `LoopsSitOut` (Maintenance) is false: a loop begins between `start`'s look and
  `enter` (`restore.py:1188`, `1273`), against `maintenance.py:1-2`.
- `"switch_off"` (Sharing): switching sharing off after a failed put-back fails
  too and is swallowed (`restore.py:1051`); the next load reads the archive's
  switch, against `scheduled.py:112`.
- `"return"` (Restore): an exception between pg_restore's commit and the end of
  `restore_database` is reported as one that changed nothing; with this window
  open `OutcomeIsTrue` fails.
- `MarkerMeansAllClean` (Cleaning) is false for another reason too: an undo brings
  the previous photos back in behind a pass that took them for deleted
  (`restore.py:1395`), and its marker stands, against `photos.py:766`. The share
  view, which looks at each file, is misled by neither.
- `"undo"`: the journal says `swapping` while the files are put back
  (`restore.py:1397`); a stop there is rolled forward and reported ok, while
  `docs/backup-restore.md:413` says the previous files are put back. With this
  window open `OkMeansArchiveInPlace` fails.
- A photo deleted between a pass's look and its rename comes back as a file no
  row names (`photos.py:675`, "don't bring it back"): the ghost `deleted`.
- A temporary file left by a stop is dropped only when it is ten minutes old
  (`photos.py:683`); the pass of a quick restart passes it over, and with the
  marker written no pass comes again before the next restore. `StaleIsDropped`
  is about the old ones, in a folder that can be listed.
- After a restore that failed in or before its database step the marker is gone
  and no pass begins until the next start (`restore.py:1322`): `MarkerReturns`
  is about a swap that held.
- The journal is removed before the outcome is written (`restore.py:1448`): a stop
  between the two loses it. The passing run has that, as `"lost"`.
- The volume being unpacked when unpacking fails keeps its `NEW_DIR` until the
  next restore (`restore.py:1314`; `docs/backup-restore.md:408` says what was
  unpacked is removed). The model has it; no property forbids it.
- "put back" is reported also when putting one volume back raised
  (`restore.py:1398`, `1402`). `UndoneMeansPrevious` therefore allows an
  `OLD_DIR` that the next restore refuses on.
- A request that saw maintenance off is counted a step later
  (`maintenance.py:79`, `89`), so `DrainedMeansNone` is about the requests
  counted before.
- A loop that finds the *other* loop at work logs that a restore is running
  (`maintenance.py:51`).
- The lock `DueIsRetried` is about is also restore's: in Maintenance
  (`BackUpRaises`) `LocksAreHeld` excepts it, and `FailedBackupReleases` states
  what would be wanted.
- When tidying up after a restore fails, the journal stays and the next start
  keeps its snapshot of the links again, revoked ones included, and memory is
  not read again (`restore.py:1437`, `1453`): the ghost `untidy`.
- Two PUTs of the switch can commit in one order and write memory in the other
  (`routers/settings.py:281`): `Faults = {"racing"}`.
- A document added to an item whose documents a purge has listed loses its last
  link without being deleted (`trash.py:113`): the ghost `spoilt`.
- Two unlinks of one document each count the other's link, and neither needs the
  admin (`routers/documents.py:155`): `shared` in `AdminEndsDocuments`.
- A stop between a deletion of rows and that of files leaves files no row names
  (`routers/documents.py:162`, `trash.py:119`): the ghost `spoilt`.
- Archives: `_inspect`'s docstring says a staged upload that fails the check is
  deleted; a refusal of `check_movable` leaves it. The file `verify-archive`
  works on can be removed by a start's `empty_staging` after ten minutes. A
  safety archive that fails its verification leaves its row in the record.
- Secrets: `Faults = {"overlap"}` has a PUT and the hourly clearing, each writing
  the list whole, lose one another's change. A stop between creating and writing
  the key file leaves it empty; every use raises from then on, `decrypt`
  ("Never raises") too.
- Providers: `LinkedAtIssuer` is what holds where no link and repointing crossed.
  The limits on providers, tokens and share links are counted, then added to.
- Alerts: a stop between the commit and the webhook loses that alert
  (`alerts.py:111`), and the next of the condition repeats the one before:
  `InTurn` excepts a condition that is astray. "Alert once" of the switch the first provider turns on is a look
  and a write too (`auth/config.py:229`).
- Throttle: a known device's row that is deleted while a request holds it makes
  that request answer 500.
- Caches: a discovery failure that began earlier can be written over a newer
  document, and sign-in then refuses for a minute; two first fetches of one key
  both insert, and the second fails. `pricing.py:86-91` says a rejected key is
  not served from the cache; `cached_fetch` serves a stale entry.
- Prices: a melt value computed on save is dated by its request's beginning; a
  number typed in by a request that began before can be buried: `NotBuried`
  excepts the transactions that overlapped.
- Quotes: the population of a PCGS cert is stamped on a piece whose cert was
  changed during the request (`pcgs.py:257`); the quantity is read again after a
  committed answer, while the grade was read before (`numista.py:297`, `342`).
  Attempts that overlap can leave "failed" in the coverage report though a later
  one went well. The wish-list alert can be sent twice or missed when estimates
  overlap (`pricing.py:132`).
- Reports: `_display_ids` leaves the conversion out, as its docstring says; under
  "average" with a rate missing it lists estimates the shown value lacks.
  `SameChoice` says that this is all they differ by.
- Items: a column that returns to what it was is not written, so two overlapping
  edits can leave what is derived out of step. A bulk change of type away from
  bullion leaves a coin with neither a year nor ND (`schemas.py:208`,
  `routers/items.py:981`).
- Imports: an import broken off leaves an item without its photos, which the next
  import skips; rows without a key are never duplicates; a file of this
  Cabinet's own export that has an id twice breaks off.
- Shares: `opens` is read and written whole and can lose one; a link revoked
  meanwhile makes that write fail.
- Scheduled: an exception of `purge_expired` ends the hourly tick before the
  checks and the heartbeat after it (`scheduled.py:142`).

## 6. What is not modelled

Formats and parsing (members of an archive, cells of a spreadsheet, finenesses
and names in a description), cryptography, HTTP to price services and to an
identity provider beyond what it answers, formatting of pages, statistics,
insights and the sums of the stack, DDL, configuration and the frontend: each is
a function of one input or belongs to another process. What pg_restore does
inside its transaction is one step; its atomicity is PostgreSQL's. Further:

- *Trash*: the bytes of a document and its thumbnails. *Cleaning*: the pass run
  by a command in another process (its generation is not shared,
  `photos.py:241`) and an archive without photos. *Walks*: the bytes inside a
  part, and what Pillow makes of a file.
- *Backups*: two archives of the same second; which kind of exception a failure is
  (recorded or not is a choice); downloads' temporary files, the
  pruning of the record's rows. *Archives*: the limit on an upload's size.
- *Accounts, Sso*: hashing, lifetimes to the minute (they are steps of the
  environment), the switch the first provider turns on, notices sent. The table
  of permissions per route is data; what the gate decides is in the guards.
- *Alerts*: spot thresholds, the heartbeat, the delivery of webhooks by a thread
  of their own (`Tells` is where `_notify` is called). *Records*: the
  sampled lines on stdout.
- *Prices*: the wish-list alert. *Items*: sets, tags, filters and exports, each a
  query or one transaction. *Shares*: the wording of a page; the editor of
  checklists. *Layouts*: the content of the default layout.

## 7. Plan

Done: the modules of section 2. What would add most, in this order:

1. **Gate**: the table of permissions as a pure function, checked against what
   each route declares.
2. **Scheduled**: the hourly tick as a sequence whose parts may fail, over the
   modules of the parts.
3. **Matching** of checklists and duplicates, as pure operators against
   reference definitions over bounded inputs.
