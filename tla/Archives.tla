------------------------------ MODULE Archives ------------------------------
(***************************************************************************)
(* Reading an archive and being allowed to restore it (the checks of       *)
(* services/restore.py, routers/restore.py, and the private staging folder *)
(* and the record of archives of services/backup.py).  An upload waits on  *)
(* the backup share under a restore id; an archive is decrypted into       *)
(* staging, checked and asked for by a phrase that depends on its age; the *)
(* run opens and checks the file again.  An archive is the date it was     *)
(* made and whether its checks pass; a date is the number of archives made *)
(* before it.  What a run does once the database is replaced is            *)
(* Restore.tla's.                                                          *)
(***************************************************************************)
EXTENDS Naturals, FiniteSets

CONSTANTS
  Names,       \* of archives in the backup directory
  Ids,         \* restore ids
  Askers,      \* requests at work at one time
  MaxMade,     \* archives this Cabinet makes
  MaxTroubles  \* restarts, tidying up that fails, and archives overwritten by hand

ASSUME ArchivesAssumption == {MaxMade, MaxTroubles} \subseteq Nat /\ Names \intersect Ids = {}

VARIABLES
  disk,      \* the archive each name and each id's upload holds, {} for none
  aged,      \* uploads more than a day old
  pending,   \* _pending: what may be run under each id, {} for nothing
  made,      \* archives begun
  newest,    \* the date of the newest one in the record
  staging,   \* the decrypted archives in the staging folder
  ask,       \* what each request is at
  run,       \* the restore under way
  untidy,    \* the tidying up of a run failed, and staging has not been emptied since
  troubles

archives == <<disk, aged, pending, made, newest, staging, ask, run, untidy, troubles>>

Archive(d, ok, safe) == [made |-> d, sound |-> ok, safe |-> safe]
Part == Archive(0, FALSE, FALSE)    \* what there is of an upload that is still arriving
NoAsk == [at |-> "idle"]
NoRestore == [at |-> "none"]
RunOf(r) == [at |-> "begun", id |-> ask[r].id, path |-> ask[r].path, typed |-> ask[r].typed,
             was |-> newest, loads |-> {}]

ArchivesInit ==
  /\ disk = [f \in Names \union Ids |-> {}] /\ aged = {} /\ pending = [i \in Ids |-> {}]
  /\ made = 0 /\ newest = 0 /\ staging = {} /\ ask = [r \in Askers |-> NoAsk]
  /\ run = NoRestore /\ untidy = FALSE /\ troubles = 0

AskAt(r, at) == ask[r].at = at
AskGoes(r, next) == ask' = [ask EXCEPT ![r] = next]
Running == run.at # "none"
Locked == Running \/ \E r \in Askers : AskAt(r, "inspecting")
Serving == run.at \in {"none", "begun"}    \* maintenance begins a step after the locks are taken
Staged(id, path) == path = id
Without(f) == [disk EXCEPT ![f] = {}]
DropUpload(r) == disk' = IF Staged(ask[r].id, ask[r].path) THEN Without(ask[r].id) ELSE disk
Trouble == troubles < MaxTroubles /\ troubles' = troubles + 1

\* provenance: the phrase an archive of that date has to be restored with.
Phrase(d) == IF d < newest THEN "RESTORE OLDER" ELSE "RESTORE"

\* The record has a newer archive: what was asked for before may be out of date.
Outdated(ids) == [i \in Ids |-> IF i \in ids THEN {[p EXCEPT !.fresh = FALSE] : p \in pending[i]} ELSE pending[i]]

-----------------------------------------------------------------------------
(* An upload, or an archive of the backup directory, and its inspection.   *)

Waits == {r \in Askers : ~AskAt(r, "idle") /\ ~AskAt(r, "fetching")}
Free(id) ==
  disk[id] = {} /\ pending[id] = {} /\ (Running => run.id # id) /\ id \notin {ask[r].id : r \in Waits}

\* clean_staging, before each: uploads of more than a day go.
Stale == {i \in aged : disk[i] # {}}
Swept(f) == IF f \in Stale THEN {} ELSE disk[f]
SweptPending == [i \in Ids |-> IF i \in Stale THEN {} ELSE pending[i]]

Arrive(r, id) ==
  /\ Serving /\ AskAt(r, "idle") /\ Free(id)
  /\ disk' = [f \in DOMAIN disk |-> IF f = id THEN {Part} ELSE Swept(f)]
  /\ pending' = SweptPending /\ aged' = aged \ Stale
  /\ AskGoes(r, [at |-> "arriving", id |-> id, path |-> id])
  /\ UNCHANGED <<made, newest, staging, run, untidy, troubles>>

\* Not an age file on its first bytes, too large, cut off: nothing of it stays.
ArriveFails(r) ==
  /\ AskAt(r, "arriving") /\ DropUpload(r) /\ AskGoes(r, NoAsk)
  /\ UNCHANGED <<aged, pending, made, newest, staging, run, untidy, troubles>>

Arrived(r, d, ok) ==
  /\ AskAt(r, "arriving") /\ d <= made
  /\ disk' = [disk EXCEPT ![ask[r].id] = {Archive(d, ok, FALSE)}]
  /\ AskGoes(r, [ask[r] EXCEPT !.at = "arrived"])
  /\ UNCHANGED <<aged, pending, made, newest, staging, run, untidy, troubles>>

Name(r, id, n) ==
  /\ Serving /\ AskAt(r, "idle") /\ Free(id) /\ disk[n] # {}
  /\ disk' = [f \in DOMAIN disk |-> Swept(f)] /\ pending' = SweptPending /\ aged' = aged \ Stale
  /\ AskGoes(r, [at |-> "arrived", id |-> id, path |-> n])
  /\ UNCHANGED <<made, newest, staging, run, untidy, troubles>>

Busy(r) ==
  /\ AskAt(r, "arrived") /\ Locked /\ DropUpload(r) /\ AskGoes(r, NoAsk)
  /\ UNCHANGED <<aged, pending, made, newest, staging, run, untidy, troubles>>

Inspect(r) ==
  /\ AskAt(r, "arrived") /\ ~Locked /\ AskGoes(r, [ask[r] EXCEPT !.at = "inspecting"])
  /\ staging' = disk[ask[r].path] /\ untidy' = FALSE
  /\ UNCHANGED <<disk, aged, pending, made, newest, run, troubles>>

\* Mutant of Rejected: what was decrypted stays.
RejectedLeaving(r) ==
  /\ AskAt(r, "inspecting") /\ DropUpload(r) /\ AskGoes(r, NoAsk)
  /\ UNCHANGED <<aged, pending, made, newest, staging, run, untidy, troubles>>

\* A check fails, or the disk is full, or the database is away.
Rejected(r) ==
  /\ AskAt(r, "inspecting") /\ DropUpload(r) /\ AskGoes(r, NoAsk) /\ staging' = {}
  /\ UNCHANGED <<aged, pending, made, newest, run, untidy, troubles>>

\* The folders it would replace can't be moved: an upload stays where it is.
Stuck(r) ==
  /\ AskAt(r, "inspecting") /\ (\E a \in staging : a.sound) /\ AskGoes(r, NoAsk) /\ staging' = {}
  /\ UNCHANGED <<disk, aged, pending, made, newest, run, untidy, troubles>>

Offered(r) ==
  /\ AskAt(r, "inspecting") /\ AskGoes(r, NoAsk) /\ staging' = {}
  /\ \E a \in staging :
       /\ a.sound
       /\ pending' = [pending EXCEPT ![ask[r].id] =
            {[path |-> ask[r].path, asks |-> Phrase(a.made), fresh |-> disk[ask[r].path] = staging]}]
  /\ UNCHANGED <<disk, aged, made, newest, run, untidy, troubles>>

\* An upload goes with its entry; an archive of the backup directory stays.
Discard(id) ==
  /\ Serving /\ pending[id] # {} /\ pending' = [pending EXCEPT ![id] = {}]
  /\ disk' = IF \E p \in pending[id] : Staged(id, p.path) THEN Without(id) ELSE disk
  /\ UNCHANGED <<aged, made, newest, staging, ask, run, untidy, troubles>>

-----------------------------------------------------------------------------
(* The run.                                                                *)

\* The entry is read, and what was typed compared with it, before the locks.
Ask(r, id) ==
  /\ Serving /\ AskAt(r, "idle")
  /\ \E p \in pending[id] :
       disk[p.path] # {} /\ AskGoes(r, [at |-> "asked", id |-> id, path |-> p.path, typed |-> p.asks])
  /\ UNCHANGED <<disk, aged, pending, made, newest, staging, run, untidy, troubles>>

Begins(r) ==
  /\ AskAt(r, "asked") /\ AskGoes(r, NoAsk)
  /\ IF Locked THEN UNCHANGED run ELSE run' = RunOf(r)
  /\ UNCHANGED <<disk, aged, pending, made, newest, staging, untidy, troubles>>

Becomes(at) == run' = [run EXCEPT !.at = at]

\* Again, from the file itself.
Opens ==
  /\ run.at = "begun" /\ (\E a \in disk[run.path] : a.sound)
  /\ staging' = disk[run.path] /\ untidy' = FALSE /\ Becomes("opened")
  /\ UNCHANGED <<disk, aged, pending, made, newest, ask, troubles>>

\* Mutant of Confirms: what was typed fitted when the archive was inspected.
ConfirmsAsked ==
  /\ run.at = "opened" /\ Becomes("confirmed")
  /\ UNCHANGED <<disk, aged, pending, made, newest, staging, ask, untidy, troubles>>

Confirms ==
  /\ run.at = "opened" /\ (\A a \in staging : run.typed = Phrase(a.made)) /\ Becomes("confirmed")
  /\ UNCHANGED <<disk, aged, pending, made, newest, staging, ask, untidy, troubles>>

Spares(n) == {n, run.path}

\* The safety archive is written and recorded; of the earlier ones, the one
\* being restored is kept.
Saves(n) ==
  /\ run.at = "confirmed" /\ made < MaxMade /\ disk[n] = {}
  /\ made' = made + 1 /\ newest' = made + 1 /\ pending' = Outdated(Ids \ {run.id})
  /\ disk' = [f \in DOMAIN disk |->
       IF f = n THEN {Archive(made + 1, TRUE, TRUE)}
       ELSE IF f \in Names \ Spares(n) THEN {a \in disk[f] : ~a.safe} ELSE disk[f]]
  /\ Becomes("saved")
  /\ UNCHANGED <<aged, staging, ask, untidy, troubles>>

\* It cannot be verified: the file goes, its record stays.
SavedUnverified ==
  /\ run.at = "confirmed" /\ made < MaxMade
  /\ made' = made + 1 /\ newest' = made + 1 /\ pending' = Outdated(Ids \ {run.id})
  /\ Becomes("doomed")
  /\ UNCHANGED <<disk, aged, staging, ask, untidy, troubles>>

\* The database is replaced by what was unpacked.
LoadsStaging ==
  /\ run.at = "saved" /\ run' = [run EXCEPT !.at = "loaded", !.loads = staging]
  /\ UNCHANGED <<disk, aged, pending, made, newest, staging, ask, untidy, troubles>>

\* _finish: staging is emptied, an upload that was restored goes.
Tidied(ok, entries) ==
  /\ staging' = {} /\ run' = NoRestore /\ untidy' = FALSE
  /\ disk' = IF ok /\ Staged(run.id, run.path) THEN Without(run.id) ELSE disk
  /\ pending' = IF ok \/ disk[run.path] = {} THEN [pending EXCEPT ![run.id] = {}] ELSE entries
  /\ UNCHANGED <<aged, made, newest, ask, troubles>>

Succeeds == run.at = "loaded" /\ Tidied(TRUE, pending)

\* _refresh_phrase: its safety archive is the newest one now.
Refreshed ==
  [pending EXCEPT ![run.id] = {[p EXCEPT !.asks = IF staging = {} THEN @ ELSE Phrase((CHOOSE a \in staging : TRUE).made)] : p \in @}]

\* Before the archive was opened there is nothing to work the phrase out from.
Fails == Running /\ Tidied(FALSE, IF run.at = "begun" THEN pending ELSE Refreshed)

\* The tidying up raises before it has emptied anything; the locks are let go.
EndsUntidy ==
  /\ run.at # "none" /\ Trouble /\ run' = NoRestore /\ untidy' = (staging # {})
  /\ pending' = IF run.at \in {"begun", "loaded"} THEN Outdated({run.id}) ELSE Refreshed
  /\ UNCHANGED <<disk, aged, made, newest, staging, ask>>

-----------------------------------------------------------------------------
(* What else makes, deletes and ages archives, and restarts.               *)

RecordsMade(d) == newest' = IF d > newest THEN d ELSE newest

\* A backup into the backup directory: not beside a run.
Backup(n) ==
  /\ ~Running /\ made < MaxMade /\ disk[n] = {}
  /\ made' = made + 1 /\ RecordsMade(made + 1) /\ pending' = Outdated(Ids)
  /\ disk' = [disk EXCEPT ![n] = {Archive(made + 1, TRUE, FALSE)}]
  /\ UNCHANGED <<aged, staging, ask, run, untidy, troubles>>

\* A download is dated when it is begun and recorded when it is whole; it
\* takes no lock.
Fetch(r) ==
  /\ Serving /\ AskAt(r, "idle") /\ made < MaxMade /\ made' = made + 1
  /\ AskGoes(r, [at |-> "fetching", date |-> made + 1])
  /\ UNCHANGED <<disk, aged, pending, newest, staging, run, untidy, troubles>>

Fetched(r) ==
  /\ AskAt(r, "fetching") /\ AskGoes(r, NoAsk) /\ RecordsMade(ask[r].date) /\ pending' = Outdated(Ids)
  /\ UNCHANGED <<disk, aged, made, staging, run, untidy, troubles>>

\* By the owner, or by retention: under backup._run_lock.
DeleteStored(n) ==
  /\ ~Running /\ disk[n] # {} /\ disk' = Without(n)
  /\ UNCHANGED <<aged, pending, made, newest, staging, ask, run, untidy, troubles>>

\* On the share itself, by hand: another file under a name.
Overwrite(n, d, ok) ==
  /\ disk[n] # {} /\ d <= made /\ Trouble
  /\ disk' = [disk EXCEPT ![n] = {Archive(d, ok, FALSE)}]
  /\ pending' = Outdated({i \in Ids : \E p \in pending[i] : p.path = n})
  /\ UNCHANGED <<aged, made, newest, staging, ask, run, untidy>>

DayGoesBy ==
  /\ aged' = aged \union {i \in Ids : disk[i] \notin {{}, {Part}}} /\ aged' # aged
  /\ UNCHANGED <<disk, pending, made, newest, staging, ask, run, untidy, troubles>>

\* The ids are forgotten; startup empties staging and drops the uploads.
StartsAgain ==
  /\ Trouble /\ pending' = [i \in Ids |-> {}] /\ staging' = {} /\ aged' = {}
  /\ disk' = [f \in DOMAIN disk |-> IF f \in Ids THEN {} ELSE disk[f]]
  /\ ask' = [r \in Askers |-> NoAsk] /\ run' = NoRestore /\ untidy' = FALSE
  /\ UNCHANGED <<made, newest>>

ArchivesNext ==
  \/ \E r \in Askers :
       \/ \E i \in Ids : Arrive(r, i) \/ Ask(r, i) \/ \E n \in Names : Name(r, i, n)
       \/ \E d \in 0..MaxMade, ok \in BOOLEAN : Arrived(r, d, ok)
       \/ ArriveFails(r) \/ Busy(r) \/ Inspect(r) \/ Rejected(r) \/ Stuck(r) \/ Offered(r)
       \/ Begins(r) \/ Fetch(r) \/ Fetched(r)
  \/ \E i \in Ids : Discard(i)
  \/ Opens \/ Confirms \/ SavedUnverified \/ LoadsStaging \/ Succeeds \/ Fails \/ EndsUntidy
  \/ \E n \in Names : Saves(n) \/ Backup(n) \/ DeleteStored(n)
  \/ \E n \in Names, d \in 0..MaxMade, ok \in BOOLEAN : Overwrite(n, d, ok)
  \/ DayGoesBy \/ StartsAgain

ArchivesSpec == ArchivesInit /\ [][ArchivesNext]_archives

-----------------------------------------------------------------------------
(* What replaces the database is one archive that passed its checks, and   *)
(* an archive older than one the record held when the restore began is     *)
(* only taken with RESTORE OLDER, whatever was recorded or put under its   *)
(* name since it was inspected (restore._run, _confirm_age).               *)
AskedFor ==
  run.at = "loaded" =>
    /\ Cardinality(run.loads) = 1
    /\ \A a \in run.loads : a.sound /\ (a.made < run.was => run.typed = "RESTORE OLDER")

(* After a failed run the archive may be tried again with the phrase that  *)
(* is shown for it, though the failed run's safety archive is newer        *)
(* (restore._refresh_phrase), unless something was recorded since.         *)
RetryFits ==
  ~Running =>
    \A i \in Ids : \A p \in pending[i] :
      p.fresh => \A a \in disk[p.path] : p.asks = Phrase(a.made)

(* The collection is in staging, decrypted, only while an inspection or a  *)
(* run is at work, however either ends (restore._inspect, _finish).        *)
PlainAtWork == staging # {} => Locked \/ untidy

(* The archive a restore is made from is not taken from under it: not by   *)
(* its safety archive's pruning, the owner or retention                    *)
(* (backup.write_prerestore, routers/backup.delete_stored_backup).         *)
RestoredStays ==
  [][(Running /\ Running' /\ run.path \in Names) => (disk[run.path] # {} => disk'[run.path] # {})]_archives
=============================================================================
