------------------------------ MODULE Backups -------------------------------
(***************************************************************************)
(* Backups into the backup directory (services/backup.py, archive_keys.py, *)
(* routers/backup.py, and the backup of scheduled.py's hourly tick): the   *)
(* run lock, an archive written as ciphertext under a partial name and put *)
(* in place whole, retention, the outcome a schedule reads, the safety     *)
(* archive of a restore, the owner's deletions, and the key's rotation.    *)
(* Every step another thread or a crash can fall between is one step; an   *)
(* hour is one tick, and what is stored has an age instead of a date.      *)
(***************************************************************************)
EXTENDS Naturals, SequencesExt

CONSTANTS
  Workers,    \* threads that answer requests
  Ticker,     \* the scheduler's thread
  MaxFiles,   \* archives in the directory for which more is asked of it
  MaxIdentities,    \* identities ever made
  Interval,   \* ticks between scheduled runs (24 or 168 in the code)
  Retention,  \* in ticks; 0 keeps everything
  Keep,       \* PRERESTORE_KEEP
  MaxTroubles \* crashes and restores

ASSUME BackupsAssumption ==
  /\ {MaxFiles, MaxIdentities, Retention, Keep, MaxTroubles} \subseteq Nat
  /\ Interval \in Nat \ {0} /\ Ticker \notin Workers

VARIABLES
  dir,      \* archives under their own names, newest first
  partial,  \* a partial file is there
  lock,     \* who holds backup._run_lock, {} for nobody
  last,     \* backup_last_run: {} or one outcome with its age
  keys,     \* the key file's identities, the first encrypting
  rotating, \* what a rotate command has read, <<>> for none
  job,      \* what each thread works on
  troubles,
  took      \* hours a run has held the lock: its outcome has the date of its beginning

vars == <<dir, partial, lock, last, keys, rotating, job, troubles, took>>

All == Workers \union {Ticker}
Idle == [at |-> "idle"]
Kinds == {"full", "data"}
OldAge == Retention + 1
Places(set) == {i \in DOMAIN dir : dir[i].id \in set}
Stored == {dir[i].id : i \in DOMAIN dir}
NewId == CHOOSE id \in 1..(Len(dir) + 1) : id \notin Stored
\* Some of the archives, in their order.
Those(places) ==
  [n \in 1..Cardinality(places) |->
     dir[CHOOSE i \in places : Cardinality({j \in places : j <= i}) = n]]
OfKind(k) == Those({i \in DOMAIN dir : dir[i].kind = k})
Ids(seq) == {seq[i].id : i \in DOMAIN seq}
Removed(set) == Those({i \in DOMAIN dir : dir[i].id \notin set})
At(w, at) == job[w].at = at
Goto(w, at) == job' = [job EXCEPT ![w].at = at]
Release(w) == lock' = {} /\ took' = 0 /\ job' = [job EXCEPT ![w] = Idle]
Made == Len(keys)

\* backup_due: after a success the interval, after a failure one hour.
Due == \A o \in last : o.age >= IF o.ok THEN Interval ELSE 1

Init ==
  /\ dir = <<>> /\ partial = FALSE /\ lock = {} /\ last = {} /\ keys = <<1>> /\ rotating = <<>>
  /\ job = [w \in All |-> Idle] /\ troubles = 0 /\ took = 0

-----------------------------------------------------------------------------
(* A run: the lock, the archive, retention, the outcome.                   *)

Takes(w, kind, for, held) ==
  /\ job[w] = Idle /\ lock = {} /\ lock' = {w}
  /\ job' = [job EXCEPT ![w] = [at |-> "begun", kind |-> kind, for |-> for, protect |-> held,
                                id |-> 0, enc |-> 0, mac |-> 0, todo |-> {}]]

RunManual(w, kind) ==
  /\ w \in Workers /\ Len(dir) < MaxFiles /\ Takes(w, kind, "manual", {})
  /\ UNCHANGED <<dir, partial, last, keys, rotating, troubles, took>>

\* With the photos, as its setting is; a tick that finds the lock taken gives
\* up until the next.
RunScheduled ==
  /\ Due /\ Takes(Ticker, "full", "scheduled", {})
  /\ UNCHANGED <<dir, partial, last, keys, rotating, troubles, took>>

\* A restore holds the lock from its safety archive to its end.
RunRestore(w, id) ==
  /\ w \in Workers /\ troubles < MaxTroubles /\ troubles' = troubles + 1
  /\ id \in Stored /\ Len(dir) < MaxFiles /\ Takes(w, "safety", "restore", {id})
  /\ UNCHANGED <<dir, partial, last, keys, rotating, took>>

\* The key is read to encrypt, and read again to sign.
Encrypt(w) ==
  /\ At(w, "begun") /\ job' = [job EXCEPT ![w].at = "writing", ![w].enc = keys[1]]
  /\ partial' = TRUE /\ UNCHANGED <<dir, lock, last, keys, rotating, troubles, took>>

Sign(w) ==
  /\ At(w, "writing") /\ job' = [job EXCEPT ![w].at = "signed", ![w].mac = keys[1]]
  /\ UNCHANGED <<dir, partial, lock, last, keys, rotating, troubles, took>>

Place(w) ==
  /\ At(w, "signed") /\ partial' = FALSE
  /\ dir' = <<[id |-> NewId, kind |-> job[w].kind, age |-> 0, enc |-> job[w].enc, mac |-> job[w].mac]>> \o dir
  /\ job' = [job EXCEPT ![w].at = IF job[w].for = "restore" THEN "verify" ELSE "placed", ![w].id = NewId]
  /\ UNCHANGED <<lock, last, keys, rotating, troubles, took>>

\* pg_dump, age, the disk or the key fails; what was partly written goes.
WriteFails(w) ==
  /\ job[w].at \in {"begun", "writing", "signed"} /\ partial' = FALSE
  /\ IF job[w].for = "restore" THEN Release(w) ELSE Goto(w, "failed") /\ UNCHANGED <<lock, took>>
  /\ UNCHANGED <<dir, last, keys, rotating, troubles>>

\* prune: past the retention, but for the newest of each kind.
Expired(k) ==
  LET old == OfKind(k) IN
  {old[i].id : i \in {j \in DOMAIN old : j > 1 /\ Retention > 0 /\ old[j].age > Retention}}

BeyondKeep == LET safe == OfKind("safety") IN {safe[i].id : i \in {j \in DOMAIN safe : j > Keep}}

PruneLists(w) ==
  /\ At(w, "placed")
  /\ job' = [job EXCEPT ![w].at = "prune",
                        ![w].todo = (UNION {Expired(k) : k \in Kinds}) \union BeyondKeep]
  /\ UNCHANGED <<dir, partial, lock, last, keys, rotating, troubles, took>>

PruneOne(w) ==
  /\ At(w, "prune") /\ job[w].todo # {}
  /\ LET id == CHOOSE id \in job[w].todo : TRUE IN
       /\ dir' = Removed({id}) /\ job' = [job EXCEPT ![w].todo = @ \ {id}]
  /\ UNCHANGED <<partial, lock, last, keys, rotating, troubles, took>>

\* The archive's row in the ledger, the listing, a removal, or the outcome
\* fails: the archive stays, and the rest of the list.
PruneFails(w) ==
  /\ job[w].at \in {"placed", "prune"} /\ Len(dir) <= MaxFiles /\ Goto(w, "failed")
  /\ UNCHANGED <<dir, partial, lock, last, keys, rotating, troubles, took>>

\* Leftover partial files go too: only the lock's holder writes one.
Succeeds(w) ==
  /\ At(w, "prune") /\ job[w].todo = {} /\ partial' = FALSE
  /\ last' = {[age |-> took, ok |-> TRUE]} /\ Release(w)
  /\ UNCHANGED <<dir, keys, rotating, troubles>>

\* Mutant of Fails: the lock is given back by a success only.
FailsHolding(w) ==
  /\ At(w, "failed") /\ last' \in {last, {[age |-> took, ok |-> FALSE]}} /\ job' = [job EXCEPT ![w] = Idle]
  /\ UNCHANGED <<dir, partial, lock, keys, rotating, troubles, took>>

\* A BackupError or an OSError is recorded; any other exception, of the
\* database say, gives the lock back and leaves the outcome before.
Fails(w) ==
  /\ At(w, "failed") /\ last' \in {last, {[age |-> took, ok |-> FALSE]}} /\ Release(w)
  /\ UNCHANGED <<dir, partial, keys, rotating, troubles>>

\* With the lock taken and before the try that gives it back, the setting is
\* read: an exception there leaves the lock held by nobody.
SettingUnread(w) ==
  /\ At(w, "begun") /\ job[w].for # "restore" /\ Goto(w, "lost")
  /\ UNCHANGED <<dir, partial, lock, last, keys, rotating, troubles, took>>

-----------------------------------------------------------------------------
(* The restore's safety archive: verified, then the older ones pruned.     *)

VerifyFails(w) ==
  /\ At(w, "verify") /\ dir' = Removed({job[w].id}) /\ Release(w)
  /\ UNCHANGED <<partial, last, keys, rotating, troubles>>

Spared(w) == job[w].protect

Verified(w) ==
  /\ At(w, "verify") /\ dir' = Removed(BeyondKeep \ Spared(w)) /\ Goto(w, "restoring")
  /\ UNCHANGED <<partial, lock, last, keys, rotating, troubles, took>>

\* The database restored brings the outcome it was saved with.
RestoreEnds(w) ==
  /\ At(w, "restoring") /\ Release(w) /\ last' \in {last, {}}
  /\ UNCHANGED <<dir, partial, keys, rotating, troubles>>

-----------------------------------------------------------------------------
(* The owner, the key, crashes and time.                                   *)

\* Refused while the lock is held.
DeleteStored(id) ==
  /\ lock = {} /\ id \in Stored /\ dir' = Removed({id})
  /\ UNCHANGED <<partial, lock, last, keys, rotating, job, troubles, took>>

\* The container's rotate command: the identities are read, the file is
\* replaced whole, the new one first.  One command at a time.
RotateReads ==
  /\ rotating = <<>> /\ Made < MaxIdentities /\ rotating' = keys
  /\ UNCHANGED <<dir, partial, lock, last, keys, job, troubles, took>>

\* Mutant of RotateWrites: the new identity alone.
RotateAlone ==
  /\ rotating # <<>> /\ keys' = <<Made + 1>> /\ rotating' = <<>>
  /\ UNCHANGED <<dir, partial, lock, last, job, troubles, took>>

RotateWrites ==
  /\ rotating # <<>> /\ keys' = <<Made + 1>> \o rotating /\ rotating' = <<>>
  /\ UNCHANGED <<dir, partial, lock, last, job, troubles, took>>

Crash ==
  /\ troubles < MaxTroubles /\ troubles' = troubles + 1
  /\ lock' = {} /\ took' = 0 /\ job' = [w \in All |-> Idle]
  /\ UNCHANGED <<dir, partial, last, keys, rotating>>

\* A restore records nothing, nor does a run that is lost.
Records(w) == job[w].at \notin {"idle", "lost"} /\ job[w].for # "restore"

Older(age, most) == IF age < most THEN age + 1 ELSE age
Tick ==
  /\ dir' = [i \in DOMAIN dir |-> [dir[i] EXCEPT !.age = Older(@, OldAge)]]
  /\ last' = {[o EXCEPT !.age = Older(@, Interval)] : o \in last}
  /\ took' = IF \E w \in lock : Records(w) THEN Older(took, Interval) ELSE 0
  /\ UNCHANGED <<partial, lock, keys, rotating, job, troubles>>

Step(w) ==
  \/ Encrypt(w) \/ Sign(w) \/ Place(w) \/ WriteFails(w)
  \/ PruneLists(w) \/ PruneOne(w) \/ PruneFails(w) \/ Succeeds(w) \/ Fails(w) \/ SettingUnread(w)
  \/ VerifyFails(w) \/ Verified(w) \/ RestoreEnds(w)

Next ==
  \/ \E w \in All : Step(w) \/ \E k \in Kinds : RunManual(w, k)
  \/ \E w \in Workers, id \in Stored : RunRestore(w, id)
  \/ RunScheduled \/ RotateReads \/ RotateWrites \/ Crash \/ Tick
  \/ \E id \in Stored : DeleteStored(id)

\* A thread goes on working, and the hourly tick comes again and again.
Fairness == WF_vars(RunScheduled) /\ \A w \in All : WF_vars(Step(w))

Spec == Init /\ [][Next]_vars /\ Fairness

-----------------------------------------------------------------------------
(* What is under an archive's own name is a whole, signed archive, at any  *)
(* moment and after any crash (backup._write_encrypted).                   *)
WholeOnly == \A i \in DOMAIN dir : dir[i].mac # 0

(* Every archive stored can be opened with the key file as it is, and its  *)
(* MAC checked: rotations, even between the encrypting and the signing of  *)
(* one archive, keep what they replace (archive_keys.rotate).              *)
ArchivesOpen == \A i \in DOMAIN dir : {dir[i].enc, dir[i].mac} \ {0} \subseteq Range(keys)

(* What retention is about to delete, and what it has deleted, leaves the  *)
(* newest archive of its kind: a schedule that stopped never leaves        *)
(* nothing (backup.prune).                                                 *)
NewestStays ==
  \A w \in All, k \in Kinds :
    OfKind(k) # <<>> /\ At(w, "prune") => OfKind(k)[1].id \notin job[w].todo

Begun == \E w \in All : job[w] = Idle /\ job'[w] # Idle /\ job'[w].for # "restore"

\* "A failed run is retried within the hour" (docs/backup-restore.md:53): a
\* backup does not stay due without a run being begun, again and again,
\* whatever fails in which order and whether or not the failure is recorded.
DueIsRetried == []<>~Due \/ []<><<Begun>>_vars

\* The same, but for a lock that a run did not give back (SettingUnread).
DueIsTried == []<>(~Due \/ \E w \in All : At(w, "lost")) \/ []<><<Begun>>_vars
=============================================================================
