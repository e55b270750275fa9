------------------------------ MODULE Sharing -------------------------------
(***************************************************************************)
(* The share links and the sharing switch, kept across a restore           *)
(* (services/restore.py, "share links, kept like sign-in data"), and the   *)
(* switch the gate reads from memory (services/share.py).  The archive     *)
(* brings links and a switch of its own: the owner's are snapshot before   *)
(* the database step, carried by the journal, and put back after it, or    *)
(* left in pending_sharing.json and tried again at every start, hourly     *)
(* tick and opening of Settings.                                           *)
(***************************************************************************)
EXTENDS Naturals, FiniteSets

CONSTANTS
  OwnerLinks, ArchiveLinks,
  Putters,      \* requests that PUT the switch in Settings
  Faults,       \* known defects whose circumstances are explored too (README, findings)
  MaxFailures, MaxCrashes, MaxReplaced, MaxPuts

\*   "switch_off"  _switch_sharing_off, after a failed put-back, fails as well
\*   "racing"      a second writer of the switch comes between a PUT's commit and
\*                 its write to memory, or puts links back while a read is under way
Loaders == {"hourly", "settings", "gate"}

ASSUME SharingAssumption ==
  /\ OwnerLinks \cap ArchiveLinks = {}
  /\ Faults \subseteq {"switch_off", "racing"}
  /\ {MaxFailures, MaxCrashes, MaxReplaced, MaxPuts} \subseteq Nat

VARIABLES
  links, switch,      \* share_links and share_enabled in the database
  memory,             \* share._enabled: "on", "off", or "unknown" (None)
  pending, journal,   \* the snapshot in pending_sharing.json, and in the journal
  snapshot,           \* `sharing` of the run: each of these holds one snapshot or none
  unkept,             \* this run's put-back failed (outcome["sharing"]["error"])
  phase,              \* what the process is doing about a restore
  put, load,          \* the PUTs and the reads into memory under way
  revoked,            \* the links the owner has revoked
  dropped,            \* those a put-back counted as dropped
  unsaved,            \* those of a snapshot that went neither back nor into a file
  untidy,             \* a restore's journal or pending snapshot has outlived it
  failures, crashes, restored, puts

database == <<links, switch>>
saved == <<pending, journal, snapshot, unkept>>
lost == <<dropped, unsaved>>
history == <<revoked, lost, untidy>>
bounds == <<failures, crashes, restored, puts>>
sharing == <<database, memory, saved, phase, put, load, history, bounds>>

Snapshot == [on : BOOLEAN, links : SUBSET OwnerLinks]
AtMostOne(S) == {T \in SUBSET S : Cardinality(T) <= 1}
Idle == [at |-> "idle", value |-> FALSE, moved |-> FALSE]
Word(b) == IF b THEN "on" ELSE "off"

SharingTypeOK ==
  /\ links \subseteq OwnerLinks \union ArchiveLinks /\ switch \in BOOLEAN
  /\ memory \in {"on", "off", "unknown"}
  /\ pending \in AtMostOne(Snapshot) /\ journal \in AtMostOne(Snapshot)
  /\ snapshot \in AtMostOne(Snapshot)
  /\ unkept \in BOOLEAN
  /\ phase \in {"open", "taken", "replaced", "back", "off", "boot", "load", "stuck"}
  /\ put \in [Putters -> [at : {"idle", "committed", "read"}, value : BOOLEAN, moved : {FALSE}]]
  /\ load \in [Loaders -> [at : {"idle", "apply", "look", "seen", "read"},
                           value : BOOLEAN, moved : BOOLEAN]]
  /\ revoked \subseteq OwnerLinks /\ dropped \subseteq OwnerLinks /\ unsaved \subseteq OwnerLinks
  /\ untidy \in BOOLEAN
  /\ failures \in 0 .. MaxFailures /\ crashes \in 0 .. MaxCrashes
  /\ restored \in 0 .. MaxReplaced /\ puts \in 0 .. MaxPuts

SharingInit ==
  /\ links = OwnerLinks /\ switch \in BOOLEAN
  /\ memory = Word(switch)
  /\ pending = {} /\ journal = {} /\ snapshot = {} /\ unkept = FALSE
  /\ phase = "open"
  /\ put = [p \in Putters |-> Idle] /\ load = [l \in Loaders |-> Idle]
  /\ revoked = {} /\ dropped = {} /\ unsaved = {} /\ untidy = FALSE
  /\ failures = 0 /\ crashes = 0 /\ restored = 0 /\ puts = 0

\* set_enabled and reset_memory move _generation: every read under way sees it.
Moved == [l \in Loaders |-> [load[l] EXCEPT !.moved = TRUE]]
SetMemory(word) == memory' = word /\ load' = Moved

CanFail == failures < MaxFailures /\ failures' = failures + 1
Quiet == \A p \in Putters : put[p].at = "idle"
OneWriter == Quiet \/ "racing" \in Faults
NoReader == (\A l \in Loaders : load[l].at \notin {"seen", "read"}) \/ "racing" \in Faults
Still == Quiet /\ \A l \in Loaders : load[l].at = "idle"

-----------------------------------------------------------------------------
\* The owner: revoking a link, and the switch (commit, read back, set memory).
Revoke(l) ==
  /\ phase = "open" /\ l \in links \cap OwnerLinks
  /\ links' = links \ {l} /\ revoked' = revoked \union {l}
  /\ UNCHANGED <<switch, memory, saved, phase, put, load, lost, untidy, bounds>>

PutCommit(p) ==
  /\ phase = "open" /\ put[p].at = "idle" /\ OneWriter
  /\ puts < MaxPuts /\ puts' = puts + 1
  /\ switch' \in BOOLEAN
  /\ put' = [put EXCEPT ![p].at = "committed"]
  /\ UNCHANGED <<links, memory, saved, phase, load, history, failures, crashes, restored>>

PutRead(p) ==
  /\ put[p].at = "committed"
  /\ put' = [put EXCEPT ![p].at = "read", ![p].value = switch]
  /\ UNCHANGED <<database, memory, saved, phase, load, history, bounds>>

PutSet(p) ==
  /\ put[p].at = "read"
  /\ SetMemory(Word(put[p].value))
  /\ put' = [put EXCEPT ![p] = Idle]
  /\ UNCHANGED <<database, saved, phase, history, bounds>>

-----------------------------------------------------------------------------
\* _put_back_sharing of s, in one transaction: a link stays away when its set
\* or checklist (by id and name), or the table itself, is not in this database.
PutBackOf(s) ==
  \E away \in SUBSET s.links :
    links' = s.links \ away /\ dropped' = dropped \union away /\ switch' = s.on

\* ... or sharing is switched off.
\* Mutant of SwitchedOff: the archive's links and switch are left in place.
LeftAsArchived == UNCHANGED <<database, dropped>>

SwitchedOff ==
  /\ UNCHANGED dropped
  /\ \/ links' = {} /\ switch' = FALSE
     \/ "switch_off" \in Faults /\ UNCHANGED database

\* apply_pending_sharing: memory follows the database only on success.
ApplyNothing == pending = {} /\ UNCHANGED <<database, memory, pending, dropped, untidy, failures>>

\* Mutant of ApplyPending: the pending file is not removed.
ApplyPendingAgain ==
  /\ \E s \in pending : PutBackOf(s) /\ memory' = Word(s.on)
  /\ UNCHANGED <<pending, untidy, failures>>

ApplyPending ==
  /\ \E s \in pending : PutBackOf(s) /\ memory' = Word(s.on)
  /\ pending' = {}
  /\ UNCHANGED <<untidy, failures>>

\* It fails, or all but the removal of the file does: that is tried again.
ApplyFails ==
  /\ pending # {} /\ CanFail
  /\ \/ SwitchedOff /\ UNCHANGED untidy
     \/ (\E s \in pending : PutBackOf(s)) /\ untidy' = TRUE
  /\ memory' = "off"
  /\ UNCHANGED pending

\* The hourly tick and GET Settings apply what is pending, then load; the
\* gate only loads, when memory holds nothing.
BeginLoad(l) ==
  /\ phase = "open" /\ load[l].at = "idle"
  /\ l = "gate" => memory = "unknown"
  /\ load' = [load EXCEPT ![l].at = IF l = "gate" THEN "look" ELSE "apply"]
  /\ UNCHANGED <<database, memory, saved, phase, put, history, bounds>>

ApplyFirst(l) ==
  /\ load[l].at = "apply" /\ (pending # {} => OneWriter /\ NoReader)
  /\ \/ (ApplyNothing \/ ApplyPending) /\ load' = [load EXCEPT ![l].at = "look"]
     \/ ApplyFails /\ load' = [Moved EXCEPT ![l].at = "look"]
  /\ UNCHANGED <<journal, snapshot, unkept, phase, put, revoked, unsaved, crashes, restored, puts>>

\* share.load: note the generation, read the database, write if it stands.
LoadLook(l) ==
  /\ load[l].at = "look"
  /\ load' = [load EXCEPT ![l].at = "seen", ![l].moved = FALSE]
  /\ UNCHANGED <<database, memory, saved, phase, put, history, bounds>>

LoadRead(l) ==
  /\ load[l].at = "seen"
  /\ load' = [load EXCEPT ![l].at = "read", ![l].value = switch]
  /\ UNCHANGED <<database, memory, saved, phase, put, history, bounds>>

LoadStore(l) ==
  /\ load[l].at = "read"
  /\ memory' = IF load[l].moved /\ memory # "unknown" THEN memory ELSE Word(load[l].value)
  /\ load' = [load EXCEPT ![l] = Idle]
  /\ UNCHANGED <<database, saved, phase, put, history, bounds>>

-----------------------------------------------------------------------------
\* A restore, once its requests and loops have drained: what to put back is
\* what an earlier restore left pending, else what the table holds.
TakeSnapshot ==
  /\ phase = "open" /\ Still
  /\ restored < MaxReplaced /\ restored' = restored + 1
  /\ snapshot' = IF pending # {} THEN pending ELSE {[on |-> switch, links |-> links]}
  /\ unkept' = FALSE
  /\ phase' = "taken"
  /\ UNCHANGED <<database, memory, pending, journal, put, load, history, failures, crashes, puts>>

\* The database is the archive's; the journal has carried the snapshot since before.
Replace ==
  /\ phase = "taken"
  /\ links' = ArchiveLinks /\ switch' \in BOOLEAN
  /\ journal' = snapshot
  /\ phase' = "replaced"
  /\ UNCHANGED <<memory, pending, snapshot, unkept, put, load, history, bounds>>

\* Refused, or failed before the database step: nothing to put back.
NotReplaced ==
  /\ phase = "taken"
  /\ phase' = "back"
  /\ UNCHANGED <<database, memory, saved, put, load, history, bounds>>

\* A pending file that cannot be removed stays: the failure is only logged.
PutBack ==
  /\ phase = "replaced"
  /\ \E s \in snapshot : PutBackOf(s)
  /\ \/ pending' = {} /\ UNCHANGED <<untidy, failures>>
     \/ pending # {} /\ CanFail /\ untidy' = TRUE /\ UNCHANGED pending
  /\ phase' = "back"
  /\ UNCHANGED <<memory, journal, snapshot, unkept, put, load, revoked, unsaved, crashes, restored, puts>>

\* The snapshot goes into the pending file; a write that fails is only logged,
\* and what an earlier restore left there is this very snapshot.
PutBackFails ==
  /\ phase = "replaced"
  /\ SwitchedOff
  /\ SetMemory("off")
  /\ \/ CanFail /\ pending' = snapshot /\ UNCHANGED unsaved
     \/ /\ failures + 2 <= MaxFailures /\ failures' = failures + 2
        /\ unsaved' = unsaved \union UNION {s.links : s \in snapshot \ pending}
        /\ UNCHANGED pending
  /\ unkept' = TRUE
  /\ phase' = "back"
  /\ UNCHANGED <<journal, snapshot, put, revoked, untidy, crashes, restored, puts>>

\* _finish: the journal goes, and memory is read again (or forgotten).  The
\* snapshot was the run's, and goes with it.
TidiesUp ==
  /\ phase = "back"
  /\ journal' = {} /\ snapshot' = {}
  /\ \/ unkept /\ SetMemory("off") /\ UNCHANGED failures
     \/ ~unkept /\ memory' = Word(switch) /\ UNCHANGED <<load, failures>>
     \/ ~unkept /\ CanFail /\ SetMemory("unknown")
  /\ phase' = "open"
  /\ UNCHANGED <<database, pending, unkept, put, history, crashes, restored, puts>>

\* Tidying up raises before it has come to the journal: that stays, and
\* memory is not read again.
TidyingFails ==
  /\ phase = "back"
  /\ CanFail
  /\ untidy' = TRUE
  /\ IF unkept THEN SetMemory("off") ELSE UNCHANGED <<memory, load>>
  /\ snapshot' = {}
  /\ phase' = "open"
  /\ UNCHANGED <<database, pending, journal, unkept, put, revoked, lost, crashes, restored, puts>>

-----------------------------------------------------------------------------
\* A stop: before the database was replaced, recover finds nothing to put back.
Halts ==
  /\ phase # "off"
  /\ crashes < MaxCrashes /\ crashes' = crashes + 1
  /\ phase' = "off"
  /\ memory' = "unknown" /\ snapshot' = {} /\ unkept' = FALSE
  /\ put' = [p \in Putters |-> Idle] /\ load' = [l \in Loaders |-> Idle]
  /\ UNCHANGED <<database, pending, journal, history, failures, restored, puts>>

\* Mutant of KeepSnapshot: a journal without a snapshot clears the pending one.
KeepJournal ==
  /\ phase = "off"
  /\ pending' = journal /\ journal' = {}
  /\ phase' = "boot"
  /\ UNCHANGED <<database, memory, snapshot, unkept, put, load, history, bounds>>

\* recover, _keep_snapshot: the journal's snapshot becomes the pending one.
KeepSnapshot ==
  /\ phase = "off"
  /\ pending' = IF journal # {} THEN journal ELSE pending
  /\ journal' = {}
  /\ phase' = "boot"
  /\ UNCHANGED <<database, memory, snapshot, unkept, put, load, history, bounds>>

\* It cannot be written: 503 until a restart, which Halts is.
KeepFails ==
  /\ phase = "off" /\ journal # {}
  /\ CanFail
  /\ phase' = "stuck"
  /\ UNCHANGED <<database, memory, saved, put, load, history, crashes, restored, puts>>

\* lifespan: apply_pending_sharing, then _load_sharing, then requests.
BootApply ==
  /\ phase = "boot"
  /\ \/ (ApplyNothing \/ ApplyPending) /\ UNCHANGED load
     \/ ApplyFails /\ load' = Moved
  /\ phase' = "load"
  /\ UNCHANGED <<journal, snapshot, unkept, put, revoked, unsaved, crashes, restored, puts>>

BootLoad ==
  /\ phase = "load"
  /\ \/ memory' = Word(switch) /\ UNCHANGED failures
     \/ CanFail /\ UNCHANGED memory
  /\ phase' = "open"
  /\ UNCHANGED <<database, saved, put, load, history, crashes, restored, puts>>

-----------------------------------------------------------------------------
Reads(l) == BeginLoad(l) \/ ApplyFirst(l) \/ LoadLook(l) \/ LoadRead(l) \/ LoadStore(l)
Restoring == Replace \/ NotReplaced \/ PutBack \/ PutBackFails \/ TidiesUp \/ TidyingFails
Starting == KeepSnapshot \/ KeepFails \/ BootApply \/ BootLoad

SharingNext ==
  \/ \E l \in OwnerLinks : Revoke(l)
  \/ \E p \in Putters : PutCommit(p) \/ PutRead(p) \/ PutSet(p)
  \/ \E l \in Loaders : Reads(l)
  \/ TakeSnapshot \/ Restoring \/ Halts \/ Starting

SharingSpec == SharingInit /\ [][SharingNext]_sharing

\* The restore, startup and requests run on, and the hourly tick comes round.
SharingFairSpec ==
  /\ SharingSpec
  /\ WF_sharing(Restoring) /\ WF_sharing(Starting) /\ WF_sharing(Reads("hourly"))
  /\ \A p \in Putters : WF_sharing(PutRead(p) \/ PutSet(p))
  /\ \A l \in Loaders : WF_sharing(LoadLook(l) \/ LoadRead(l) \/ LoadStore(l))

-----------------------------------------------------------------------------
(* Properties.                                                             *)

\* No link of the archive's opens: whenever requests are answered with
\* sharing on, the table holds none of them ("the archive's links are its
\* own, and must not open", _put_back_sharing; "so the load below never reads
\* the archive's switch", scheduled._hourly).
ArchiveLinksClosed == phase = "open" /\ memory = "on" => links \cap ArchiveLinks = {}

\* A link the owner revoked is gone for good, through restores and restarts,
\* unless a journal or a pending snapshot could not be removed: the next start
\* or tick puts back what it says.
RevokedStaysRevoked == phase = "open" /\ ~untidy => links \cap revoked = {}

\* Once every PUT has been answered, sharing is on in memory only if it is
\* on in the database: "a stale read can't switch sharing back on after the
\* owner switched it off" (services/share.py).  A restore whose tidying up
\* failed leaves memory as it was before, until it is read again.
OffStaysOff == phase = "open" /\ Quiet /\ ~untidy /\ memory = "on" => switch

\* The owner's links are in the table, or in a snapshot that will be put back,
\* through failed put-backs and stops.  One is gone only when it was revoked,
\* when a put-back counted it as dropped, or when its put-back and the write of
\* pending_sharing.json failed in one restore.
Lives(l) == l \in links \/ \E s \in pending \union journal \union snapshot : l \in s.links
LinksKept == \A l \in OwnerLinks \ (revoked \union dropped \union unsaved) : Lives(l)

\* "If the links can't be put back at all ... the links from before are kept in
\* pending_sharing.json on the state volume, to be tried again at the next start
\* and every hour until they go back" (docs/backup-restore.md).  Violated: the
\* write of that file may fail too, and the journal is removed all the same.
LinksTriedAgain == \A l \in OwnerLinks \ (revoked \union dropped) : Lives(l)

\* What is pending is put back in the end, by a start or an hourly tick, or
\* the backend waits behind 503 for a restart.
PendingEnds == pending # {} ~> (pending = {} \/ phase = "stuck")
=============================================================================
