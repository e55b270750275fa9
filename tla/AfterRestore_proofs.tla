--------------------------- MODULE AfterRestore_proofs ------------------------
(***************************************************************************)
(* What AfterRestore puts together, each part for any constants and by an  *)
(* invariant of its own.  A behaviour has one of the four at work, so a    *)
(* theorem is about the steps of one.                                      *)
(***************************************************************************)
EXTENDS AfterRestore, FiniteSetTheorems, TLAPS

-----------------------------------------------------------------------------
(***************************************************************************)
(* The share links through restores, for any links, requests and bounds,   *)
(* where _switch_sharing_off does not fail: LinkInv says of each phase     *)
(* where the owner's links are and what a snapshot holds, and is preserved *)
(* by each action (one lemma per action that touches links or snapshots,   *)
(* SharingTypeOK first).                                                   *)
(***************************************************************************)

Snapshots == pending \union journal \union snapshot
Down == {"off", "stuck", "boot"}
Kept == OwnerLinks \ (revoked \union dropped \union unsaved)

\* A restore at work has taken its snapshot, and the journal carries it from
\* the database step on.
Carried ==
  /\ phase \in {"taken", "replaced"} => snapshot # {}
  /\ phase = "replaced" => journal = snapshot /\ links = ArchiveLinks
  /\ phase = "stuck" => journal # {}

\* A snapshot has each of the owner's links that was not revoked or lost ...
SnapshotsCover == \A s \in Snapshots : Kept \subseteq s.links

\* ... and where the table has not, what will be put back is still to come.
\* Tables of the archive's links likewise.
ToComeBack == phase = "replaced" \/ (phase \in {"off", "stuck"} /\ journal # {})
OwnersSafe == Kept \subseteq links \/ pending # {} \/ ToComeBack
OwnersOnly == links \subseteq OwnerLinks \/ (pending # {} /\ phase \in Down) \/ ToComeBack

\* While a snapshot is pending the owner has no link there to revoke.
NoneToRevoke == pending # {} /\ phase \notin Down /\ ~untidy => links \cap OwnerLinks = {}

\* With every restore tidied up, nothing that is put back was revoked.
RevokedGone ==
  ~untidy =>
    /\ links \cap revoked = {}
    /\ \A s \in pending \union journal : s.links \cap revoked = {}
    /\ phase \in {"taken", "replaced"} => \A s \in snapshot : s.links \cap revoked = {}
    /\ phase \in {"open", "taken", "boot", "load"} => journal = {}

\* A restore waits for the reads, and none begins beside it.
NoneLoading == phase # "open" => \A l \in Loaders : load[l].at = "idle"

LinkInv ==
  /\ SharingTypeOK /\ NoneLoading /\ Carried /\ SnapshotsCover /\ OwnersSafe /\ OwnersOnly /\ NoneToRevoke /\ RevokedGone

-----------------------------------------------------------------------------
LEMMA OneAtMost == \A T : T \in AtMostOne(Snapshot) => T \subseteq Snapshot
  BY DEF AtMostOne

LEMMA NoneIsAtMostOne == {} \in AtMostOne(Snapshot)
  BY FS_EmptySet DEF AtMostOne

LEMMA SnapshotsType ==
  ASSUME SharingTypeOK
  PROVE  \A s \in Snapshots : s \in Snapshot /\ s.links \subseteq OwnerLinks /\ s.on \in BOOLEAN
<1>1. \A s \in Snapshots : s \in Snapshot
  BY OneAtMost DEF SharingTypeOK, Snapshots
<1>2. \A s \in Snapshot : s.links \subseteq OwnerLinks /\ s.on \in BOOLEAN
  BY DEF Snapshot
<1>3. QED BY <1>1, <1>2

\* Every read under way is told.
LEMMA MovedType ==
  ASSUME SharingTypeOK
  PROVE  /\ Moved \in [Loaders -> [at : {"idle", "apply", "look", "seen", "read"}, value : BOOLEAN, moved : BOOLEAN]]
         /\ \A l \in Loaders : Moved[l].at = load[l].at
  BY DEF SharingTypeOK, Moved

LEMMA InitLinks == SharingInit => LinkInv
<1> SUFFICES ASSUME SharingInit PROVE LinkInv
  OBVIOUS
<1>1. SharingTypeOK
  <2>1. links \subseteq OwnerLinks \union ArchiveLinks /\ switch \in BOOLEAN /\ memory \in {"on", "off", "unknown"}
    BY DEF SharingInit, Word
  <2>2. /\ pending \in AtMostOne(Snapshot) /\ journal \in AtMostOne(Snapshot) /\ snapshot \in AtMostOne(Snapshot)
        /\ unkept \in BOOLEAN /\ untidy \in BOOLEAN /\ revoked \subseteq OwnerLinks
        /\ dropped \subseteq OwnerLinks /\ unsaved \subseteq OwnerLinks /\ phase = "open"
    BY NoneIsAtMostOne DEF SharingInit
  <2>3. put \in [Putters -> [at : {"idle", "committed", "read"}, value : BOOLEAN, moved : {FALSE}]]
    BY DEF SharingInit, Idle
  <2>4. load \in [Loaders -> [at : {"idle", "apply", "look", "seen", "read"}, value : BOOLEAN, moved : BOOLEAN]]
    BY DEF SharingInit, Idle
  <2>5. /\ failures \in 0 .. MaxFailures /\ crashes \in 0 .. MaxCrashes
        /\ restored \in 0 .. MaxReplaced /\ puts \in 0 .. MaxPuts
    BY SharingAssumption DEF SharingInit
  <2>6. QED BY <2>1, <2>2, <2>3, <2>4, <2>5 DEF SharingTypeOK
<1>2. QED
  BY <1>1 DEF LinkInv, NoneLoading, SharingInit, Carried, SnapshotsCover, OwnersSafe, OwnersOnly, NoneToRevoke, RevokedGone,
              Snapshots, Kept

\* Steps that leave the links and the snapshots alone.
LEMMA SameLinks ==
  ASSUME LinkInv, SharingTypeOK', NoneLoading', UNCHANGED <<links, pending, journal, snapshot, phase, revoked, dropped, unsaved, untidy>>
  PROVE  LinkInv'
  BY DEF LinkInv, Carried, SnapshotsCover, OwnersSafe, OwnersOnly, NoneToRevoke, RevokedGone, Snapshots, Kept, ToComeBack

-----------------------------------------------------------------------------
\* The owner revokes a link: nothing is pending then, and the journal is empty
\* where every restore was tidied up.
LEMMA RevokeKeeps ==
  ASSUME LinkInv, NEW l \in OwnerLinks, Revoke(l)
  PROVE  LinkInv'
<1>1. phase = "open" /\ l \in links \cap OwnerLinks /\ links' = links \ {l} /\ revoked' = revoked \union {l}
      /\ UNCHANGED <<switch, memory, pending, journal, snapshot, unkept, phase, put, load, dropped, unsaved, untidy, failures,
                     crashes, restored, puts>>
  BY DEF Revoke, saved, bounds, lost
<1>2. SharingTypeOK' /\ NoneLoading'
  BY <1>1 DEF LinkInv, SharingTypeOK, NoneLoading
<1>3. ~untidy => pending = {}
  BY <1>1 DEF LinkInv, NoneToRevoke, Down
<1>4. Carried' /\ SnapshotsCover' /\ NoneToRevoke'
  BY <1>1, <1>3 DEF LinkInv, Carried, SnapshotsCover, NoneToRevoke, Snapshots, Kept
<1>5. OwnersSafe' /\ OwnersOnly'
  BY <1>1, <1>3 DEF LinkInv, OwnersSafe, OwnersOnly, ToComeBack, Kept
<1>6. RevokedGone'
  BY <1>1, <1>3 DEF LinkInv, RevokedGone
<1>7. QED BY <1>2, <1>4, <1>5, <1>6 DEF LinkInv

\* A request that sets the switch.
LEMMA PutKeeps ==
  ASSUME LinkInv, NEW p \in Putters, PutCommit(p) \/ PutRead(p) \/ PutSet(p)
  PROVE  LinkInv'
<1>1. CASE PutCommit(p)
  <2>1. SharingTypeOK' /\ NoneLoading'
    <3>1. puts' \in 0 .. MaxPuts
      BY <1>1, SharingAssumption DEF PutCommit, LinkInv, SharingTypeOK
    <3>2. put' \in [Putters -> [at : {"idle", "committed", "read"}, value : BOOLEAN, moved : {FALSE}]]
      BY <1>1 DEF PutCommit, LinkInv, SharingTypeOK
    <3>3. QED BY <1>1, <3>1, <3>2 DEF PutCommit, saved, history, lost, LinkInv, SharingTypeOK, NoneLoading
  <2>2. QED BY <1>1, <2>1, SameLinks DEF PutCommit, saved, history, lost
<1>2. CASE PutRead(p)
  <2>1. SharingTypeOK' /\ NoneLoading'
    BY <1>2 DEF PutRead, database, saved, history, lost, bounds, LinkInv, SharingTypeOK, NoneLoading
  <2>2. QED BY <1>2, <2>1, SameLinks DEF PutRead, database, saved, history, lost
<1>3. CASE PutSet(p)
  <2>1. put' \in [Putters -> [at : {"idle", "committed", "read"}, value : BOOLEAN, moved : {FALSE}]]
        /\ memory' \in {"on", "off"} /\ load' = Moved
    BY <1>3 DEF PutSet, SetMemory, Word, Idle, LinkInv, SharingTypeOK
  <2>2. SharingTypeOK' /\ NoneLoading'
    BY <1>3, <2>1, MovedType DEF PutSet, database, saved, history, lost, bounds, LinkInv, SharingTypeOK, NoneLoading
  <2>3. QED BY <1>3, <2>2, SameLinks DEF PutSet, database, saved, history, lost
<1>4. QED BY <1>1, <1>2, <1>3

\* A read of the switch into memory.
LEMMA LoadKeeps ==
  ASSUME LinkInv, NEW l \in Loaders, BeginLoad(l) \/ LoadLook(l) \/ LoadRead(l) \/ LoadStore(l)
  PROVE  LinkInv'
<1>1. phase = "open"
  BY DEF BeginLoad, LoadLook, LoadRead, LoadStore, LinkInv, NoneLoading
<1>2. /\ UNCHANGED <<database, saved, phase, put, history, bounds>> /\ memory' \in {"on", "off", "unknown"}
      /\ load' \in [Loaders -> [at : {"idle", "apply", "look", "seen", "read"}, value : BOOLEAN, moved : BOOLEAN]]
  <2>1. CASE BeginLoad(l)
    BY <2>1 DEF BeginLoad, LinkInv, SharingTypeOK
  <2>2. CASE LoadLook(l)
    BY <2>2 DEF LoadLook, LinkInv, SharingTypeOK
  <2>3. CASE LoadRead(l)
    BY <2>3 DEF LoadRead, LinkInv, SharingTypeOK
  <2>4. CASE LoadStore(l)
    BY <2>4 DEF LoadStore, Word, Idle, LinkInv, SharingTypeOK
  <2>5. QED BY <2>1, <2>2, <2>3, <2>4
<1>3. SharingTypeOK' /\ NoneLoading'
  BY <1>1, <1>2 DEF database, saved, history, lost, bounds, LinkInv, SharingTypeOK, NoneLoading
<1>4. QED BY <1>2, <1>3, SameLinks DEF database, saved, history, lost

-----------------------------------------------------------------------------
\* What is pending goes into the table whole, and is pending no more.
LEMMA AppliedKeeps ==
  ASSUME LinkInv, SharingTypeOK', NoneLoading', ApplyPending, phase \in {"open", "boot"},
         phase' \in {"open", "load"}, UNCHANGED <<journal, snapshot, revoked, unsaved>>
  PROVE  LinkInv'
<1>1. PICK s \in pending : PutBackOf(s)
  BY DEF ApplyPending
<1>2. pending' = {} /\ s \in Snapshots /\ untidy' = untidy
  BY <1>1 DEF ApplyPending, Snapshots
<1>0. PICK away \in SUBSET s.links : links' = s.links \ away /\ dropped' = dropped \union away
  BY <1>1 DEF PutBackOf
<1>3. s.links \subseteq OwnerLinks /\ Kept \subseteq s.links
  BY <1>2, SnapshotsType DEF LinkInv, SnapshotsCover
<1>4. Carried' /\ SnapshotsCover' /\ NoneToRevoke'
  BY <1>0, <1>2 DEF LinkInv, Carried, SnapshotsCover, NoneToRevoke, Snapshots, Kept
<1>5. OwnersSafe' /\ OwnersOnly'
  BY <1>0, <1>3 DEF OwnersSafe, OwnersOnly, Kept
<1>6. RevokedGone'
  BY <1>0, <1>1, <1>2 DEF LinkInv, RevokedGone
<1>7. QED BY <1>4, <1>5, <1>6 DEF LinkInv

\* It cannot be applied, or not removed: the snapshot stays.
LEMMA ApplyFailsKeeps ==
  ASSUME LinkInv, "switch_off" \notin Faults, SharingTypeOK', NoneLoading', ApplyFails, phase \in {"open", "boot"},
         phase' \in {"open", "load"}, UNCHANGED <<journal, snapshot, revoked, unsaved>>
  PROVE  LinkInv'
<1>1. pending' = pending /\ pending # {}
  BY DEF ApplyFails
<1>2. CASE SwitchedOff /\ UNCHANGED untidy
  <2>1. links' = {} /\ UNCHANGED <<dropped, untidy>>
    BY <1>2 DEF SwitchedOff
  <2>2. Carried' /\ SnapshotsCover' /\ NoneToRevoke'
    BY <1>1, <2>1 DEF LinkInv, Carried, SnapshotsCover, NoneToRevoke, Snapshots, Kept
  <2>3. OwnersSafe' /\ OwnersOnly'
    BY <1>1, <2>1 DEF OwnersSafe, OwnersOnly
  <2>4. RevokedGone'
    BY <1>1, <2>1 DEF LinkInv, RevokedGone
  <2>5. QED BY <2>2, <2>3, <2>4 DEF LinkInv
<1>3. CASE (\E s \in pending : PutBackOf(s)) /\ untidy' = TRUE
  <2>1. PICK s \in pending, away \in SUBSET OwnerLinks : links' = s.links \ away /\ dropped' = dropped \union away
    BY <1>3, SnapshotsType DEF LinkInv, PutBackOf, Snapshots
  <2>2. s.links \subseteq OwnerLinks
    BY SnapshotsType DEF LinkInv, Snapshots
  <2>3. Carried' /\ SnapshotsCover' /\ NoneToRevoke'
    BY <1>1, <1>3, <2>1 DEF LinkInv, Carried, SnapshotsCover, NoneToRevoke, Snapshots, Kept
  <2>4. OwnersSafe' /\ OwnersOnly'
    BY <1>1, <2>1, <2>2 DEF OwnersSafe, OwnersOnly
  <2>5. RevokedGone'
    BY <1>3 DEF RevokedGone
  <2>6. QED BY <2>3, <2>4, <2>5 DEF LinkInv
<1>4. QED BY <1>2, <1>3 DEF ApplyFails

\* Nothing was pending: what the table holds is the owner's.
LEMMA NothingKeeps ==
  ASSUME LinkInv, SharingTypeOK', NoneLoading', ApplyNothing, phase \in {"open", "boot"}, phase' \in {"open", "load"},
         UNCHANGED <<journal, snapshot, revoked, unsaved>>
  PROVE  LinkInv'
<1>1. pending = {} /\ UNCHANGED <<links, pending, dropped, untidy>>
  BY DEF ApplyNothing, database
<1>2. Carried' /\ SnapshotsCover' /\ NoneToRevoke'
  BY <1>1 DEF LinkInv, Carried, SnapshotsCover, NoneToRevoke, Snapshots, Kept
<1>3. OwnersSafe' /\ OwnersOnly'
  BY <1>1 DEF LinkInv, OwnersSafe, OwnersOnly, ToComeBack, Kept
<1>4. RevokedGone'
  BY <1>1 DEF LinkInv, RevokedGone
<1>5. QED BY <1>2, <1>3, <1>4 DEF LinkInv

LEMMA ApplyTypes ==
  ASSUME SharingTypeOK, "switch_off" \notin Faults, ApplyNothing \/ ApplyPending \/ ApplyFails
  PROVE  /\ links' \subseteq OwnerLinks \union ArchiveLinks /\ switch' \in BOOLEAN
         /\ memory' \in {"on", "off", "unknown"} /\ pending' \in AtMostOne(Snapshot) /\ failures' \in 0 .. MaxFailures
         /\ dropped' \subseteq OwnerLinks /\ untidy' \in BOOLEAN
<1>1. ASSUME NEW s \in pending, PutBackOf(s)
      PROVE  /\ links' \subseteq OwnerLinks /\ dropped' \subseteq OwnerLinks /\ switch' \in BOOLEAN
             /\ Word(s.on) \in {"on", "off"}
  <2>1. s.links \subseteq OwnerLinks /\ s.on \in BOOLEAN
    BY SnapshotsType DEF Snapshots
  <2>2. PICK away \in SUBSET s.links : links' = s.links \ away /\ dropped' = dropped \union away /\ switch' = s.on
    BY <1>1 DEF PutBackOf
  <2>3. QED BY <2>1, <2>2 DEF Word, SharingTypeOK
<1>2. CASE ApplyNothing
  BY <1>2 DEF ApplyNothing, database, SharingTypeOK
<1>3. CASE ApplyPending
  <2>1. PICK s \in pending : PutBackOf(s) /\ memory' = Word(s.on)
    BY <1>3 DEF ApplyPending
  <2>2. QED BY <1>1, <1>3, <2>1, NoneIsAtMostOne DEF ApplyPending, SharingTypeOK
<1>4. CASE ApplyFails
  <2>1. memory' = "off" /\ pending' = pending
    BY <1>4 DEF ApplyFails
  <2>2. failures' \in 0 .. MaxFailures
    BY <1>4, SharingAssumption DEF ApplyFails, CanFail, SharingTypeOK
  <2>3. links' \subseteq OwnerLinks /\ switch' \in BOOLEAN /\ dropped' \subseteq OwnerLinks /\ untidy' \in BOOLEAN
    BY <1>1, <1>4 DEF ApplyFails, SwitchedOff, SharingTypeOK
  <2>4. QED BY <2>1, <2>2, <2>3 DEF SharingTypeOK
<1>5. QED BY <1>2, <1>3, <1>4

LEMMA ApplyFirstKeeps ==
  ASSUME LinkInv, "switch_off" \notin Faults, NEW l \in Loaders, ApplyFirst(l)
  PROVE  LinkInv'
<1>1. phase = "open" /\ phase' = "open"
      /\ UNCHANGED <<journal, snapshot, unkept, put, revoked, unsaved, crashes, restored, puts>>
  BY DEF ApplyFirst, history, lost, LinkInv, NoneLoading
<1>2. load' \in [Loaders -> [at : {"idle", "apply", "look", "seen", "read"}, value : BOOLEAN, moved : BOOLEAN]]
  <2>1. load' = [load EXCEPT ![l].at = "look"] \/ load' = [Moved EXCEPT ![l].at = "look"]
    BY DEF ApplyFirst
  <2>2. /\ load \in [Loaders -> [at : {"idle", "apply", "look", "seen", "read"}, value : BOOLEAN, moved : BOOLEAN]]
        /\ Moved \in [Loaders -> [at : {"idle", "apply", "look", "seen", "read"}, value : BOOLEAN, moved : BOOLEAN]]
    BY MovedType DEF LinkInv, SharingTypeOK
  <2>3. ASSUME NEW f \in [Loaders -> [at : {"idle", "apply", "look", "seen", "read"}, value : BOOLEAN, moved : BOOLEAN]]
        PROVE  [f EXCEPT ![l].at = "look"]
                 \in [Loaders -> [at : {"idle", "apply", "look", "seen", "read"}, value : BOOLEAN, moved : BOOLEAN]]
    <3>1. [f[l] EXCEPT !.at = "look"] \in [at : {"idle", "apply", "look", "seen", "read"}, value : BOOLEAN, moved : BOOLEAN]
      OBVIOUS
    <3>2. QED BY <3>1
  <2>4. QED BY <2>1, <2>2, <2>3
<1>3. SharingTypeOK' /\ NoneLoading'
  BY <1>1, <1>2, ApplyTypes DEF ApplyFirst, LinkInv, SharingTypeOK, NoneLoading
<1>4. QED BY <1>1, <1>3, NothingKeeps, AppliedKeeps, ApplyFailsKeeps DEF ApplyFirst

LEMMA BootApplyKeeps ==
  ASSUME LinkInv, "switch_off" \notin Faults, BootApply
  PROVE  LinkInv'
<1>1. phase = "boot" /\ phase' = "load"
      /\ UNCHANGED <<journal, snapshot, unkept, put, revoked, unsaved, crashes, restored, puts>>
  BY DEF BootApply, history, lost
<1>2. load' \in [Loaders -> [at : {"idle", "apply", "look", "seen", "read"}, value : BOOLEAN, moved : BOOLEAN]]
      /\ \A l \in Loaders : load'[l].at = load[l].at
  BY MovedType DEF BootApply, LinkInv, SharingTypeOK
<1>3. SharingTypeOK' /\ NoneLoading'
  BY <1>1, <1>2, ApplyTypes DEF BootApply, LinkInv, SharingTypeOK, NoneLoading
<1>4. QED BY <1>1, <1>3, NothingKeeps, AppliedKeeps, ApplyFailsKeeps DEF BootApply

-----------------------------------------------------------------------------
\* The snapshot is what an earlier restore left pending, else the owner's table.
LEMMA TakeSnapshotKeeps ==
  ASSUME LinkInv, TakeSnapshot
  PROVE  LinkInv'
<1>1. /\ phase = "open" /\ phase' = "taken" /\ unkept' = FALSE
      /\ UNCHANGED <<links, switch, memory, pending, journal, put, load, revoked, dropped, unsaved, untidy, failures, crashes, puts>>
      /\ snapshot' = IF pending # {} THEN pending ELSE {[on |-> switch, links |-> links]}
  BY DEF TakeSnapshot, database, history, lost
<1>2. pending = {} => links \subseteq OwnerLinks /\ Kept \subseteq links
  BY <1>1 DEF LinkInv, OwnersOnly, OwnersSafe, ToComeBack
<1>3. snapshot' \in AtMostOne(Snapshot)
  <2>1. CASE pending # {}
    BY <1>1, <2>1 DEF LinkInv, SharingTypeOK
  <2>2. CASE pending = {}
    <3>1. [on |-> switch, links |-> links] \in Snapshot
      BY <1>2, <2>2 DEF LinkInv, SharingTypeOK, Snapshot
    <3>2. Cardinality({[on |-> switch, links |-> links]}) = 1
      BY FS_Singleton
    <3>3. QED BY <1>1, <2>2, <3>1, <3>2 DEF AtMostOne
  <2>3. QED BY <2>1, <2>2
<1>4. SharingTypeOK' /\ NoneLoading'
  <2>1. restored' \in 0 .. MaxReplaced
    BY SharingAssumption DEF TakeSnapshot, LinkInv, SharingTypeOK
  <2>2. NoneLoading'
    BY <1>1 DEF TakeSnapshot, Still, NoneLoading
  <2>3. QED BY <1>1, <1>3, <2>1, <2>2 DEF LinkInv, SharingTypeOK
<1>5. Carried' /\ NoneToRevoke'
  BY <1>1 DEF LinkInv, Carried, NoneToRevoke, Down
<1>6. SnapshotsCover'
  BY <1>1, <1>2 DEF LinkInv, SnapshotsCover, Snapshots, Kept
<1>7. OwnersSafe' /\ OwnersOnly'
  BY <1>1 DEF LinkInv, OwnersSafe, OwnersOnly, ToComeBack, Kept, Down
<1>8. RevokedGone'
  BY <1>1 DEF LinkInv, RevokedGone
<1>9. QED BY <1>4, <1>5, <1>6, <1>7, <1>8 DEF LinkInv

\* The table is the archive's; the journal carries the snapshot.
LEMMA ReplaceKeeps ==
  ASSUME LinkInv, Replace
  PROVE  LinkInv'
<1>1. /\ phase = "taken" /\ phase' = "replaced" /\ links' = ArchiveLinks /\ switch' \in BOOLEAN
      /\ journal' = snapshot
      /\ UNCHANGED <<memory, pending, snapshot, unkept, put, load, revoked, dropped, unsaved, untidy, failures, crashes, restored, puts>>
  BY DEF Replace, history, lost, bounds
<1>2. SharingTypeOK' /\ NoneLoading'
  BY <1>1 DEF LinkInv, SharingTypeOK, NoneLoading
<1>3. Carried' /\ SnapshotsCover' /\ OwnersSafe' /\ OwnersOnly'
  BY <1>1 DEF LinkInv, Carried, SnapshotsCover, Snapshots, Kept, OwnersSafe, OwnersOnly, ToComeBack
<1>4. NoneToRevoke'
  BY <1>1, SharingAssumption DEF NoneToRevoke
<1>5. RevokedGone'
  BY <1>1, SharingAssumption DEF LinkInv, SharingTypeOK, RevokedGone
<1>6. QED BY <1>2, <1>3, <1>4, <1>5 DEF LinkInv

LEMMA NotReplacedKeeps ==
  ASSUME LinkInv, NotReplaced
  PROVE  LinkInv'
<1>1. phase = "taken" /\ phase' = "back"
      /\ UNCHANGED <<links, switch, memory, pending, journal, snapshot, unkept, put, load, revoked, dropped, unsaved, untidy, failures,
                     crashes, restored, puts>>
  BY DEF NotReplaced, database, saved, history, lost, bounds
<1>2. SharingTypeOK' /\ NoneLoading'
  BY <1>1 DEF LinkInv, SharingTypeOK, NoneLoading
<1>3. Carried' /\ SnapshotsCover' /\ OwnersSafe' /\ OwnersOnly' /\ NoneToRevoke'
  BY <1>1 DEF LinkInv, Carried, SnapshotsCover, Snapshots, Kept, OwnersSafe, OwnersOnly, ToComeBack, NoneToRevoke, Down
<1>4. RevokedGone'
  BY <1>1 DEF LinkInv, RevokedGone
<1>5. QED BY <1>2, <1>3, <1>4 DEF LinkInv

\* The run puts its snapshot back.
LEMMA PutBackKeeps ==
  ASSUME LinkInv, PutBack
  PROVE  LinkInv'
<1>1. /\ phase = "replaced" /\ phase' = "back"
      /\ UNCHANGED <<memory, journal, snapshot, unkept, put, load, revoked, unsaved, crashes, restored, puts>>
  BY DEF PutBack
<1>2. PICK s \in snapshot, away \in SUBSET OwnerLinks :
        links' = s.links \ away /\ switch' = s.on /\ dropped' = dropped \union away
  BY SnapshotsType DEF LinkInv, PutBack, PutBackOf, Snapshots
<1>3. s.links \subseteq OwnerLinks /\ s.on \in BOOLEAN /\ Kept \subseteq s.links
  BY <1>2, SnapshotsType DEF LinkInv, SnapshotsCover, Snapshots
<1>4. (pending' = {} /\ untidy' = untidy) \/ (pending' = pending /\ untidy' = TRUE)
  BY DEF PutBack
<1>5. SharingTypeOK' /\ NoneLoading'
  <2>1. failures' \in 0 .. MaxFailures
    BY SharingAssumption DEF PutBack, CanFail, LinkInv, SharingTypeOK
  <2>2. QED BY <1>1, <1>2, <1>3, <1>4, <2>1, NoneIsAtMostOne DEF LinkInv, SharingTypeOK, NoneLoading
<1>6. Carried' /\ SnapshotsCover' /\ NoneToRevoke'
  BY <1>1, <1>2, <1>4 DEF LinkInv, Carried, SnapshotsCover, NoneToRevoke, Snapshots, Kept
<1>7. OwnersSafe' /\ OwnersOnly'
  BY <1>1, <1>2, <1>3 DEF OwnersSafe, OwnersOnly, Kept
<1>8. RevokedGone'
  BY <1>1, <1>2, <1>4 DEF LinkInv, RevokedGone
<1>9. QED BY <1>5, <1>6, <1>7, <1>8 DEF LinkInv

\* It fails: the table is emptied, and the snapshot pending, or counted unsaved.
LEMMA PutBackFailsKeeps ==
  ASSUME LinkInv, "switch_off" \notin Faults, PutBackFails
  PROVE  LinkInv'
<1>1. /\ phase = "replaced" /\ phase' = "back" /\ unkept' = TRUE
      /\ links' = {} /\ switch' = FALSE /\ memory' = "off" /\ load' = Moved
      /\ UNCHANGED <<journal, snapshot, put, revoked, dropped, untidy, crashes, restored, puts>>
  BY DEF PutBackFails, SwitchedOff, SetMemory
<1>2. failures' \in 0 .. MaxFailures
  BY SharingAssumption DEF PutBackFails, CanFail, LinkInv, SharingTypeOK
<1>3. CASE pending' = snapshot /\ UNCHANGED unsaved
  <2>1. SharingTypeOK' /\ NoneLoading'
    BY <1>1, <1>2, <1>3, MovedType DEF LinkInv, SharingTypeOK, NoneLoading
  <2>2. Carried' /\ SnapshotsCover' /\ OwnersSafe' /\ OwnersOnly' /\ NoneToRevoke'
    BY <1>1, <1>3 DEF LinkInv, Carried, SnapshotsCover, Snapshots, Kept, OwnersSafe, OwnersOnly, NoneToRevoke
  <2>3. RevokedGone'
    BY <1>1, <1>3 DEF LinkInv, RevokedGone
  <2>4. QED BY <2>1, <2>2, <2>3 DEF LinkInv
<1>4. CASE /\ unsaved' = unsaved \union UNION {s.links : s \in snapshot \ pending}
           /\ UNCHANGED pending
  <2>1. unsaved' \subseteq OwnerLinks
    BY <1>4, SnapshotsType DEF LinkInv, SharingTypeOK, Snapshots
  <2>2. SharingTypeOK' /\ NoneLoading'
    BY <1>1, <1>2, <1>4, <2>1, MovedType DEF LinkInv, SharingTypeOK, NoneLoading
  <2>3. PICK s \in snapshot : Kept \subseteq s.links
    BY <1>1 DEF LinkInv, Carried, SnapshotsCover, Snapshots
  <2>4. pending = {} => Kept' = {}
    BY <1>1, <1>4, <2>3 DEF Kept
  <2>5. Kept' \subseteq Kept
    BY <1>1, <1>4 DEF Kept
  <2>6. Carried' /\ SnapshotsCover' /\ OwnersOnly' /\ NoneToRevoke'
    BY <1>1, <1>4, <2>5 DEF LinkInv, Carried, SnapshotsCover, Snapshots, OwnersOnly, NoneToRevoke
  <2>7. OwnersSafe'
    BY <1>4, <2>4 DEF OwnersSafe
  <2>8. RevokedGone'
    BY <1>1, <1>4 DEF LinkInv, RevokedGone
  <2>9. QED BY <2>2, <2>6, <2>7, <2>8 DEF LinkInv
<1>5. QED BY <1>3, <1>4 DEF PutBackFails

LEMMA TidiesUpKeeps ==
  ASSUME LinkInv, TidiesUp
  PROVE  LinkInv'
<1>1. /\ phase = "back" /\ phase' = "open" /\ journal' = {} /\ snapshot' = {}
      /\ UNCHANGED <<links, switch, pending, unkept, put, revoked, dropped, unsaved, untidy, crashes, restored, puts>>
  BY DEF TidiesUp, database, history, lost
<1>2. memory' \in {"on", "off", "unknown"} /\ load' \in {load, Moved} /\ failures' \in 0 .. MaxFailures
  BY SharingAssumption DEF TidiesUp, SetMemory, Word, CanFail, LinkInv, SharingTypeOK
<1>3. SharingTypeOK' /\ NoneLoading'
  BY <1>1, <1>2, MovedType, NoneIsAtMostOne DEF LinkInv, SharingTypeOK, NoneLoading
<1>4. Carried' /\ SnapshotsCover' /\ OwnersSafe' /\ OwnersOnly' /\ NoneToRevoke'
  BY <1>1 DEF LinkInv, Carried, SnapshotsCover, Snapshots, Kept, OwnersSafe, OwnersOnly, ToComeBack, NoneToRevoke, Down
<1>5. RevokedGone'
  BY <1>1 DEF LinkInv, RevokedGone
<1>6. QED BY <1>3, <1>4, <1>5 DEF LinkInv

\* The journal stays, and the owner may go on revoking: untidy says so.
LEMMA TidyingFailsKeeps ==
  ASSUME LinkInv, TidyingFails
  PROVE  LinkInv'
<1>1. /\ phase = "back" /\ phase' = "open" /\ untidy' = TRUE /\ snapshot' = {}
      /\ UNCHANGED <<links, switch, pending, journal, unkept, put, revoked, dropped, unsaved, crashes, restored, puts>>
  BY DEF TidyingFails, database, lost
<1>2. memory' \in {"on", "off", "unknown"} /\ load' \in {load, Moved} /\ failures' \in 0 .. MaxFailures
  BY SharingAssumption DEF TidyingFails, SetMemory, CanFail, LinkInv, SharingTypeOK
<1>3. SharingTypeOK' /\ NoneLoading'
  BY <1>1, <1>2, MovedType, NoneIsAtMostOne DEF LinkInv, SharingTypeOK, NoneLoading
<1>4. Carried' /\ SnapshotsCover' /\ OwnersSafe' /\ OwnersOnly' /\ NoneToRevoke'
  BY <1>1 DEF LinkInv, Carried, SnapshotsCover, Snapshots, Kept, OwnersSafe, OwnersOnly, ToComeBack, NoneToRevoke, Down
<1>5. RevokedGone'
  BY <1>1 DEF RevokedGone
<1>6. QED BY <1>3, <1>4, <1>5 DEF LinkInv

-----------------------------------------------------------------------------
\* A stop forgets the run; the journal and what is pending stay.
LEMMA HaltsKeeps ==
  ASSUME LinkInv, Halts
  PROVE  LinkInv'
<1>1. /\ phase' = "off" /\ memory' = "unknown" /\ snapshot' = {} /\ unkept' = FALSE
      /\ put' = [p \in Putters |-> Idle] /\ load' = [l \in Loaders |-> Idle]
      /\ UNCHANGED <<links, switch, pending, journal, revoked, dropped, unsaved, untidy, failures, restored, puts>>
  BY DEF Halts, database, history, lost
<1>2. SharingTypeOK' /\ NoneLoading'
  <2>1. crashes' \in 0 .. MaxCrashes
    BY SharingAssumption DEF Halts, LinkInv, SharingTypeOK
  <2>2. put' \in [Putters -> [at : {"idle", "committed", "read"}, value : BOOLEAN, moved : {FALSE}]]
    BY <1>1 DEF Idle
  <2>3. load' \in [Loaders -> [at : {"idle", "apply", "look", "seen", "read"}, value : BOOLEAN, moved : BOOLEAN]]
        /\ NoneLoading'
    BY <1>1 DEF Idle, NoneLoading
  <2>4. QED BY <1>1, <2>1, <2>2, <2>3, NoneIsAtMostOne DEF LinkInv, SharingTypeOK
<1>3. Carried' /\ SnapshotsCover' /\ NoneToRevoke'
  BY <1>1 DEF LinkInv, Carried, SnapshotsCover, Snapshots, Kept, NoneToRevoke, Down
<1>4. OwnersSafe' /\ OwnersOnly'
  BY <1>1 DEF LinkInv, Carried, OwnersSafe, OwnersOnly, ToComeBack, Kept, Down
<1>5. RevokedGone'
  BY <1>1 DEF LinkInv, RevokedGone
<1>6. QED BY <1>2, <1>3, <1>4, <1>5 DEF LinkInv

\* A start keeps the journal's snapshot as the pending one.
LEMMA KeepSnapshotKeeps ==
  ASSUME LinkInv, KeepSnapshot
  PROVE  LinkInv'
<1>1. /\ phase = "off" /\ phase' = "boot" /\ journal' = {}
      /\ pending' = IF journal # {} THEN journal ELSE pending
      /\ UNCHANGED <<links, switch, memory, snapshot, unkept, put, load, revoked, dropped, unsaved, untidy, failures, crashes, restored,
                     puts>>
  BY DEF KeepSnapshot, database, history, lost, bounds
<1>2. SharingTypeOK' /\ NoneLoading'
  BY <1>1, NoneIsAtMostOne DEF LinkInv, SharingTypeOK, NoneLoading
<1>3. Carried' /\ SnapshotsCover' /\ OwnersSafe' /\ OwnersOnly' /\ NoneToRevoke'
  BY <1>1 DEF LinkInv, Carried, SnapshotsCover, Snapshots, Kept, OwnersSafe, OwnersOnly, ToComeBack, NoneToRevoke, Down
<1>4. RevokedGone'
  BY <1>1 DEF LinkInv, RevokedGone
<1>5. QED BY <1>2, <1>3, <1>4 DEF LinkInv

LEMMA KeepFailsKeeps ==
  ASSUME LinkInv, KeepFails
  PROVE  LinkInv'
<1>1. /\ phase = "off" /\ journal # {} /\ phase' = "stuck"
      /\ UNCHANGED <<links, switch, memory, pending, journal, snapshot, unkept, put, load, revoked, dropped, unsaved, untidy, crashes,
                     restored, puts>>
  BY DEF KeepFails, database, saved, history, lost
<1>2. SharingTypeOK' /\ NoneLoading'
  <2>1. failures' \in 0 .. MaxFailures
    BY SharingAssumption DEF KeepFails, CanFail, LinkInv, SharingTypeOK
  <2>2. QED BY <1>1, <2>1 DEF LinkInv, SharingTypeOK, NoneLoading
<1>3. Carried' /\ SnapshotsCover' /\ OwnersSafe' /\ OwnersOnly' /\ NoneToRevoke'
  BY <1>1 DEF LinkInv, Carried, SnapshotsCover, Snapshots, Kept, OwnersSafe, OwnersOnly, ToComeBack, NoneToRevoke, Down
<1>4. RevokedGone'
  BY <1>1 DEF LinkInv, RevokedGone
<1>5. QED BY <1>2, <1>3, <1>4 DEF LinkInv

LEMMA BootLoadKeeps ==
  ASSUME LinkInv, BootLoad
  PROVE  LinkInv'
<1>1. /\ phase = "load" /\ phase' = "open"
      /\ UNCHANGED <<links, switch, pending, journal, snapshot, unkept, put, load, revoked, dropped, unsaved, untidy, crashes, restored,
                     puts>>
  BY DEF BootLoad, database, saved, history, lost
<1>2. SharingTypeOK' /\ NoneLoading'
  <2>1. memory' \in {"on", "off", "unknown"} /\ failures' \in 0 .. MaxFailures
    BY SharingAssumption DEF BootLoad, Word, CanFail, LinkInv, SharingTypeOK
  <2>2. QED BY <1>1, <2>1 DEF LinkInv, SharingTypeOK, NoneLoading
<1>3. Carried' /\ SnapshotsCover' /\ OwnersSafe' /\ OwnersOnly' /\ NoneToRevoke'
  BY <1>1 DEF LinkInv, Carried, SnapshotsCover, Snapshots, Kept, OwnersSafe, OwnersOnly, ToComeBack, NoneToRevoke, Down
<1>4. RevokedGone'
  BY <1>1 DEF LinkInv, RevokedGone
<1>5. QED BY <1>2, <1>3, <1>4 DEF LinkInv

LEMMA LinkStep ==
  ASSUME LinkInv, "switch_off" \notin Faults, [SharingNext]_sharing
  PROVE  LinkInv'
<1>1. ASSUME NEW l \in Loaders, Reads(l) PROVE LinkInv'
  BY <1>1, LoadKeeps, ApplyFirstKeeps DEF Reads
<1>2. CASE Restoring
  BY <1>2, ReplaceKeeps, NotReplacedKeeps, PutBackKeeps, PutBackFailsKeeps, TidiesUpKeeps, TidyingFailsKeeps
  DEF Restoring
<1>3. CASE Starting
  BY <1>3, KeepSnapshotKeeps, KeepFailsKeeps, BootApplyKeeps, BootLoadKeeps DEF Starting
<1>4. CASE UNCHANGED sharing
  <2>1. UNCHANGED <<links, switch, memory, pending, journal, snapshot, unkept, phase, put, load, revoked, dropped, unsaved, untidy,
                    failures, crashes, restored, puts>>
    BY <1>4 DEF sharing, database, saved, history, lost, bounds
  <2>2. SharingTypeOK' /\ NoneLoading'
    BY <2>1 DEF LinkInv, SharingTypeOK, NoneLoading
  <2>3. QED BY <2>1, <2>2, SameLinks
<1>5. QED
  BY <1>1, <1>2, <1>3, <1>4, RevokeKeeps, PutKeeps, TakeSnapshotKeeps, HaltsKeeps DEF SharingNext

-----------------------------------------------------------------------------
\* In every reachable state the owner's links are in the table or in what will
\* be put back (services/restore.py, _put_back_sharing and _keep_snapshot).
THEOREM LinkInvHolds ==
  ASSUME "switch_off" \notin Faults
  PROVE  SharingSpec => []LinkInv
<1>1. LinkInv /\ [SharingNext]_sharing => LinkInv'
  BY LinkStep
<1>2. QED BY <1>1, InitLinks, PTL DEF SharingSpec

\* Type correctness.
THEOREM SharingTypeHolds ==
  ASSUME "switch_off" \notin Faults
  PROVE  SharingSpec => []SharingTypeOK
<1>1. LinkInv => SharingTypeOK
  BY DEF LinkInv
<1>2. QED BY <1>1, LinkInvHolds, PTL

\* The archive's links never open: whenever requests are answered the table
\* holds none of them.
THEOREM ArchiveLinksStayClosed ==
  ASSUME "switch_off" \notin Faults
  PROVE  SharingSpec => []ArchiveLinksClosed
<1>1. LinkInv => ArchiveLinksClosed
  BY SharingAssumption DEF LinkInv, OwnersOnly, ToComeBack, Down, ArchiveLinksClosed
<1>2. QED BY <1>1, LinkInvHolds, PTL

\* A revoked link never comes back, where every restore was tidied up.
THEOREM RevokedIsForGood ==
  ASSUME "switch_off" \notin Faults
  PROVE  SharingSpec => []RevokedStaysRevoked
<1>1. LinkInv => RevokedStaysRevoked
  BY DEF LinkInv, RevokedGone, RevokedStaysRevoked
<1>2. QED BY <1>1, LinkInvHolds, PTL

\* A link of the owner's is lost by a restore, however it fails or is stopped,
\* only where a put-back counts it as dropped, or its put-back and the write of
\* what is pending both fail.
THEOREM LinksAreKept ==
  ASSUME "switch_off" \notin Faults
  PROVE  SharingSpec => []LinksKept
<1>1. ASSUME LinkInv PROVE LinksKept
  <2> SUFFICES ASSUME NEW l \in Kept, l \notin links PROVE \E s \in Snapshots : l \in s.links
    BY DEF LinksKept, Lives, Kept, Snapshots
  <2>1. Snapshots # {}
    BY <1>1 DEF LinkInv, OwnersSafe, ToComeBack, Carried, Snapshots
  <2>2. QED BY <1>1, <2>1 DEF LinkInv, SnapshotsCover
<1>2. QED BY <1>1, LinkInvHolds, PTL
-----------------------------------------------------------------------------
(* The switch in memory, where two writers of it do not race.              *)

\* One PUT at a time, of a process that is open; what it has read back is so.
OneAsks ==
  /\ \A p, q \in Putters : put[p].at # "idle" /\ put[q].at # "idle" => p = q
  /\ \A p \in Putters : put[p].at # "idle" => phase = "open"
  /\ \A p \in Putters : put[p].at = "read" => put[p].value = switch

\* A read that was overtaken finds a memory to leave alone; one that was not
\* has the switch, unless a PUT has yet to tell it.
ReadsTell ==
  /\ \A l \in Loaders : load[l].at \in {"seen", "read"} /\ load[l].moved => memory # "unknown"
  /\ \A l \in Loaders : load[l].at = "read" /\ ~load[l].moved /\ Quiet => load[l].value = switch

\* Memory is empty from a stop until it is read again, and then as the switch.
MemoryTells ==
  /\ phase \in Down => memory = "unknown"
  /\ phase \in {"open", "load"} /\ Quiet /\ ~untidy /\ memory = "on" => switch

SwitchInv == OneAsks /\ ReadsTell /\ MemoryTells

LEMMA InitSwitch == SharingInit => SwitchInv
<1> SUFFICES ASSUME SharingInit PROVE SwitchInv
  OBVIOUS
<1>1. /\ \A p \in Putters : put[p].at = "idle"
      /\ \A l \in Loaders : load[l].at = "idle"
  BY DEF SharingInit, Idle
<1>2. phase = "open" /\ switch \in BOOLEAN /\ memory = Word(switch)
  BY DEF SharingInit
<1>3. QED BY <1>1, <1>2 DEF SwitchInv, OneAsks, ReadsTell, MemoryTells, Down, Word

\* Steps of neither PUTs nor reads, that leave the switch and memory alone,
\* and open nothing.
LEMMA SwitchStays ==
  ASSUME SwitchInv, UNCHANGED <<switch, memory, put, load, untidy>>,
         phase' = phase \/ phase' \notin {"open", "load"}, phase' \in Down => phase \in Down,
         phase' # phase => Quiet
  PROVE  SwitchInv'
<1>1. OneAsks'
  BY DEF SwitchInv, OneAsks, Quiet
<1>2. ReadsTell'
  BY DEF SwitchInv, ReadsTell, Quiet
<1>3. MemoryTells'
  BY DEF SwitchInv, MemoryTells, Quiet, Down
<1>4. QED BY <1>1, <1>2, <1>3 DEF SwitchInv

\* The switch goes into the database, and until it is in memory no read is
\* asked for more.
LEMMA CommitTells ==
  ASSUME LinkInv, SwitchInv, "racing" \notin Faults, NEW p \in Putters, PutCommit(p)
  PROVE  SwitchInv'
<1>1. Quiet /\ phase = "open" /\ UNCHANGED <<memory, load, phase, untidy>>
      /\ put' = [put EXCEPT ![p].at = "committed"]
  BY DEF PutCommit, OneWriter, history, lost
<1>2. put'[p].at = "committed" /\ \A q \in Putters : q # p => put'[q].at = "idle"
  BY <1>1 DEF LinkInv, SharingTypeOK, Quiet
<1>3. ~Quiet'
  BY <1>2 DEF Quiet
<1>4. OneAsks'
  BY <1>1, <1>2 DEF OneAsks
<1>5. ReadsTell'
  BY <1>1, <1>3 DEF SwitchInv, ReadsTell
<1>6. MemoryTells'
  BY <1>1, <1>3 DEF MemoryTells, Down
<1>7. QED BY <1>4, <1>5, <1>6 DEF SwitchInv

LEMMA ReadBackTells ==
  ASSUME LinkInv, SwitchInv, NEW p \in Putters, PutRead(p)
  PROVE  SwitchInv'
<1>1. put[p].at = "committed" /\ UNCHANGED <<switch, memory, load, phase, untidy>>
      /\ put' = [put EXCEPT ![p].at = "read", ![p].value = switch]
  BY DEF PutRead, database, history, lost
<1>2. put'[p].at = "read" /\ put'[p].value = switch /\ \A q \in Putters : q # p => put'[q] = put[q]
  BY <1>1 DEF LinkInv, SharingTypeOK
<1>3. phase = "open" /\ \A q \in Putters : q # p => put[q].at = "idle"
  BY <1>1 DEF SwitchInv, OneAsks
<1>4. ~Quiet'
  BY <1>2 DEF Quiet
<1>5. OneAsks'
  BY <1>1, <1>2, <1>3 DEF OneAsks
<1>6. ReadsTell'
  BY <1>1, <1>4 DEF SwitchInv, ReadsTell
<1>7. MemoryTells'
  BY <1>1, <1>3, <1>4 DEF MemoryTells, Down
<1>8. QED BY <1>5, <1>6, <1>7 DEF SwitchInv

\* Memory is told, and with it every read under way.
LEMMA SetTells ==
  ASSUME LinkInv, SwitchInv, NEW p \in Putters, PutSet(p)
  PROVE  SwitchInv'
<1>1. put[p].at = "read" /\ UNCHANGED <<switch, phase, untidy>> /\ memory' = Word(put[p].value) /\ load' = Moved
      /\ put' = [put EXCEPT ![p] = Idle]
  BY DEF PutSet, SetMemory, database, history, lost
<1>2. put'[p].at = "idle" /\ \A q \in Putters : q # p => put'[q] = put[q]
  BY <1>1 DEF LinkInv, SharingTypeOK, Idle
<1>3. phase = "open" /\ put[p].value = switch /\ \A q \in Putters : q # p => put[q].at = "idle"
  BY <1>1 DEF SwitchInv, OneAsks
<1>4. memory' = Word(switch) /\ \A q \in Putters : put'[q].at = "idle"
  BY <1>1, <1>2, <1>3
<1>5. \A l \in Loaders : load'[l].moved
  BY <1>1 DEF LinkInv, SharingTypeOK, Moved
<1>6. OneAsks'
  BY <1>4 DEF OneAsks
<1>7. ReadsTell'
  BY <1>4, <1>5 DEF ReadsTell, Word
<1>8. MemoryTells'
  BY <1>1, <1>3, <1>4 DEF MemoryTells, Down, Word
<1>9. QED BY <1>6, <1>7, <1>8 DEF SwitchInv

\* A step of one read.
LEMMA OneReads ==
  ASSUME LinkInv, SwitchInv, UNCHANGED <<switch, put, phase, untidy>>, phase = "open",
         NEW l \in Loaders, \A m \in Loaders : m # l => load'[m] = load[m],
         memory' = memory \/ (memory' # "unknown" /\ (Quiet /\ ~untidy /\ memory' = "on" => switch)),
         load'[l].at \in {"seen", "read"} /\ load'[l].moved => memory' # "unknown",
         load'[l].at = "read" /\ ~load'[l].moved /\ Quiet => load'[l].value = switch
  PROVE  SwitchInv'
<1>1. OneAsks'
  BY DEF SwitchInv, OneAsks
<1>2. Quiet' <=> Quiet
  BY DEF Quiet
<1>3. ASSUME NEW m \in Loaders
      PROVE  /\ load'[m].at \in {"seen", "read"} /\ load'[m].moved => memory' # "unknown"
             /\ load'[m].at = "read" /\ ~load'[m].moved /\ Quiet => load'[m].value = switch
  <2>1. CASE m = l
    BY <2>1
  <2>2. CASE m # l
    BY <2>2 DEF SwitchInv, ReadsTell
  <2>3. QED BY <2>1, <2>2
<1>4. ReadsTell'
  BY <1>2, <1>3 DEF ReadsTell
<1>5. MemoryTells'
  BY <1>2 DEF SwitchInv, MemoryTells, Down
<1>6. QED BY <1>1, <1>4, <1>5 DEF SwitchInv

LEMMA LoadTells ==
  ASSUME LinkInv, SwitchInv, NEW l \in Loaders, BeginLoad(l) \/ LoadLook(l) \/ LoadRead(l) \/ LoadStore(l)
  PROVE  SwitchInv'
<1>1. phase = "open" /\ UNCHANGED <<switch, put, phase, untidy>>
  BY DEF BeginLoad, LoadLook, LoadRead, LoadStore, LinkInv, NoneLoading, database, history, lost
<1>2. load \in [Loaders -> [at : {"idle", "apply", "look", "seen", "read"}, value : BOOLEAN, moved : BOOLEAN]]
  BY DEF LinkInv, SharingTypeOK
<1>3. CASE BeginLoad(l)
  <2>1. memory' = memory /\ load'[l].at \in {"look", "apply"} /\ \A m \in Loaders : m # l => load'[m] = load[m]
    BY <1>2, <1>3 DEF BeginLoad
  <2>2. QED BY <1>1, <2>1, OneReads
<1>4. CASE LoadLook(l)
  <2>1. memory' = memory /\ load'[l].at = "seen" /\ ~load'[l].moved /\ \A m \in Loaders : m # l => load'[m] = load[m]
    BY <1>2, <1>4 DEF LoadLook
  <2>2. QED BY <1>1, <2>1, OneReads
<1>5. CASE LoadRead(l)
  <2>1. /\ memory' = memory /\ load[l].at = "seen" /\ load'[l].moved = load[l].moved /\ load'[l].value = switch
        /\ \A m \in Loaders : m # l => load'[m] = load[m]
    BY <1>2, <1>5 DEF LoadRead
  <2>2. load[l].moved => memory # "unknown"
    BY <2>1 DEF SwitchInv, ReadsTell
  <2>3. QED BY <1>1, <2>1, <2>2, OneReads
<1>6. CASE LoadStore(l)
  <2>1. /\ load[l].at = "read" /\ load'[l].at = "idle" /\ \A m \in Loaders : m # l => load'[m] = load[m]
        /\ memory' = IF load[l].moved /\ memory # "unknown" THEN memory ELSE Word(load[l].value)
    BY <1>2, <1>6 DEF LoadStore, Idle
  <2>2. /\ load[l].moved => memory # "unknown"
        /\ ~load[l].moved /\ Quiet => load[l].value = switch
    BY <2>1 DEF SwitchInv, ReadsTell
  <2>3. memory' = memory \/ (memory' # "unknown" /\ (Quiet /\ ~untidy /\ memory' = "on" => switch))
    BY <2>1, <2>2 DEF Word
  <2>4. QED BY <1>1, <2>1, <2>3, OneReads
<1>7. QED BY <1>3, <1>4, <1>5, <1>6

\* What is pending goes in with no read and no PUT under way.
LEMMA ApplyFirstTells ==
  ASSUME LinkInv, SwitchInv, "racing" \notin Faults, NEW l \in Loaders, ApplyFirst(l)
  PROVE  SwitchInv'
<1>1. /\ phase = "open" /\ UNCHANGED <<put, phase>> /\ load[l].at = "apply"
      /\ pending # {} => Quiet /\ \A m \in Loaders : load[m].at \notin {"seen", "read"}
  BY DEF ApplyFirst, OneWriter, NoReader, LinkInv, NoneLoading, history, lost
<1>2. load \in [Loaders -> [at : {"idle", "apply", "look", "seen", "read"}, value : BOOLEAN, moved : BOOLEAN]]
  BY DEF LinkInv, SharingTypeOK
<1>3. Quiet' <=> Quiet
  BY <1>1 DEF Quiet
<1>4. CASE ApplyNothing
  <2>1. UNCHANGED <<switch, memory, untidy>> /\ (load' = [load EXCEPT ![l].at = "look"])
    BY <1>4 DEF ApplyFirst, ApplyNothing, ApplyFails, database
  <2>2. load'[l].at = "look" /\ \A m \in Loaders : m # l => load'[m] = load[m]
    BY <1>2, <2>1
  <2>3. QED BY <1>1, <2>1, <2>2, OneReads
<1>5. CASE ApplyPending \/ ApplyFails
  <2>1. pending # {} /\ memory' # "unknown" /\ (memory' = "on" => switch')
    <3>1. CASE ApplyPending
      <4>1. PICK s \in pending : switch' = s.on /\ memory' = Word(s.on)
        BY <3>1 DEF ApplyPending, PutBackOf
      <4>2. QED BY <4>1 DEF Word
    <3>2. CASE ApplyFails
      BY <3>2 DEF ApplyFails
    <3>3. QED BY <1>5, <3>1, <3>2
  <2>2. \A m \in Loaders : load'[m].at \notin {"seen", "read"}
    <3>1. load' = [load EXCEPT ![l].at = "look"] \/ load' = [Moved EXCEPT ![l].at = "look"]
      BY DEF ApplyFirst
    <3>2. /\ \A m \in Loaders : Moved[m].at = load[m].at /\ load[m].at \notin {"seen", "read"}
          /\ Moved \in [Loaders -> [at : {"idle", "apply", "look", "seen", "read"}, value : BOOLEAN, moved : BOOLEAN]]
      BY <1>1, <2>1, MovedType DEF LinkInv
    <3>3. QED BY <1>2, <3>1, <3>2
  <2>3. \A p \in Putters : put'[p].at = "idle"
    BY <1>1, <2>1 DEF Quiet
  <2>4. OneAsks'
    BY <2>3 DEF OneAsks
  <2>5. ReadsTell'
    BY <2>2 DEF ReadsTell
  <2>6. MemoryTells'
    BY <1>1, <2>1 DEF MemoryTells, Down
  <2>7. QED BY <2>4, <2>5, <2>6 DEF SwitchInv
<1>6. QED BY <1>4, <1>5 DEF ApplyFirst

\* While a restore or a start is at work, nobody else is.
LEMMA AloneTells ==
  ASSUME \A p \in Putters : put'[p].at = "idle", \A l \in Loaders : load'[l].at = "idle",
         phase' \in Down => memory' = "unknown",
         phase' \in {"open", "load"} /\ ~untidy' /\ memory' = "on" => switch'
  PROVE  SwitchInv'
<1>1. OneAsks'
  BY DEF OneAsks
<1>2. ReadsTell'
  BY DEF ReadsTell
<1>3. MemoryTells'
  BY DEF MemoryTells
<1>4. QED BY <1>1, <1>2, <1>3 DEF SwitchInv

\* Then none of the PUTs and reads is under way before the step ...
LEMMA NoneBeside ==
  ASSUME LinkInv, SwitchInv, phase # "open" \/ Still
  PROVE  /\ \A p \in Putters : put[p].at = "idle"
         /\ \A l \in Loaders : load[l].at = "idle" /\ Moved[l].at = "idle"
<1>1. \A l \in Loaders : load[l].at = "idle"
  BY DEF LinkInv, NoneLoading, Still
<1>2. \A p \in Putters : put[p].at = "idle"
  BY DEF SwitchInv, OneAsks, Still, Quiet
<1>3. QED BY <1>1, <1>2, MovedType DEF LinkInv

\* ... nor after it.
LEMMA RestoringTells ==
  ASSUME LinkInv, SwitchInv, TakeSnapshot \/ Restoring
  PROVE  SwitchInv'
<1>1. phase # "open" \/ Still
  BY DEF TakeSnapshot, Restoring, Replace, NotReplaced, PutBack, PutBackFails, TidiesUp, TidyingFails
<1>2. put' = put /\ (load' = load \/ load' = Moved)
  BY DEF TakeSnapshot, Restoring, Replace, NotReplaced, PutBack, PutBackFails, TidiesUp, TidyingFails, SetMemory
<1>3. (\A p \in Putters : put'[p].at = "idle") /\ \A l \in Loaders : load'[l].at = "idle"
  BY <1>1, <1>2, NoneBeside
<1>4. CASE TidiesUp
  <2>1. phase' = "open" /\ switch' = switch /\ memory' \in {"off", "unknown", Word(switch)}
    BY <1>4 DEF TidiesUp, SetMemory, database
  <2>2. memory' = "on" => switch'
    BY <2>1 DEF Word
  <2>3. QED BY <1>3, <2>1, <2>2, AloneTells DEF Down
<1>5. CASE TidyingFails
  <2>1. phase' = "open" /\ untidy'
    BY <1>5 DEF TidyingFails
  <2>2. QED BY <1>3, <2>1, AloneTells DEF Down
<1>6. CASE TakeSnapshot \/ Replace \/ NotReplaced \/ PutBack \/ PutBackFails
  <2>1. phase' \in {"taken", "replaced", "back"}
    BY <1>6 DEF TakeSnapshot, Replace, NotReplaced, PutBack, PutBackFails
  <2>2. QED BY <1>3, <2>1, AloneTells DEF Down
<1>7. QED BY <1>4, <1>5, <1>6 DEF Restoring

LEMMA HaltsTells ==
  ASSUME Halts
  PROVE  SwitchInv'
<1>1. (\A p \in Putters : put'[p].at = "idle") /\ \A l \in Loaders : load'[l].at = "idle"
  BY DEF Halts, Idle
<1>2. phase' = "off" /\ memory' = "unknown"
  BY DEF Halts
<1>3. QED BY <1>1, <1>2, AloneTells

\* A start finds memory empty, and opens with what it has read, or with none.
LEMMA StartingTells ==
  ASSUME LinkInv, SwitchInv, Starting
  PROVE  SwitchInv'
<1>1. phase # "open"
  BY DEF Starting, KeepSnapshot, KeepFails, BootApply, BootLoad
<1>2. put' = put /\ (load' = load \/ load' = Moved)
  BY DEF Starting, KeepSnapshot, KeepFails, BootApply, BootLoad
<1>3. (\A p \in Putters : put'[p].at = "idle") /\ \A l \in Loaders : load'[l].at = "idle"
  BY <1>1, <1>2, NoneBeside
<1>4. /\ phase \in {"off", "boot"} => memory = "unknown"
      /\ phase = "load" /\ ~untidy /\ memory = "on" => switch
  <2>1. phase = "load" => Quiet
    BY NoneBeside DEF Quiet
  <2>2. QED BY <2>1 DEF SwitchInv, MemoryTells, Down
<1>5. CASE KeepSnapshot \/ KeepFails
  <2>1. phase = "off" /\ memory' = memory /\ phase' \in {"boot", "stuck"}
    BY <1>5 DEF KeepSnapshot, KeepFails
  <2>2. QED BY <1>3, <1>4, <2>1, AloneTells
<1>6. CASE BootApply
  <2>1. phase = "boot" /\ phase' = "load"
    BY <1>6 DEF BootApply
  <2>2. memory' = "on" => switch'
    <3>1. CASE ApplyNothing
      BY <1>4, <2>1, <3>1 DEF ApplyNothing
    <3>2. CASE ApplyPending
      <4>1. PICK s \in pending : switch' = s.on /\ memory' = Word(s.on)
        BY <3>2 DEF ApplyPending, PutBackOf
      <4>2. QED BY <4>1 DEF Word
    <3>3. CASE ApplyFails
      BY <3>3 DEF ApplyFails
    <3>4. QED BY <1>6, <3>1, <3>2, <3>3 DEF BootApply
  <2>3. QED BY <1>3, <2>1, <2>2, AloneTells DEF Down
<1>7. CASE BootLoad
  <2>1. /\ phase = "load" /\ phase' = "open" /\ switch' = switch /\ untidy' = untidy
        /\ memory' \in {memory, Word(switch)}
    BY <1>7 DEF BootLoad, database, history, lost
  <2>2. ~untidy' /\ memory' = "on" => switch'
    BY <1>4, <2>1 DEF Word
  <2>3. QED BY <1>3, <2>1, <2>2, AloneTells DEF Down
<1>8. QED BY <1>5, <1>6, <1>7 DEF Starting

LEMMA SwitchStep ==
  ASSUME LinkInv, SwitchInv, "racing" \notin Faults, [SharingNext]_sharing
  PROVE  SwitchInv'
<1>1. ASSUME NEW l \in Loaders, Reads(l) PROVE SwitchInv'
  BY <1>1, LoadTells, ApplyFirstTells DEF Reads
<1>2. ASSUME NEW l \in OwnerLinks, Revoke(l) PROVE SwitchInv'
  BY <1>2, SwitchStays DEF Revoke
<1>3. CASE UNCHANGED sharing
  BY <1>3, SwitchStays DEF sharing, database, history, lost
<1>4. QED BY <1>1, <1>2, <1>3, CommitTells, ReadBackTells, SetTells, RestoringTells, HaltsTells, StartingTells
          DEF SharingNext

\* "A stale read can't switch sharing back on after the owner switched it off"
\* (services/share.py): with every PUT answered and every restore tidied up,
\* sharing is on in memory only if it is on in the database.
THEOREM OffIsOff ==
  ASSUME "switch_off" \notin Faults, "racing" \notin Faults
  PROVE  SharingSpec => []OffStaysOff
<1>1. SwitchInv => OffStaysOff
  BY DEF SwitchInv, MemoryTells, OffStaysOff
<1>2. LinkInv /\ SwitchInv /\ [SharingNext]_sharing => SwitchInv'
  BY SwitchStep
<1>3. QED BY <1>1, <1>2, InitSwitch, LinkInvHolds, PTL DEF SharingSpec
-----------------------------------------------------------------------------
(***************************************************************************)
(* Reading through a link (Shares), for any pieces, scans, tables, links   *)
(* and readers.                                                            *)
(***************************************************************************)
Ticks == [filled : BOOLEAN, item : SUBSET Pieces]
LinkRow == [of : Targets, photos : BOOLEAN, notes : BOOLEAN]
Readings == [at : {"resolved", "viewed", "asking", "shown", "looking", "checking", "slow", "encoding"},
             of : Targets, want : SUBSET Pieces, found : SUBSET Pieces]
Bodies == [at : {"read", "sent"}, of : Targets, want : SUBSET Pieces, found : SUBSET Pieces,
           body : {"clean", "other"}]
Patchings == [at : {"patching"}, link : Links, row : LinkRow]

SharesTypeOK ==
  /\ inSet \subseteq Pieces /\ tick \in Ticks
  /\ linkRows \in [Links -> SUBSET LinkRow] /\ free \in Nat
  /\ reader \in [Readers -> {NoReading} \union Readings \union Bodies \union Patchings]

\* What a link covers is remembered of each request, and what the view of a
\* checklist found has been covered.
Reading(q) == reader[q].at \notin {"idle", "patching"}
Remembered ==
  \A q \in Readers : Reading(q) =>
    /\ Covers[reader[q].of] \subseteq ever[q]
    /\ reader[q].of = "checklist" /\ reader[q].at \in {"viewed", "asking"} => reader[q].found \subseteq ever[q]
    /\ reader[q].at \in {"resolved", "viewed"} => reader[q].of = "checklist"

SharesInv == SharesTypeOK /\ Remembered /\ CleanShown /\ WideningTold

LEMMA ReaderIs ==
  ASSUME SharesTypeOK, NEW q \in Readers
  PROVE  /\ reader[q].at = "idle" => reader[q] = NoReading
         /\ reader[q].at = "patching" => reader[q] \in Patchings
         /\ reader[q].at \in {"read", "sent"} => reader[q] \in Bodies
         /\ reader[q].at \notin {"idle", "patching", "read", "sent"} => reader[q] \in Readings
  BY DEF SharesTypeOK, Readings, Bodies, Patchings, NoReading

LEMMA ReaderMoves ==
  ASSUME SharesTypeOK, NEW q \in Readers, NEW next, ReaderGoes(q, next)
  PROVE  /\ \A p \in Readers : reader'[p] = IF p = q THEN next ELSE reader[p]
         /\ next \in {NoReading} \union Readings \union Bodies \union Patchings =>
              reader' \in [Readers -> {NoReading} \union Readings \union Bodies \union Patchings]
  BY DEF SharesTypeOK, ReaderGoes

LEMMA CoveredPieces ==
  ASSUME SharesTypeOK
  PROVE  /\ Filling \subseteq Pieces /\ \A k \in Targets : Covers[k] \subseteq Pieces
         /\ Covers["checklist"] = Filling
  BY DEF SharesTypeOK, Ticks, Filling, Covers, Targets, Matched, Owned

\* What is remembered of a request that goes on.
LEMMA RememberMore ==
  ASSUME Remembers, NEW q \in Readers, reader'[q].at \notin {"idle", "patching"}
  PROVE  /\ Covers'[reader'[q].of] \subseteq ever'[q]
         /\ reader[q].at # "idle" => ever[q] \subseteq ever'[q]
  BY DEF Remembers, ReaderAt

\* The owner's edits move no request.
LEMMA OwnerKeeps ==
  ASSUME SharesInv, Remembers, reader' = reader, inSet' \subseteq Pieces, tick' \in Ticks,
         linkRows' \in [Links -> SUBSET LinkRow], WideningTold', free' = free
  PROVE  SharesInv'
<1>1. SharesTypeOK'
  BY DEF SharesInv, SharesTypeOK
<1>2. Remembered'
  <2>1. ASSUME NEW q \in Readers, Reading(q)'
        PROVE  /\ Covers'[reader'[q].of] \subseteq ever'[q]
               /\ reader'[q].of = "checklist" /\ reader'[q].at \in {"viewed", "asking"} => reader'[q].found \subseteq ever'[q]
               /\ reader'[q].at \in {"resolved", "viewed"} => reader'[q].of = "checklist"
    <3>1. Covers'[reader'[q].of] \subseteq ever'[q] /\ ever[q] \subseteq ever'[q] /\ Reading(q)
      BY <2>1, RememberMore DEF Reading
    <3>2. QED BY <3>1 DEF SharesInv, Remembered
  <2>2. QED BY <2>1 DEF Remembered
<1>3. CleanShown'
  BY DEF SharesInv, CleanShown, ReaderAt
<1>4. QED BY <1>1, <1>2, <1>3 DEF SharesInv

\* A request moves, and nothing else but what is free.
LEMMA ReadKeeps ==
  ASSUME SharesInv, Remembers, NEW q \in Readers, NEW next \in {NoReading} \union Readings \union Bodies \union Patchings,
         ReaderGoes(q, next), UNCHANGED <<collection, linkRows, alerted>>, free' \in Nat,
         next.at = "sent" => next.body = "clean",
         next.at \in {"resolved", "viewed"} => next.of = "checklist",
         next.at \in {"viewed", "asking"} /\ next.of = "checklist" =>
           next.found = {} \/ (reader[q].at # "idle" /\ next.found \subseteq ever[q])
  PROVE  SharesInv'
<1>1. SharesTypeOK'
  BY ReaderMoves DEF SharesInv, SharesTypeOK, collection
<1>2. \A p \in Readers : reader'[p] = IF p = q THEN next ELSE reader[p]
  BY ReaderMoves DEF SharesInv
<1>3. Remembered'
  <2>1. ASSUME NEW p \in Readers, Reading(p)'
        PROVE  /\ Covers'[reader'[p].of] \subseteq ever'[p]
               /\ reader'[p].of = "checklist" /\ reader'[p].at \in {"viewed", "asking"} => reader'[p].found \subseteq ever'[p]
               /\ reader'[p].at \in {"resolved", "viewed"} => reader'[p].of = "checklist"
    <3>1. Covers'[reader'[p].of] \subseteq ever'[p] /\ (reader[p].at # "idle" => ever[p] \subseteq ever'[p])
      BY <2>1, RememberMore DEF Reading
    <3>2. CASE p = q
      BY <1>2, <3>1, <3>2
    <3>3. CASE p # q
      <4>1. reader'[p] = reader[p] /\ Reading(p) /\ ever[p] \subseteq ever'[p]
        BY <1>2, <2>1, <3>1, <3>3 DEF Reading
      <4>2. QED BY <3>1, <4>1 DEF SharesInv, Remembered
    <3>4. QED BY <3>2, <3>3
  <2>2. QED BY <2>1 DEF Remembered
<1>4. CleanShown'
  BY <1>2 DEF SharesInv, CleanShown, ReaderAt
<1>5. WideningTold'
  BY DEF SharesInv, WideningTold
<1>6. QED BY <1>1, <1>3, <1>4, <1>5 DEF SharesInv

LEMMA TickKinds ==
  ASSUME NEW t \in Ticks, NEW u,
         \/ u = t \/ u = NoTick \/ u = [t EXCEPT !.filled = TRUE]
         \/ \E i \in Pieces : u = [filled |-> TRUE, item |-> {i}] \/ u = [t EXCEPT !.item = @ \ {i}]
  PROVE  u \in Ticks
<1>1. NoTick \in Ticks
  BY DEF NoTick, Ticks
<1>2. [t EXCEPT !.filled = TRUE] \in Ticks
  BY DEF Ticks
<1>3. ASSUME NEW i \in Pieces
      PROVE  [filled |-> TRUE, item |-> {i}] \in Ticks /\ [t EXCEPT !.item = @ \ {i}] \in Ticks
  <2>1. [filled |-> TRUE, item |-> {i}] \in Ticks
    BY DEF Ticks
  <2>2. [t EXCEPT !.item = @ \ {i}] \in Ticks
    BY DEF Ticks
  <2>3. QED BY <2>1, <2>2
<1>4. QED BY <1>1, <1>2, <1>3

LEMMA EditsKeep ==
  ASSUME SharesInv, Remembers,
         \/ \E i \in Pieces : Regroups(i) \/ \E to \in {"owned", "sold", "trash", "purged"} : MovesPiece(i, to)
         \/ \E i \in Pieces, f \in {"clean", "dirty", "broken", "gone"} : PutsFile(i, f)
         \/ TicksSlot \/ Switches
  PROVE  SharesInv'
<1>1. UNCHANGED <<reader, linkRows, alerted, free>>
  BY Zenon DEF Regroups, MovesPiece, PutsFile, TicksSlot, Switches
<1>2. WideningTold' /\ linkRows' \in [Links -> SUBSET LinkRow]
  BY <1>1 DEF SharesInv, SharesTypeOK, WideningTold
<1>3. inSet' \subseteq Pieces
  BY DEF SharesInv, SharesTypeOK, Regroups, MovesPiece, PutsFile, TicksSlot, Switches, collection
<1>4. tick' \in Ticks
  <2>1. tick \in Ticks
    BY DEF SharesInv, SharesTypeOK
  <2>2. \/ tick' = tick \/ tick' = NoTick \/ tick' = [tick EXCEPT !.filled = TRUE]
        \/ \E i \in Pieces : tick' = [filled |-> TRUE, item |-> {i}] \/ tick' = [tick EXCEPT !.item = @ \ {i}]
    BY DEF Regroups, MovesPiece, PutsFile, TicksSlot, Switches, collection
  <2>3. QED BY <2>1, <2>2, TickKinds
<1>5. QED BY <1>1, <1>2, <1>3, <1>4, OwnerKeeps

LEMMA LinksKeep ==
  ASSUME SharesInv, Remembers,
         \/ \E k \in Targets : Deletes(k)
         \/ \E l \in Links : Revokes(l) \/ \E of \in Targets, p, n \in BOOLEAN : MakesLink(l, of, p, n)
  PROVE  SharesInv'
<1>1. UNCHANGED <<reader, free>>
  BY Zenon DEF Deletes, Revokes, MakesLink
<1>2. inSet' \subseteq Pieces /\ tick' \in Ticks
  <2>1. inSet \subseteq Pieces /\ tick \in Ticks
    BY DEF SharesInv, SharesTypeOK
  <2>2. (tick' = tick \/ tick' = NoTick) /\ (inSet' = inSet \/ inSet' = {})
    BY DEF Deletes, Revokes, MakesLink, collection
  <2>3. QED BY <2>1, <2>2, TickKinds
<1>3. linkRows \in [Links -> SUBSET LinkRow] /\ \A l \in Links : \A r \in linkRows[l] : r.notes => l \in alerted
  BY DEF SharesInv, SharesTypeOK, WideningTold
<1>4. CASE \E k \in Targets : Deletes(k)
  <2>1. linkRows' \in [Links -> SUBSET LinkRow] /\ alerted' = alerted /\ \A l \in Links : linkRows'[l] \subseteq linkRows[l]
    BY <1>3, <1>4 DEF Deletes
  <2>2. WideningTold'
    BY <1>3, <2>1 DEF WideningTold
  <2>3. QED BY <1>1, <1>2, <2>1, <2>2, OwnerKeeps
<1>5. CASE \E l \in Links : Revokes(l)
  <2>1. linkRows' \in [Links -> SUBSET LinkRow] /\ alerted' = alerted /\ \A l \in Links : linkRows'[l] \subseteq linkRows[l]
    BY <1>3, <1>5 DEF Revokes
  <2>2. WideningTold'
    BY <1>3, <2>1 DEF WideningTold
  <2>3. QED BY <1>1, <1>2, <2>1, <2>2, OwnerKeeps
<1>6. ASSUME NEW l \in Links, NEW of \in Targets, NEW p \in BOOLEAN, NEW n \in BOOLEAN, MakesLink(l, of, p, n)
      PROVE  SharesInv'
  <2>1. Row(of, p, n) \in LinkRow /\ Row(of, p, n).notes = n
    BY DEF Row, LinkRow
  <2>2. linkRows' = [linkRows EXCEPT ![l] = {Row(of, p, n)}]
        /\ alerted' = IF n THEN alerted \union {l} ELSE alerted \ {l}
    BY <1>6 DEF MakesLink
  <2>3. linkRows' \in [Links -> SUBSET LinkRow]
    BY <1>3, <2>1, <2>2
  <2>4. WideningTold'
    <3>1. ASSUME NEW m \in Links, NEW r \in linkRows'[m], r.notes PROVE m \in alerted'
      <4>1. CASE m = l
        <5>1. r = Row(of, p, n)
          BY <1>3, <2>2, <3>1, <4>1
        <5>2. n
          BY <2>1, <3>1, <5>1
        <5>3. QED BY <2>2, <4>1, <5>2
      <4>2. CASE m # l
        <5>1. r \in linkRows[m] /\ m \in alerted
          BY <1>3, <2>2, <3>1, <4>2
        <5>2. QED BY <2>2, <4>2, <5>1
      <4>3. QED BY <4>1, <4>2
    <3>2. QED BY <3>1 DEF WideningTold
  <2>5. QED BY <1>1, <1>2, <2>3, <2>4, OwnerKeeps
<1>7. QED BY <1>4, <1>5, <1>6

\* A change of a link that another has changed since it was loaded.
LEMMA SavesKeep ==
  ASSUME SharesInv, Remembers, NEW q \in Readers, NEW n \in BOOLEAN, SavesLink(q, n)
  PROVE  SharesInv'
<1> DEFINE l == reader[q].link
<1>1. reader[q] \in Patchings /\ l \in Links /\ reader[q].row.notes \in BOOLEAN
  BY ReaderIs DEF SavesLink, ReaderAt, SharesInv, Patchings, LinkRow
<1>2. ReaderGoes(q, NoReading) /\ UNCHANGED <<collection, free>>
  BY DEF SavesLink, images
<1>3. CASE ~Changed(q, n)
  <2>1. UNCHANGED <<linkRows, alerted>>
    BY <1>3 DEF SavesLink
  <2>2. NoReading.at = "idle" /\ free' \in Nat
    BY <1>2 DEF NoReading, SharesInv, SharesTypeOK
  <2>3. QED BY <1>2, <2>1, <2>2, ReadKeeps
<1>4. CASE Changed(q, n)
  <2>1. linkRows \in [Links -> SUBSET LinkRow]
    BY DEF SharesInv, SharesTypeOK
  <2>2. linkRows' = [linkRows EXCEPT ![l] = {[r EXCEPT !.notes = n] : r \in @}]
    BY <1>4 DEF SavesLink
  <2>3. \A r \in LinkRow : [r EXCEPT !.notes = n] \in LinkRow /\ [r EXCEPT !.notes = n].notes = n
    BY DEF LinkRow
  <2>4. linkRows' \in [Links -> SUBSET LinkRow]
    BY <1>1, <2>1, <2>2, <2>3
  <2>5. /\ n => l \in alerted'
        /\ \A m \in Links : m # l => (m \in alerted <=> m \in alerted')
    BY <1>1, <1>4 DEF SavesLink, Changed
  <2>6. WideningTold'
    <3>1. ASSUME NEW m \in Links, NEW r \in linkRows'[m], r.notes PROVE m \in alerted'
      <4>1. CASE m = l
        <5>1. PICK r0 \in linkRows[l] : r = [r0 EXCEPT !.notes = n]
          BY <1>1, <2>1, <2>2, <3>1, <4>1
        <5>2. r.notes = n
          BY <1>1, <2>1, <2>3, <5>1
        <5>3. QED BY <2>5, <3>1, <4>1, <5>2
      <4>2. CASE m # l
        <5>1. r \in linkRows[m]
          BY <1>1, <2>1, <2>2, <3>1, <4>2
        <5>2. QED BY <2>5, <3>1, <4>2, <5>1 DEF SharesInv, WideningTold
      <4>3. QED BY <4>1, <4>2
    <3>2. QED BY <3>1 DEF WideningTold
  <2>7. SharesTypeOK'
    BY <1>2, <2>4, ReaderMoves DEF SharesInv, SharesTypeOK, collection
  <2>8. \A p \in Readers : reader'[p] = reader[p] \/ reader'[p].at = "idle"
    BY <1>2, ReaderMoves DEF SharesInv, NoReading
  <2>9. CleanShown'
    BY <2>8 DEF SharesInv, CleanShown, ReaderAt
  <2>10. Remembered'
    <3>1. ASSUME NEW p \in Readers, Reading(p)'
          PROVE  /\ Covers'[reader'[p].of] \subseteq ever'[p]
                 /\ reader'[p].of = "checklist" /\ reader'[p].at \in {"viewed", "asking"} => reader'[p].found \subseteq ever'[p]
                 /\ reader'[p].at \in {"resolved", "viewed"} => reader'[p].of = "checklist"
      <4>1. reader'[p] = reader[p] /\ Reading(p)
        BY <2>8, <3>1 DEF Reading
      <4>2. Covers'[reader'[p].of] \subseteq ever'[p] /\ ever[p] \subseteq ever'[p]
        BY <3>1, <4>1, RememberMore DEF Reading
      <4>3. QED BY <4>1, <4>2 DEF SharesInv, Remembered
    <3>2. QED BY <3>1 DEF Remembered
  <2>11. QED BY <2>6, <2>7, <2>9, <2>10 DEF SharesInv
<1>5. QED BY <1>3, <1>4

\* The steps of a request through a link.
LEMMA RequestsKeep ==
  ASSUME SharesInv, Remembers, NEW q \in Readers,
         \/ \E l \in Links : OpensLink(q, l) \/ \E want \in {{}} \union {{i} : i \in Pieces} : Resolves(q, l, want)
         \/ Views(q) \/ Filters(q) \/ Asks(q) \/ Looks(q) \/ Fetches(q) \/ Checks(q)
         \/ Encodes(q) \/ Encoded(q) \/ Answered(q)
  PROVE  SharesInv'
<1>1. UNCHANGED <<collection, linkRows, alerted>> /\ free' \in Nat
  <2>1. UNCHANGED <<collection, linkRows, alerted>>
    BY Zenon DEF OpensLink, Resolves, Views, Filters, Asks, Looks, Fetches, Checks, Encodes, Encoded, Answered
  <2>2. free' = free \/ free' = free + 1 \/ (free # 0 /\ free' = free - 1)
    BY DEF OpensLink, Resolves, Views, Filters, Asks, Looks, Fetches, Checks, Encodes, Encoded, Answered, Releases
  <2>3. QED BY <2>1, <2>2 DEF SharesInv, SharesTypeOK
<1>2. NoReading.at = "idle"
  BY DEF NoReading
<1> DEFINE Rest == {NoReading} \union Readings \union Bodies \union Patchings
<1>3. CASE \E l \in Links : OpensLink(q, l)
  <2>1. PICK l \in Links : OpensLink(q, l)
    BY <1>3
  <2>2. PICK r \in linkRows[l] : ReaderGoes(q, [at |-> "patching", link |-> l, row |-> r])
    BY <2>1 DEF OpensLink
  <2>3. [at |-> "patching", link |-> l, row |-> r] \in Patchings
    BY <2>2 DEF SharesInv, SharesTypeOK, Patchings
  <2>4. QED BY <1>1, <2>2, <2>3, ReadKeeps
<1>4. CASE \E l \in Links : \E want \in {{}} \union {{i} : i \in Pieces} : Resolves(q, l, want)
  <2>1. PICK l \in Links, want \in {{}} \union {{i} : i \in Pieces} : Resolves(q, l, want)
    BY <1>4
  <2>2. PICK r \in linkRows[l] : ReaderGoes(q, [at |-> IF r.of = "checklist" THEN "resolved" ELSE "asking",
                                                of |-> r.of, want |-> want, found |-> {}])
    BY <2>1 DEF Resolves
  <2> DEFINE next == [at |-> IF r.of = "checklist" THEN "resolved" ELSE "asking", of |-> r.of, want |-> want, found |-> {}]
  <2>3. r.of \in Targets /\ want \subseteq Pieces
    BY <2>2 DEF SharesInv, SharesTypeOK, LinkRow
  <2>4. next \in Readings /\ (next.at = "resolved" => next.of = "checklist") /\ next.at \in {"resolved", "asking"} /\ next.found = {}
    BY <2>3 DEF Readings
  <2> HIDE DEF next
  <2>5. QED BY <1>1, <2>2, <2>4, ReadKeeps DEF next
<1>5. CASE Views(q)
  <2> DEFINE next == [reader[q] EXCEPT !.at = "viewed", !.found = Filling]
  <2>1. reader[q] \in Readings /\ reader[q].at = "resolved"
    BY <1>5, ReaderIs DEF Views, ReaderAt, SharesInv
  <2>2. next \in Readings /\ next.at = "viewed" /\ next.of = reader[q].of /\ next.found = Filling
    BY <2>1, CoveredPieces DEF Readings, SharesInv
  <2>3. reader[q].of = "checklist" /\ Filling \subseteq ever[q]
    BY <2>1, CoveredPieces DEF SharesInv, Remembered, Reading
  <2>4. ReaderGoes(q, next)
    BY <1>5 DEF Views
  <2> HIDE DEF next
  <2>5. QED BY <1>1, <2>1, <2>2, <2>3, <2>4, ReadKeeps
<1>6. CASE Filters(q)
  <2> DEFINE next == [reader[q] EXCEPT !.at = "asking", !.found = @ \cap Owned]
  <2>1. reader[q] \in Readings /\ reader[q].at = "viewed"
    BY <1>6, ReaderIs DEF Filters, ReaderAt, SharesInv
  <2>2. next \in Readings /\ next.at = "asking" /\ next.of = reader[q].of /\ next.found = reader[q].found \cap Owned
    BY <2>1 DEF Readings
  <2>3. reader[q].of = "checklist" /\ next.found \subseteq ever[q]
    BY <2>1, <2>2 DEF SharesInv, Remembered, Reading
  <2>4. ReaderGoes(q, next)
    BY <1>6 DEF Filters
  <2> HIDE DEF next
  <2>5. QED BY <1>1, <2>1, <2>2, <2>3, <2>4, ReadKeeps
<1>7. CASE Asks(q) \/ Looks(q) \/ Encodes(q)
  <2>1. reader[q] \in Readings
    BY <1>7, ReaderIs DEF Asks, Looks, Encodes, ReaderAt, SharesInv
  <2>2. PICK at \in {"shown", "looking", "slow", "checking", "encoding"}, found \in SUBSET Pieces :
          ReaderGoes(q, NoReading) \/ ReaderGoes(q, [reader[q] EXCEPT !.at = at, !.found = found])
    <3>1. CASE Asks(q)
      <4>1. Shown(q) \subseteq Pieces /\ reader[q].want \subseteq Pieces
        BY <2>1 DEF Shown, Owned, Readings
      <4>2. QED BY <3>1, <4>1 DEF Asks
    <3>2. CASE Looks(q)
      <4>1. \A at : [reader[q] EXCEPT !.at = at] = [reader[q] EXCEPT !.at = at, !.found = reader[q].found]
        BY <2>1 DEF Readings
      <4>2. reader[q].found \subseteq Pieces
        BY <2>1 DEF Readings
      <4>3. \/ ReaderGoes(q, NoReading) \/ ReaderGoes(q, [reader[q] EXCEPT !.at = "slow"])
            \/ ReaderGoes(q, [reader[q] EXCEPT !.at = "checking"])
        BY <3>2 DEF Looks
      <4>4. QED BY <4>1, <4>2, <4>3
    <3>3. CASE Encodes(q)
      <4>1. [reader[q] EXCEPT !.at = "encoding"] = [reader[q] EXCEPT !.at = "encoding", !.found = reader[q].found]
        BY <2>1 DEF Readings
      <4>2. reader[q].found \subseteq Pieces
        BY <2>1 DEF Readings
      <4>3. \/ ReaderGoes(q, NoReading) \/ ReaderGoes(q, [reader[q] EXCEPT !.at = "encoding"])
        BY <3>3 DEF Encodes
      <4>4. QED BY <4>1, <4>2, <4>3
    <3>4. QED BY <1>7, <3>1, <3>2, <3>3
  <2> DEFINE next == [reader[q] EXCEPT !.at = at, !.found = found]
  <2>3. next \in Readings /\ next.at = at
    BY <2>1 DEF Readings
  <2> HIDE DEF next
  <2>4. QED BY <1>1, <1>2, <2>2, <2>3, ReadKeeps DEF next
<1>8. CASE Fetches(q) \/ Checks(q) \/ Encoded(q)
  <2>1. reader[q] \in Readings \union Bodies
    BY <1>8, ReaderIs DEF Fetches, Checks, Encoded, ReaderAt, SharesInv
  <2>2. reader[q].of \in Targets /\ reader[q].want \subseteq Pieces
    BY <2>1 DEF Readings, Bodies
  <2> DEFINE slow == [at |-> "slow", of |-> reader[q].of, want |-> reader[q].want, found |-> {}]
             body(at, bytes) == [at |-> at, of |-> reader[q].of, want |-> reader[q].want, found |-> {}, body |-> bytes]
  <2>3. slow \in Readings /\ slow.at = "slow"
    BY <2>2 DEF Readings
  <2>4. ASSUME NEW at \in {"read", "sent"}, NEW bytes \in {"clean", "other"}
        PROVE  body(at, bytes) \in Bodies /\ body(at, bytes).at = at /\ body(at, bytes).body = bytes
    BY <2>2 DEF Bodies
  <2>5. Bytes(q) \in {"clean", "other"}
    BY DEF Bytes
  <2>6. CASE Fetches(q)
    <3>1. ReaderGoes(q, body("read", Bytes(q)))
      BY <2>6 DEF Fetches
    <3> DEFINE next == body("read", Bytes(q))
    <3>2. next \in Bodies /\ next.at = "read"
      BY <2>4, <2>5
    <3> HIDE DEF next
    <3>3. QED BY <1>1, <3>1, <3>2, ReadKeeps DEF next
  <2>7. CASE Checks(q) \/ Encoded(q)
    <3>1. \/ ReaderGoes(q, NoReading) \/ ReaderGoes(q, slow) \/ ReaderGoes(q, body("sent", "clean"))
      BY <2>7 DEF Checks, Encoded, Sends, Slowly
    <3>2. body("sent", "clean") \in Bodies /\ body("sent", "clean").at = "sent" /\ body("sent", "clean").body = "clean"
      BY <2>4
    <3> HIDE DEF slow, body
    <3>3. CASE ReaderGoes(q, NoReading)
      BY <1>1, <1>2, <3>3, ReadKeeps
    <3>4. CASE ReaderGoes(q, slow)
      BY <1>1, <2>3, <3>4, ReadKeeps
    <3>5. CASE ReaderGoes(q, body("sent", "clean"))
      BY <1>1, <3>2, <3>5, ReadKeeps
    <3>6. QED BY <3>1, <3>3, <3>4, <3>5
  <2>8. QED BY <1>8, <2>6, <2>7
<1>9. CASE Answered(q)
  BY <1>1, <1>2, <1>9, ReadKeeps DEF Answered
<1>10. QED BY <1>3, <1>4, <1>5, <1>6, <1>7, <1>8, <1>9

LEMMA SharesStart == SharesInit => SharesInv
<1> SUFFICES ASSUME SharesInit PROVE SharesInv
  OBVIOUS
<1>1. /\ inSet = Pieces /\ tick = NoTick /\ free = Slots /\ reader = [q \in Readers |-> NoReading]
      /\ linkRows \in [Links -> {{}} \union {{r} : r \in [of : Targets, photos : {TRUE}, notes : BOOLEAN]}]
      /\ alerted = {l \in Links : \E r \in linkRows[l] : r.notes}
  BY DEF SharesInit
<1>2. NoTick \in Ticks /\ [of : Targets, photos : {TRUE}, notes : BOOLEAN] \subseteq LinkRow
  BY DEF NoTick, Ticks, LinkRow
<1>3. linkRows \in [Links -> SUBSET LinkRow]
  <2>1. ASSUME NEW l \in Links PROVE linkRows[l] \in SUBSET LinkRow
    <3>1. linkRows[l] = {} \/ \E r \in [of : Targets, photos : {TRUE}, notes : BOOLEAN] : linkRows[l] = {r}
      BY <1>1
    <3>2. QED BY <1>2, <3>1
  <2>2. QED BY <1>1, <2>1
<1>4. \A q \in Readers : reader[q].at = "idle"
  BY <1>1 DEF NoReading
<1>5. SharesTypeOK
  BY <1>1, <1>2, <1>3, SharesAssumption DEF SharesTypeOK
<1>6. Remembered /\ CleanShown /\ WideningTold
  BY <1>1, <1>4 DEF Remembered, Reading, CleanShown, ReaderAt, WideningTold
<1>7. QED BY <1>5, <1>6 DEF SharesInv

LEMMA SharesStep == SharesInv /\ [SharesNext]_shares => SharesInv'
<1> SUFFICES ASSUME SharesInv, [SharesNext]_shares PROVE SharesInv'
  OBVIOUS
<1>1. CASE UNCHANGED shares
  BY <1>1 DEF shares, collection, images, SharesInv, SharesTypeOK, Remembered, Reading, Covers, Filling, Matched, Owned,
     CleanShown, ReaderAt, WideningTold
<1>2. CASE SharesNext
  BY <1>2, EditsKeep, LinksKeep, SavesKeep, RequestsKeep DEF SharesNext, Steps
<1>3. QED BY <1>1, <1>2

THEOREM SharesInvHolds == SharesSpec => []SharesInv
  BY SharesStart, SharesStep, PTL DEF SharesSpec

(* A link's reader never gets a body with metadata in it.                  *)
THEOREM ShownIsClean == SharesSpec => []CleanShown
<1>1. SharesInv => CleanShown
  BY DEF SharesInv
<1>2. QED BY <1>1, SharesInvHolds, PTL

(* Notes shown through a link were asked for or alerted of.                *)
THEOREM WideningIsTold == SharesSpec => []WideningTold
<1>1. SharesInv => WideningTold
  BY DEF SharesInv
<1>2. QED BY <1>1, SharesInvHolds, PTL

(* What a link shows is owned when it is shown, and was covered by the     *)
(* link during the request.                                                *)
THEOREM ShownIsShared == SharesSpec => OnlyShared
<1> DEFINE Step == \A q \in Readers : (ReaderAt(q, "asking") /\ reader'[q].at \in {"shown", "looking"})
                     => reader'[q].found \subseteq Owned \cap ever[q]
<1>1. ASSUME SharesInv, SharesNext, NEW q \in Readers, ReaderAt(q, "asking"), reader'[q].at \in {"shown", "looking"}
      PROVE  reader'[q].found \subseteq Owned \cap ever[q]
  <2>1. reader[q] \in Readings /\ reader[q].at = "asking"
    BY <1>1, ReaderIs DEF ReaderAt, SharesInv
  <2>2. Covers[reader[q].of] \subseteq ever[q] /\ (reader[q].of = "checklist" => reader[q].found \subseteq ever[q])
    BY <1>1, <2>1 DEF SharesInv, Remembered, Reading
  <2>3. Asks(q)
    <3>1. reader'[q] # reader[q]
      BY <1>1, <2>1
    <3>2. ASSUME NEW p \in Readers, NEW next, ReaderGoes(p, next) PROVE p = q
      BY <1>1, <3>1, <3>2, ReaderMoves DEF SharesInv
    <3>3. PICK p \in Readers :
            \/ \E l \in Links : OpensLink(p, l) \/ \E want \in {{}} \union {{i} : i \in Pieces} : Resolves(p, l, want)
            \/ \E n \in BOOLEAN : SavesLink(p, n)
            \/ Views(p) \/ Filters(p) \/ Asks(p) \/ Looks(p) \/ Fetches(p) \/ Checks(p)
            \/ Encodes(p) \/ Encoded(p) \/ Answered(p)
      BY <1>1, <3>1 DEF SharesNext, Steps, Regroups, MovesPiece, PutsFile, Deletes, TicksSlot, Switches, Revokes, MakesLink
    <3>4. \E next : ReaderGoes(p, next)
      <4>1. CASE (\E l \in Links : OpensLink(p, l) \/ \E want \in {{}} \union {{i} : i \in Pieces} : Resolves(p, l, want))
                 \/ (\E n \in BOOLEAN : SavesLink(p, n))
        BY <4>1 DEF OpensLink, Resolves, SavesLink
      <4>2. CASE Views(p) \/ Filters(p) \/ Asks(p) \/ Looks(p)
        BY <4>2 DEF Views, Filters, Asks, Looks
      <4>3. CASE Fetches(p) \/ Checks(p) \/ Encodes(p) \/ Encoded(p) \/ Answered(p)
        BY <4>3 DEF Fetches, Checks, Sends, Slowly, Encodes, Encoded, Answered
      <4>4. QED BY <3>3, <4>1, <4>2, <4>3
    <3>5. p = q
      BY <3>2, <3>4
    <3>6. QED
      BY <2>1, <3>3, <3>5 DEF ReaderAt, OpensLink, Resolves, SavesLink, Views, Filters, Looks, Fetches, Checks, Encodes,
         Encoded, Answered
  <2>4. Shown(q) \subseteq Owned \cap ever[q]
    BY <2>2 DEF Shown
  <2>5. \/ reader'[q] = NoReading
        \/ reader'[q] = [reader[q] EXCEPT !.at = "shown", !.found = Shown(q)]
        \/ reader[q].want \subseteq Shown(q) /\ reader'[q] = [reader[q] EXCEPT !.at = "looking", !.found = reader[q].want]
    BY <1>1, <2>3, ReaderMoves DEF Asks, SharesInv
  <2>6. NoReading.at = "idle"
    BY DEF NoReading
  <2>7. QED BY <1>1, <2>1, <2>4, <2>5, <2>6 DEF Readings
<1>2. SharesInv /\ [SharesNext]_shares => [Step]_shares
  BY <1>1
<1>3. QED BY <1>2, SharesInvHolds, PTL DEF SharesSpec, OnlyShared

\* The slots that are taken.
Encoding == {q \in Readers : ReaderAt(q, "encoding")}

LEMMA SameEncoding ==
  ASSUME SharesInv, NEW q \in Readers, NEW next, ReaderGoes(q, next), next.at # "encoding", ~ReaderAt(q, "encoding")
  PROVE  Encoding' = Encoding
  BY ReaderMoves DEF SharesInv, Encoding, ReaderAt

LEMMA SlotsStep ==
  ASSUME IsFiniteSet(Readers), SharesInv, SlotsBack, [SharesNext]_shares
  PROVE  SlotsBack'
<1>1. IsFiniteSet(Encoding) /\ free + Cardinality(Encoding) = Slots /\ Cardinality(Encoding) \in Nat
  <2>1. Encoding \subseteq Readers
    BY DEF Encoding
  <2>2. QED BY <2>1, FS_Subset, FS_CardinalityType DEF SlotsBack, Encoding
<1>2. SlotsBack' <=> free' + Cardinality(Encoding') = Slots
  BY DEF SlotsBack, Encoding
<1>3. CASE Encoding' = Encoding /\ free' = free
  BY <1>1, <1>2, <1>3
<1>4. CASE reader' = reader /\ free' = free
  <2>1. Encoding' = Encoding
    BY <1>4 DEF Encoding, ReaderAt
  <2>2. QED BY <1>3, <1>4, <2>1
<1>5. ASSUME NEW q \in Readers, Encodes(q) PROVE SlotsBack'
  <2>1. CASE free = 0
    <3>1. ReaderGoes(q, NoReading) /\ ~ReaderAt(q, "encoding") /\ NoReading.at # "encoding" /\ free' = free
      BY <1>5, <2>1 DEF Encodes, ReaderAt, NoReading
    <3>2. QED BY <1>3, <3>1, SameEncoding
  <2>2. CASE free # 0
    <3> DEFINE next == [reader[q] EXCEPT !.at = "encoding"]
    <3>1. reader[q] \in Readings /\ reader[q].at = "slow"
      BY <1>5, ReaderIs DEF Encodes, ReaderAt, SharesInv
    <3>2. next.at = "encoding" /\ ReaderGoes(q, next) /\ free' = free - 1
      BY <1>5, <2>2, <3>1 DEF Encodes, Readings
    <3> HIDE DEF next
    <3>3. Encoding' = Encoding \union {q} /\ q \notin Encoding
      BY <3>1, <3>2, ReaderMoves DEF SharesInv, Encoding, ReaderAt
    <3>4. Cardinality(Encoding') = Cardinality(Encoding) + 1
      BY <1>1, <3>3, FS_AddElement
    <3>5. free \in Nat
      BY DEF SharesInv, SharesTypeOK
    <3>6. QED BY <1>1, <1>2, <3>2, <3>4, <3>5
  <2>3. QED BY <2>1, <2>2
<1>6. ASSUME NEW q \in Readers, Encoded(q) PROVE SlotsBack'
  <2>1. q \in Encoding /\ free' = free + 1
    BY <1>6 DEF Encoded, Encoding, Releases
  <2>2. PICK next : ReaderGoes(q, next) /\ next.at # "encoding"
    BY <1>6 DEF Encoded, Sends, NoReading
  <2>3. Encoding' = Encoding \ {q}
    BY <2>2, ReaderMoves DEF SharesInv, Encoding, ReaderAt
  <2>4. Cardinality(Encoding') = Cardinality(Encoding) - 1
    BY <1>1, <2>1, <2>3, FS_RemoveElement
  <2>5. free \in Nat
    BY DEF SharesInv, SharesTypeOK
  <2>6. QED BY <1>1, <1>2, <2>1, <2>4, <2>5
<1>7. ASSUME NEW q \in Readers, NEW next, ReaderGoes(q, next), next.at # "encoding", ~ReaderAt(q, "encoding"), free' = free
      PROVE  SlotsBack'
  BY <1>3, <1>7, SameEncoding
<1>8. ASSUME NEW q \in Readers,
             \/ \E l \in Links : OpensLink(q, l) \/ \E want \in {{}} \union {{i} : i \in Pieces} : Resolves(q, l, want)
             \/ \E n \in BOOLEAN : SavesLink(q, n)
      PROVE  SlotsBack'
  <2>1. \E next : ReaderGoes(q, next) /\ next.at # "encoding"
    <3>1. ASSUME NEW l \in Links, OpensLink(q, l) PROVE \E next : ReaderGoes(q, next) /\ next.at # "encoding"
      <4>1. PICK r \in linkRows[l] : ReaderGoes(q, [at |-> "patching", link |-> l, row |-> r])
        BY <3>1 DEF OpensLink
      <4>2. [at |-> "patching", link |-> l, row |-> r].at # "encoding"
        OBVIOUS
      <4>3. QED BY <4>1, <4>2
    <3>2. ASSUME NEW l \in Links, NEW want, Resolves(q, l, want) PROVE \E next : ReaderGoes(q, next) /\ next.at # "encoding"
      <4>1. PICK r \in linkRows[l] : ReaderGoes(q, [at |-> IF r.of = "checklist" THEN "resolved" ELSE "asking",
                                                    of |-> r.of, want |-> want, found |-> {}])
        BY <3>2 DEF Resolves
      <4>2. [at |-> IF r.of = "checklist" THEN "resolved" ELSE "asking", of |-> r.of, want |-> want, found |-> {}].at # "encoding"
        OBVIOUS
      <4>3. QED BY <4>1, <4>2
    <3>3. ASSUME NEW n, SavesLink(q, n) PROVE \E next : ReaderGoes(q, next) /\ next.at # "encoding"
      BY <3>3 DEF SavesLink, NoReading
    <3>4. QED BY <1>8, <3>1, <3>2, <3>3
  <2>2. free' = free /\ ~ReaderAt(q, "encoding")
    BY <1>8 DEF OpensLink, Resolves, SavesLink, ReaderAt, images
  <2>3. QED BY <1>7, <2>1, <2>2
<1>9. ASSUME NEW q \in Readers,
             Views(q) \/ Filters(q) \/ Asks(q) \/ Looks(q) \/ Fetches(q) \/ Checks(q) \/ Answered(q)
      PROVE  SlotsBack'
  <2>1. free' = free /\ ~ReaderAt(q, "encoding")
    BY <1>9 DEF Views, Filters, Asks, Looks, Fetches, Checks, Answered, ReaderAt
  <2>2. reader[q] \in Readings \/ Fetches(q) \/ Checks(q) \/ Answered(q)
    BY <1>9, ReaderIs DEF SharesInv, Views, Filters, Asks, Looks, ReaderAt
  <2>3. \E next : ReaderGoes(q, next) /\ next.at # "encoding"
    <3>1. NoReading.at # "encoding"
      BY DEF NoReading
    <3>2. CASE Answered(q)
      BY <3>1, <3>2 DEF Answered
    <3>4. CASE Fetches(q) \/ Checks(q)
      <4>1. /\ \A body : [at |-> "read", of |-> reader[q].of, want |-> reader[q].want, found |-> {}, body |-> body].at # "encoding"
            /\ \A body : [at |-> "sent", of |-> reader[q].of, want |-> reader[q].want, found |-> {}, body |-> body].at # "encoding"
            /\ [at |-> "slow", of |-> reader[q].of, want |-> reader[q].want, found |-> {}].at # "encoding"
        OBVIOUS
      <4>2. QED BY <3>4, <4>1 DEF Fetches, Checks, Sends, Slowly
    <3>3. CASE reader[q] \in Readings
      <4>1. \A found : \A at \in {"viewed", "asking", "shown", "looking", "slow", "checking"} :
              /\ [reader[q] EXCEPT !.at = at].at # "encoding"
              /\ [reader[q] EXCEPT !.at = at, !.found = found].at # "encoding"
        BY <3>3 DEF Readings
      <4>3. CASE Views(q) \/ Filters(q)
        BY <4>1, <4>3 DEF Views, Filters
      <4>4. CASE Asks(q)
        BY <3>1, <4>1, <4>4 DEF Asks
      <4>5. CASE Looks(q)
        <5>1. \/ ReaderGoes(q, NoReading) \/ ReaderGoes(q, [reader[q] EXCEPT !.at = "slow"])
              \/ ReaderGoes(q, [reader[q] EXCEPT !.at = "checking"])
          BY <4>5 DEF Looks
        <5>2. QED BY <3>1, <4>1, <5>1
      <4>6. QED BY <1>9, <3>2, <3>4, <4>3, <4>4, <4>5
    <3>5. QED BY <2>2, <3>2, <3>3, <3>4
  <2>4. QED BY <1>7, <2>1, <2>3
<1>10. CASE UNCHANGED shares
  BY <1>4, <1>10 DEF shares
<1>11. CASE SharesNext
  <2>1. CASE \/ \E i \in Pieces : Regroups(i) \/ \E to \in {"owned", "sold", "trash", "purged"} : MovesPiece(i, to)
             \/ \E i \in Pieces, f \in {"clean", "dirty", "broken", "gone"} : PutsFile(i, f)
             \/ \E k \in Targets : Deletes(k)
             \/ TicksSlot \/ Switches
             \/ \E l \in Links : Revokes(l) \/ \E of \in Targets, p, n \in BOOLEAN : MakesLink(l, of, p, n)
    <3>1. reader' = reader /\ free' = free
      BY <2>1, Zenon DEF Regroups, MovesPiece, PutsFile, Deletes, TicksSlot, Switches, Revokes, MakesLink
    <3>2. QED BY <1>4, <3>1
  <2>2. QED BY <1>5, <1>6, <1>8, <1>9, <1>11, <2>1 DEF SharesNext, Steps
<1>12. QED BY <1>10, <1>11

(* Every way a re-encoding ends gives its slot back.                       *)
THEOREM SlotsComeBack == ASSUME IsFiniteSet(Readers) PROVE SharesSpec => []SlotsBack
<1>1. SharesInit => SlotsBack
  <2> SUFFICES ASSUME SharesInit PROVE SlotsBack
    OBVIOUS
  <2>1. {q \in Readers : ReaderAt(q, "encoding")} = {} /\ free = Slots /\ Slots \in Nat
    BY SharesAssumption DEF SharesInit, ReaderAt, NoReading
  <2>2. Cardinality({q \in Readers : ReaderAt(q, "encoding")}) = 0
    BY <2>1, FS_EmptySet
  <2>3. QED BY <2>1, <2>2 DEF SlotsBack
<1>2. SharesInv /\ SlotsBack /\ [SharesNext]_shares => SlotsBack'
  BY SlotsStep
<1>3. QED BY <1>1, <1>2, SharesInvHolds, PTL DEF SharesSpec

-----------------------------------------------------------------------------
(***************************************************************************)
(* The removal of metadata (Cleaning), for any files, passes, archives and *)
(* bounds.  What is told of a photo is said of each pass by itself (Tells), *)
(* so that one that has the generation can write it; while the photos of an *)
(* archive are half way in (Mixed) nothing can be told, and nothing is that *)
(* outlasts it.                                                            *)
(***************************************************************************)
PassRecord == [at : {"off", "queued", "locked", "walk", "read", "wrote", "put"}, gen : Nat,
               todo : SUBSET Files, stale : SUBSET Files, file : Files \union {NoFile},
               bad : SUBSET Files, skipped : SUBSET Files, fails : BOOLEAN]

VolumeOK ==
  /\ live \in [Files -> Dir] /\ old \in [Files -> Dir] /\ deleted \subseteq Files
  /\ \A f \in Files : (live[f].photo = "nodir" => live[f].temps = {}) /\ (old[f].photo = "nodir" => old[f].temps = {})

MarkingOK ==
  /\ generation \in Nat /\ marker \in BOOLEAN /\ refused \subseteq Files /\ unlisted \subseteq Files
  /\ (~marker => refused = {})

\* A pass that has not listed the volume has nothing to tell of it, and has a file
\* in hand only from its reading to its renaming.
Shaped(r) ==
  /\ r \in PassRecord /\ r.gen <= generation
  /\ r.at \in {"off", "queued", "locked"} => r.todo = {} /\ r.bad = {} /\ ~r.fails
  /\ r.at \in {"read", "wrote", "put"} <=> r.file # NoFile

\* _pass_lock.
AtWork(r) == r.at \notin {"off", "queued"}

PassesOK ==
  /\ pass \in [Passes -> PassRecord] /\ \A p \in Passes : Shaped(pass[p])
  /\ ~up => \A p \in Passes : pass[p] = Off
  /\ \A p, q \in Passes : AtWork(pass[p]) /\ AtWork(pass[q]) => p = q

RestoreOK ==
  /\ restore \in {"none", "database", "out", "in", "swapped", "undo_out", "undo_in"}
  /\ putBack \subseteq Files /\ archive \in [Files -> {"nodir", "dirty", "clean", "broken"}]
  /\ restore \in {"none", "database", "swapped"} => NoneOld
  /\ restore \in {"database", "out", "in", "swapped", "undo_out"} => putBack = {}

\* The archive's photos are in, in part, and no pass can tell of the volume.
Mixed == restore \in {"in", "swapped", "undo_out"}

\* What a pass whose generation is current says of each file it is done with.
Judged(r, f) == live[f].photo \in {"dirty", "broken"} => f \in r.bad
Tells(r) ==
  r.at \notin {"off", "queued", "locked"} /\ r.gen = generation /\ ~r.fails /\ ~Mixed =>
    \A f \in Files \ (putBack \union r.skipped \union r.todo \union {r.file}) : Judged(r, f)

MarkerTells == marker /\ ~Mixed => \A f \in Files \ (putBack \union unlisted) : Told(f)

PassTells == \A p \in Passes : Tells(pass[p])

HasPhoto == {"dirty", "clean", "broken"}
NotReturned ==
  /\ \A f \in deleted : live[f].photo \notin HasPhoto /\ old[f].photo \notin HasPhoto
  /\ \A p \in Passes : pass[p].at = "put" => pass[p].file \notin deleted

CleaningInv ==
  VolumeOK /\ MarkingOK /\ PassesOK /\ RestoreOK /\ PassTells /\ MarkerTells /\ NotReturned

-----------------------------------------------------------------------------
LEMMA OffShape == Off \in PassRecord /\ Off.at = "off" /\ Off.gen = 0 /\ Off.todo = {} /\ Off.bad = {} /\ Off.fails = FALSE
                  /\ Off.file = NoFile /\ Off.stale = {}
  BY DEF Off, PassRecord

LEMMA DirIs ==
  ASSUME NEW d \in Dir
  PROVE  d.photo \in {"nodir", "none", "dirty", "clean", "broken"} /\ d.temps \subseteq {"own", "fresh", "stale"}
  BY DEF Dir

LEMMA NoDirIs == NoDir \in Dir /\ NoDir.photo = "nodir" /\ NoDir.temps = {}
  BY DEF NoDir, Dir

LEMMA PassIs ==
  ASSUME CleaningInv, NEW p \in Passes
  PROVE  Shaped(pass[p]) /\ Tells(pass[p])
  BY DEF CleaningInv, PassesOK, PassTells

\* Where no photo changes, nor what is told of them, what is told still holds.
LEMMA SamePhotos ==
  ASSUME CleaningInv, UNCHANGED <<deleted, marking, restoring>>,
         \A f \in Files : live'[f].photo = live[f].photo /\ old'[f].photo = old[f].photo
  PROVE  /\ MarkingOK' /\ MarkerTells'
         /\ \A f \in deleted' : live'[f].photo \notin HasPhoto /\ old'[f].photo \notin HasPhoto
         /\ \A r \in PassRecord : (Tells(r) => Tells(r)') /\ (Shaped(r) => Shaped(r)')
<1>1. deleted \subseteq Files
  BY DEF CleaningInv, VolumeOK
<1>2. \A f \in deleted' : live'[f].photo \notin HasPhoto /\ old'[f].photo \notin HasPhoto
  BY <1>1 DEF CleaningInv, NotReturned
<1>3. MarkingOK' /\ MarkerTells'
  BY DEF CleaningInv, MarkingOK, MarkerTells, marking, restoring, Mixed, Told, Stored
<1>4. ASSUME NEW r \in PassRecord PROVE Tells(r) => Tells(r)'
  BY DEF Tells, Judged, Stored, Mixed, marking, restoring
<1>6. ASSUME NEW r \in PassRecord PROVE Shaped(r) => Shaped(r)'
  BY DEF Shaped, marking
<1>7. QED BY <1>2, <1>3, <1>4, <1>6

\* What is told of a record is told of the pass that is in it.
LEMMA OnePass ==
  ASSUME NEW q, NEW r, pass'[q] = r, Shaped(r)', Tells(r)'
  PROVE  Shaped(pass[q])' /\ Tells(pass[q])'
<1>1. Shaped(pass[q])'
  BY DEF Shaped
<1>2. Tells(pass[q])'
  BY DEF Tells, Judged
<1>3. QED BY <1>1, <1>2

\* A step of a pass that changes no photo.
LEMMA PassMoves ==
  ASSUME CleaningInv, up, NEW p \in Passes, NEW r \in PassRecord, Do(p, r),
         UNCHANGED <<deleted, marking, restoring, process>>, VolumeOK',
         \A f \in Files : live'[f].photo = live[f].photo /\ old'[f].photo = old[f].photo,
         \A f \in Files : old[f] = NoDir => old'[f] = NoDir,
         AtWork(pass[p]) \/ \A q \in Passes : ~AtWork(pass[q]),
         Shaped(r), Tells(r), r.at = "put" => r.file \notin deleted
  PROVE  CleaningInv'
<1>1. /\ pass' \in [Passes -> PassRecord] /\ pass'[p] = r /\ \A q \in Passes : q # p => pass'[q] = pass[q]
  BY DEF Do, CleaningInv, PassesOK
<1>2. ASSUME NEW q \in Passes
      PROVE  Shaped(pass[q])' /\ Tells(pass[q])'
  <2>1. PICK s \in PassRecord : pass'[q] = s /\ (s = r \/ s = pass[q])
    BY <1>1
  <2>2. Shaped(s) /\ Tells(s)
    BY <2>1, PassIs
  <2>3. Shaped(s)' /\ Tells(s)'
    BY <2>2, SamePhotos
  <2>4. QED BY <2>1, <2>3, OnePass
<1>3. MarkingOK' /\ MarkerTells' /\ \A f \in deleted' : live'[f].photo \notin HasPhoto /\ old'[f].photo \notin HasPhoto
  BY SamePhotos
<1>4. RestoreOK'
  BY DEF CleaningInv, RestoreOK, restoring, NoneOld
<1>5. PassesOK'
  <2>1. \A a, b \in Passes : AtWork(pass'[a]) /\ AtWork(pass'[b]) => a = b
    BY <1>1 DEF CleaningInv, PassesOK
  <2>2. QED BY <1>1, <1>2, <2>1 DEF PassesOK, process, AtWork
<1>6. NotReturned'
  BY <1>1, <1>3 DEF CleaningInv, NotReturned
<1>7. QED BY <1>2, <1>3, <1>4, <1>5, <1>6 DEF CleaningInv, PassTells

LEMMA PassOnly ==
  ASSUME CleaningInv, up, NEW p \in Passes, NEW r \in PassRecord, Do(p, r), OnlyPass,
         AtWork(pass[p]) \/ \A q \in Passes : ~AtWork(pass[q]),
         Shaped(r), Tells(r), r.at = "put" => r.file \notin deleted
  PROVE  CleaningInv'
<1>1. UNCHANGED <<deleted, marking, restoring, process>> /\ live' = live /\ old' = old
  BY DEF OnlyPass, files
<1>2. VolumeOK'
  BY <1>1 DEF CleaningInv, VolumeOK
<1>3. QED BY <1>1, <1>2, PassMoves

LEMMA LockKeeps ==
  ASSUME CleaningInv, NEW p \in Passes, Lock(p) \/ List(p) \/ ListFails(p)
  PROVE  CleaningInv'
<1>1. Shaped(pass[p]) /\ pass[p] \in PassRecord /\ generation \in Nat
  BY PassIs DEF Shaped, CleaningInv, MarkingOK
<1>2. CASE Lock(p)
  <2>1. PICK r : r = [pass[p] EXCEPT !.at = "locked", !.gen = generation]
    OBVIOUS
  <2>2. /\ r \in PassRecord /\ r.at = "locked" /\ r.gen = generation /\ r.todo = pass[p].todo
        /\ r.bad = pass[p].bad /\ r.skipped = pass[p].skipped /\ r.file = pass[p].file /\ r.fails = pass[p].fails
    BY <1>1, <2>1 DEF PassRecord
  <2>3. pass[p].at = "queued"
    BY <1>2 DEF Lock, At
  <2>4. Shaped(r) /\ r.file = NoFile
    BY <1>1, <2>2, <2>3 DEF Shaped
  <2>5. Tells(r)
    BY <2>2, <2>4 DEF Tells
  <2>6. \A q \in Passes : ~AtWork(pass[q])
    BY <1>2 DEF Lock, AtWork
  <2>7. up /\ Do(p, r) /\ OnlyPass
    BY <1>2, <2>1 DEF Lock, At
  <2>8. QED BY <2>2, <2>4, <2>5, <2>6, <2>7, PassOnly
<1>3. CASE List(p)
  <2>. PICK unseen \in SUBSET Files :
         Do(p, [pass[p] EXCEPT !.at = "walk", !.todo = {f \in Files \ unseen : Stored(f)},
                               !.stale = {f \in Files \ unseen : live[f].temps # {}}, !.skipped = unseen])
    BY <1>3 DEF List
  <2>0. PICK r : r = [pass[p] EXCEPT !.at = "walk", !.todo = {f \in Files \ unseen : Stored(f)},
                               !.stale = {f \in Files \ unseen : live[f].temps # {}}, !.skipped = unseen]
    OBVIOUS
  <2>1. {f \in Files \ unseen : Stored(f)} \subseteq Files /\ {f \in Files \ unseen : live[f].temps # {}} \subseteq Files
    OBVIOUS
  <2>2. /\ r \in PassRecord /\ r.at = "walk" /\ r.gen = pass[p].gen /\ r.todo = {f \in Files \ unseen : Stored(f)}
        /\ r.bad = pass[p].bad /\ r.skipped = unseen /\ r.file = pass[p].file /\ r.fails = pass[p].fails
    BY <1>1, <2>0, <2>1 DEF PassRecord
  <2>3. pass[p].at = "locked"
    BY <1>3 DEF List, At
  <2>4. Shaped(r) /\ r.file = NoFile /\ r.bad = {}
    BY <1>1, <2>2, <2>3 DEF Shaped
  <2>5. Tells(r)
    BY <2>2, <2>4 DEF Tells, Judged, Stored
  <2>6. AtWork(pass[p])
    BY <2>3 DEF AtWork
  <2>7. up /\ Do(p, r) /\ OnlyPass
    BY <1>3, <2>0 DEF List, At
  <2>8. QED BY <2>2, <2>4, <2>5, <2>6, <2>7, PassOnly
<1>4. CASE ListFails(p)
  <2>1. PICK r : r = [pass[p] EXCEPT !.at = "walk", !.fails = TRUE]
    OBVIOUS
  <2>2. /\ r \in PassRecord /\ r.at = "walk" /\ r.gen = pass[p].gen /\ r.todo = pass[p].todo
        /\ r.bad = pass[p].bad /\ r.skipped = pass[p].skipped /\ r.file = pass[p].file /\ r.fails = TRUE
    BY <1>1, <2>1 DEF PassRecord
  <2>3. pass[p].at = "locked"
    BY <1>4 DEF ListFails, At
  <2>4. Shaped(r) /\ r.file = NoFile
    BY <1>1, <2>2, <2>3 DEF Shaped
  <2>5. Tells(r)
    BY <2>2, <2>4 DEF Tells
  <2>6. AtWork(pass[p])
    BY <2>3 DEF AtWork
  <2>7. up /\ Do(p, r) /\ OnlyPass
    BY <1>4, <2>1 DEF ListFails, At
  <2>8. QED BY <2>2, <2>4, <2>5, <2>6, <2>7, PassOnly
<1>5. QED BY <1>2, <1>3, <1>4

\* The next file is looked at, or could not be; it is one that was left to do.
LEMMA PassReadKeeps ==
  ASSUME CleaningInv, NEW p \in Passes, NEW f \in Files, Read(p, f) \/ ReadFails(p, f)
  PROVE  CleaningInv'
<1>1. Shaped(pass[p]) /\ Tells(pass[p]) /\ pass[p] \in PassRecord
  BY PassIs DEF Shaped
<1>2. pass[p].at = "walk" /\ f \in pass[p].todo /\ up /\ OnlyPass /\ pass[p].file = NoFile /\ AtWork(pass[p])
  BY <1>1 DEF Read, ReadFails, At, Shaped, AtWork
<1>3. NoFile \notin Files
  BY CleaningAssumption
<1>4. CASE Do(p, [pass[p] EXCEPT !.todo = @ \ {f}, !.fails = TRUE])
  <2>1. PICK r : r = [pass[p] EXCEPT !.todo = @ \ {f}, !.fails = TRUE]
    OBVIOUS
  <2>2. /\ r \in PassRecord /\ r.at = "walk" /\ r.gen = pass[p].gen
        /\ r.file = pass[p].file /\ r.fails = TRUE
    BY <1>1, <1>2, <2>1 DEF PassRecord
  <2>3. Shaped(r) /\ Tells(r)
    BY <1>1, <1>2, <2>2 DEF Shaped, Tells
  <2>4. QED BY <1>2, <1>4, <2>1, <2>2, <2>3, PassOnly
<1>5. CASE Read(p, f) /\ live[f].photo \in {"dirty", "clean"}
  <2>1. PICK r : r = [[pass[p] EXCEPT !.todo = @ \ {f}] EXCEPT !.at = "read", !.file = f]
    OBVIOUS
  <2>2. /\ r \in PassRecord /\ r.at = "read" /\ r.gen = pass[p].gen /\ r.todo = pass[p].todo \ {f}
        /\ r.bad = pass[p].bad /\ r.skipped = pass[p].skipped /\ r.file = f /\ r.fails = pass[p].fails
    BY <1>1, <2>1 DEF PassRecord
  <2>3. Shaped(r)
    BY <1>1, <1>3, <2>2 DEF Shaped
  <2>4. Tells(r)
    <3> SUFFICES ASSUME r.gen = generation, ~r.fails, ~Mixed
                 PROVE  \A g \in Files \ (putBack \union r.skipped \union r.todo \union {r.file}) : Judged(r, g)
      BY DEF Tells
    <3>1. \A g \in Files \ (putBack \union pass[p].skipped \union pass[p].todo \union {pass[p].file}) : Judged(pass[p], g)
      BY <1>1, <1>2, <2>2 DEF Tells
    <3>2. \A g \in Files : Judged(pass[p], g) => Judged(r, g)
      BY <2>2 DEF Judged
    <3>3. QED BY <1>2, <1>3, <2>2, <3>1, <3>2
  <2>5. Do(p, r)
    BY <1>5, <2>1 DEF Read
  <2>6. QED BY <1>2, <2>2, <2>3, <2>4, <2>5, PassOnly
<1>6. CASE Do(p, [[pass[p] EXCEPT !.todo = @ \ {f}] EXCEPT !.bad = @ \union {f}])
  <2>1. PICK r : r = [[pass[p] EXCEPT !.todo = @ \ {f}] EXCEPT !.bad = @ \union {f}]
    OBVIOUS
  <2>2. /\ r \in PassRecord /\ r.at = "walk" /\ r.gen = pass[p].gen /\ r.todo = pass[p].todo \ {f}
        /\ r.bad = pass[p].bad \union {f} /\ r.skipped = pass[p].skipped /\ r.file = NoFile /\ r.fails = pass[p].fails
    BY <1>1, <1>2, <2>1 DEF PassRecord
  <2>3. Shaped(r)
    BY <1>1, <1>2, <2>2 DEF Shaped
  <2>4. Tells(r)
    <3> SUFFICES ASSUME r.gen = generation, ~r.fails, ~Mixed
                 PROVE  \A g \in Files \ (putBack \union r.skipped \union r.todo \union {r.file}) : Judged(r, g)
      BY DEF Tells
    <3>1. \A g \in Files \ (putBack \union pass[p].skipped \union pass[p].todo \union {pass[p].file}) : Judged(pass[p], g)
      BY <1>1, <1>2, <2>2 DEF Tells
    <3>2. \A g \in Files \ {f} : Judged(pass[p], g) => Judged(r, g)
      BY <2>2 DEF Judged
    <3>3. Judged(r, f)
      BY <2>2 DEF Judged
    <3>4. QED BY <1>2, <1>3, <2>2, <3>1, <3>2, <3>3
  <2>5. Do(p, r)
    BY <1>6, <2>1
  <2>6. QED BY <1>2, <2>2, <2>3, <2>4, <2>5, PassOnly
<1>7. CASE Read(p, f) /\ live[f].photo \notin {"dirty", "clean", "broken"}
  <2>1. PICK r : r = [pass[p] EXCEPT !.todo = @ \ {f}]
    OBVIOUS
  <2>2. /\ r \in PassRecord /\ r.at = "walk" /\ r.gen = pass[p].gen /\ r.todo = pass[p].todo \ {f}
        /\ r.bad = pass[p].bad /\ r.skipped = pass[p].skipped /\ r.file = NoFile /\ r.fails = pass[p].fails
    BY <1>1, <1>2, <2>1 DEF PassRecord
  <2>3. Shaped(r)
    BY <1>1, <1>2, <2>2 DEF Shaped
  <2>4. Tells(r)
    <3> SUFFICES ASSUME r.gen = generation, ~r.fails, ~Mixed
                 PROVE  \A g \in Files \ (putBack \union r.skipped \union r.todo \union {r.file}) : Judged(r, g)
      BY DEF Tells
    <3>1. \A g \in Files \ (putBack \union pass[p].skipped \union pass[p].todo \union {pass[p].file}) : Judged(pass[p], g)
      BY <1>1, <1>2, <2>2 DEF Tells
    <3>2. \A g \in Files \ {f} : Judged(pass[p], g) => Judged(r, g)
      BY <2>2 DEF Judged
    <3>3. Judged(r, f)
      BY <1>7 DEF Judged, Stored
    <3>4. QED BY <1>2, <1>3, <2>2, <3>1, <3>2, <3>3
  <2>5. Do(p, r)
    BY <1>7, <2>1 DEF Read
  <2>6. QED BY <1>2, <2>2, <2>3, <2>4, <2>5, PassOnly
<1>8. CASE Read(p, f)
  BY <1>5, <1>6, <1>7, <1>8 DEF Read
<1>9. CASE ReadFails(p, f)
  <2>1. [[pass[p] EXCEPT !.todo = @ \ {f}] EXCEPT !.bad = @ \union {f}] = [pass[p] EXCEPT !.todo = @ \ {f}, !.bad = @ \union {f}]
    BY <1>1 DEF PassRecord
  <2>2. QED BY <1>4, <1>6, <1>9, <2>1 DEF ReadFails
<1>10. QED BY <1>8, <1>9

\* Only what is beside a photo changes, and nothing is where there is no directory.
LEMMA TempsMove ==
  ASSUME CleaningInv, NEW f \in Files, NEW T \in SUBSET {"own", "fresh", "stale"},
         live[f].photo = "nodir" => T = {}, live' = [live EXCEPT ![f].temps = T], UNCHANGED <<old, deleted>>
  PROVE  VolumeOK' /\ \A g \in Files : live'[g].photo = live[g].photo /\ old'[g].photo = old[g].photo
<1>1. live \in [Files -> Dir] /\ live[f] \in Dir
  BY DEF CleaningInv, VolumeOK
<1>2. PICK d : d = [live[f] EXCEPT !.temps = T]
  OBVIOUS
<1>3. d \in Dir /\ d.photo = live[f].photo /\ d.temps = T
  BY <1>1, <1>2 DEF Dir
<1>4. live' = [live EXCEPT ![f] = d]
  BY <1>2
<1>5. live' \in [Files -> Dir] /\ live'[f] = d /\ \A g \in Files : g # f => live'[g] = live[g]
  BY <1>1, <1>3, <1>4
<1>6. QED BY <1>3, <1>5 DEF CleaningInv, VolumeOK

LEMMA DropStaleKeeps ==
  ASSUME CleaningInv, NEW p \in Passes, NEW f \in Files, DropStale(p, f)
  PROVE  CleaningInv'
<1>1. Shaped(pass[p]) /\ Tells(pass[p]) /\ pass[p] \in PassRecord
  BY PassIs DEF Shaped
<1>2. PICK r : r = [pass[p] EXCEPT !.stale = @ \ {f}]
  OBVIOUS
<1>3. /\ r \in PassRecord /\ r.at = pass[p].at /\ r.gen = pass[p].gen /\ r.todo = pass[p].todo
      /\ r.bad = pass[p].bad /\ r.skipped = pass[p].skipped /\ r.file = pass[p].file /\ r.fails = pass[p].fails
  BY <1>1, <1>2 DEF PassRecord
<1>4. Shaped(r) /\ Tells(r)
  BY <1>1, <1>3 DEF Shaped, Tells, Judged
<1>5. up /\ AtWork(pass[p]) /\ r.at = "walk" /\ Do(p, r) /\ UNCHANGED <<old, deleted, marking, failed, restoring, process>>
  BY <1>2, <1>3 DEF DropStale, At, AtWork
<1>6. PICK T : T = live[f].temps \ {"stale"}
  OBVIOUS
<1>7. live' = [live EXCEPT ![f].temps = T]
  BY <1>6 DEF DropStale
<1>8. live[f] \in Dir /\ (live[f].photo = "nodir" => live[f].temps = {})
  BY DEF CleaningInv, VolumeOK
<1>9. T \subseteq {"own", "fresh", "stale"} /\ (live[f].photo = "nodir" => T = {})
  BY <1>6, <1>8, DirIs
<1>10. VolumeOK' /\ \A g \in Files : live'[g].photo = live[g].photo /\ old'[g].photo = old[g].photo
  BY <1>5, <1>7, <1>9, TempsMove
<1>11. QED BY <1>3, <1>4, <1>5, <1>10, PassMoves

LEMMA WriteKeeps ==
  ASSUME CleaningInv, NEW p \in Passes, Write(p)
  PROVE  CleaningInv'
<1> DEFINE f == pass[p].file
<1>1. Shaped(pass[p]) /\ Tells(pass[p]) /\ pass[p] \in PassRecord
  BY PassIs DEF Shaped
<1>2. PICK r : r = [pass[p] EXCEPT !.at = "wrote"]
  OBVIOUS
<1>3. /\ r \in PassRecord /\ r.at = "wrote" /\ r.gen = pass[p].gen /\ r.todo = pass[p].todo
      /\ r.bad = pass[p].bad /\ r.skipped = pass[p].skipped /\ r.file = pass[p].file /\ r.fails = pass[p].fails
  BY <1>1, <1>2 DEF PassRecord
<1>4. pass[p].at = "read" /\ up /\ UNCHANGED <<old, deleted, marking, failed, restoring, process>>
      /\ live' = [live EXCEPT ![f].temps = @ \union {"own"}] /\ live[f].photo # "nodir"
  BY DEF Write, At
<1>5. f \in Files
  BY <1>1, <1>4 DEF Shaped, PassRecord
<1>6. Shaped(r) /\ Tells(r)
  BY <1>1, <1>3, <1>4 DEF Shaped, Tells, Judged
<1>7. AtWork(pass[p]) /\ Do(p, r)
  BY <1>2, <1>4 DEF Write, Goes, AtWork
<1>8. PICK T : T = live[f].temps \union {"own"}
  OBVIOUS
<1>9. live' = [live EXCEPT ![f].temps = T]
  BY <1>4, <1>8
<1>10. live[f] \in Dir
  BY <1>5 DEF CleaningInv, VolumeOK
<1>11. T \subseteq {"own", "fresh", "stale"}
  BY <1>8, <1>10, DirIs
<1>12. VolumeOK' /\ \A g \in Files : live'[g].photo = live[g].photo /\ old'[g].photo = old[g].photo
  BY <1>4, <1>5, <1>9, <1>11, TempsMove
<1>13. QED BY <1>3, <1>4, <1>6, <1>7, <1>12, PassMoves

LEMMA WriteFailsKeeps ==
  ASSUME CleaningInv, NEW p \in Passes, WriteFails(p)
  PROVE  CleaningInv'
<1>1. Shaped(pass[p]) /\ pass[p] \in PassRecord
  BY PassIs DEF Shaped
<1>2. PICK r : r = [[pass[p] EXCEPT !.fails = TRUE] EXCEPT !.at = "walk", !.file = NoFile]
  OBVIOUS
<1>3. r \in PassRecord /\ r.at = "walk" /\ r.gen = pass[p].gen /\ r.file = NoFile /\ r.fails = TRUE
  BY <1>1, <1>2 DEF PassRecord
<1>4. Shaped(r) /\ Tells(r)
  BY <1>1, <1>3 DEF Shaped, Tells
<1>5. up /\ AtWork(pass[p]) /\ Do(p, r) /\ OnlyPass
  BY <1>2 DEF WriteFails, At, AtWork, NextFile
<1>6. QED BY <1>3, <1>4, <1>5, PassOnly

\* A pass's own temporary file is gone from beside one photo.
LEMMA TempGoes ==
  ASSUME CleaningInv, NEW f \in Files, NEW left \in {"nodir", "none", "dirty", "clean", "broken"},
         left = "nodir" => live[f].photo = "nodir", TempGone(f, left)
  PROVE  /\ VolumeOK' /\ live'[f].photo = left /\ old'[f].photo = old[f].photo
         /\ \A g \in Files : g # f => live'[g] = live[g] /\ old'[g] = old[g]
         /\ \A g \in Files : old[g] = NoDir => old'[g] = NoDir
<1>1. live \in [Files -> Dir] /\ old \in [Files -> Dir] /\ live[f] \in Dir /\ old[f] \in Dir
  BY DEF CleaningInv, VolumeOK
<1>2. PICK T : T = live[f].temps \ {"own"}
  OBVIOUS
<1>3. PICK O : O = IF "own" \in old[f].temps THEN (old[f].temps \ {"own"}) \union {"fresh"} ELSE old[f].temps
  OBVIOUS
<1>4. PICK d : d = [photo |-> left, temps |-> T]
  OBVIOUS
<1>5. PICK e : e = [old[f] EXCEPT !.temps = O]
  OBVIOUS
<1>6. live' = [live EXCEPT ![f] = d] /\ old' = [old EXCEPT ![f] = e]
  BY <1>1, <1>2, <1>3, <1>4, <1>5 DEF TempGone
<1>7. T \subseteq {"own", "fresh", "stale"} /\ O \subseteq {"own", "fresh", "stale"}
  BY <1>1, <1>2, <1>3, DirIs
<1>8. d \in Dir /\ d.photo = left /\ d.temps = T
  BY <1>4, <1>7 DEF Dir
<1>9. e \in Dir /\ e.photo = old[f].photo /\ e.temps = O
  BY <1>1, <1>5, <1>7 DEF Dir
<1>10. live' \in [Files -> Dir] /\ old' \in [Files -> Dir] /\ live'[f] = d /\ old'[f] = e
       /\ \A g \in Files : g # f => live'[g] = live[g] /\ old'[g] = old[g]
  BY <1>1, <1>6, <1>8, <1>9
<1>11. /\ left = "nodir" => T = {}
       /\ old[f].photo = "nodir" => O = {}
  BY <1>2, <1>3 DEF CleaningInv, VolumeOK
<1>12. old[f] = NoDir => e = NoDir
  <2>1. old[f] = NoDir => O = {}
    BY <1>3 DEF NoDir
  <2>2. QED BY <1>5, <2>1 DEF NoDir
<1>13. VolumeOK'
  BY <1>8, <1>9, <1>10, <1>11 DEF CleaningInv, VolumeOK, TempGone
<1>14. QED BY <1>8, <1>9, <1>10, <1>12, <1>13

LEMMA LookKeeps ==
  ASSUME CleaningInv, NEW p \in Passes, Look(p)
  PROVE  CleaningInv'
<1> DEFINE f == pass[p].file
<1>1. Shaped(pass[p]) /\ Tells(pass[p]) /\ pass[p] \in PassRecord
  BY PassIs DEF Shaped
<1>2. pass[p].at = "wrote" /\ up /\ AtWork(pass[p])
  BY DEF Look, At, AtWork
<1>3. f \in Files
  BY <1>1, <1>2 DEF Shaped, PassRecord
<1>4. CASE Stored(f) /\ Goes(p, "put") /\ OnlyPass
  <2>1. PICK r : r = [pass[p] EXCEPT !.at = "put"]
    OBVIOUS
  <2>2. /\ r \in PassRecord /\ r.at = "put" /\ r.gen = pass[p].gen /\ r.todo = pass[p].todo
        /\ r.bad = pass[p].bad /\ r.skipped = pass[p].skipped /\ r.file = pass[p].file /\ r.fails = pass[p].fails
    BY <1>1, <2>1 DEF PassRecord
  <2>3. Shaped(r) /\ Tells(r)
    BY <1>1, <1>2, <2>2 DEF Shaped, Tells, Judged
  <2>4. r.file \notin deleted
    BY <1>3, <1>4, <2>2 DEF CleaningInv, NotReturned, Stored, HasPhoto
  <2>5. Do(p, r)
    BY <1>4, <2>1 DEF Goes
  <2>6. QED BY <1>2, <1>4, <2>2, <2>3, <2>4, <2>5, PassOnly
<1>5. CASE ~Stored(f) /\ NextFile(p, pass[p]) /\ TempGone(f, live[f].photo)
  <2>1. PICK r : r = [pass[p] EXCEPT !.at = "walk", !.file = NoFile]
    OBVIOUS
  <2>2. /\ r \in PassRecord /\ r.at = "walk" /\ r.gen = pass[p].gen /\ r.todo = pass[p].todo
        /\ r.bad = pass[p].bad /\ r.skipped = pass[p].skipped /\ r.file = NoFile /\ r.fails = pass[p].fails
    BY <1>1, <2>1 DEF PassRecord
  <2>3. live[f].photo \in {"nodir", "none", "dirty", "clean", "broken"}
    BY <1>3, DirIs DEF CleaningInv, VolumeOK
  <2>4. /\ VolumeOK' /\ \A g \in Files : live'[g].photo = live[g].photo /\ old'[g].photo = old[g].photo
        /\ \A g \in Files : old[g] = NoDir => old'[g] = NoDir
    BY <1>3, <1>5, <2>3, TempGoes
  <2>5. Shaped(r)
    BY <1>1, <1>2, <2>2 DEF Shaped
  <2>6. Tells(r)
    <3> SUFFICES ASSUME r.gen = generation, ~r.fails, ~Mixed
                 PROVE  \A g \in Files \ (putBack \union r.skipped \union r.todo \union {r.file}) : Judged(r, g)
      BY DEF Tells
    <3>1. \A g \in Files \ (putBack \union pass[p].skipped \union pass[p].todo \union {f}) : Judged(pass[p], g)
      BY <1>1, <1>2, <2>2, CleaningAssumption DEF Tells, PassRecord
    <3>2. \A g \in Files : Judged(pass[p], g) => Judged(r, g)
      BY <2>2 DEF Judged
    <3>3. Judged(r, f)
      BY <1>5 DEF Judged, Stored
    <3>4. QED BY <2>2, <3>1, <3>2, <3>3
  <2>7. Do(p, r) /\ UNCHANGED <<deleted, marking, restoring, process>>
    BY <1>5, <2>1 DEF NextFile, TempGone
  <2>8. QED BY <1>2, <2>2, <2>4, <2>5, <2>6, <2>7, PassMoves
<1>6. QED BY <1>4, <1>5 DEF Look

\* The pass at work puts the clean bytes in the photo's place.
LEMMA PassPutKeeps ==
  ASSUME CleaningInv, NEW p \in Passes, Put(p)
  PROVE  CleaningInv'
<1> DEFINE f == pass[p].file
           there == "own" \in live[f].temps
<1>1. Shaped(pass[p]) /\ Tells(pass[p]) /\ pass[p] \in PassRecord
  BY PassIs DEF Shaped
<1>2. /\ pass[p].at = "put" /\ up /\ AtWork(pass[p]) /\ NextFile(p, [pass[p] EXCEPT !.fails = @ \/ ~there])
      /\ TempGone(f, IF there THEN "clean" ELSE live[f].photo)
  BY DEF Put, At, AtWork
<1>3. f \in Files
  BY <1>1, <1>2 DEF Shaped, PassRecord
<1>4. PICK r : r = [[pass[p] EXCEPT !.fails = @ \/ ~there] EXCEPT !.at = "walk", !.file = NoFile]
  OBVIOUS
<1>5. /\ r \in PassRecord /\ r.at = "walk" /\ r.gen = pass[p].gen /\ r.todo = pass[p].todo
      /\ r.bad = pass[p].bad /\ r.skipped = pass[p].skipped /\ r.file = NoFile
  BY <1>1, <1>4 DEF PassRecord
<1>6. r.fails <=> pass[p].fails \/ ~there
  BY <1>1, <1>4 DEF PassRecord
<1>7. Shaped(r)
  BY <1>1, <1>2, <1>5 DEF Shaped
<1>8. Do(p, r) /\ UNCHANGED <<deleted, marking, restoring, process>>
  BY <1>2, <1>4 DEF NextFile, TempGone
<1>9. live[f].photo \in {"nodir", "none", "dirty", "clean", "broken"}
  BY <1>3, DirIs DEF CleaningInv, VolumeOK
<1>10. CASE ~there
  <2>1. /\ VolumeOK' /\ \A g \in Files : live'[g].photo = live[g].photo /\ old'[g].photo = old[g].photo
        /\ \A g \in Files : old[g] = NoDir => old'[g] = NoDir
    BY <1>2, <1>3, <1>9, <1>10, TempGoes
  <2>2. Tells(r)
    BY <1>6, <1>10 DEF Tells
  <2>3. QED BY <1>2, <1>5, <1>7, <1>8, <2>1, <2>2, PassMoves
<1>11. CASE there
  <2>1. live[f].photo # "nodir"
    BY <1>3, <1>11 DEF CleaningInv, VolumeOK
  <2>2. /\ VolumeOK' /\ live'[f].photo = "clean" /\ old'[f].photo = old[f].photo
        /\ \A g \in Files : g # f => live'[g] = live[g] /\ old'[g] = old[g]
        /\ \A g \in Files : old[g] = NoDir => old'[g] = NoDir
    BY <1>2, <1>3, <1>11, TempGoes
  <2>3. f \notin deleted
    BY <1>2 DEF CleaningInv, NotReturned
  <2>4. MarkingOK' /\ RestoreOK'
    BY <1>8, <2>2 DEF CleaningInv, MarkingOK, RestoreOK, marking, restoring, NoneOld
  <2>5. MarkerTells'
    <3>1. marker /\ ~Mixed => \A g \in Files \ (putBack \union unlisted) : g # f => Told(g)'
      BY <2>2, <1>8 DEF CleaningInv, MarkerTells, Told, marking
    <3>2. \A g \in Files : g = f => Told(g)'
      BY <2>2 DEF Told
    <3>3. QED BY <1>8, <3>1, <3>2 DEF MarkerTells, Mixed, marking, restoring
  <2>6. /\ pass' \in [Passes -> PassRecord] /\ pass'[p] = r /\ \A q \in Passes : q # p => pass'[q] = pass[q]
    BY <1>5, <1>8 DEF Do, CleaningInv, PassesOK
  <2>7. Tells(r)'
    <3> SUFFICES ASSUME r.gen = generation, ~r.fails, ~Mixed
                 PROVE  \A g \in Files \ (putBack \union r.skipped \union r.todo \union {r.file}) : Judged(r, g)'
      BY <1>8 DEF Tells, marking, restoring, Mixed
    <3>1. \A g \in Files \ (putBack \union pass[p].skipped \union pass[p].todo \union {f}) : Judged(pass[p], g)
      BY <1>1, <1>2, <1>5, <1>6, CleaningAssumption DEF Tells, PassRecord
    <3>2. \A g \in Files : g # f /\ Judged(pass[p], g) => Judged(r, g)'
      BY <1>5, <2>2 DEF Judged, Stored
    <3>4. ASSUME NEW g \in Files, g = f PROVE Judged(r, g)'
      BY <2>2, <3>4 DEF Judged
    <3>5. QED BY <1>5, <3>1, <3>2, <3>4
  <2>8. ASSUME NEW q \in Passes
        PROVE  Shaped(pass[q])' /\ Tells(pass[q])'
    <3>1. CASE q = p
      <4>1. Shaped(r)'
        BY <1>5, <1>7, <1>8 DEF Shaped, marking
      <4>2. QED BY <2>6, <2>7, <3>1, <4>1, OnePass
    <3>2. CASE q # p
      <4>1. PICK s \in PassRecord : s = pass[q]
        BY <1>1 DEF CleaningInv, PassesOK
      <4>2. Shaped(s) /\ s.at \in {"off", "queued"}
        BY <1>2, <3>2, <4>1, PassIs DEF CleaningInv, PassesOK, AtWork
      <4>3. Shaped(s)' /\ Tells(s)'
        BY <1>8, <4>2 DEF Shaped, Tells, marking
      <4>4. QED BY <2>6, <3>2, <4>1, <4>3, OnePass
    <3>3. QED BY <3>1, <3>2
  <2>9. PassesOK'
    <3>1. \A a, b \in Passes : AtWork(pass'[a]) /\ AtWork(pass'[b]) => a = b
      BY <1>2, <2>6 DEF CleaningInv, PassesOK
    <3>2. QED BY <1>2, <1>8, <2>6, <2>8, <3>1 DEF PassesOK, process, AtWork
  <2>10. NotReturned'
    <3>1. \A g \in deleted' : live'[g].photo \notin HasPhoto /\ old'[g].photo \notin HasPhoto
      BY <1>8, <2>2, <2>3 DEF CleaningInv, NotReturned, VolumeOK
    <3>2. QED BY <1>5, <1>8, <2>6, <3>1 DEF CleaningInv, NotReturned
  <2>11. QED BY <2>2, <2>4, <2>5, <2>8, <2>9, <2>10 DEF CleaningInv, PassTells
<1>12. QED BY <1>10, <1>11

\* The pass at work is over: nobody else is at work, and what it tells may be written.
LEMMA MarkKeeps ==
  ASSUME CleaningInv, NEW p \in Passes, Mark(p) \/ MarkFails(p)
  PROVE  CleaningInv'
<1>1. Shaped(pass[p]) /\ Tells(pass[p])
  BY PassIs
<1>2. /\ Ended(p) /\ Do(p, Off) /\ UNCHANGED <<generation, files, restoring, process>>
      /\ pass[p].at = "walk" /\ up /\ AtWork(pass[p]) /\ pass[p].todo = {} /\ pass[p].file = NoFile
  BY <1>1 DEF Mark, MarkFails, Ended, At, AtWork, marking, Shaped
<1>3. /\ pass' \in [Passes -> PassRecord] /\ pass'[p] = Off /\ \A q \in Passes : q # p => pass'[q] = pass[q]
  BY <1>2, OffShape DEF Do, CleaningInv, PassesOK
<1>4. \/ UNCHANGED <<marker, refused, unlisted>>
      \/ /\ ~pass[p].fails /\ pass[p].gen = generation /\ marker' = TRUE /\ refused' = pass[p].bad
         /\ unlisted' = pass[p].skipped
  BY DEF Mark, MarkFails, Marks, NotMarked, marking
<1>5. MarkingOK'
  BY <1>1, <1>2, <1>4 DEF CleaningInv, MarkingOK, Shaped, PassRecord
<1>6. VolumeOK' /\ RestoreOK'
  BY <1>2 DEF CleaningInv, VolumeOK, RestoreOK, files, restoring, NoneOld
<1>7. MarkerTells'
  <2>1. CASE UNCHANGED <<marker, refused, unlisted>>
    BY <1>2, <2>1 DEF CleaningInv, MarkerTells, Mixed, Told, Stored, files, restoring
  <2>2. CASE /\ ~pass[p].fails /\ pass[p].gen = generation /\ marker' = TRUE /\ refused' = pass[p].bad
             /\ unlisted' = pass[p].skipped
    <3>1. ~Mixed => \A f \in Files \ (putBack \union unlisted') : Judged(pass[p], f)
      BY <1>1, <1>2, <2>2, CleaningAssumption DEF Tells
    <3>2. QED BY <1>2, <2>2, <3>1 DEF MarkerTells, Mixed, Told, Judged, Stored, files, restoring
  <2>3. QED BY <1>4, <2>1, <2>2
<1>8. ASSUME NEW q \in Passes
      PROVE  Shaped(pass[q])' /\ Tells(pass[q])' /\ pass'[q].at \in {"off", "queued"}
  <2>1. PICK s \in PassRecord : pass'[q] = s /\ (s = Off \/ (s = pass[q] /\ q # p))
    BY <1>3
  <2>2. Shaped(s) /\ s.at \in {"off", "queued"}
    <3>1. Shaped(Off)
      BY OffShape DEF Shaped, CleaningInv, MarkingOK
    <3>2. q # p => ~AtWork(pass[q])
      BY <1>2 DEF CleaningInv, PassesOK
    <3>3. QED BY <2>1, <3>1, <3>2, OffShape, PassIs DEF AtWork
  <2>3. Shaped(s)' /\ Tells(s)'
    BY <1>2, <2>2 DEF Shaped, Tells
  <2>4. QED BY <2>1, <2>2, <2>3, OnePass
<1>9. PassesOK'
  BY <1>2, <1>3, <1>8 DEF PassesOK, process, AtWork
<1>10. NotReturned'
  BY <1>2, <1>8 DEF CleaningInv, NotReturned, files
<1>11. QED BY <1>5, <1>6, <1>7, <1>8, <1>9, <1>10 DEF CleaningInv, PassTells

LEMMA AgeKeeps ==
  ASSUME CleaningInv, NEW f \in Files, Age(f)
  PROVE  CleaningInv'
<1>1. UNCHANGED <<old, deleted, marking, pass, failed, restoring, process>>
  BY DEF Age
<1>2. PICK T : T = (live[f].temps \ {"fresh"}) \union {"stale"}
  OBVIOUS
<1>3. live' = [live EXCEPT ![f].temps = T] /\ "fresh" \in live[f].temps
  BY <1>2 DEF Age
<1>4. live[f] \in Dir /\ live[f].photo # "nodir"
  BY <1>3 DEF CleaningInv, VolumeOK
<1>5. T \subseteq {"own", "fresh", "stale"}
  BY <1>2, <1>4, DirIs
<1>6. VolumeOK' /\ \A g \in Files : live'[g].photo = live[g].photo /\ old'[g].photo = old[g].photo
  BY <1>1, <1>3, <1>4, <1>5, TempsMove
<1>7. MarkingOK' /\ MarkerTells' /\ \A g \in deleted' : live'[g].photo \notin HasPhoto /\ old'[g].photo \notin HasPhoto
  BY <1>1, <1>6, SamePhotos
<1>8. ASSUME NEW q \in Passes PROVE Shaped(pass[q])' /\ Tells(pass[q])'
  <2>1. PICK s \in PassRecord : s = pass[q]
    BY DEF CleaningInv, PassesOK
  <2>2. Shaped(s)' /\ Tells(s)'
    BY <1>1, <1>6, <2>1, PassIs, SamePhotos
  <2>3. QED BY <1>1, <2>1, <2>2, OnePass
<1>9. PassesOK' /\ RestoreOK' /\ NotReturned'
  BY <1>1, <1>7, <1>8 DEF CleaningInv, PassesOK, RestoreOK, NotReturned, process, restoring, NoneOld, AtWork
<1>10. QED BY <1>6, <1>7, <1>8, <1>9 DEF CleaningInv, PassTells

\* One photo comes or goes, by a request or a rename of a restore: it is gone, or
\* was stored clean under a name that nothing was told of, or nothing is told of it.
LEMMA FileMoves ==
  ASSUME CleaningInv, NEW f \in Files, UNCHANGED <<marking, restore, pass, process>>,
         VolumeOK', RestoreOK',
         \A g \in Files : g # f => live'[g] = live[g] /\ old'[g] = old[g],
         putBack \subseteq putBack', putBack' \subseteq putBack \union {f},
         deleted' \subseteq deleted \union {f},
         f \in deleted' => live'[f].photo \notin HasPhoto /\ old'[f].photo \notin HasPhoto,
         f \in deleted' \ deleted => \A p \in Passes : ~(pass[p].at = "put" /\ pass[p].file = f),
         \/ live'[f].photo = "nodir"
         \/ live'[f].photo = "none" /\ live[f].photo # "nodir"
         \/ /\ live'[f].photo = "clean" /\ f \notin refused
            /\ \A p \in Passes : f \notin pass[p].todo \union {pass[p].file} \union pass[p].bad
         \/ f \in putBack' \/ Mixed
  PROVE  CleaningInv'
<1>1. MarkingOK'
  BY DEF CleaningInv, MarkingOK, marking
<1>2. MarkerTells'
  BY DEF CleaningInv, MarkerTells, Mixed, Told, Stored, marking
<1>3. ASSUME NEW q \in Passes
      PROVE  Shaped(pass[q])' /\ Tells(pass[q])'
  <2>1. PICK s \in PassRecord : s = pass[q]
    BY DEF CleaningInv, PassesOK
  <2>2. Shaped(s) /\ Tells(s)
    BY <2>1, PassIs
  <2>3. Shaped(s)'
    BY <2>2 DEF Shaped, marking
  <2>4. Tells(s)'
    <3> SUFFICES ASSUME s.at \notin {"off", "queued", "locked"}, s.gen = generation, ~s.fails, ~Mixed
                 PROVE  \A g \in Files \ (putBack' \union s.skipped \union s.todo \union {s.file}) : Judged(s, g)'
      BY DEF Tells, marking, Mixed
    <3>1. \A g \in Files \ (putBack \union s.skipped \union s.todo \union {s.file}) : Judged(s, g)
      BY <2>2 DEF Tells
    <3>2. \A g \in Files : g # f /\ Judged(s, g) => Judged(s, g)'
      BY DEF Judged
    <3>3. f \in putBack' \/ Judged(s, f)'
      BY <2>1 DEF Judged
    <3>4. QED BY <3>1, <3>2, <3>3
  <2>6. QED BY <2>1, <2>3, <2>4, OnePass
<1>4. PassesOK'
  BY <1>3 DEF CleaningInv, PassesOK, process, AtWork
<1>5. NotReturned'
  <2>1. \A g \in deleted' : live'[g].photo \notin HasPhoto /\ old'[g].photo \notin HasPhoto
    BY DEF CleaningInv, NotReturned, VolumeOK
  <2>2. QED BY <2>1 DEF CleaningInv, NotReturned
<1>6. QED BY <1>1, <1>2, <1>3, <1>4, <1>5 DEF CleaningInv, PassTells

\* One directory becomes another, here or in OLD_DIR.
LEMMA DirMoves ==
  ASSUME CleaningInv, NEW f \in Files, NEW d \in Dir, NEW e \in Dir,
         live' = [live EXCEPT ![f] = d], old' = [old EXCEPT ![f] = e], deleted' \subseteq Files,
         d.photo = "nodir" => d.temps = {}, e.photo = "nodir" => e.temps = {}
  PROVE  /\ VolumeOK' /\ live'[f] = d /\ old'[f] = e
         /\ \A g \in Files : g # f => live'[g] = live[g] /\ old'[g] = old[g]
  BY DEF CleaningInv, VolumeOK

LEMMA FilesAre ==
  ASSUME CleaningInv, NEW f \in Files
  PROVE  /\ live[f] \in Dir /\ old[f] \in Dir
         /\ (live[f].photo = "nodir" => live[f].temps = {}) /\ (old[f].photo = "nodir" => old[f].temps = {})
         /\ old = [old EXCEPT ![f] = old[f]] /\ live = [live EXCEPT ![f] = live[f]]
  BY DEF CleaningInv, VolumeOK

LEMMA UploadKeeps ==
  ASSUME CleaningInv, NEW f \in Files, Upload(f)
  PROVE  CleaningInv'
<1>1. PICK d : d = [live[f] EXCEPT !.photo = "clean"]
  OBVIOUS
<1>2. d \in Dir /\ d.photo = "clean"
  BY <1>1, FilesAre DEF Dir
<1>3. live' = [live EXCEPT ![f] = d] /\ UNCHANGED <<old, deleted, marking, pass, failed, restoring, process>>
      /\ f \notin deleted /\ f \notin refused /\ \A p \in Passes : f \notin pass[p].todo \union {pass[p].file} \union pass[p].bad
  BY <1>1 DEF Upload
<1>4. /\ VolumeOK' /\ live'[f] = d /\ old'[f] = old[f]
      /\ \A g \in Files : g # f => live'[g] = live[g] /\ old'[g] = old[g]
  <2>1. old' = [old EXCEPT ![f] = old[f]] /\ deleted' \subseteq Files
    BY <1>3, FilesAre DEF CleaningInv, VolumeOK
  <2>2. QED BY <1>2, <1>3, <2>1, FilesAre, DirMoves
<1>5. RestoreOK'
  BY <1>3 DEF CleaningInv, RestoreOK, restoring, NoneOld
<1>6. QED BY <1>2, <1>3, <1>4, <1>5, FileMoves DEF restoring

LEMMA DeleteKeeps ==
  ASSUME CleaningInv, NEW f \in Files, DeletePhoto(f) \/ DeleteItemDir(f)
  PROVE  CleaningInv'
<1>1. /\ UNCHANGED <<old, marking, pass, failed, restoring, process>> /\ restore = "none" /\ Gone(f)
      /\ live[f].photo # "nodir"
  BY DEF DeletePhoto, DeleteItemDir, Serving, Stored
<1>2. PICK d \in Dir : /\ live' = [live EXCEPT ![f] = d] /\ d.photo \in {"none", "nodir"}
                       /\ d.photo = "nodir" => d.temps = {}
  <2>1. CASE DeletePhoto(f)
    <3>1. PICK d : d = [live[f] EXCEPT !.photo = "none"]
      OBVIOUS
    <3>2. d \in Dir /\ d.photo = "none"
      BY <3>1, FilesAre DEF Dir
    <3>3. live' = [live EXCEPT ![f] = d]
      BY <2>1, <3>1 DEF DeletePhoto
    <3>4. QED BY <3>2, <3>3
  <2>2. CASE DeleteItemDir(f)
    BY <2>2, NoDirIs DEF DeleteItemDir
  <2>3. QED BY <2>1, <2>2
<1>3. deleted' \subseteq deleted \union {f} /\ deleted' \subseteq Files
      /\ (f \in deleted' \ deleted => \A p \in Passes : ~(pass[p].at = "put" /\ pass[p].file = f))
  BY <1>1 DEF Gone, CleaningInv, VolumeOK
<1>4. /\ VolumeOK' /\ live'[f] = d /\ old'[f] = old[f]
      /\ \A g \in Files : g # f => live'[g] = live[g] /\ old'[g] = old[g]
  <2>1. old' = [old EXCEPT ![f] = old[f]]
    BY <1>1, FilesAre
  <2>2. QED BY <1>2, <1>3, <2>1, FilesAre, DirMoves
<1>5. RestoreOK' /\ old[f] = NoDir
  BY <1>1 DEF CleaningInv, RestoreOK, restoring, NoneOld
<1>6. live'[f].photo \notin HasPhoto /\ old'[f].photo \notin HasPhoto
  BY <1>2, <1>4, <1>5, NoDirIs DEF HasPhoto
<1>7. QED BY <1>1, <1>2, <1>3, <1>4, <1>5, <1>6, FileMoves DEF restoring

\* The renames of a swap, of putting back, and what comes of them.
LEMMA RenamesKeep ==
  ASSUME CleaningInv, NEW f \in Files, MoveOut(f) \/ MoveIn(f) \/ UndoOut(f) \/ UndoIn(f)
  PROVE  CleaningInv'
<1>1. UNCHANGED <<marking, pass, failed, restore, archive, restores, process>>
  BY DEF MoveOut, MoveIn, UndoOut, UndoIn, restoring
<1>2. f \in deleted => live[f].photo \notin HasPhoto /\ old[f].photo \notin HasPhoto
  BY DEF CleaningInv, NotReturned
<1>3. deleted \subseteq Files
  BY DEF CleaningInv, VolumeOK
<1>4. CASE MoveOut(f)
  <2>1. live' = [live EXCEPT ![f] = NoDir] /\ old' = [old EXCEPT ![f] = live[f]] /\ deleted' = deleted
        /\ putBack' = putBack /\ restore = "out"
    BY <1>4 DEF MoveOut, restoring
  <2>2. /\ VolumeOK' /\ live'[f] = NoDir /\ old'[f] = live[f]
        /\ \A g \in Files : g # f => live'[g] = live[g] /\ old'[g] = old[g]
    BY <1>3, <2>1, FilesAre, NoDirIs, DirMoves
  <2>3. RestoreOK'
    BY <1>1, <2>1 DEF CleaningInv, RestoreOK
  <2>4. QED BY <1>1, <1>2, <2>1, <2>2, <2>3, NoDirIs, FileMoves DEF HasPhoto
<1>5. CASE MoveIn(f)
  <2>1. PICK d : d = [live[f] EXCEPT !.photo = archive[f]]
    OBVIOUS
  <2>2. d \in Dir /\ d.photo = archive[f] /\ d.photo # "nodir"
    <3>1. archive[f] \in {"dirty", "clean", "broken"}
      BY <1>5 DEF MoveIn, ToMoveIn, CleaningInv, RestoreOK
    <3>2. QED BY <2>1, <3>1, FilesAre DEF Dir
  <2>3. live' = [live EXCEPT ![f] = d] /\ old' = [old EXCEPT ![f] = old[f]] /\ deleted' = deleted \ {f}
        /\ putBack' = putBack /\ restore = "in" /\ old' = old
    BY <1>5, <2>1, FilesAre DEF MoveIn, restoring
  <2>4. deleted' \subseteq Files
    BY <1>3, <2>3
  <2>5. /\ VolumeOK' /\ live'[f] = d /\ old'[f] = old[f]
        /\ \A g \in Files : g # f => live'[g] = live[g] /\ old'[g] = old[g]
    BY <2>2, <2>3, <2>4, FilesAre, DirMoves
  <2>6. RestoreOK' /\ Mixed
    BY <1>1, <2>3 DEF CleaningInv, RestoreOK, Mixed
  <2>7. QED BY <1>1, <2>3, <2>5, <2>6, FileMoves
<1>6. CASE UndoOut(f)
  <2>1. live' = [live EXCEPT ![f] = NoDir] /\ old' = [old EXCEPT ![f] = old[f]] /\ deleted' = deleted
        /\ putBack' = putBack /\ restore = "undo_out"
    BY <1>6, FilesAre DEF UndoOut, restoring
  <2>2. /\ VolumeOK' /\ live'[f] = NoDir /\ old'[f] = old[f]
        /\ \A g \in Files : g # f => live'[g] = live[g] /\ old'[g] = old[g]
    BY <1>3, <2>1, FilesAre, NoDirIs, DirMoves
  <2>3. RestoreOK'
    BY <1>1, <2>1 DEF CleaningInv, RestoreOK
  <2>4. QED BY <1>1, <1>2, <2>1, <2>2, <2>3, NoDirIs, FileMoves DEF HasPhoto
<1>7. CASE UndoIn(f)
  <2>1. live' = [live EXCEPT ![f] = old[f]] /\ old' = [old EXCEPT ![f] = NoDir] /\ deleted' = deleted
        /\ putBack' = putBack \union {f} /\ restore = "undo_in"
    BY <1>7 DEF UndoIn
  <2>2. /\ VolumeOK' /\ live'[f] = old[f] /\ old'[f] = NoDir
        /\ \A g \in Files : g # f => live'[g] = live[g] /\ old'[g] = old[g]
    BY <1>3, <2>1, FilesAre, NoDirIs, DirMoves
  <2>3. RestoreOK'
    BY <1>1, <2>1 DEF CleaningInv, RestoreOK
  <2>4. QED BY <1>1, <1>2, <2>1, <2>2, <2>3, NoDirIs, FileMoves DEF HasPhoto
<1>8. QED BY <1>4, <1>5, <1>6, <1>7

\* A restore goes on, and no photo changes: where nothing could be told of the
\* volume and now can, it is empty.
LEMMA RestoreGoesOn ==
  ASSUME CleaningInv, UNCHANGED <<live, deleted, marking, pass, putBack, process>>, RestoreOK',
         old' \in [Files -> Dir], \A f \in Files : old'[f] = old[f] \/ old'[f] = NoDir,
         Mixed' \/ ~Mixed \/ NoneLive
  PROVE  CleaningInv'
<1>1. VolumeOK' /\ MarkingOK'
  BY NoDirIs DEF CleaningInv, VolumeOK, MarkingOK, marking
<1>2. Mixed /\ ~Mixed' => \A f \in Files : live[f].photo = "nodir"
  BY NoDirIs DEF NoneLive
<1>3. MarkerTells'
  BY <1>2 DEF CleaningInv, MarkerTells, Told, Stored, marking
<1>4. ASSUME NEW q \in Passes
      PROVE  Shaped(pass[q])' /\ Tells(pass[q])'
  <2>1. PICK s \in PassRecord : s = pass[q]
    BY DEF CleaningInv, PassesOK
  <2>2. Shaped(s) /\ Tells(s)
    BY <2>1, PassIs
  <2>3. Shaped(s)' /\ Tells(s)'
    BY <1>2, <2>2 DEF Shaped, Tells, Judged, Stored, marking
  <2>4. QED BY <2>1, <2>3, OnePass
<1>5. PassesOK'
  BY <1>4 DEF CleaningInv, PassesOK, process, AtWork
<1>6. NotReturned'
  BY NoDirIs DEF CleaningInv, NotReturned, VolumeOK, HasPhoto
<1>7. QED BY <1>1, <1>3, <1>4, <1>5, <1>6 DEF CleaningInv, PassTells

LEMMA MovesKeep ==
  ASSUME CleaningInv, DatabaseFails \/ DatabaseDone \/ MovedOut \/ Finish \/ SwapFails \/ UndoneOut \/ Undone
  PROVE  CleaningInv'
<1>1. UNCHANGED <<live, deleted, marking, pass, putBack, process>>
  BY DEF DatabaseFails, DatabaseDone, MovedOut, Finish, SwapFails, UndoneOut, Undone, Moves, files
<1>2. archive' \in [Files -> {"nodir", "dirty", "clean", "broken"}]
  BY DEF DatabaseFails, DatabaseDone, MovedOut, Finish, SwapFails, UndoneOut, Undone, Moves, CleaningInv, RestoreOK,
         NoArchive
<1>3. old' \in [Files -> Dir] /\ (old' = old \/ \A f \in Files : old'[f] = NoDir)
  BY NoDirIs DEF DatabaseFails, DatabaseDone, MovedOut, Finish, SwapFails, UndoneOut, Undone, files, CleaningInv, VolumeOK
<1>4. CASE DatabaseFails \/ DatabaseDone
  BY <1>1, <1>2, <1>3, <1>4, RestoreGoesOn
     DEF DatabaseFails, DatabaseDone, Moves, CleaningInv, RestoreOK, Mixed, NoneOld, files
<1>5. CASE MovedOut \/ SwapFails
  BY <1>1, <1>2, <1>3, <1>5, RestoreGoesOn DEF MovedOut, SwapFails, Moves, CleaningInv, RestoreOK, Mixed, files
<1>6. CASE Finish
  BY <1>1, <1>2, <1>3, <1>6, RestoreGoesOn DEF Finish, Moves, CleaningInv, RestoreOK, Mixed, NoneOld
<1>7. CASE UndoneOut
  BY <1>1, <1>2, <1>3, <1>7, RestoreGoesOn DEF UndoneOut, Moves, CleaningInv, RestoreOK, Mixed, files
<1>8. CASE Undone
  BY <1>1, <1>2, <1>3, <1>8, RestoreGoesOn DEF Undone, Moves, CleaningInv, RestoreOK, Mixed, NoneOld, files
<1>9. QED BY <1>4, <1>5, <1>6, <1>7, <1>8

\* Once the marker is removed, no pass that is at work speaks of this generation.
LEMMA Unmarked ==
  ASSUME CleaningInv, RemoveMarker
  PROVE  /\ MarkingOK' /\ MarkerTells'
         /\ \A r \in PassRecord : Shaped(r) => Shaped(r)' /\ Tells(r)'
<1>1. generation \in Nat /\ generation' = generation + 1 /\ marker' = FALSE /\ refused' = {} /\ unlisted' = {}
  BY DEF RemoveMarker, CleaningInv, MarkingOK
<1>2. MarkingOK'
  <2>1. generation' \in Nat /\ marker' = FALSE
    BY <1>1
  <2>2. refused' \subseteq Files /\ refused' = {} /\ unlisted' \subseteq Files
    BY <1>1
  <2>3. QED BY <2>1, <2>2 DEF MarkingOK
<1>3. MarkerTells'
  BY <1>1 DEF MarkerTells
<1>4. ASSUME NEW r \in PassRecord, Shaped(r) PROVE Shaped(r)' /\ Tells(r)'
  <2>1. r.gen \in Nat /\ r.gen <= generation
    BY <1>4 DEF Shaped, PassRecord
  <2>2. QED BY <1>1, <1>4, <2>1 DEF Shaped, Tells
<1>5. QED BY <1>2, <1>3, <1>4

LEMMA QueuedIs ==
  ASSUME NEW r \in PassRecord, Shaped(r), r.at = "off", NEW s, s = [r EXCEPT !.at = "queued"]
  PROVE  s \in PassRecord /\ Shaped(s) /\ s.at = "queued"
<1>1. s \in PassRecord /\ s.at = "queued" /\ s.gen = r.gen /\ s.file = r.file /\ s.todo = r.todo /\ s.bad = r.bad
      /\ s.fails = r.fails
  BY DEF PassRecord
<1>2. QED BY <1>1 DEF Shaped

LEMMA QueueKeeps ==
  ASSUME CleaningInv, Queue(Passes, pass)
  PROVE  /\ pass' \in [Passes -> PassRecord]
         /\ \A q \in Passes : /\ Shaped(pass'[q])
                              /\ AtWork(pass'[q]) => pass'[q] = pass[q] /\ AtWork(pass[q])
                              /\ pass'[q] = pass[q] \/ pass'[q].at = "queued"
<1>1. PICK p \in Passes : pass[p].at = "off" /\ pass' = [pass EXCEPT ![p].at = "queued"]
  BY DEF Queue
<1>2. PICK s : s = [pass[p] EXCEPT !.at = "queued"]
  OBVIOUS
<1>3. s \in PassRecord /\ Shaped(s) /\ s.at = "queued"
  BY <1>1, <1>2, PassIs, QueuedIs DEF Shaped
<1>4. pass' \in [Passes -> PassRecord] /\ pass'[p] = s /\ \A q \in Passes : q # p => pass'[q] = pass[q]
  BY <1>1, <1>2, <1>3 DEF CleaningInv, PassesOK
<1>5. ~AtWork(s)
  BY <1>3 DEF AtWork
<1>6. QED BY <1>3, <1>4, <1>5, PassIs

LEMMA BeginKeeps ==
  ASSUME CleaningInv, Begin
  PROVE  CleaningInv'
<1>1. MarkingOK' /\ MarkerTells' /\ \A r \in PassRecord : Shaped(r) => Shaped(r)' /\ Tells(r)'
  BY Unmarked DEF Begin
<1>2. ASSUME NEW q \in Passes
      PROVE  Shaped(pass[q])' /\ Tells(pass[q])'
  <2>1. PICK s \in PassRecord : s = pass[q] /\ Shaped(s)
    BY DEF CleaningInv, PassesOK
  <2>2. Shaped(s)' /\ Tells(s)'
    BY <1>1, <2>1
  <2>3. QED BY <2>1, <2>2, OnePass DEF Begin
<1>3. PassesOK'
  BY <1>2 DEF Begin, CleaningInv, PassesOK, process, AtWork
<1>4. VolumeOK' /\ NotReturned'
  BY DEF Begin, CleaningInv, VolumeOK, NotReturned, files
<1>5. RestoreOK'
  <2>1. \A a \in Brought : a \in [Files -> {"nodir", "dirty", "clean", "broken"}]
    BY CleaningAssumption
  <2>2. QED BY <2>1 DEF Begin, Serving, CleaningInv, RestoreOK, NoneOld, files
<1>6. QED BY <1>1, <1>2, <1>3, <1>4, <1>5 DEF CleaningInv, PassTells

LEMMA CleanAgainKeeps ==
  ASSUME CleaningInv, CleanAgain
  PROVE  CleaningInv'
<1>1. MarkingOK' /\ MarkerTells' /\ \A r \in PassRecord : Shaped(r) => Shaped(r)' /\ Tells(r)'
  BY Unmarked DEF CleanAgain
<1>2. /\ pass' \in [Passes -> PassRecord]
      /\ \A q \in Passes : Shaped(pass'[q]) /\ (AtWork(pass'[q]) => pass'[q] = pass[q] /\ AtWork(pass[q]))
                           /\ (pass'[q] = pass[q] \/ pass'[q].at = "queued")
  BY QueueKeeps DEF CleanAgain
<1>3. ASSUME NEW q \in Passes
      PROVE  Shaped(pass[q])' /\ Tells(pass[q])'
  <2>1. PICK s \in PassRecord : s = pass'[q] /\ Shaped(s)
    BY <1>2
  <2>2. Shaped(s)' /\ Tells(s)'
    BY <1>1, <2>1
  <2>3. QED BY <2>1, <2>2, OnePass
<1>4. PassesOK'
  <2>1. \A a, b \in Passes : AtWork(pass'[a]) /\ AtWork(pass'[b]) => a = b
    BY <1>2 DEF CleaningInv, PassesOK
  <2>2. up'
    BY DEF CleanAgain, Moves, process
  <2>3. QED BY <1>2, <1>3, <2>1, <2>2 DEF PassesOK, AtWork
<1>5. VolumeOK'
  BY DEF CleanAgain, CleaningInv, VolumeOK, files
<1>6. NotReturned'
  <2>1. \A q \in Passes : pass'[q].at = "put" => pass'[q] = pass[q]
    BY <1>2
  <2>2. QED BY <2>1 DEF CleanAgain, CleaningInv, NotReturned, files
<1>7. RestoreOK'
  BY DEF CleanAgain, Moves, CleaningInv, RestoreOK, NoneOld, files, NoArchive
<1>8. QED BY <1>1, <1>3, <1>4, <1>5, <1>6, <1>7 DEF CleaningInv, PassTells

\* The temporary file of a pass that stopped is nobody's.
LEMMA StopKeeps ==
  ASSUME CleaningInv, Stop
  PROVE  CleaningInv'
<1> DEFINE Leave(d) == [d EXCEPT !.temps = IF "own" \in @ THEN (@ \ {"own"}) \union {"fresh"} ELSE @]
<1>1. /\ up' = FALSE /\ pass' = [p \in Passes |-> Off] /\ generation' = 0
      /\ live' = [f \in Files |-> Leave(live[f])] /\ old' = [f \in Files |-> Leave(old[f])]
      /\ UNCHANGED <<deleted, marker, refused, unlisted, restoring>>
  BY DEF Stop
<1>2. ASSUME NEW d \in Dir
      PROVE  /\ Leave(d) \in Dir /\ Leave(d).photo = d.photo
             /\ (d.temps = {} => Leave(d) = d /\ Leave(d).temps = {})
  <2>1. PICK T : T = IF "own" \in d.temps THEN (d.temps \ {"own"}) \union {"fresh"} ELSE d.temps
    OBVIOUS
  <2>2. T \subseteq {"own", "fresh", "stale"}
    BY <2>1, DirIs
  <2>3. Leave(d) = [d EXCEPT !.temps = T]
    BY <2>1 DEF Dir
  <2>4. Leave(d) \in Dir /\ Leave(d).photo = d.photo /\ Leave(d).temps = T
    BY <2>2, <2>3 DEF Dir
  <2>5. d.temps = {} => T = {} /\ Leave(d) = d
    BY <2>1, <2>3 DEF Dir
  <2>6. QED BY <2>4, <2>5
<1> HIDE DEF Leave
<1>3. live \in [Files -> Dir] /\ old \in [Files -> Dir]
  BY DEF CleaningInv, VolumeOK
<1>4. /\ live' \in [Files -> Dir] /\ old' \in [Files -> Dir]
      /\ \A f \in Files : live'[f].photo = live[f].photo /\ old'[f].photo = old[f].photo
      /\ \A f \in Files : (live[f].temps = {} => live'[f].temps = {}) /\ (old[f].temps = {} => old'[f].temps = {})
      /\ \A f \in Files : old[f] = NoDir => old'[f] = NoDir
  BY <1>1, <1>2, <1>3, NoDirIs
<1>5. VolumeOK'
  BY <1>1, <1>4 DEF CleaningInv, VolumeOK
<1>6. MarkingOK'
  BY <1>1 DEF CleaningInv, MarkingOK
<1>7. MarkerTells'
  BY <1>1, <1>4 DEF CleaningInv, MarkerTells, Mixed, Told, Stored, restoring
<1>8. \A p \in Passes : pass'[p] = Off /\ pass'[p].at = "off" /\ pass'[p].file = NoFile
  BY <1>1, OffShape
<1>9. ASSUME NEW q \in Passes
      PROVE  Shaped(pass[q])' /\ Tells(pass[q])'
  <2>1. PICK s \in PassRecord : s = Off
    BY OffShape
  <2>2. Shaped(s)' /\ Tells(s)'
    BY <1>1, <2>1, OffShape DEF Shaped, Tells
  <2>3. QED BY <1>8, <2>1, <2>2, OnePass
<1>10. PassesOK'
  BY <1>1, <1>8, <1>9, OffShape DEF PassesOK, AtWork
<1>11. RestoreOK'
  BY <1>1, <1>4 DEF CleaningInv, RestoreOK, restoring, NoneOld
<1>12. NotReturned'
  BY <1>1, <1>4, <1>8 DEF CleaningInv, NotReturned, VolumeOK
<1>13. QED BY <1>5, <1>6, <1>7, <1>9, <1>10, <1>11, <1>12 DEF CleaningInv, PassTells

\* What a start may leave of a file: as it was, or the archive's where the swap was
\* begun, or one that was put back.
LEMMA RecoveredIs ==
  ASSUME CleaningInv, ~up, NEW f \in Files, NEW swaps \in BOOLEAN, NEW d \in Recovered(f, swaps)
  PROVE  /\ d \in Dir /\ (d.photo = "nodir" => d.temps = {})
         /\ ~swaps => d = live[f]
<1>1. archive[f] \in {"nodir", "dirty", "clean", "broken"}
  BY DEF CleaningInv, RestoreOK
<1>2. PICK new : new = [photo |-> archive[f], temps |-> {}]
  OBVIOUS
<1>3. new \in Dir /\ new.temps = {}
  BY <1>1, <1>2 DEF Dir
<1>4. d \in {new, live[f], old[f]} /\ (~swaps => d = live[f])
  <2>1. CASE ~swaps
    <3>1. Recovered(f, swaps) = {live[f]}
      BY <2>1 DEF Recovered
    <3>2. QED BY <3>1
  <2>2. CASE swaps
    <3>1. \/ Recovered(f, swaps) = {IF f \in ToMoveIn THEN new ELSE live[f]}
          \/ Recovered(f, swaps) = {live[f]}
          \/ Recovered(f, swaps) = {new}
          \/ Recovered(f, swaps) = {new, IF old[f] # NoDir THEN old[f] ELSE live[f]}
      BY <1>2, <2>2 DEF Recovered
    <3>2. QED BY <2>2, <3>1
  <2>3. QED BY <2>1, <2>2
<1>5. QED BY <1>3, <1>4, FilesAre

LEMMA StartKeeps ==
  ASSUME CleaningInv, Start
  PROVE  CleaningInv'
<1>1. PICK swaps \in BOOLEAN :
        /\ swaps \in (CASE restore = "none" -> {FALSE} [] restore = "database" -> BOOLEAN [] OTHER -> {TRUE})
        /\ live' \in {l \in [Files -> UNION {Recovered(f, swaps) : f \in Files}] :
                        \A f \in Files : l[f] \in Recovered(f, swaps)}
        /\ deleted' = IF swaps THEN {f \in deleted : live'[f].photo \in {"nodir", "none"}} ELSE deleted
        /\ IF swaps THEN RemoveMarker ELSE KeepMarker
  BY DEF Start
<1>2. /\ ~up /\ up' = TRUE /\ restore' = "none" /\ old' = [f \in Files |-> NoDir]
      /\ IF restore = "none" THEN UNCHANGED putBack ELSE putBack' = {}
      /\ (marker' /\ pass' = pass) \/ Queue(Passes, pass)
      /\ archive' = NoArchive
  BY DEF Start
<1>3. \A f \in Files : /\ live'[f] \in Dir /\ (live'[f].photo = "nodir" => live'[f].temps = {})
                       /\ ~swaps => live'[f] = live[f]
  BY <1>1, <1>2, RecoveredIs
<1>4. live' \in [Files -> Dir] /\ old' \in [Files -> Dir]
  BY <1>1, <1>2, <1>3, NoDirIs
<1>5. deleted' \subseteq deleted /\ deleted \subseteq Files
  BY <1>1 DEF CleaningInv, VolumeOK
<1>6. VolumeOK'
  BY <1>2, <1>3, <1>4, <1>5, NoDirIs DEF VolumeOK
<1>7. RestoreOK'
  BY <1>2 DEF CleaningInv, RestoreOK, NoneOld, NoArchive
<1>8. /\ pass' \in [Passes -> PassRecord]
      /\ \A q \in Passes : Shaped(pass'[q]) /\ pass'[q].at \in {"off", "queued"}
  <2>1. pass \in [Passes -> PassRecord] /\ \A q \in Passes : Shaped(pass[q]) /\ pass[q].at = "off"
    BY <1>2, OffShape DEF CleaningInv, PassesOK
  <2>2. CASE pass' = pass
    BY <2>1, <2>2
  <2>3. CASE Queue(Passes, pass)
    BY <2>1, <2>3, QueueKeeps
  <2>4. QED BY <1>2, <2>2, <2>3, <2>1
<1>9. /\ MarkingOK' /\ MarkerTells'
      /\ \A r \in PassRecord : Shaped(r) => Shaped(r)'
  <2>1. CASE swaps
    BY <1>1, <2>1, Unmarked
  <2>2. CASE ~swaps
    <3>1. UNCHANGED <<marker, refused, unlisted, generation>>
      BY <1>1, <2>2 DEF KeepMarker, marking
    <3>2. restore \in {"none", "database"}
      BY <1>1, <2>2
    <3>3. ~Mixed /\ putBack \subseteq putBack'
      BY <1>2, <3>2 DEF Mixed, CleaningInv, RestoreOK
    <3>4. MarkingOK'
      BY <3>1 DEF CleaningInv, MarkingOK
    <3>5. MarkerTells'
      BY <1>3, <2>2, <3>1, <3>3 DEF CleaningInv, MarkerTells, Told, Stored
    <3>6. \A r \in PassRecord : Shaped(r) => Shaped(r)'
      BY <3>1 DEF Shaped
    <3>7. QED BY <3>4, <3>5, <3>6
  <2>3. QED BY <2>1, <2>2
<1>10. ASSUME NEW q \in Passes
       PROVE  Shaped(pass[q])' /\ Tells(pass[q])'
  <2>1. PICK s \in PassRecord : s = pass'[q] /\ Shaped(s) /\ s.at \in {"off", "queued"}
    BY <1>8
  <2>2. s.file = NoFile
    BY <2>1 DEF Shaped
  <2>3. Shaped(s)' /\ Tells(s)'
    BY <1>9, <2>1, <2>2 DEF Tells
  <2>4. QED BY <2>1, <2>3, OnePass
<1>11. PassesOK'
  BY <1>2, <1>8, <1>10 DEF PassesOK, AtWork
<1>12. NotReturned'
  <2>1. ASSUME NEW f \in deleted' PROVE live'[f].photo \notin HasPhoto /\ old'[f].photo \notin HasPhoto
    <3>1. f \in Files /\ f \in deleted
      BY <1>5
    <3>2. old'[f].photo \notin HasPhoto
      BY <1>2, <3>1, NoDirIs DEF HasPhoto
    <3>3. CASE swaps
      BY <1>1, <3>2, <3>3 DEF HasPhoto
    <3>4. CASE ~swaps
      BY <1>3, <3>1, <3>2, <3>4 DEF CleaningInv, NotReturned
    <3>5. QED BY <3>3, <3>4
  <2>2. QED BY <1>8, <2>1 DEF NotReturned
<1>13. QED BY <1>6, <1>7, <1>9, <1>10, <1>11, <1>12 DEF CleaningInv, PassTells

-----------------------------------------------------------------------------
LEMMA CleaningStart == CleaningInit => CleaningInv
<1> SUFFICES ASSUME CleaningInit PROVE CleaningInv
  OBVIOUS
<1>1. PICK k \in Before : live = [f \in Files |-> [photo |-> k[f], temps |-> {}]]
  BY DEF CleaningInit
<1>2. \A f \in Files : k[f] \in {"nodir", "dirty", "clean", "broken"}
  BY CleaningAssumption
<1>3. VolumeOK
  BY <1>1, <1>2, NoDirIs DEF CleaningInit, VolumeOK, Dir
<1>4. MarkingOK /\ MarkerTells
  BY DEF CleaningInit, MarkingOK, MarkerTells
<1>5. PICK p \in Passes : pass = [q \in Passes |-> [Off EXCEPT !.at = IF q = p THEN "queued" ELSE "off"]]
  BY DEF CleaningInit
<1>6. \A q \in Passes : LET r == pass[q] IN
        /\ r \in PassRecord /\ r.at \in {"off", "queued"} /\ r.gen = 0 /\ r.todo = {} /\ r.bad = {} /\ r.fails = FALSE
        /\ r.file = NoFile
  <2>1. ASSUME NEW at \in {"off", "queued"}, NEW r, r = [Off EXCEPT !.at = at]
        PROVE  /\ r \in PassRecord /\ r.at \in {"off", "queued"} /\ r.gen = 0 /\ r.todo = {} /\ r.bad = {} /\ r.fails = FALSE
               /\ r.file = NoFile
    BY <2>1 DEF Off, PassRecord
  <2>2. QED BY <1>5, <2>1
<1>7. PassesOK /\ PassTells
  <2>1. \A q \in Passes : Shaped(pass[q]) /\ Tells(pass[q]) /\ ~AtWork(pass[q])
    BY <1>6 DEF CleaningInit, Shaped, Tells, AtWork
  <2>2. QED BY <1>5, <1>6, <2>1 DEF CleaningInit, PassesOK, PassTells
<1>8. RestoreOK
  BY DEF CleaningInit, RestoreOK, NoneOld, NoArchive
<1>9. NotReturned
  BY <1>6 DEF CleaningInit, NotReturned
<1>10. QED BY <1>3, <1>4, <1>7, <1>8, <1>9 DEF CleaningInv

LEMMA CleaningStep == CleaningInv /\ [CleaningNext]_cleaning => CleaningInv'
<1> SUFFICES ASSUME CleaningInv, [CleaningNext]_cleaning PROVE CleaningInv'
  OBVIOUS
<1>1. CASE UNCHANGED cleaning
  <2>1. UNCHANGED <<live, old, deleted, marking, pass, restoring, process>>
    BY <1>1 DEF cleaning, files
  <2>2. RestoreOK'
    BY <2>1 DEF CleaningInv, RestoreOK, restoring, NoneOld
  <2>3. old' \in [Files -> Dir] /\ (Mixed' \/ ~Mixed)
    BY <2>1 DEF CleaningInv, VolumeOK, Mixed, restoring
  <2>4. QED BY <2>1, <2>2, <2>3, RestoreGoesOn DEF restoring
<1>2. ASSUME NEW p \in Passes, PassStep(p) PROVE CleaningInv'
  <2>1. CASE Lock(p) \/ List(p) \/ ListFails(p)
    BY <2>1, LockKeeps
  <2>2. CASE Write(p) \/ WriteFails(p)
    BY <2>2, WriteKeeps, WriteFailsKeeps
  <2>3. CASE Look(p) \/ Put(p)
    BY <2>3, LookKeeps, PassPutKeeps
  <2>4. CASE Mark(p) \/ MarkFails(p)
    BY <2>4, MarkKeeps
  <2>5. CASE \E f \in Files : DropStale(p, f) \/ Read(p, f) \/ ReadFails(p, f)
    BY <2>5, DropStaleKeeps, PassReadKeeps
  <2>6. QED BY <1>2, <2>1, <2>2, <2>3, <2>4, <2>5 DEF PassStep
<1>3. ASSUME NEW f \in Files, Age(f) \/ Upload(f) \/ DeletePhoto(f) \/ DeleteItemDir(f) PROVE CleaningInv'
  BY <1>3, AgeKeeps, UploadKeeps, DeleteKeeps
<1>4. CASE RestoreStep
  BY <1>4, MovesKeep, CleanAgainKeeps, RenamesKeep DEF RestoreStep
<1>5. QED BY <1>1, <1>2, <1>3, <1>4, BeginKeeps, StopKeeps, StartKeeps DEF CleaningNext

\* The steps of CleaningSpec, none of which need be taken.
CleaningSteps == CleaningInit /\ [][CleaningNext]_cleaning

(* What each pass tells of the files it is done with, and the marker of    *)
(* all of them, is so wherever no archive's photos are half way in         *)
(* (photos.strip_existing, restore._restore_job).                           *)
THEOREM CleaningInvHolds == CleaningSteps => []CleaningInv
  BY CleaningStart, CleaningStep, PTL DEF CleaningSteps

(* While requests are served the marker means that every photo was         *)
(* rewritten or is listed, but for what an undo put back and what is in a  *)
(* folder the walk could not list, however many passes, restores and stops *)
(* there were (photos._write_marker_unless_moved).                         *)
THEOREM MarkedIsClean == CleaningSteps => []MarkerMeansClean
<1>1. CleaningInv => MarkerMeansClean
  BY DEF CleaningInv, MarkerTells, MarkerMeansClean, Serving, Mixed
<1>2. QED BY <1>1, CleaningInvHolds, PTL

(* A photo deleted for good while a pass holds its bytes stays deleted     *)
(* (photos._strip_one).                                                    *)
THEOREM DeletedIsForGood == CleaningSteps => []DeletedStaysDeleted
<1>1. CleaningInv => DeletedStaysDeleted
  BY DEF CleaningInv, NotReturned, HasPhoto, DeletedStaysDeleted, Stored
<1>2. QED BY <1>1, CleaningInvHolds, PTL

-----------------------------------------------------------------------------
(***************************************************************************)
(* Whether a stored photo may be sent as it is (Walks), for files of any   *)
(* length.                                                                 *)
(***************************************************************************)
Walkings == [sof : {"none"} \union Frames, scanned : BOOLEAN, seen : SUBSET {"JFIF", "Adobe", "ICC"},
             icc : Seq(Segments), colour : Colours \union {9}, palette : 0..2]

\* What a JPEG's walk remembers is told by the segments it went past.
JpegWalk ==
  /\ parts \in Seq(Segments)
  /\ \A j \in DOMAIN parts : parts[j].kind \notin {"other", "EOI"} /\ parts[j].fits
  /\ IF walk.sof = "none" THEN PartsOf(Frames) = {}
       ELSE \E f \in DOMAIN parts : PartsOf(Frames) = {f} /\ parts[f].kind = walk.sof
  /\ \A k \in {"JFIF", "Adobe"} :
       IF k \in walk.seen THEN \E f \in DOMAIN parts : PartsOf({k}) = {f} ELSE PartsOf({k}) = {}
  /\ walk.scanned <=> PartsOf({"SOS"}) # {}
  /\ walk.scanned => walk.sof # "none"
  /\ \A j \in PartsOf(Frames \union {"JFIF", "Adobe", "ICC"}), s \in PartsOf({"SOS"}) : j < s
  /\ \A r, s \in PartsOf({"SOS"}) : r # s => walk.sof = "SOFprogressive"
  /\ Cardinality(PartsOf({"ICC"})) = Len(walk.icc)
  /\ {parts[j].no : j \in PartsOf({"ICC"})} = {walk.icc[j].no : j \in DOMAIN walk.icc}
  /\ \A j \in PartsOf({"ICC"}) : \E i \in DOMAIN walk.icc : walk.icc[i].of = parts[j].of

\* A PNG's has the header's colours and the last palette.
PngWalk ==
  /\ parts \in Seq(Chunks)
  /\ \A j \in DOMAIN parts : parts[j].kind \notin {"other", "IEND"} /\ parts[j].fits
  /\ IF walk.colour = 9 THEN parts = <<>>
       ELSE PartsOf({"IHDR"}) = {1} /\ parts # <<>> /\ parts[1].size = walk.colour
  /\ walk.palette # 0 => \E j \in PartsOf({"PLTE"}) : parts[j].size = walk.palette
  /\ walk.colour = 3 => \A t \in PartsOf({"tRNS"}) :
       \E j \in PartsOf({"PLTE"}) : j < t /\ parts[t].size <= parts[j].size

WalksInv ==
  /\ walk \in Walkings /\ format \in {"jpeg", "png", "webp"}
  /\ verdict = "walking" =>
       /\ format = "jpeg" => JpegWalk
       /\ format = "png" => PngWalk
       /\ format = "webp" => parts \in Seq(RiffChunks)
  /\ verdict \in {"walked", "clean"} => Pure

-----------------------------------------------------------------------------
LEMMA Appended ==
  ASSUME NEW S, parts \in Seq(S), NEW p \in S, parts' = Append(parts, p)
  PROVE  /\ parts' \in Seq(S) /\ Len(parts) \in Nat /\ Len(parts') = Len(parts) + 1
         /\ DOMAIN parts = 1..Len(parts) /\ DOMAIN parts' = DOMAIN parts \union {Len(parts) + 1}
         /\ \A j \in DOMAIN parts : parts'[j] = parts[j] /\ j < Len(parts) + 1
         /\ parts'[Len(parts) + 1] = p
  OBVIOUS

LEMMA PartsGrow ==
  ASSUME NEW S, parts \in Seq(S), NEW p \in S, parts' = Append(parts, p), NEW K
  PROVE  /\ p.kind \in K => PartsOf(K)' = PartsOf(K) \union {Len(parts) + 1}
         /\ p.kind \notin K => PartsOf(K)' = PartsOf(K)
         /\ \A j \in PartsOf(K) : j \in DOMAIN parts /\ j < Len(parts) + 1 /\ parts'[j] = parts[j]
         /\ IsFiniteSet(PartsOf(K)) /\ PartsOf(K)' \subseteq DOMAIN parts'
<1>1. DOMAIN parts' = DOMAIN parts \union {Len(parts) + 1} /\ parts'[Len(parts) + 1] = p
  BY Appended
<1>2. \A j \in DOMAIN parts : parts'[j] = parts[j] /\ j < Len(parts) + 1 /\ j # Len(parts) + 1
  BY Appended
<1>3. IsFiniteSet(PartsOf(K))
  BY FS_Interval, FS_Subset DEF PartsOf
<1>4. QED BY <1>1, <1>2, <1>3 DEF PartsOf

\* One part more is one of its kind more.
LEMMA OneMore ==
  ASSUME NEW S, parts \in Seq(S), NEW p \in S, parts' = Append(parts, p), NEW K, p.kind \in K
  PROVE  Cardinality(PartsOf(K)') = Cardinality(PartsOf(K)) + 1
  BY PartsGrow, FS_AddElement

Past(w, p) ==
  [w EXCEPT
            !.sof = IF p.kind \in Frames THEN p.kind ELSE @,
            !.scanned = @ \/ p.kind = "SOS",
            !.seen = IF p.kind \in {"JFIF", "Adobe", "ICC"} THEN @ \union {p.kind} ELSE @,
            !.icc = IF p.kind = "ICC" THEN Append(@, p) ELSE @]

LEMMA WalkMoves ==
  ASSUME NEW w \in Walkings, NEW p \in Segments, NEW v, v = Past(w, p)
  PROVE  /\ v \in Walkings
         /\ v.sof = IF p.kind \in Frames THEN p.kind ELSE w.sof
         /\ v.scanned <=> (w.scanned \/ p.kind = "SOS")
         /\ v.seen = IF p.kind \in {"JFIF", "Adobe", "ICC"} THEN w.seen \union {p.kind} ELSE w.seen
         /\ v.icc = IF p.kind = "ICC" THEN Append(w.icc, p) ELSE w.icc
         /\ v.colour = w.colour /\ v.palette = w.palette
<1>1. v.sof = IF p.kind \in Frames THEN p.kind ELSE w.sof
  BY DEF Walkings, Past
<1>2. (v.scanned <=> (w.scanned \/ p.kind = "SOS")) /\ v.scanned \in BOOLEAN
  BY DEF Walkings, Past
<1>3. v.seen = IF p.kind \in {"JFIF", "Adobe", "ICC"} THEN w.seen \union {p.kind} ELSE w.seen
  BY DEF Walkings, Past
<1>4. v.icc = IF p.kind = "ICC" THEN Append(w.icc, p) ELSE w.icc
  BY DEF Walkings, Past
<1>5. v.colour = w.colour /\ v.palette = w.palette
  BY DEF Walkings, Past
<1>6. v.icc \in Seq(Segments)
  BY <1>4 DEF Walkings
<1>7. /\ v.sof \in {"none"} \union Frames /\ v.seen \subseteq {"JFIF", "Adobe", "ICC"}
      /\ v.colour \in Colours \union {9} /\ v.palette \in 0..2
  BY <1>1, <1>3, <1>5 DEF Walkings
<1>8. v = [sof |-> v.sof, scanned |-> v.scanned, seen |-> v.seen, icc |-> v.icc, colour |-> v.colour,
           palette |-> v.palette]
  BY DEF Walkings, Past
<1>9. QED BY <1>1, <1>2, <1>3, <1>4, <1>5, <1>6, <1>7, <1>8 DEF Walkings

LEMMA SegmentKeeps ==
  ASSUME WalksInv, NEW p \in Segments, WalkSegment(p)
  PROVE  WalksInv'
<1>1. CASE verdict' = "refused"
  BY <1>1 DEF WalkSegment, Walking, WalksInv, StopsAt, GoesPast
<1> DEFINE N == Len(parts) + 1
<1>2. CASE verdict' # "refused"
  <2>1. /\ JpegWalk /\ walk \in Walkings /\ format = "jpeg" /\ parts \in Seq(Segments)
    BY DEF WalkSegment, Walking, WalksInv, JpegWalk
  <2>2. /\ Allowed(p.kind) /\ p.fits /\ (p.kind = "SOS" => walk.sof # "none") /\ p.kind # "EOI"
        /\ parts' = Append(parts, p) /\ verdict' = "walking" /\ format' = "jpeg"
        /\ walk' = Past(walk, p)
    BY <1>2, <2>1 DEF WalkSegment, Walking, GoesPast, StopsAt, Past
  <2>3. /\ walk' \in Walkings
        /\ walk'.sof = IF p.kind \in Frames THEN p.kind ELSE walk.sof
        /\ walk'.scanned <=> (walk.scanned \/ p.kind = "SOS")
        /\ walk'.seen = IF p.kind \in {"JFIF", "Adobe", "ICC"} THEN walk.seen \union {p.kind} ELSE walk.seen
        /\ walk'.icc = IF p.kind = "ICC" THEN Append(walk.icc, p) ELSE walk.icc
    <3>1. walk \in Walkings /\ walk' = Past(walk, p)
      BY <2>1, <2>2
    <3>2. PICK w \in Walkings : w = walk
      BY <3>1
    <3>3. PICK v : v = walk' /\ v = Past(w, p)
      BY <3>1, <3>2
    <3>4. /\ v \in Walkings
          /\ v.sof = IF p.kind \in Frames THEN p.kind ELSE w.sof
          /\ v.scanned <=> (w.scanned \/ p.kind = "SOS")
          /\ v.seen = IF p.kind \in {"JFIF", "Adobe", "ICC"} THEN w.seen \union {p.kind} ELSE w.seen
          /\ v.icc = IF p.kind = "ICC" THEN Append(w.icc, p) ELSE w.icc
      BY <3>3, WalkMoves
    <3>5. QED BY <3>2, <3>3, <3>4
  <2>4. /\ parts' \in Seq(Segments) /\ N \in Nat /\ DOMAIN parts' = DOMAIN parts \union {N} /\ parts'[N] = p
        /\ \A j \in DOMAIN parts : parts'[j] = parts[j] /\ j < N
    BY <2>1, <2>2, Appended
  <2>5. p.kind \notin {"other", "EOI"}
    BY <2>2 DEF Allowed, Tables, Frames
  <2>6. \A j \in DOMAIN parts' : parts'[j].kind \notin {"other", "EOI"} /\ parts'[j].fits
    BY <2>1, <2>2, <2>4, <2>5 DEF JpegWalk
  <2>7. ASSUME NEW K
        PROVE  /\ p.kind \in K => PartsOf(K)' = PartsOf(K) \union {N}
               /\ p.kind \notin K => PartsOf(K)' = PartsOf(K)
               /\ \A j \in PartsOf(K) : j \in DOMAIN parts /\ j < N /\ parts'[j] = parts[j]
    BY <2>1, <2>2, PartsGrow
  <2>8. IF walk'.sof = "none" THEN PartsOf(Frames)' = {}
          ELSE \E f \in DOMAIN parts' : PartsOf(Frames)' = {f} /\ parts'[f].kind = walk'.sof
    <3>1. CASE p.kind \in Frames
      <4>1. walk.sof = "none" /\ walk'.sof = p.kind /\ p.kind # "none"
        BY <2>2, <2>3, <3>1 DEF Allowed, Frames, Tables
      <4>2. PartsOf(Frames)' = {N}
        BY <2>1, <2>7, <3>1, <4>1 DEF JpegWalk
      <4>3. QED BY <2>4, <4>1, <4>2
    <3>2. CASE p.kind \notin Frames
      <4>1. PartsOf(Frames)' = PartsOf(Frames) /\ walk'.sof = walk.sof
        BY <2>3, <2>7, <3>2
      <4>2. QED BY <2>1, <2>4, <4>1 DEF JpegWalk
    <3>3. QED BY <3>1, <3>2
  <2>9. ASSUME NEW k \in {"JFIF", "Adobe"}
        PROVE  IF k \in walk'.seen THEN \E f \in DOMAIN parts' : PartsOf({k})' = {f} ELSE PartsOf({k})' = {}
    <3>1. CASE p.kind = k
      <4>1. k \notin walk.seen /\ k \in walk'.seen
        BY <2>2, <2>3, <3>1 DEF Allowed, Frames, Tables
      <4>2. PartsOf({k})' = PartsOf({k}) \union {N}
        BY <2>7, <3>1
      <4>3. PartsOf({k}) = {}
        BY <2>1, <4>1 DEF JpegWalk
      <4>4. QED BY <2>4, <4>1, <4>2, <4>3
    <3>2. CASE p.kind # k
      <4>1. PartsOf({k})' = PartsOf({k}) /\ (k \in walk'.seen <=> k \in walk.seen)
        BY <2>3, <2>7, <3>2
      <4>2. QED BY <2>1, <2>4, <4>1 DEF JpegWalk
    <3>3. QED BY <3>1, <3>2
  <2>10. PartsOf({"SOS"})' = IF p.kind = "SOS" THEN PartsOf({"SOS"}) \union {N} ELSE PartsOf({"SOS"})
    BY <2>7
  <2>11. /\ walk'.scanned <=> PartsOf({"SOS"})' # {}
         /\ walk'.scanned => walk'.sof # "none"
    BY <2>1, <2>2, <2>3, <2>10 DEF JpegWalk, Frames
  <2>12. \A j \in PartsOf(Frames \union {"JFIF", "Adobe", "ICC"})', s \in PartsOf({"SOS"})' : j < s
    <3> DEFINE A == Frames \union {"JFIF", "Adobe", "ICC"}
    <3>1. CASE p.kind \in A
      <4>1. ~walk.scanned /\ p.kind # "SOS"
        BY <2>2, <3>1 DEF Allowed, Frames, Tables
      <4>2. PartsOf({"SOS"})' = {}
        BY <2>1, <2>10, <4>1 DEF JpegWalk
      <4>3. QED BY <4>2
    <3>2. CASE p.kind \notin A
      <4>1. PartsOf(A)' = PartsOf(A) /\ \A j \in PartsOf(A) : j < N
        BY <2>7, <3>2
      <4>2. \A j \in PartsOf(A), s \in PartsOf({"SOS"}) : j < s
        BY <2>1 DEF JpegWalk
      <4>3. QED BY <2>10, <4>1, <4>2
    <3>3. QED BY <3>1, <3>2
  <2>13. \A r, s \in PartsOf({"SOS"})' : r # s => walk'.sof = "SOFprogressive"
    <3>1. CASE p.kind = "SOS"
      <4>1. walk'.sof = walk.sof /\ (walk.scanned => walk.sof = "SOFprogressive")
        BY <2>2, <2>3, <3>1 DEF Allowed, Tables, Frames
      <4>2. PartsOf({"SOS"}) # {} => walk.scanned
        BY <2>1 DEF JpegWalk
      <4>3. QED BY <2>10, <3>1, <4>1, <4>2
    <3>2. CASE p.kind # "SOS" /\ p.kind \notin Frames
      BY <2>1, <2>3, <2>10, <3>2 DEF JpegWalk
    <3>3. CASE p.kind \in Frames
      <4>1. PartsOf({"SOS"}) = {}
        BY <2>1, <2>2, <3>3 DEF JpegWalk, Allowed, Frames, Tables
      <4>2. QED BY <2>10, <3>3, <4>1 DEF Frames
    <3>4. QED BY <3>1, <3>2, <3>3
  <2>14. /\ Cardinality(PartsOf({"ICC"})') = Len(walk'.icc)
         /\ {parts'[j].no : j \in PartsOf({"ICC"})'} = {walk'.icc[j].no : j \in DOMAIN walk'.icc}
         /\ \A j \in PartsOf({"ICC"})' : \E i \in DOMAIN walk'.icc : walk'.icc[i].of = parts'[j].of
    <3> DEFINE P == PartsOf({"ICC"})
    <3>1. \A j \in P : j \in DOMAIN parts /\ parts'[j] = parts[j]
      BY <2>7
    <3>2. walk.icc \in Seq(Segments)
      BY <2>1 DEF Walkings
    <3>3. /\ Cardinality(P) = Len(walk.icc) /\ {parts[j].no : j \in P} = {walk.icc[j].no : j \in DOMAIN walk.icc}
          /\ \A j \in P : \E i \in DOMAIN walk.icc : walk.icc[i].of = parts[j].of
      BY <2>1 DEF JpegWalk
    <3>4. CASE p.kind # "ICC"
      <4>1. P' = P /\ walk'.icc = walk.icc
        BY <2>3, <2>7, <3>4
      <4>2. {parts'[j].no : j \in P'} = {parts[j].no : j \in P}
        BY <3>1, <4>1
      <4>3. Cardinality(P') = Len(walk'.icc)
        BY <3>3, <4>1
      <4>4. {parts'[j].no : j \in P'} = {walk'.icc[j].no : j \in DOMAIN walk'.icc}
        BY <3>3, <4>1, <4>2
      <4>5. \A j \in P' : \E i \in DOMAIN walk'.icc : walk'.icc[i].of = parts'[j].of
        BY <3>1, <3>3, <4>1
      <4>6. QED BY <4>3, <4>4, <4>5
    <3>5. CASE p.kind = "ICC"
      <4>1. P' = P \union {N} /\ walk'.icc = Append(walk.icc, p)
        BY <2>3, <2>7, <3>5
      <4>2. Cardinality(P') = Cardinality(P) + 1
        BY <2>1, <2>2, <3>5, OneMore
      <4> DEFINE I == DOMAIN walk.icc
                 M == Len(walk.icc) + 1
      <4>3. /\ DOMAIN walk'.icc = I \union {M} /\ walk'.icc[M] = p /\ Len(walk'.icc) = M
            /\ \A i \in I : walk'.icc[i] = walk.icc[i]
        BY <3>2, <4>1
      <4>4. {parts'[j].no : j \in P'} = {parts[j].no : j \in P} \union {p.no}
        BY <2>4, <3>1, <4>1
      <4>5. {walk'.icc[i].no : i \in DOMAIN walk'.icc} = {walk.icc[i].no : i \in I} \union {p.no}
        BY <4>3
      <4>6. \A j \in P' : \E i \in DOMAIN walk'.icc : walk'.icc[i].of = parts'[j].of
        BY <2>4, <3>1, <3>3, <4>1, <4>3
      <4>7. QED BY <3>3, <4>2, <4>3, <4>4, <4>5, <4>6
    <3>6. QED BY <3>4, <3>5
  <2>15. JpegWalk'
    BY <2>4, <2>6, <2>8, <2>9, <2>11, <2>12, <2>13, <2>14 DEF JpegWalk
  <2>16. QED BY <2>2, <2>3, <2>15 DEF WalksInv
<1>3. QED BY <1>1, <1>2

LEMMA EndKeeps ==
  ASSUME WalksInv, NEW p \in Segments, NEW profile \in BOOLEAN, WalkEnd(p, profile)
  PROVE  WalksInv'
<1> DEFINE N == Len(parts) + 1
<1>1. /\ parts' = Append(parts, p) /\ format' = "jpeg" /\ format = "jpeg" /\ walk' = walk /\ p.kind = "EOI" /\ JpegWalk
      /\ walk \in Walkings /\ verdict' \in {"walked", "refused"}
      /\ verdict' = "walked" => walk.scanned /\ p.fits /\ (walk.icc = <<>> \/ Numbered(walk.icc))
  BY DEF WalkEnd, Walking, StopsAt, WalksInv
<1>2. CASE verdict' = "refused"
  BY <1>1, <1>2 DEF WalksInv
<1>3. CASE verdict' = "walked"
  <2>1. parts \in Seq(Segments)
    BY <1>1 DEF JpegWalk
  <2>2. /\ N \in Nat /\ Len(parts') = N /\ DOMAIN parts' = DOMAIN parts \union {N} /\ parts'[N] = p
        /\ \A j \in DOMAIN parts : parts'[j] = parts[j] /\ j < N
    BY <1>1, <2>1, Appended
  <2>3. \A j \in DOMAIN parts' : parts'[j].kind # "other" /\ parts'[j].fits
    BY <1>1, <1>3, <2>2 DEF JpegWalk
  <2>4. ASSUME NEW K, "EOI" \notin K
        PROVE  PartsOf(K)' = PartsOf(K) /\ \A j \in PartsOf(K) : j \in DOMAIN parts /\ parts'[j] = parts[j]
    BY <1>1, <2>1, <2>4, PartsGrow
  <2>5. PartsOf({"EOI"})' = {N}
    <3>1. PartsOf({"EOI"}) = {}
      BY <1>1 DEF JpegWalk, PartsOf
    <3>2. PartsOf({"EOI"})' = PartsOf({"EOI"}) \union {N}
      BY <1>1, <2>1, PartsGrow
    <3>3. QED BY <3>1, <3>2
  <2>6. Cardinality(PartsOf(Frames)') = 1
    <3>1. \E f : PartsOf(Frames) = {f}
      BY <1>1, <1>3 DEF JpegWalk
    <3>2. PartsOf(Frames)' = PartsOf(Frames)
      BY <2>4 DEF Frames
    <3>3. QED BY <3>1, <3>2, FS_Singleton
  <2>7. \A k \in {"JFIF", "Adobe"} : Cardinality(PartsOf({k})') <= 1
    <3> SUFFICES ASSUME NEW k \in {"JFIF", "Adobe"} PROVE Cardinality(PartsOf({k})') <= 1
      OBVIOUS
    <3>1. PartsOf({k})' = PartsOf({k})
      BY <2>4
    <3>2. PartsOf({k}) = {} \/ \E f : PartsOf({k}) = {f}
      <4>1. IF k \in walk.seen THEN \E f \in DOMAIN parts : PartsOf({k}) = {f} ELSE PartsOf({k}) = {}
        BY <1>1 DEF JpegWalk
      <4>2. QED BY <4>1
    <3>3. Cardinality(PartsOf({k})') = 0 \/ Cardinality(PartsOf({k})') = 1
      BY <3>1, <3>2, FS_Singleton, FS_EmptySet, Zenon
    <3>4. QED BY <3>3
  <2>8. PartsOf({"SOS"})' = PartsOf({"SOS"}) /\ PartsOf({"SOS"}) # {}
    BY <1>1, <1>3, <2>4 DEF JpegWalk
  <2>9. \A j \in PartsOf(Frames \union {"JFIF", "Adobe", "ICC"})', s \in PartsOf({"SOS"})' : j < s
    <3>1. "EOI" \notin Frames \union {"JFIF", "Adobe", "ICC"}
      BY DEF Frames
    <3>2. PartsOf(Frames \union {"JFIF", "Adobe", "ICC"})' = PartsOf(Frames \union {"JFIF", "Adobe", "ICC"})
      BY <2>4, <3>1
    <3>3. QED BY <1>1, <2>8, <3>2 DEF JpegWalk
  <2>10. Cardinality(PartsOf({"SOS"})') > 1 => PartsOf({"SOF"})' = {}
    <3> SUFFICES ASSUME Cardinality(PartsOf({"SOS"})') > 1 PROVE PartsOf({"SOF"})' = {}
      OBVIOUS
    <3>1. PICK s : s \in PartsOf({"SOS"})
      BY <2>8
    <3>2. PartsOf({"SOS"}) # {s}
      BY <2>8, FS_Singleton
    <3>3. walk.sof = "SOFprogressive"
      BY <1>1, <3>1, <3>2 DEF JpegWalk
    <3>4. PICK f \in DOMAIN parts : PartsOf(Frames) = {f} /\ parts[f].kind = "SOFprogressive"
      BY <1>1, <3>3 DEF JpegWalk
    <3>5. PartsOf({"SOF"}) = {}
      BY <3>4 DEF PartsOf, Frames
    <3>6. QED BY <2>4, <3>5
  <2>11. ASSUME NEW j \in PartsOf({"ICC"})'
         PROVE  /\ {parts'[i].no : i \in PartsOf({"ICC"})'} = 1..parts'[j].of
                /\ Cardinality(PartsOf({"ICC"})') = parts'[j].of
    <3> DEFINE P == PartsOf({"ICC"})
    <3>1. P' = P /\ \A i \in P : parts'[i] = parts[i]
      BY <2>4
    <3>2. PICK i \in DOMAIN walk.icc : walk.icc[i].of = parts'[j].of
      BY <1>1, <3>1 DEF JpegWalk
    <3>3. /\ Cardinality(P) = Len(walk.icc)
          /\ {parts[k].no : k \in P} = {walk.icc[k].no : k \in DOMAIN walk.icc}
      BY <1>1 DEF JpegWalk
    <3>4. {parts'[k].no : k \in P'} = {parts[k].no : k \in P}
      BY <3>1
    <3>5. Numbered(walk.icc)
      BY <1>1, <1>3, <3>2
    <3>6. QED BY <3>1, <3>2, <3>3, <3>4, <3>5 DEF Numbered
  <2>12. JpegPure'
    BY <2>2, <2>5, <2>6, <2>7, <2>8, <2>9, <2>10, <2>11 DEF JpegPure
  <2>13. QED BY <1>1, <1>3, <2>3, <2>12 DEF WalksInv, Pure
<1>4. QED BY <1>1, <1>2, <1>3

Coloured(w, c, n) == [w EXCEPT !.colour = c, !.palette = n]

LEMMA ChunkMoves ==
  ASSUME NEW w \in Walkings, NEW c \in Colours \union {9}, NEW n \in 0..2
  PROVE  /\ Coloured(w, c, n) \in Walkings
         /\ Coloured(w, c, n).colour = c /\ Coloured(w, c, n).palette = n
  BY DEF Walkings, Coloured

LEMMA ChunkKeeps ==
  ASSUME WalksInv, NEW p \in Chunks, WalkChunk(p)
  PROVE  WalksInv'
<1> DEFINE N == Len(parts) + 1
<1>1. PngWalk /\ format = "png" /\ format' = "png" /\ parts' = Append(parts, p) /\ walk \in Walkings
  BY DEF WalkChunk, Walking, WalksInv, StopsAt, GoesPast
<1>2. CASE verdict' = "refused"
  BY <1>1, <1>2 DEF WalkChunk, Walking, WalksInv, StopsAt, GoesPast
<1>3. CASE verdict' # "refused"
  <2>1. parts \in Seq(Chunks)
    BY <1>1 DEF PngWalk
  <2>2. /\ parts' \in Seq(Chunks) /\ N \in Nat /\ Len(parts') = N /\ DOMAIN parts' = DOMAIN parts \union {N}
        /\ parts'[N] = p /\ \A j \in DOMAIN parts : parts'[j] = parts[j] /\ j < N
    BY <1>1, <2>1, Appended
  <2>3. /\ p.kind # "other" /\ p.fits /\ (walk.colour = 9 <=> p.kind = "IHDR") /\ RightLength(p)
        /\ \/ p.kind = "IEND" /\ verdict' = "walked" /\ walk' = walk
           \/ /\ p.kind # "IEND" /\ verdict' = "walking"
              /\ walk' = [walk EXCEPT !.colour = IF p.kind = "IHDR" THEN p.size ELSE @,
                                      !.palette = IF p.kind = "PLTE" THEN p.size ELSE @]
    BY <1>3 DEF WalkChunk, Walking, StopsAt, GoesPast, NothingWalked
  <2>4. \A j \in DOMAIN parts' : parts'[j].kind # "other" /\ parts'[j].fits
    BY <1>1, <2>2, <2>3 DEF PngWalk
  <2>5. ASSUME NEW K
        PROVE  /\ p.kind \in K => PartsOf(K)' = PartsOf(K) \union {N}
               /\ p.kind \notin K => PartsOf(K)' = PartsOf(K)
               /\ \A j \in PartsOf(K) : j \in DOMAIN parts /\ j < N /\ parts'[j] = parts[j]
    BY <1>1, <2>1, PartsGrow
  <2>6. walk.colour = 3 => \A t \in PartsOf({"tRNS"})' :
          \E j \in PartsOf({"PLTE"})' : j < t /\ parts'[t].size <= parts'[j].size
    <3> SUFFICES ASSUME walk.colour = 3, NEW t \in PartsOf({"tRNS"})'
                 PROVE  \E j \in PartsOf({"PLTE"})' : j < t /\ parts'[t].size <= parts'[j].size
      OBVIOUS
    <3>1. PartsOf({"PLTE"}) \subseteq PartsOf({"PLTE"})'
      BY <2>5
    <3>2. CASE t \in PartsOf({"tRNS"})
      BY <1>1, <2>5, <3>1, <3>2 DEF PngWalk
    <3>3. CASE t \notin PartsOf({"tRNS"})
      <4>1. t = N /\ p.kind = "tRNS"
        BY <2>5, <3>3
      <4>2. p.size <= walk.palette /\ p.size \in {1, 2, 6} /\ walk.palette # 0
        BY <1>1, <2>3, <4>1 DEF RightLength, Chunks, Walkings
      <4>3. PICK j \in PartsOf({"PLTE"}) : parts[j].size = walk.palette
        BY <1>1, <4>2 DEF PngWalk
      <4>4. QED BY <2>2, <2>5, <3>1, <4>1, <4>2, <4>3
    <3>4. QED BY <3>2, <3>3
  <2>7. walk.colour # 9 => parts'[1] = parts[1] /\ parts[1].size = walk.colour /\ PartsOf({"IHDR"})' = {1}
    BY <1>1, <2>1, <2>2, <2>3, <2>5 DEF PngWalk
  <2>8. CASE p.kind = "IEND"
    <3>1. PartsOf({"IEND"}) = {}
      BY <1>1 DEF PngWalk, PartsOf
    <3>2. PartsOf({"IEND"})' = {N}
      BY <2>5, <2>8, <3>1
    <3>3. walk.colour # 9
      BY <2>3, <2>8
    <3>4. PngPure'
      BY <2>2, <2>6, <2>7, <3>2, <3>3 DEF PngPure
    <3>5. QED BY <1>1, <2>3, <2>4, <2>8, <3>4 DEF WalksInv, Pure
  <2>9. CASE p.kind = "IHDR"
    <3>1. walk.colour = 9 /\ parts = <<>>
      BY <1>1, <2>3, <2>9 DEF PngWalk
    <3>2. /\ walk'.colour = p.size /\ walk'.palette = walk.palette /\ walk' \in Walkings /\ verdict' = "walking"
          /\ p.size \in Colours /\ p.size # 9
      <4>1. p.size \in Colours /\ p.size # 9
        BY <2>9 DEF Chunks, Colours
      <4>2. walk.palette \in 0..2 /\ walk' = Coloured(walk, p.size, walk.palette)
        BY <1>1, <2>3, <2>9 DEF Walkings, Coloured
      <4>3. QED BY <1>1, <2>3, <2>9, <4>1, <4>2, ChunkMoves
    <3>3. PartsOf({"IHDR"}) = {} /\ PartsOf({"PLTE"}) = {} /\ PartsOf({"tRNS"}) = {}
      BY <3>1 DEF PartsOf
    <3>4. PartsOf({"IHDR"})' = {1} /\ PartsOf({"tRNS"})' = {} /\ parts'[1] = p /\ parts' # <<>>
      BY <2>2, <2>5, <2>9, <3>1, <3>3
    <3>5. \A j \in DOMAIN parts' : parts'[j].kind # "IEND"
      BY <2>2, <2>9, <3>1
    <3>6. walk.palette = 0
      BY <1>1, <3>3 DEF PngWalk
    <3>7. PngWalk'
      BY <2>2, <2>4, <3>2, <3>4, <3>5, <3>6 DEF PngWalk
    <3>8. QED BY <1>1, <3>2, <3>7 DEF WalksInv
  <2>10. CASE p.kind \notin {"IHDR", "IEND"}
    <3>1. /\ walk'.colour = walk.colour /\ verdict' = "walking" /\ walk.colour # 9
          /\ walk'.palette = IF p.kind = "PLTE" THEN p.size ELSE walk.palette
      BY <1>1, <2>3, <2>10 DEF Walkings
    <3>2. walk' \in Walkings
      <4>1. walk.colour \in Colours \union {9} /\ walk.palette \in 0..2 /\ (p.kind = "PLTE" => p.size \in 0..2)
        BY <1>1 DEF Walkings, Chunks
      <4>2. walk' = Coloured(walk, walk.colour, IF p.kind = "PLTE" THEN p.size ELSE walk.palette)
        BY <1>1, <2>3, <2>10 DEF Walkings, Coloured
      <4>3. QED BY <1>1, <4>1, <4>2, ChunkMoves
    <3>3. walk'.palette # 0 => \E j \in PartsOf({"PLTE"})' : parts'[j].size = walk'.palette
      BY <1>1, <2>2, <2>5, <3>1 DEF PngWalk
    <3>4. \A j \in DOMAIN parts' : parts'[j].kind # "IEND"
      BY <1>1, <2>2, <2>10 DEF PngWalk
    <3>5. parts' # <<>>
      BY <2>2
    <3>6. PngWalk'
      BY <2>2, <2>4, <2>6, <2>7, <3>1, <3>3, <3>4, <3>5 DEF PngWalk
    <3>7. QED BY <1>1, <3>1, <3>2, <3>6 DEF WalksInv
  <2>11. QED BY <2>8, <2>9, <2>10
<1>4. QED BY <1>2, <1>3

LEMMA RiffKeeps ==
  ASSUME WalksInv, NEW p \in RiffChunks, WalkRiff(p)
  PROVE  WalksInv'
<1>1. parts \in Seq(RiffChunks) /\ format = "webp" /\ format' = "webp" /\ parts' = Append(parts, p) /\ walk' = walk
  BY DEF WalkRiff, Walking, WalksInv, StopsAt, GoesPast
<1>2. verdict' \in {"walking", "refused"}
  BY DEF WalkRiff, Walking, StopsAt, GoesPast
<1>3. parts' \in Seq(RiffChunks)
  BY <1>1
<1>4. QED BY <1>1, <1>2, <1>3 DEF WalksInv

LEMMA JudgesKeeps ==
  ASSUME WalksInv, JudgesRiff
  PROVE  WalksInv'
<1> DEFINE frames == {j \in DOMAIN parts : parts[j].kind = "ANMF"}
<1>1. /\ parts \in Seq(RiffChunks) /\ format = "webp" /\ format' = "webp" /\ parts' = parts /\ walk' = walk
      /\ verdict' \in {"clean", "refused"}
  BY DEF JudgesRiff, WalksInv
<1>2. CASE verdict' = "refused"
  BY <1>1, <1>2 DEF WalksInv
<1>3. CASE verdict' = "clean"
  <2>1. /\ parts # <<>> /\ \A j \in DOMAIN parts : parts[j].kind # "other"
        /\ \A i, j \in DOMAIN parts \ frames : parts[i].kind = parts[j].kind => i = j
        /\ \/ /\ parts[1].kind = "VP8X" /\ parts[1].fits
              /\ \A j \in DOMAIN parts :
                   /\ parts[j].kind = "ICCP" => parts[j].fits
                   /\ parts[j].kind = "ANMF" => /\ parts[j].fits /\ parts[j].inside # {}
                                                /\ parts[j].inside \subseteq InFrame
           \/ Len(parts) = 1 /\ parts[1].kind \in Bitstreams
    BY <1>3 DEF JudgesRiff
  <2>2. Len(parts) \in Nat /\ DOMAIN parts = 1..Len(parts) /\ 1 \in DOMAIN parts
    BY <1>1, <2>1
  <2>3. \A j \in DOMAIN parts : parts[j] \in RiffChunks
    BY <1>1, <2>2
  <2>4. \A i, j \in DOMAIN parts : parts[i].kind # "ANMF" /\ parts[i].kind = parts[j].kind => i = j
    BY <2>1
  <2>5. \A j \in DOMAIN parts : parts[j].fits
    <3> SUFFICES ASSUME NEW j \in DOMAIN parts PROVE parts[j].fits
      OBVIOUS
    <3>1. parts[j].kind \in InFrame \union {"ANIM", "other"} => parts[j].fits
      BY <2>3 DEF RiffChunks, InFrame, Bitstreams
    <3>2. parts[j].kind \in InFrame \union {"ANIM", "other", "VP8X", "ICCP", "ANMF"}
      BY <2>3 DEF RiffChunks
    <3>3. CASE parts[j].kind = "VP8X"
      <4>1. parts[1].kind = "VP8X" /\ parts[1].fits
        BY <2>1, <2>2, <3>3 DEF Bitstreams
      <4>2. j = 1
        BY <2>2, <2>4, <3>3, <4>1
      <4>3. QED BY <4>1, <4>2
    <3>4. CASE parts[j].kind \in {"ICCP", "ANMF"}
      <4>1. CASE Len(parts) = 1 /\ parts[1].kind \in Bitstreams
        BY <2>2, <3>4, <4>1 DEF Bitstreams
      <4>2. QED BY <2>1, <3>4, <4>1
    <3>5. QED BY <3>1, <3>2, <3>3, <3>4
  <2>6. Len(parts) > 1 => PartsOf({"VP8X"}) = {1}
    BY <2>1, <2>2, <2>4 DEF PartsOf
  <2>7. ASSUME NEW j \in PartsOf({"ANMF"})
        PROVE  parts[j].inside # {} /\ "other" \notin parts[j].inside
    <3>1. j \in DOMAIN parts /\ parts[j].kind = "ANMF"
      BY DEF PartsOf
    <3>2. ~(Len(parts) = 1 /\ parts[1].kind \in Bitstreams)
      BY <2>2, <3>1 DEF Bitstreams
    <3>3. QED BY <2>1, <3>1, <3>2 DEF InFrame, Bitstreams
  <2>8. ASSUME NEW k \in {"ICCP", "VP8", "VP8L"}
        PROVE  Cardinality(PartsOf({k})) <= 1
    <3>1. \A i, j \in PartsOf({k}) : i = j
      BY <2>4 DEF PartsOf
    <3>2. PartsOf({k}) = {} \/ \E i : PartsOf({k}) = {i}
      BY <3>1
    <3>3. QED BY <3>2, FS_EmptySet, FS_Singleton
  <2>9. WebpPure
    BY <2>6, <2>7, <2>8 DEF WebpPure
  <2>10. Pure
    BY <1>1, <2>1, <2>5, <2>9 DEF Pure
  <2>11. Pure'
    BY <1>1, <2>10 DEF Pure, WebpPure, PartsOf
  <2>12. QED BY <1>1, <1>3, <2>11 DEF WalksInv
<1>4. QED BY <1>1, <1>2, <1>3

LEMMA SamePure ==
  ASSUME UNCHANGED <<format, parts>>, Pure
  PROVE  Pure'
<1>1. ASSUME NEW K PROVE PartsOf(K)' = PartsOf(K)
  BY DEF PartsOf
<1>2. (JpegPure <=> JpegPure') /\ (PngPure <=> PngPure') /\ (WebpPure <=> WebpPure')
  BY <1>1 DEF JpegPure, PngPure, WebpPure
<1>3. QED BY <1>2 DEF Pure

LEMMA WalksStart == WalksInit => WalksInv
<1> SUFFICES ASSUME WalksInit PROVE WalksInv
  OBVIOUS
<1>1. walk \in Walkings /\ format \in {"jpeg", "png", "webp"} /\ verdict = "walking" /\ parts = <<>>
  BY DEF WalksInit, NothingWalked, Walkings
<1>2. \A K : PartsOf(K) = {}
  BY <1>1 DEF PartsOf
<1>3. JpegWalk
  <2>1. walk.sof = "none" /\ walk.scanned = FALSE /\ walk.seen = {} /\ walk.icc = <<>>
    BY DEF WalksInit, NothingWalked
  <2>2. {parts[j].no : j \in PartsOf({"ICC"})} = {walk.icc[j].no : j \in DOMAIN walk.icc}
    BY <1>2, <2>1
  <2>3. Cardinality(PartsOf({"ICC"})) = Len(walk.icc)
    BY <1>2, <2>1, FS_EmptySet
  <2>4. QED BY <1>1, <1>2, <2>1, <2>2, <2>3 DEF JpegWalk
<1>4. PngWalk
  BY <1>1, <1>2 DEF PngWalk, WalksInit, NothingWalked
<1>5. QED BY <1>1, <1>3, <1>4 DEF WalksInv

LEMMA WalksStep == WalksInv /\ [WalksNext]_walks => WalksInv'
<1> SUFFICES ASSUME WalksInv, [WalksNext]_walks PROVE WalksInv'
  OBVIOUS
<1>1. ASSUME UNCHANGED walks PROVE WalksInv'
  <2>1. verdict \in {"walked", "clean"} => Pure'
    BY <1>1, SamePure DEF WalksInv, walks
  <2>2. \A K : PartsOf(K)' = PartsOf(K)
    BY <1>1 DEF PartsOf, walks
  <2>3. (JpegWalk => JpegWalk') /\ (PngWalk => PngWalk')
    <3>1. {parts'[j].no : j \in PartsOf({"ICC"})'} = {parts[j].no : j \in PartsOf({"ICC"})}
      BY <1>1, <2>2 DEF walks
    <3>2. {walk'.icc[j].no : j \in DOMAIN walk'.icc} = {walk.icc[j].no : j \in DOMAIN walk.icc}
      BY <1>1 DEF walks
    <3>3. JpegWalk => JpegWalk'
      BY <1>1, <2>2, <3>1, <3>2 DEF walks, JpegWalk
    <3>4. PngWalk => PngWalk'
      BY <1>1, <2>2 DEF walks, PngWalk
    <3>5. QED BY <3>3, <3>4
  <2>4. QED BY <1>1, <2>1, <2>3 DEF walks, WalksInv
<1>2. ASSUME RunsOut PROVE WalksInv'
  BY <1>2 DEF RunsOut, WalksInv
<1>3. ASSUME NEW b \in BOOLEAN, PillowReads(b) PROVE WalksInv'
  <2>1. Pure'
    BY <1>3, SamePure DEF PillowReads, WalksInv
  <2>2. QED BY <1>3, <2>1 DEF PillowReads, WalksInv
<1>4. QED BY <1>1, <1>2, <1>3, SegmentKeeps, EndKeeps, ChunkKeeps, RiffKeeps, JudgesKeeps DEF WalksNext

(* What a file's walk remembers is what its parts are, and a file that was *)
(* walked to its end is pure (photos._jpeg_walk, _png_walk, _webp_walk).   *)
THEOREM WalksInvHolds == WalksSpec => []WalksInv
  BY WalksStart, WalksStep, PTL DEF WalksSpec

(* A file that is sent as it is holds nothing beside its picture, however  *)
(* many parts it has and in whatever order (photos.checked_bytes).         *)
THEOREM SentIsPure == WalksSpec => []NothingBeside
<1>1. WalksInv => NothingBeside
  BY DEF WalksInv, NothingBeside
<1>2. QED BY <1>1, WalksInvHolds, PTL

-----------------------------------------------------------------------------
(* The four together.                                                      *)

\* Whichever is at work, each takes its own steps only.
LEMMA EachKeepsItsSpec == Spec => SharingSpec /\ SharesSpec /\ CleaningSteps /\ WalksSpec
<1>1. Init => SharingInit /\ SharesInit /\ CleaningInit /\ WalksInit
  BY DEF Init
<1>2. [Next]_afterRestore => [SharingNext]_sharing
  BY DEF Next, afterRestore
<1>3. [Next]_afterRestore => [SharesNext]_shares
  BY DEF Next, afterRestore
<1>4. [Next]_afterRestore => [CleaningNext]_cleaning
  BY DEF Next, afterRestore
<1>5. [Next]_afterRestore => [WalksNext]_walks
  BY DEF Next, afterRestore
<1>6. QED BY <1>1, <1>2, <1>3, <1>4, <1>5, PTL DEF Spec, SharingSpec, SharesSpec, CleaningSteps, WalksSpec

\* What is proved of each holds of the four together, as the run checks it.
THEOREM RestoreIsSettled ==
  ASSUME "switch_off" \notin Faults
  PROVE  Spec => /\ [](ArchiveLinksClosed /\ RevokedStaysRevoked /\ LinksKept)
                 /\ [](MarkerMeansClean /\ DeletedStaysDeleted /\ NothingBeside /\ CleanShown)
                 /\ OnlyShared
BY EachKeepsItsSpec, ArchiveLinksStayClosed, RevokedIsForGood, LinksAreKept, MarkedIsClean, DeletedIsForGood,
   SentIsPure, ShownIsClean, ShownIsShared, PTL
=============================================================================
