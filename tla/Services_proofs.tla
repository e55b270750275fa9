--------------------------- MODULE Services_proofs ---------------------------
(***************************************************************************)
(* The services of Services, each for any constants and by an invariant of *)
(* its own that its steps preserve, one lemma per action or group of       *)
(* actions: archives and the key file, secrets, estimates and how one is   *)
(* made, reports, alerts, caches, the audit log, sign-in providers and the *)
(* dashboard.  A behaviour has one of them at work, so a theorem is about  *)
(* the steps of one; the last says it of all.                              *)
(***************************************************************************)
EXTENDS Services, FiniteSetTheorems, SequenceTheorems, TLAPS
LOCAL INSTANCE FiniteSetsExt
LOCAL INSTANCE SequencesExt
WF == INSTANCE WellFoundedInduction

-----------------------------------------------------------------------------
(* Archives: what a run loads is what was asked for.                       *)

Files == Names \union Ids
Archs == [made : Nat, sound : BOOLEAN, safe : BOOLEAN]
Phrases == {"RESTORE", "RESTORE OLDER"}
Entries == [path : Files, asks : Phrases, fresh : BOOLEAN]
Uploads == [at : {"arriving", "arrived", "inspecting"}, id : Ids, path : Files]
RestoreAsks == [at : {"asked"}, id : Ids, path : Files, typed : Phrases]
Downloads == [at : {"fetching"}, date : Nat]
Runs == [at : {"begun", "opened", "confirmed", "saved", "doomed", "loaded"}, id : Ids, path : Files,
         typed : Phrases, was : Nat, loads : SUBSET Archs]

ArchivesTypeOK ==
  /\ disk \in [Files -> SUBSET Archs] /\ aged \subseteq Ids /\ pending \in [Ids -> SUBSET Entries]
  /\ made \in Nat /\ newest \in Nat /\ staging \subseteq Archs
  /\ ask \in [Askers -> {NoAsk} \union Uploads \union RestoreAsks \union Downloads]
  /\ run \in Runs \union {NoRestore} /\ untidy \in BOOLEAN

\* A name holds one archive.
Single(S) == \A a, b \in S : a = b
SingleFiles == \A f \in Files : Single(disk[f])

\* An inspection and a run never overlap, nor do two inspections.
Inspecting == {r \in Askers : AskAt(r, "inspecting")}
OneAtWork == (Running => Inspecting = {}) /\ \A r, s \in Inspecting : r = s

\* From its opening on, a run has one sound archive in staging; once it is
\* confirmed, what was typed fits its date, as it was when the run began.
Opened == run.at \in {"opened", "confirmed", "saved", "doomed", "loaded"}
InStaging == Opened => staging # {} /\ Single(staging) /\ \A a \in staging : a.sound
Fits(S) == \A a \in S : a.made < run.was => run.typed = "RESTORE OLDER"
Confirmed == run.at \in {"confirmed", "saved"} => Fits(staging)
Loaded ==
  run.at = "loaded" => run.loads # {} /\ Single(run.loads) /\ (\A a \in run.loads : a.sound) /\ Fits(run.loads)
NewerSince == Running => run.was <= newest

\* Nothing is recorded with a date that is still to come.
DatesKept == newest <= made /\ \A r \in Askers : AskAt(r, "fetching") => ask[r].date <= made

ArchivesInv ==
  /\ ArchivesTypeOK /\ SingleFiles /\ DatesKept /\ OneAtWork
  /\ InStaging /\ Confirmed /\ Loaded /\ NewerSince /\ PlainAtWork

-----------------------------------------------------------------------------
(* Types.                                                                  *)

\* What a request holds follows from where it is.
LEMMA AskShape ==
  ASSUME ArchivesTypeOK, NEW r \in Askers
  PROVE  /\ ask[r].at \in {"arriving", "arrived", "inspecting"} => ask[r] \in Uploads
         /\ ask[r].at = "asked" => ask[r] \in RestoreAsks
         /\ ask[r].at = "fetching" => ask[r] \in Downloads
<1>1. ask[r] \in {NoAsk} \union Uploads \union RestoreAsks \union Downloads
  BY DEF ArchivesTypeOK
<1>2. QED BY <1>1 DEF NoAsk, Uploads, RestoreAsks, Downloads

LEMMA RunShape ==
  ASSUME ArchivesTypeOK, Running
  PROVE  run \in Runs
  BY DEF ArchivesTypeOK, Running, NoRestore

LEMMA PhraseType == \A d : Phrase(d) \in Phrases
  BY DEF Phrase, Phrases

LEMMA OutdatedType ==
  ASSUME ArchivesTypeOK, NEW S
  PROVE  Outdated(S) \in [Ids -> SUBSET Entries]
<1>1. ASSUME NEW i \in Ids, NEW p \in pending[i] PROVE [p EXCEPT !.fresh = FALSE] \in Entries
  <2>1. p \in Entries
    BY DEF ArchivesTypeOK
  <2>2. QED BY <2>1 DEF Entries
<1>2. QED BY <1>1 DEF Outdated, ArchivesTypeOK

LEMMA RefreshedType ==
  ASSUME ArchivesTypeOK, Running
  PROVE  Refreshed \in [Ids -> SUBSET Entries]
<1> DEFINE renewed(p) ==
      [p EXCEPT !.asks = IF staging = {} THEN @ ELSE Phrase((CHOOSE a \in staging : TRUE).made)]
<1>1. ASSUME NEW i \in Ids, NEW p \in pending[i] PROVE renewed(p) \in Entries
  <2>1. p \in Entries
    BY DEF ArchivesTypeOK
  <2>2. QED BY <2>1, PhraseType DEF Entries
<1>2. run.id \in Ids
  BY RunShape DEF Runs
<1>3. {renewed(p) : p \in pending[run.id]} \subseteq Entries
  BY <1>1, <1>2
<1>4. QED BY <1>2, <1>3 DEF Refreshed, ArchivesTypeOK

LEMMA SweptType ==
  ASSUME ArchivesTypeOK, SingleFiles
  PROVE  /\ \A f \in Files : Swept(f) \subseteq Archs /\ Single(Swept(f))
         /\ SweptPending \in [Ids -> SUBSET Entries]
  BY DEF ArchivesTypeOK, SingleFiles, Single, Swept, SweptPending

LEMMA PartIsArchive ==
  \A d \in Nat, ok, safe \in BOOLEAN : Archive(d, ok, safe) \in Archs /\ Single({Archive(d, ok, safe)})
  BY DEF Archive, Archs, Single

\* An upload is dropped, or what is under a name.
LEMMA DropsFile ==
  ASSUME ArchivesTypeOK, SingleFiles, NEW f \in Files, disk' \in {disk, Without(f)}
  PROVE  disk' \in [Files -> SUBSET Archs] /\ SingleFiles'
  BY DEF ArchivesTypeOK, SingleFiles, Single, Without

\* A file becomes one archive.
LEMMA PutsFile ==
  ASSUME ArchivesTypeOK, SingleFiles, NEW f \in Files, NEW a \in Archs, disk' = [disk EXCEPT ![f] = {a}]
  PROVE  disk' \in [Files -> SUBSET Archs] /\ SingleFiles'
  BY DEF ArchivesTypeOK, SingleFiles, Single

LEMMA InitHolds == ArchivesInit => ArchivesInv
<1> SUFFICES ASSUME ArchivesInit PROVE ArchivesInv
  OBVIOUS
<1>1. ArchivesTypeOK /\ SingleFiles
  BY DEF ArchivesInit, ArchivesTypeOK, SingleFiles, Single, Files
<1>2. ~Running /\ Inspecting = {} /\ run.at = "none"
  BY DEF ArchivesInit, Running, NoRestore, Inspecting, AskAt, NoAsk
<1>3. DatesKept
  BY DEF ArchivesInit, DatesKept, AskAt, NoAsk
<1>4. QED BY <1>1, <1>2, <1>3
  DEF ArchivesInv, OneAtWork, InStaging, Opened, Confirmed, Loaded, NewerSince, PlainAtWork, ArchivesInit

-----------------------------------------------------------------------------
(* Steps that touch neither staging nor the run.                           *)

LEMMA BesideAsk ==
  ASSUME ArchivesInv, ArchivesTypeOK', SingleFiles', DatesKept', UNCHANGED <<staging, run, untidy>>, newest <= newest',
         Inspecting' = Inspecting
  PROVE  ArchivesInv'
<1>1. OneAtWork' /\ InStaging' /\ Confirmed' /\ Loaded'
  BY DEF ArchivesInv, OneAtWork, InStaging, Opened, Confirmed, Loaded, Running, Fits
<1>2. NewerSince'
  BY RunShape DEF ArchivesInv, ArchivesTypeOK, NewerSince, Running, Runs
<1>3. PlainAtWork'
  BY DEF ArchivesInv, PlainAtWork, Locked, Inspecting, Running
<1>4. QED BY <1>1, <1>2, <1>3 DEF ArchivesInv

LEMMA SameDate ==
  ASSUME ArchivesTypeOK, UNCHANGED newest
  PROVE  newest <= newest'
  BY DEF ArchivesTypeOK

LEMMA SameAsk ==
  ASSUME ArchivesTypeOK, DatesKept, UNCHANGED ask, made' \in Nat, made <= made', newest' \in Nat, newest' <= made'
  PROVE  Inspecting' = Inspecting /\ DatesKept'
<1>1. \A r \in Askers : AskAt(r, "fetching") => ask[r].date \in Nat
  BY AskShape DEF AskAt, Downloads
<1>2. QED BY <1>1 DEF Inspecting, AskAt, DatesKept, ArchivesTypeOK

LEMMA SameAskAndDates ==
  ASSUME ArchivesTypeOK, DatesKept, UNCHANGED <<ask, made, newest>>
  PROVE  Inspecting' = Inspecting /\ DatesKept'
  BY DEF Inspecting, AskAt, DatesKept

\* A request goes on without an inspection beginning or ending.
LEMMA AskMoves ==
  ASSUME ArchivesTypeOK, NEW r \in Askers, ~AskAt(r, "inspecting"),
         NEW next \in {NoAsk} \union Uploads \union RestoreAsks \union Downloads, next.at # "inspecting",
         AskGoes(r, next), DatesKept, made' \in Nat, made <= made', newest' \in Nat, newest' <= made',
         next.at = "fetching" => next.date <= made'
  PROVE  /\ DatesKept'
         /\ ask' \in [Askers -> {NoAsk} \union Uploads \union RestoreAsks \union Downloads]
         /\ Inspecting' = Inspecting
<1>1. ask' = [ask EXCEPT ![r] = next]
  BY DEF AskGoes
<1>2. ask'[r] = next /\ \A s \in Askers : s # r => ask'[s] = ask[s]
  BY <1>1 DEF ArchivesTypeOK
<1>3. \A s \in Askers : AskAt(s, "fetching") => ask[s].date \in Nat
  BY AskShape DEF AskAt, Downloads
<1>4. DatesKept'
  BY <1>2, <1>3 DEF DatesKept, AskAt, ArchivesTypeOK
<1>5. QED BY <1>1, <1>2, <1>4 DEF ArchivesTypeOK, Inspecting, AskAt

\* ... and nothing is recorded.
LEMMA AskMovesOn ==
  ASSUME ArchivesTypeOK, NEW r \in Askers, ~AskAt(r, "inspecting"),
         NEW next \in {NoAsk} \union Uploads \union RestoreAsks \union Downloads,
         next.at \notin {"inspecting", "fetching"}, AskGoes(r, next), DatesKept, UNCHANGED <<made, newest>>
  PROVE  /\ DatesKept'
         /\ ask' \in [Askers -> {NoAsk} \union Uploads \union RestoreAsks \union Downloads]
         /\ Inspecting' = Inspecting
<1>1. made' \in Nat /\ made <= made' /\ newest' \in Nat /\ newest' <= made'
  BY DEF ArchivesTypeOK, DatesKept
<1>2. QED BY <1>1, AskMoves

\* The file a request has put up.
LEMMA UploadDropped ==
  ASSUME ArchivesTypeOK, SingleFiles, NEW r \in Askers, ask[r] \in Uploads, DropUpload(r)
  PROVE  disk' \in [Files -> SUBSET Archs] /\ SingleFiles'
<1>1. ask[r].id \in Files
  BY DEF Uploads, Files
<1>2. QED BY <1>1, DropsFile DEF DropUpload

LEMMA ArriveKeeps ==
  ASSUME ArchivesInv, NEW r \in Askers, NEW id \in Ids, Arrive(r, id)
  PROVE  ArchivesInv'
<1> DEFINE next == [at |-> "arriving", id |-> id, path |-> id]
<1>1. next \in Uploads /\ next.at \notin {"inspecting", "fetching"}
  BY DEF Uploads, Files
<1>2. disk' \in [Files -> SUBSET Archs] /\ SingleFiles'
  <2>1. disk' = [f \in Files |-> IF f = id THEN {Part} ELSE Swept(f)]
    BY DEF Arrive, ArchivesInv, ArchivesTypeOK
  <2>2. Part \in Archs /\ Single({Part})
    BY PartIsArchive DEF Part
  <2>3. QED BY <2>1, <2>2, SweptType DEF ArchivesInv, SingleFiles
<1>3. ask' \in [Askers -> {NoAsk} \union Uploads \union RestoreAsks \union Downloads] /\ Inspecting' = Inspecting
      /\ DatesKept'
  BY <1>1, AskMovesOn DEF Arrive, AskAt, ArchivesInv
<1>4. ArchivesTypeOK'
  BY <1>2, <1>3, SweptType DEF Arrive, ArchivesInv, ArchivesTypeOK
<1>5. QED BY <1>2, <1>3, <1>4, SameDate, BesideAsk DEF Arrive, ArchivesInv

LEMMA ArriveFailsKeeps ==
  ASSUME ArchivesInv, NEW r \in Askers, ArriveFails(r) \/ Busy(r)
  PROVE  ArchivesInv'
<1>1. ask[r] \in Uploads /\ ~AskAt(r, "inspecting") /\ DropUpload(r) /\ AskGoes(r, NoAsk)
      /\ UNCHANGED <<aged, pending, made, newest, staging, run, untidy>>
  BY AskShape DEF ArriveFails, Busy, AskAt, ArchivesInv
<1>2. disk' \in [Files -> SUBSET Archs] /\ SingleFiles'
  BY <1>1, UploadDropped DEF ArchivesInv
<1>3. ask' \in [Askers -> {NoAsk} \union Uploads \union RestoreAsks \union Downloads] /\ Inspecting' = Inspecting
      /\ DatesKept'
  BY <1>1, AskMovesOn DEF ArchivesInv, NoAsk
<1>4. ArchivesTypeOK'
  BY <1>1, <1>2, <1>3 DEF ArchivesInv, ArchivesTypeOK
<1>5. QED BY <1>1, <1>2, <1>3, <1>4, SameDate, BesideAsk DEF ArchivesInv

LEMMA ArrivedKeeps ==
  ASSUME ArchivesInv, NEW r \in Askers, NEW d \in Nat, NEW ok \in BOOLEAN, Arrived(r, d, ok)
  PROVE  ArchivesInv'
<1>1. ask[r] \in Uploads /\ ~AskAt(r, "inspecting")
  BY AskShape DEF Arrived, AskAt, ArchivesInv
<1>2. /\ [ask[r] EXCEPT !.at = "arrived"] \in Uploads
      /\ [ask[r] EXCEPT !.at = "arrived"].at \notin {"inspecting", "fetching"}
      /\ ask[r].id \in Files
  BY <1>1 DEF Uploads, Files
<1>3. disk' \in [Files -> SUBSET Archs] /\ SingleFiles'
  BY <1>2, PartIsArchive, PutsFile DEF Arrived, ArchivesInv
<1>4. ask' \in [Askers -> {NoAsk} \union Uploads \union RestoreAsks \union Downloads] /\ Inspecting' = Inspecting
      /\ DatesKept'
  BY <1>1, <1>2, AskMovesOn DEF Arrived, ArchivesInv
<1>5. ArchivesTypeOK'
  BY <1>3, <1>4 DEF Arrived, ArchivesInv, ArchivesTypeOK
<1>6. QED BY <1>3, <1>4, <1>5, SameDate, BesideAsk DEF Arrived, ArchivesInv

LEMMA NameKeeps ==
  ASSUME ArchivesInv, NEW r \in Askers, NEW id \in Ids, NEW n \in Names, Name(r, id, n)
  PROVE  ArchivesInv'
<1> DEFINE next == [at |-> "arrived", id |-> id, path |-> n]
<1>1. next \in Uploads /\ next.at \notin {"inspecting", "fetching"}
  BY DEF Uploads, Files
<1>2. disk' \in [Files -> SUBSET Archs] /\ SingleFiles'
  <2>1. disk' = [f \in Files |-> Swept(f)]
    BY DEF Name, ArchivesInv, ArchivesTypeOK
  <2>2. QED BY <2>1, SweptType DEF ArchivesInv, SingleFiles
<1>3. ask' \in [Askers -> {NoAsk} \union Uploads \union RestoreAsks \union Downloads] /\ Inspecting' = Inspecting
      /\ DatesKept'
  BY <1>1, AskMovesOn DEF Name, AskAt, ArchivesInv
<1>4. ArchivesTypeOK'
  BY <1>2, <1>3, SweptType DEF Name, ArchivesInv, ArchivesTypeOK
<1>5. QED BY <1>2, <1>3, <1>4, SameDate, BesideAsk DEF Name, ArchivesInv

LEMMA DiscardKeeps ==
  ASSUME ArchivesInv, NEW id \in Ids, Discard(id)
  PROVE  ArchivesInv'
<1>1. disk' \in [Files -> SUBSET Archs] /\ SingleFiles'
  BY DropsFile DEF Discard, ArchivesInv, Files
<1>2. ArchivesTypeOK'
  BY <1>1 DEF Discard, ArchivesInv, ArchivesTypeOK
<1>3. QED BY <1>1, <1>2, SameAskAndDates, SameDate, BesideAsk DEF Discard, ArchivesInv

LEMMA AskKeeps ==
  ASSUME ArchivesInv, NEW r \in Askers, NEW id \in Ids, Ask(r, id)
  PROVE  ArchivesInv'
<1>1. PICK p \in pending[id] : AskGoes(r, [at |-> "asked", id |-> id, path |-> p.path, typed |-> p.asks])
  BY DEF Ask
<1>2. [at |-> "asked", id |-> id, path |-> p.path, typed |-> p.asks] \in RestoreAsks
  BY DEF ArchivesInv, ArchivesTypeOK, Entries, RestoreAsks
<1>3. ask' \in [Askers -> {NoAsk} \union Uploads \union RestoreAsks \union Downloads] /\ Inspecting' = Inspecting
      /\ DatesKept'
  BY <1>1, <1>2, AskMovesOn DEF Ask, AskAt, ArchivesInv
<1>4. ArchivesTypeOK' /\ SingleFiles'
  BY <1>3 DEF Ask, ArchivesInv, ArchivesTypeOK, SingleFiles
<1>5. QED BY <1>3, <1>4, SameDate, BesideAsk DEF Ask, ArchivesInv

LEMMA FetchKeeps ==
  ASSUME ArchivesInv, NEW r \in Askers, Fetch(r)
  PROVE  ArchivesInv'
<1> DEFINE next == [at |-> "fetching", date |-> made + 1]
<1>1. next \in Downloads /\ next.at = "fetching" /\ next.date = made + 1
  BY DEF ArchivesInv, ArchivesTypeOK, Downloads
<1>2. made' = made + 1 /\ made' \in Nat /\ made <= made' /\ newest' \in Nat /\ newest' <= made' /\ next.date <= made'
  BY <1>1 DEF Fetch, ArchivesInv, ArchivesTypeOK, DatesKept
<1>3. /\ ask' \in [Askers -> {NoAsk} \union Uploads \union RestoreAsks \union Downloads] /\ Inspecting' = Inspecting
      /\ DatesKept'
  BY <1>1, <1>2, AskMoves DEF Fetch, AskAt, ArchivesInv
<1>4. ArchivesTypeOK' /\ SingleFiles'
  BY <1>2, <1>3 DEF Fetch, ArchivesInv, ArchivesTypeOK, SingleFiles
<1>5. QED BY <1>3, <1>4, SameDate, BesideAsk DEF Fetch, ArchivesInv

LEMMA FetchedKeeps ==
  ASSUME ArchivesInv, NEW r \in Askers, Fetched(r)
  PROVE  ArchivesInv'
<1>1. ask[r].date \in Nat /\ ask[r].date <= made /\ ~AskAt(r, "inspecting")
  BY AskShape DEF Fetched, AskAt, ArchivesInv, Downloads, DatesKept
<1>2. newest' \in Nat /\ newest <= newest' /\ newest' <= made' /\ made' \in Nat /\ made <= made'
  BY <1>1 DEF Fetched, RecordsMade, ArchivesInv, ArchivesTypeOK, DatesKept
<1>3. /\ ask' \in [Askers -> {NoAsk} \union Uploads \union RestoreAsks \union Downloads] /\ Inspecting' = Inspecting
      /\ DatesKept'
  BY <1>1, <1>2, AskMoves DEF Fetched, ArchivesInv, NoAsk
<1>4. pending' \in [Ids -> SUBSET Entries]
  BY OutdatedType DEF Fetched, ArchivesInv
<1>5. ArchivesTypeOK' /\ SingleFiles'
  BY <1>2, <1>3, <1>4 DEF Fetched, ArchivesInv, ArchivesTypeOK, SingleFiles
<1>6. QED BY <1>2, <1>3, <1>5, BesideAsk DEF Fetched

\* What the owner and the schedule do.
LEMMA BackupKeeps ==
  ASSUME ArchivesInv, NEW n \in Names, Backup(n)
  PROVE  ArchivesInv'
<1>1. n \in Files /\ made + 1 \in Nat
  BY DEF Files, ArchivesInv, ArchivesTypeOK
<1>2. disk' \in [Files -> SUBSET Archs] /\ SingleFiles'
  BY <1>1, PartIsArchive, PutsFile DEF Backup, ArchivesInv
<1>3. newest' \in Nat /\ newest <= newest' /\ newest' <= made' /\ made' \in Nat /\ made <= made'
  BY <1>1 DEF Backup, RecordsMade, ArchivesInv, ArchivesTypeOK, DatesKept
<1>4. pending' \in [Ids -> SUBSET Entries]
  BY OutdatedType DEF Backup, ArchivesInv
<1>5. ArchivesTypeOK'
  BY <1>1, <1>2, <1>3, <1>4 DEF Backup, ArchivesInv, ArchivesTypeOK
<1>6. Inspecting' = Inspecting /\ DatesKept'
  BY <1>3, SameAsk DEF Backup, ArchivesInv
<1>7. QED BY <1>2, <1>3, <1>5, <1>6, BesideAsk DEF Backup

LEMMA HandKeeps ==
  ASSUME ArchivesInv, NEW n \in Names,
         DeleteStored(n) \/ \E d \in 0 .. MaxMade, ok \in BOOLEAN : Overwrite(n, d, ok)
  PROVE  ArchivesInv'
<1>1. n \in Files
  BY DEF Files
<1>2. CASE DeleteStored(n)
  <2>1. disk' \in [Files -> SUBSET Archs] /\ SingleFiles'
    BY <1>1, <1>2, DropsFile DEF DeleteStored, ArchivesInv
  <2>2. ArchivesTypeOK'
    BY <1>2, <2>1 DEF DeleteStored, ArchivesInv, ArchivesTypeOK
  <2>3. QED BY <1>2, <2>1, <2>2, SameAskAndDates, SameDate, BesideAsk DEF DeleteStored, ArchivesInv
<1>3. ASSUME NEW d \in 0 .. MaxMade, NEW ok \in BOOLEAN, Overwrite(n, d, ok) PROVE ArchivesInv'
  <2>1. disk' \in [Files -> SUBSET Archs] /\ SingleFiles'
    <3>1. d \in Nat
      BY ArchivesAssumption
    <3>2. Archive(d, ok, FALSE) \in Archs
      BY <3>1, PartIsArchive
    <3>3. QED BY <1>1, <1>3, <3>2, PutsFile DEF Overwrite, ArchivesInv
  <2>2. pending' \in [Ids -> SUBSET Entries]
    BY <1>3, OutdatedType DEF Overwrite, ArchivesInv
  <2>3. ArchivesTypeOK'
    BY <1>3, <2>1, <2>2 DEF Overwrite, ArchivesInv, ArchivesTypeOK
  <2>4. QED BY <1>3, <2>1, <2>3, SameAskAndDates, SameDate, BesideAsk DEF Overwrite, ArchivesInv
<1>4. QED BY <1>2, <1>3

LEMMA DayKeeps ==
  ASSUME ArchivesInv, DayGoesBy
  PROVE  ArchivesInv'
<1>1. ArchivesTypeOK' /\ SingleFiles'
  BY DEF DayGoesBy, ArchivesInv, ArchivesTypeOK, SingleFiles
<1>2. QED BY <1>1, SameAskAndDates, SameDate, BesideAsk DEF DayGoesBy, ArchivesInv

-----------------------------------------------------------------------------
(* An inspection.                                                          *)

LEMMA InspectKeeps ==
  ASSUME ArchivesInv, NEW r \in Askers, Inspect(r)
  PROVE  ArchivesInv'
<1>1. ask[r] \in Uploads /\ ~Running /\ Inspecting = {}
  BY AskShape DEF Inspect, AskAt, ArchivesInv, Locked, Inspecting
<1>2. ask' = [ask EXCEPT ![r] = [ask[r] EXCEPT !.at = "inspecting"]] /\ staging' = disk[ask[r].path]
      /\ UNCHANGED <<disk, aged, pending, made, newest, run>> /\ untidy' = FALSE
  BY DEF Inspect, AskGoes
<1>3. [ask[r] EXCEPT !.at = "inspecting"] \in Uploads /\ ask[r].path \in Files
      /\ [ask[r] EXCEPT !.at = "inspecting"].at = "inspecting"
  BY <1>1 DEF Uploads
<1>4. ArchivesTypeOK' /\ SingleFiles'
  BY <1>2, <1>3 DEF ArchivesInv, ArchivesTypeOK, SingleFiles
<1>5. Inspecting' = {r}
  BY <1>1, <1>2, <1>3 DEF Inspecting, AskAt, ArchivesInv, ArchivesTypeOK
<1>6. ~Running' /\ run'.at = "none"
  BY <1>1, <1>2 DEF Running
<1>7. PlainAtWork'
  BY <1>5 DEF PlainAtWork, Locked, Inspecting
<1>8. DatesKept'
  BY <1>2, <1>3 DEF DatesKept, AskAt, ArchivesInv, ArchivesTypeOK
<1>9. QED BY <1>4, <1>5, <1>6, <1>7, <1>8 DEF ArchivesInv, OneAtWork, InStaging, Opened, Confirmed, Loaded, NewerSince

\* However it ends, staging is empty again.
LEMMA InspectionEnds ==
  ASSUME ArchivesInv, NEW r \in Askers, Rejected(r) \/ Stuck(r) \/ Offered(r)
  PROVE  ArchivesInv'
<1>1. ask[r] \in Uploads /\ r \in Inspecting /\ staging' = {} /\ ask' = [ask EXCEPT ![r] = NoAsk]
      /\ UNCHANGED <<aged, made, newest, run, untidy>>
  BY AskShape DEF Rejected, Stuck, Offered, AskAt, AskGoes, Inspecting, ArchivesInv
<1>2. disk' \in [Files -> SUBSET Archs] /\ SingleFiles'
  <2>1. CASE Rejected(r)
    BY <1>1, <2>1, UploadDropped DEF Rejected, ArchivesInv
  <2>2. CASE Stuck(r) \/ Offered(r)
    BY <2>2 DEF Stuck, Offered, ArchivesInv, ArchivesTypeOK, SingleFiles
  <2>3. QED BY <2>1, <2>2
<1>3. pending' \in [Ids -> SUBSET Entries]
  <2>1. CASE Rejected(r) \/ Stuck(r)
    BY <2>1 DEF Rejected, Stuck, ArchivesInv, ArchivesTypeOK
  <2>2. CASE Offered(r)
    <3>1. PICK a \in staging : pending' = [pending EXCEPT ![ask[r].id] =
            {[path |-> ask[r].path, asks |-> Phrase(a.made), fresh |-> disk[ask[r].path] = staging]}]
      BY <2>2 DEF Offered
    <3>2. [path |-> ask[r].path, asks |-> Phrase(a.made), fresh |-> disk[ask[r].path] = staging] \in Entries
      BY <1>1, PhraseType DEF Uploads, Entries
    <3>3. QED BY <3>1, <3>2 DEF ArchivesInv, ArchivesTypeOK
  <2>3. QED BY <2>1, <2>2
<1>4. ArchivesTypeOK'
  BY <1>1, <1>2, <1>3 DEF ArchivesInv, ArchivesTypeOK
<1>5. ~Running /\ Inspecting = {r}
  BY <1>1 DEF ArchivesInv, OneAtWork
<1>6. Inspecting' = {}
  BY <1>1, <1>5 DEF Inspecting, AskAt, NoAsk, ArchivesInv, ArchivesTypeOK
<1>7. ~Running' /\ run'.at = "none"
  BY <1>1, <1>5 DEF Running
<1>8. DatesKept'
  BY <1>1 DEF DatesKept, AskAt, NoAsk, ArchivesInv, ArchivesTypeOK
<1>9. QED BY <1>1, <1>2, <1>4, <1>6, <1>7, <1>8
  DEF ArchivesInv, OneAtWork, InStaging, Opened, Confirmed, Loaded, NewerSince, PlainAtWork

-----------------------------------------------------------------------------
(* The run.                                                                *)

LEMMA BeginsKeeps ==
  ASSUME ArchivesInv, NEW r \in Askers, Begins(r)
  PROVE  ArchivesInv'
<1>1. ask[r] \in RestoreAsks /\ ~AskAt(r, "inspecting") /\ AskGoes(r, NoAsk)
      /\ UNCHANGED <<disk, aged, pending, made, newest, staging, untidy>>
  BY AskShape DEF Begins, AskAt, ArchivesInv
<1>2. /\ ask' \in [Askers -> {NoAsk} \union Uploads \union RestoreAsks \union Downloads] /\ Inspecting' = Inspecting
      /\ DatesKept'
  BY <1>1, AskMovesOn DEF ArchivesInv, NoAsk
<1>3. CASE Locked
  <2>1. run' = run
    BY <1>3 DEF Begins
  <2>2. ArchivesTypeOK' /\ SingleFiles'
    BY <1>1, <1>2, <2>1 DEF ArchivesInv, ArchivesTypeOK, SingleFiles
  <2>3. QED BY <1>1, <1>2, <2>1, <2>2, SameDate, BesideAsk DEF ArchivesInv
<1>4. CASE ~Locked
  <2>1. run' = RunOf(r)
    BY <1>4 DEF Begins
  <2>2. run' \in Runs /\ run'.at = "begun" /\ run'.was = newest
    BY <1>1, <2>1 DEF RunOf, Runs, RestoreAsks, ArchivesInv, ArchivesTypeOK
  <2>3. ArchivesTypeOK' /\ SingleFiles'
    BY <1>1, <1>2, <2>2 DEF ArchivesInv, ArchivesTypeOK, SingleFiles
  <2>4. Inspecting' = {} /\ Running'
    BY <1>2, <1>4, <2>2 DEF Locked, Inspecting, Running
  <2>5. OneAtWork' /\ PlainAtWork'
    BY <2>4 DEF OneAtWork, PlainAtWork, Locked
  <2>6. InStaging' /\ Confirmed' /\ Loaded'
    BY <2>2 DEF InStaging, Opened, Confirmed, Loaded
  <2>7. NewerSince'
    BY <1>1, <2>2, SameDate DEF NewerSince, ArchivesInv
  <2>8. QED BY <1>2, <2>3, <2>5, <2>6, <2>7 DEF ArchivesInv
<1>5. QED BY <1>3, <1>4

\* A step of the run changes where it is, and nothing else of it.
LEMMA RunGoes ==
  ASSUME ArchivesTypeOK, Running, NEW at \in {"opened", "confirmed", "saved", "doomed"}, Becomes(at)
  PROVE  /\ run' \in Runs /\ run'.at = at /\ run'.was = run.was /\ run'.typed = run.typed
         /\ run' # NoRestore /\ Running'
<1>1. run \in Runs /\ run' = [run EXCEPT !.at = at]
  BY RunShape DEF Becomes
<1>2. run' \in Runs /\ run'.at = at /\ run'.was = run.was /\ run'.typed = run.typed
  BY <1>1 DEF Runs
<1>3. QED BY <1>2 DEF Running, NoRestore

LEMMA OpensKeeps ==
  ASSUME ArchivesInv, Opens
  PROVE  ArchivesInv'
<1>1. Running /\ Becomes("opened") /\ staging' = disk[run.path] /\ (\E a \in disk[run.path] : a.sound)
      /\ untidy' = FALSE /\ UNCHANGED <<disk, aged, pending, made, newest, ask>>
  BY DEF Opens, Running
<1>2. run' \in Runs /\ run'.at = "opened" /\ run'.was = run.was /\ Running'
  BY <1>1, RunGoes DEF ArchivesInv
<1>3. run.path \in Files
  BY <1>1, RunShape DEF ArchivesInv, Runs
<1>4. ArchivesTypeOK' /\ SingleFiles'
  BY <1>1, <1>2, <1>3 DEF ArchivesInv, ArchivesTypeOK, SingleFiles
<1>5. OneAtWork' /\ NewerSince' /\ PlainAtWork' /\ DatesKept'
  BY <1>1, <1>2 DEF ArchivesInv, DatesKept, OneAtWork, Inspecting, AskAt, NewerSince, PlainAtWork, Locked
<1>6. InStaging'
  BY <1>1, <1>3 DEF ArchivesInv, SingleFiles, Single, InStaging
<1>7. QED BY <1>2, <1>4, <1>5, <1>6 DEF ArchivesInv, Confirmed, Loaded

\* What was typed is compared with the date of what was opened, against the
\* record as it is now: at least what it was when the run began.
LEMMA ConfirmsKeeps ==
  ASSUME ArchivesInv, Confirms
  PROVE  ArchivesInv'
<1>1. Running /\ Becomes("confirmed") /\ (\A a \in staging : run.typed = Phrase(a.made)) /\ run.at = "opened"
      /\ UNCHANGED <<disk, aged, pending, made, newest, staging, ask, untidy>>
  BY DEF Confirms, Running
<1>2. run' \in Runs /\ run'.at = "confirmed" /\ run'.was = run.was /\ run'.typed = run.typed /\ Running'
  BY <1>1, RunGoes DEF ArchivesInv
<1>3. ArchivesTypeOK' /\ SingleFiles'
  BY <1>1, <1>2 DEF ArchivesInv, ArchivesTypeOK, SingleFiles
<1>4. OneAtWork' /\ NewerSince' /\ PlainAtWork' /\ DatesKept'
  BY <1>1, <1>2 DEF ArchivesInv, DatesKept, OneAtWork, Inspecting, AskAt, NewerSince, PlainAtWork, Locked
<1>5. InStaging'
  BY <1>1 DEF ArchivesInv, InStaging, Opened
<1>6. Fits(staging)
  <2> SUFFICES ASSUME NEW a \in staging, a.made < run.was PROVE run.typed = "RESTORE OLDER"
    BY DEF Fits
  <2>1. a.made \in Nat /\ run.was \in Nat /\ newest \in Nat /\ run.was <= newest
    BY <1>1, RunShape DEF ArchivesInv, ArchivesTypeOK, Archs, Runs, NewerSince
  <2>2. a.made < newest
    BY <2>1
  <2>3. QED BY <1>1, <2>2 DEF Phrase
<1>7. QED BY <1>1, <1>2, <1>3, <1>4, <1>5, <1>6 DEF ArchivesInv, Confirmed, Fits, Loaded

\* The safety archive goes to a name that was free, and older ones go; staging
\* is left alone.
LEMMA SavesKeeps ==
  ASSUME ArchivesInv, SavedUnverified \/ \E n \in Names : Saves(n)
  PROVE  ArchivesInv'
<1>1. Running /\ run.at = "confirmed" /\ (Becomes("saved") \/ Becomes("doomed"))
      /\ made' = made + 1 /\ newest' = made + 1 /\ pending' = Outdated(Ids \ {run.id})
      /\ UNCHANGED <<aged, staging, ask, untidy>>
  BY DEF SavedUnverified, Saves, Running
<1>2. run' \in Runs /\ run'.at \in {"saved", "doomed"} /\ run'.was = run.was /\ run'.typed = run.typed /\ Running'
  BY <1>1, RunGoes DEF ArchivesInv
<1>3. disk' \in [Files -> SUBSET Archs] /\ SingleFiles'
  <2>1. CASE SavedUnverified
    BY <2>1 DEF SavedUnverified, ArchivesInv, ArchivesTypeOK, SingleFiles
  <2>2. ASSUME NEW n \in Names, Saves(n) PROVE disk' \in [Files -> SUBSET Archs] /\ SingleFiles'
    <3>1. disk' = [f \in Files |-> IF f = n THEN {Archive(made + 1, TRUE, TRUE)}
                                   ELSE IF f \in Names \ Spares(n) THEN {a \in disk[f] : ~a.safe} ELSE disk[f]]
      BY <2>2 DEF Saves, ArchivesInv, ArchivesTypeOK
    <3>2. Archive(made + 1, TRUE, TRUE) \in Archs
      <4>1. made + 1 \in Nat
        BY DEF ArchivesInv, ArchivesTypeOK
      <4>2. QED BY <4>1, PartIsArchive
    <3>3. \A f \in Files : disk[f] \in SUBSET Archs /\ Single(disk[f])
      BY DEF ArchivesInv, ArchivesTypeOK, SingleFiles
    <3>4. PICK new : new = Archive(made + 1, TRUE, TRUE) /\ new \in Archs
      BY <3>2
    <3>5. ASSUME NEW f \in Files PROVE disk'[f] \in SUBSET Archs /\ Single(disk'[f])
      <4>1. disk'[f] = {new} \/ disk'[f] \subseteq disk[f]
        BY <3>1, <3>4
      <4>2. disk[f] \in SUBSET Archs /\ Single(disk[f])
        BY <3>3
      <4>3. QED BY <3>4, <4>1, <4>2 DEF Single
    <3>6. disk' \in [Files -> SUBSET Archs]
      BY <3>1, <3>5
    <3>7. QED BY <3>5, <3>6 DEF SingleFiles
  <2>3. QED BY <2>1, <2>2
<1>4. ArchivesTypeOK'
  BY <1>1, <1>2, <1>3, OutdatedType DEF ArchivesInv, ArchivesTypeOK
<1>5. newest <= newest' /\ made + 1 \in Nat /\ newest \in Nat
  BY <1>1 DEF ArchivesInv, ArchivesTypeOK, DatesKept
<1>6. Inspecting' = Inspecting /\ DatesKept'
  <2>1. made' \in Nat /\ made <= made' /\ newest' \in Nat /\ newest' <= made'
    BY <1>1 DEF ArchivesInv, ArchivesTypeOK
  <2>2. QED BY <1>1, <2>1, SameAsk DEF ArchivesInv
<1>7. NewerSince'
  <2>1. run.was \in Nat /\ run.was <= newest
    BY <1>1, RunShape DEF ArchivesInv, Runs, NewerSince
  <2>2. newest' \in Nat
    BY <1>1, <1>5
  <2>3. QED BY <1>2, <1>5, <2>1, <2>2 DEF NewerSince
<1>8. OneAtWork' /\ PlainAtWork'
  BY <1>1, <1>2, <1>6 DEF ArchivesInv, OneAtWork, PlainAtWork, Locked
<1>9. InStaging' /\ Confirmed' /\ Loaded'
  BY <1>1, <1>2 DEF ArchivesInv, InStaging, Opened, Confirmed, Fits, Loaded
<1>10. QED BY <1>3, <1>4, <1>6, <1>7, <1>8, <1>9 DEF ArchivesInv

\* What replaces the database is what was opened, checked and confirmed.
LEMMA LoadsKeeps ==
  ASSUME ArchivesInv, LoadsStaging
  PROVE  ArchivesInv'
<1>1. Running /\ run.at = "saved" /\ run' = [run EXCEPT !.at = "loaded", !.loads = staging]
      /\ UNCHANGED <<disk, aged, pending, made, newest, staging, ask, untidy>>
  BY DEF LoadsStaging, Running
<1>2. run' \in Runs /\ run'.at = "loaded" /\ run'.was = run.was /\ run'.typed = run.typed /\ run'.loads = staging
  BY <1>1, RunShape DEF Runs, ArchivesInv, ArchivesTypeOK
<1>3. ArchivesTypeOK' /\ SingleFiles' /\ Running'
  BY <1>1, <1>2 DEF ArchivesInv, ArchivesTypeOK, SingleFiles, Running
<1>4. OneAtWork' /\ NewerSince' /\ PlainAtWork' /\ DatesKept'
  BY <1>1, <1>2, <1>3 DEF ArchivesInv, DatesKept, OneAtWork, Inspecting, AskAt, NewerSince, PlainAtWork, Locked
<1>5. InStaging' /\ Confirmed'
  BY <1>1, <1>2 DEF ArchivesInv, InStaging, Opened, Confirmed
<1>6. Loaded'
  BY <1>1, <1>2 DEF ArchivesInv, InStaging, Opened, Confirmed, Fits, Loaded
<1>7. QED BY <1>3, <1>4, <1>5, <1>6 DEF ArchivesInv

\* No run, and staging empty or known to be untidy.
LEMMA RunGone ==
  ASSUME ArchivesInv, ArchivesTypeOK', SingleFiles', DatesKept', Inspecting' \subseteq Inspecting, run' = NoRestore,
         staging' # {} => untidy'
  PROVE  ArchivesInv'
<1>1. ~Running' /\ run'.at = "none"
  BY DEF Running, NoRestore
<1>2. OneAtWork'
  BY <1>1 DEF ArchivesInv, OneAtWork
<1>3. QED BY <1>1, <1>2 DEF ArchivesInv, InStaging, Opened, Confirmed, Loaded, NewerSince, PlainAtWork

LEMMA EndsKeeps ==
  ASSUME ArchivesInv, Succeeds \/ Fails
  PROVE  ArchivesInv'
<1>1. Running /\ staging' = {} /\ run' = NoRestore /\ untidy' = FALSE /\ UNCHANGED <<aged, made, newest, ask>>
      /\ disk' \in {disk, Without(run.id)}
  BY DEF Succeeds, Fails, Tidied, Running
<1>2. run.id \in Files /\ run.id \in Ids
  BY <1>1, RunShape DEF ArchivesInv, Runs, Files
<1>3. disk' \in [Files -> SUBSET Archs] /\ SingleFiles'
  BY <1>1, <1>2, DropsFile DEF ArchivesInv
<1>4. pending' \in [Ids -> SUBSET Entries]
  <2>1. Refreshed \in [Ids -> SUBSET Entries] /\ pending \in [Ids -> SUBSET Entries]
    BY <1>1, RefreshedType DEF ArchivesInv, ArchivesTypeOK
  <2>2. [pending EXCEPT ![run.id] = {}] \in [Ids -> SUBSET Entries]
    BY <2>1
  <2>3. QED BY <2>1, <2>2 DEF Succeeds, Fails, Tidied
<1>5. ArchivesTypeOK'
  BY <1>1, <1>3, <1>4 DEF ArchivesInv, ArchivesTypeOK
<1>6. QED BY <1>1, <1>3, <1>5, SameAskAndDates, RunGone DEF ArchivesInv

\* The tidying up raises: staging is left as it is, and known to be.
LEMMA EndsUntidyKeeps ==
  ASSUME ArchivesInv, EndsUntidy
  PROVE  ArchivesInv'
<1>1. Running /\ run' = NoRestore /\ untidy' = (staging # {}) /\ UNCHANGED <<disk, aged, made, newest, staging, ask>>
  BY DEF EndsUntidy, Running
<1>2. pending' \in [Ids -> SUBSET Entries]
  BY <1>1, OutdatedType, RefreshedType DEF EndsUntidy, ArchivesInv
<1>3. untidy' \in BOOLEAN /\ (staging' # {} => untidy')
  BY <1>1
<1>4. ArchivesTypeOK' /\ SingleFiles'
  BY <1>1, <1>2, <1>3 DEF ArchivesInv, ArchivesTypeOK, SingleFiles
<1>5. QED BY <1>1, <1>3, <1>4, SameAskAndDates, RunGone DEF ArchivesInv

LEMMA StartsAgainKeeps ==
  ASSUME ArchivesInv, StartsAgain
  PROVE  ArchivesInv'
<1>1. /\ pending' = [i \in Ids |-> {}] /\ staging' = {} /\ aged' = {} /\ ask' = [r \in Askers |-> NoAsk]
      /\ disk' = [f \in DOMAIN disk |-> IF f \in Ids THEN {} ELSE disk[f]]
      /\ run' = NoRestore /\ untidy' = FALSE /\ UNCHANGED <<made, newest>>
  BY DEF StartsAgain
<1>2. ArchivesTypeOK' /\ SingleFiles'
  BY <1>1 DEF ArchivesInv, ArchivesTypeOK, SingleFiles, Single
<1>3. Inspecting' = {} /\ DatesKept'
  BY <1>1 DEF ArchivesInv, Inspecting, DatesKept, AskAt, NoAsk
<1>4. QED BY <1>1, <1>2, <1>3, RunGone

LEMMA ArchivesStep ==
  ASSUME ArchivesInv, [ArchivesNext]_archives
  PROVE  ArchivesInv'
<1>1. ASSUME NEW r \in Askers, \E i \in Ids : Arrive(r, i) \/ Ask(r, i) \/ \E n \in Names : Name(r, i, n)
      PROVE ArchivesInv'
  BY <1>1, ArriveKeeps, AskKeeps, NameKeeps
<1>2. ASSUME NEW r \in Askers, \E d \in 0..MaxMade, ok \in BOOLEAN : Arrived(r, d, ok) PROVE ArchivesInv'
  <2>1. \A d \in 0..MaxMade : d \in Nat
    BY ArchivesAssumption
  <2>2. QED BY <1>2, <2>1, ArrivedKeeps
<1>3. ASSUME NEW r \in Askers, ArriveFails(r) \/ Busy(r) \/ Fetch(r) \/ Fetched(r) PROVE ArchivesInv'
  BY <1>3, ArriveFailsKeeps, FetchKeeps, FetchedKeeps
<1>4. ASSUME NEW r \in Askers, Inspect(r) \/ Rejected(r) \/ Stuck(r) \/ Offered(r) \/ Begins(r) PROVE ArchivesInv'
  BY <1>4, InspectKeeps, InspectionEnds, BeginsKeeps
<1>5. ASSUME Opens \/ Confirms \/ SavedUnverified \/ (\E n \in Names : Saves(n)) \/ LoadsStaging PROVE ArchivesInv'
  BY <1>5, OpensKeeps, ConfirmsKeeps, SavesKeeps, LoadsKeeps
<1>6. ASSUME Succeeds \/ Fails \/ EndsUntidy \/ StartsAgain PROVE ArchivesInv'
  BY <1>6, EndsKeeps, EndsUntidyKeeps, StartsAgainKeeps
<1>7. ASSUME NEW n \in Names,
             Backup(n) \/ DeleteStored(n) \/ \E d \in 0..MaxMade, ok \in BOOLEAN : Overwrite(n, d, ok)
      PROVE ArchivesInv'
  BY <1>7, BackupKeeps, HandKeeps
<1>8. ASSUME (\E i \in Ids : Discard(i)) \/ DayGoesBy PROVE ArchivesInv'
  BY <1>8, DiscardKeeps, DayKeeps
<1>9. CASE UNCHANGED archives
  <2>1. ArchivesTypeOK' /\ SingleFiles'
    BY <1>9 DEF archives, ArchivesInv, ArchivesTypeOK, SingleFiles
  <2>2. QED BY <1>9, <2>1, SameAskAndDates, SameDate, BesideAsk DEF archives, ArchivesInv
<1>10. QED BY <1>1, <1>2, <1>3, <1>4, <1>5, <1>6, <1>7, <1>8, <1>9 DEF ArchivesNext

-----------------------------------------------------------------------------
\* In every reachable state staging holds what the inspection or the run at
\* work put there (restore.inspect, _run, _finish).
THEOREM ArchivesInvHolds == ArchivesSpec => []ArchivesInv
<1>1. ArchivesInv /\ [ArchivesNext]_archives => ArchivesInv'
  BY ArchivesStep
<1>2. QED BY <1>1, InitHolds, PTL DEF ArchivesSpec

\* Type correctness.
THEOREM ArchivesTypeHolds == ArchivesSpec => []ArchivesTypeOK
<1>1. ArchivesInv => ArchivesTypeOK
  BY DEF ArchivesInv
<1>2. QED BY <1>1, ArchivesInvHolds, PTL

\* What replaces the database is one archive that passed its checks, and an
\* older one only with RESTORE OLDER, whatever was recorded or put under its
\* name since it was inspected (restore._run, _confirm_age).
THEOREM LoadedWasAskedFor == ArchivesSpec => []AskedFor
<1>1. ASSUME ArchivesInv, run.at = "loaded"
      PROVE  /\ Cardinality(run.loads) = 1
             /\ \A a \in run.loads : a.sound /\ (a.made < run.was => run.typed = "RESTORE OLDER")
  <2>1. PICK a \in run.loads : run.loads = {a}
    BY <1>1 DEF ArchivesInv, Loaded, Single
  <2>2. Cardinality(run.loads) = 1
    BY <2>1, FS_Singleton
  <2>3. QED BY <1>1, <2>2 DEF ArchivesInv, Loaded, Fits
<1>2. ArchivesInv => AskedFor
  BY <1>1 DEF AskedFor
<1>3. QED BY <1>2, ArchivesInvHolds, PTL

\* The collection is in staging, decrypted, only beside an inspection or a run
\* (restore._inspect, _finish).
THEOREM StagingIsAtWork == ArchivesSpec => []PlainAtWork
<1>1. ArchivesInv => PlainAtWork
  BY DEF ArchivesInv
<1>2. QED BY <1>1, ArchivesInvHolds, PTL

-----------------------------------------------------------------------------
(* Archives: what an entry asks for is what its archive's date asks for, and *)
(* of the entry being run, the archive in staging.                          *)

OwnPath(path, i) == path \in Names \union {i}
Unasked == {"arriving", "arrived", "inspecting"}

EntryPaths == \A i \in Ids : \A p \in pending[i] : OwnPath(p.path, i)
AskPaths == \A r \in Askers : ask[r].at \in Unasked => OwnPath(ask[r].path, ask[r].id)

\* An id is one request's until something may be run under it.
NotYet ==
  \A r \in Askers : ask[r].at \in Unasked =>
    /\ pending[ask[r].id] = {} /\ (Running => run.id # ask[r].id)
    /\ \A s \in Askers : ask[s].at \in Unasked \union {"asked"} /\ ask[s].id = ask[r].id => s = r

\* What was asked for, and what is run, is what the entry names.
SameEntry ==
  /\ \A i \in Ids : \A p, q \in pending[i] : p.path = q.path
  /\ \A r \in Askers : AskAt(r, "asked") => \A p \in pending[ask[r].id] : p.path = ask[r].path
  /\ Running => \A p \in pending[run.id] : p.path = run.path

UnderWay(i) == Opened /\ i = run.id
AsAsked(p) == \A a \in disk[p.path] : p.asks = Phrase(a.made)
Fitting ==
  \A i \in Ids : \A p \in pending[i] : p.fresh =>
    IF UnderWay(i) THEN disk[p.path] = staging ELSE AsAsked(p)

RetryInv == EntryPaths /\ AskPaths /\ NotYet /\ SameEntry /\ Fitting

\* Entries stay as they are, go, or are out of date.
Remains(i, p, q) ==
  /\ p.path = q.path
  /\ p.fresh =>
       /\ p = q /\ (UnderWay(i) \/ newest' = newest)
       /\ disk'[p.path] = disk[p.path] \/ (disk'[p.path] = {} /\ ~UnderWay(i))
PathsGo == \A i \in Ids : \A p \in pending'[i] : \E q \in pending[i] : p.path = q.path
EntriesGo == \A i \in Ids : \A p \in pending'[i] : \E q \in pending[i] : Remains(i, p, q)

\* A request goes on with what it has, or ends.
GoesOnWith(t, s) ==
  t.at \in Unasked \union {"asked"} =>
    s.at \in Unasked \union {"asked"} /\ t.id = s.id /\ t.path = s.path /\ (t.at = "asked" <=> s.at = "asked")

SameRun == run'.id = run.id /\ run'.path = run.path /\ (Opened' <=> Opened) /\ (Running' <=> Running)

LEMMA OutdatedIs ==
  ASSUME ArchivesTypeOK, NEW S, NEW i \in Ids, NEW p \in Outdated(S)[i]
  PROVE  \E q \in pending[i] : p.path = q.path /\ (p.fresh => i \notin S /\ p = q)
<1>1. CASE i \in S
  <2>1. PICK q \in pending[i] : p = [q EXCEPT !.fresh = FALSE]
    BY <1>1 DEF Outdated
  <2>2. q \in Entries
    BY DEF ArchivesTypeOK
  <2>3. p.path = q.path /\ p.fresh = FALSE
    BY <2>1, <2>2 DEF Entries
  <2>4. QED BY <2>3
<1>2. CASE i \notin S
  BY <1>2 DEF Outdated
<1>3. QED BY <1>1, <1>2

LEMMA RefreshedIs ==
  ASSUME ArchivesTypeOK, Running, NEW i \in Ids, NEW p \in Refreshed[i]
  PROVE  \E q \in pending[i] : /\ p.path = q.path /\ p.fresh = q.fresh /\ (i # run.id => p = q)
                               /\ staging # {} /\ i = run.id => \E a \in staging : p.asks = Phrase(a.made)
<1>1. run.id \in Ids
  BY RunShape DEF Runs
<1>2. CASE i = run.id
  <2>1. PICK x : x = Phrase((CHOOSE a \in staging : TRUE).made)
    OBVIOUS
  <2>2. PICK q \in pending[i] : p = [q EXCEPT !.asks = IF staging = {} THEN @ ELSE x]
    BY <1>1, <1>2, <2>1 DEF Refreshed, ArchivesTypeOK
  <2>3. q \in Entries
    BY DEF ArchivesTypeOK
  <2>4. p.path = q.path /\ p.fresh = q.fresh /\ (staging # {} => p.asks = x)
    BY <2>2, <2>3 DEF Entries
  <2>5. staging # {} => \E a \in staging : x = Phrase(a.made)
    BY <2>1
  <2>6. QED BY <1>2, <2>4, <2>5
<1>3. CASE i # run.id
  BY <1>3 DEF Refreshed
<1>4. QED BY <1>2, <1>3

\* What the entries allow, when they only stay or go.
LEMMA PathsGoToo == ASSUME EntriesGo PROVE PathsGo
  BY DEF EntriesGo, PathsGo, Remains

LEMMA EntriesStay ==
  ASSUME RetryInv, PathsGo
  PROVE  /\ EntryPaths' /\ \A i \in Ids : pending[i] = {} => pending'[i] = {}
         /\ \A path : \A i \in Ids : (\A p \in pending[i] : p.path = path) => \A p \in pending'[i] : p.path = path
<1>1. EntryPaths'
  BY DEF RetryInv, EntryPaths, PathsGo, OwnPath
<1>2. QED BY <1>1 DEF PathsGo

LEMMA AsksStay ==
  ASSUME ArchivesInv, RetryInv, PathsGo, \A r \in Askers : GoesOnWith(ask'[r], ask[r]),
         Running' => Running /\ run'.id = run.id /\ run'.path = run.path
  PROVE  EntryPaths' /\ AskPaths' /\ NotYet' /\ SameEntry'
<1>1. EntryPaths'
  BY EntriesStay
<1>2. AskPaths'
  BY DEF RetryInv, AskPaths, GoesOnWith, Unasked
<1>3. ASSUME NEW r \in Askers, ask'[r].at \in Unasked
      PROVE  ask[r].at \in Unasked /\ ask'[r].id = ask[r].id /\ ask[r].id \in Ids
  <2>1. ask[r].at \in Unasked /\ ask'[r].id = ask[r].id
    BY <1>3 DEF GoesOnWith, Unasked
  <2>2. ask[r].id \in Ids
    BY <2>1, AskShape DEF ArchivesInv, Unasked, Uploads
  <2>3. QED BY <2>1, <2>2
<1>4. NotYet'
  <2> SUFFICES ASSUME NEW r \in Askers, ask'[r].at \in Unasked
               PROVE  /\ pending'[ask'[r].id] = {} /\ (Running' => run'.id # ask'[r].id)
                      /\ \A s \in Askers : ask'[s].at \in Unasked \union {"asked"} /\ ask'[s].id = ask'[r].id => s = r
    BY DEF NotYet
  <2>1. ask[r].at \in Unasked /\ ask'[r].id = ask[r].id /\ ask[r].id \in Ids
    BY <1>3
  <2>2. pending[ask[r].id] = {} /\ (Running => run.id # ask[r].id)
        /\ \A s \in Askers : ask[s].at \in Unasked \union {"asked"} /\ ask[s].id = ask[r].id => s = r
    BY <2>1 DEF RetryInv, NotYet
  <2>3. pending'[ask'[r].id] = {}
    BY <2>1, <2>2, EntriesStay
  <2>4. \A s \in Askers : ask'[s].at \in Unasked \union {"asked"} /\ ask'[s].id = ask'[r].id => s = r
    BY <2>1, <2>2 DEF GoesOnWith
  <2>5. QED BY <2>1, <2>2, <2>3, <2>4
<1>5. SameEntry'
  <2>1. ASSUME NEW r \in Askers, AskAt(r, "asked")' PROVE \A p \in pending'[ask'[r].id] : p.path = ask'[r].path
    <3>1. AskAt(r, "asked") /\ ask'[r].id = ask[r].id /\ ask'[r].path = ask[r].path
      BY <2>1 DEF AskAt, GoesOnWith
    <3>2. ask[r].id \in Ids
      BY <3>1, AskShape DEF ArchivesInv, AskAt, RestoreAsks
    <3>3. \A p \in pending[ask[r].id] : p.path = ask[r].path
      BY <3>1 DEF RetryInv, SameEntry
    <3>4. QED BY <3>1, <3>2, <3>3, EntriesStay
  <2>2. ASSUME Running' PROVE \A p \in pending'[run'.id] : p.path = run'.path
    <3>1. Running /\ run.id \in Ids
      BY <2>2, RunShape DEF ArchivesInv, Runs
    <3>2. \A p \in pending[run.id] : p.path = run.path
      BY <3>1 DEF RetryInv, SameEntry
    <3>3. run'.id = run.id /\ run'.path = run.path
      BY <2>2
    <3>4. \A p \in pending'[run.id] : p.path = run.path
      BY <3>1, <3>2, EntriesStay
    <3>5. QED BY <3>3, <3>4
  <2>3. \A i \in Ids : \A p, q \in pending'[i] : p.path = q.path
    BY DEF RetryInv, SameEntry, PathsGo
  <2>4. QED BY <2>1, <2>2, <2>3 DEF SameEntry
<1>6. QED BY <1>1, <1>2, <1>4, <1>5

LEMMA FittingStays ==
  ASSUME RetryInv, EntriesGo, SameRun, Opened => staging' = staging
  PROVE  Fitting'
<1> SUFFICES ASSUME NEW i \in Ids, NEW p \in pending'[i], p.fresh
             PROVE  IF UnderWay(i)' THEN disk'[p.path] = staging' ELSE AsAsked(p)'
  BY DEF Fitting
<1>1. PICK q \in pending[i] : Remains(i, p, q)
  BY DEF EntriesGo
<1>2. p = q /\ (UnderWay(i) \/ newest' = newest)
      /\ (disk'[p.path] = disk[p.path] \/ (disk'[p.path] = {} /\ ~UnderWay(i)))
  BY <1>1 DEF Remains
<1>3. UnderWay(i)' <=> UnderWay(i)
  BY DEF UnderWay, SameRun
<1>4. IF UnderWay(i) THEN disk[p.path] = staging ELSE AsAsked(p)
  BY <1>2 DEF RetryInv, Fitting
<1>5. CASE UnderWay(i)
  BY <1>2, <1>3, <1>4, <1>5 DEF UnderWay
<1>6. CASE ~UnderWay(i)
  <2>1. newest' = newest /\ AsAsked(p)
    BY <1>2, <1>4, <1>6
  <2>2. AsAsked(p)'
    BY <1>2, <2>1 DEF AsAsked, Phrase
  <2>3. QED BY <1>3, <1>6, <2>2
<1>7. QED BY <1>5, <1>6

LEMMA RetryStays ==
  ASSUME ArchivesInv, RetryInv, EntriesGo, \A r \in Askers : GoesOnWith(ask'[r], ask[r]), SameRun,
         Opened => staging' = staging
  PROVE  RetryInv'
<1>1. EntryPaths' /\ AskPaths' /\ NotYet' /\ SameEntry'
  BY AsksStay, PathsGoToo DEF SameRun
<1>2. QED BY <1>1, FittingStays DEF RetryInv

LEMMA EntriesOnlyGo ==
  ASSUME newest' = newest, \A i \in Ids : pending'[i] \subseteq pending[i],
         \A i \in Ids : \A p \in pending'[i] : disk'[p.path] = disk[p.path] \/ (disk'[p.path] = {} /\ ~UnderWay(i))
  PROVE  EntriesGo
<1>1. ASSUME NEW i \in Ids, NEW p \in pending'[i] PROVE p \in pending[i] /\ Remains(i, p, p)
  BY <1>1 DEF Remains
<1>2. QED BY <1>1 DEF EntriesGo

LEMMA OutdatedGo ==
  ASSUME ArchivesTypeOK, NEW S, pending' = Outdated(S), \A i \in Ids : i \in S \/ UnderWay(i) \/ newest' = newest,
         \A i \in Ids \ S : \A p \in pending[i] :
           p.fresh => disk'[p.path] = disk[p.path] \/ (disk'[p.path] = {} /\ ~UnderWay(i))
  PROVE  EntriesGo
<1>1. ASSUME NEW i \in Ids, NEW p \in pending'[i] PROVE \E q \in pending[i] : Remains(i, p, q)
  <2>1. PICK q \in pending[i] : p.path = q.path /\ (p.fresh => i \notin S /\ p = q)
    BY <1>1, OutdatedIs
  <2>2. Remains(i, p, q)
    BY <2>1 DEF Remains
  <2>3. QED BY <2>2
<1>2. QED BY <1>1 DEF EntriesGo

LEMMA AskIs ==
  ASSUME ArchivesTypeOK, NEW r \in Askers, NEW next, AskGoes(r, next)
  PROVE  ask'[r] = next /\ \A s \in Askers : s # r => ask'[s] = ask[s]
  BY DEF AskGoes, ArchivesTypeOK

\* A request ends, or goes on with its id and path.
LEMMA AskGoesOn ==
  ASSUME ArchivesTypeOK, NEW r \in Askers, NEW next, AskGoes(r, next), GoesOnWith(next, ask[r])
  PROVE  \A s \in Askers : GoesOnWith(ask'[s], ask[s])
<1>1. ask'[r] = next /\ \A s \in Askers : s # r => ask'[s] = ask[s]
  BY AskIs
<1>2. \A s \in Askers : s # r => GoesOnWith(ask'[s], ask[s])
  BY <1>1 DEF GoesOnWith
<1>3. QED BY <1>1, <1>2

LEMMA EndsGoes == \A s : GoesOnWith(NoAsk, s)
  BY DEF GoesOnWith, NoAsk, Unasked

LEMMA SameAsks ==
  ASSUME ask' = ask
  PROVE  \A s \in Askers : GoesOnWith(ask'[s], ask[s])
  BY DEF GoesOnWith

LEMMA SameRunStays == ASSUME run' = run PROVE SameRun
  BY DEF SameRun, Running, Opened

LEMMA RetryStill ==
  ASSUME ArchivesInv, RetryInv, EntriesGo, \A r \in Askers : GoesOnWith(ask'[r], ask[r]), run' = run,
         Opened => staging' = staging
  PROVE  RetryInv'
<1>1. SameRun
  BY SameRunStays
<1>2. QED BY <1>1, RetryStays

\* The upload of a request is no entry's.
LEMMA OwnUpload ==
  ASSUME ArchivesInv, RetryInv, NEW r \in Askers, ask[r].at \in Unasked, NEW i \in Ids, NEW p \in pending[i]
  PROVE  p.path # ask[r].id
<1>1. ask[r].id \in Ids /\ pending[ask[r].id] = {}
  BY AskShape DEF RetryInv, NotYet, ArchivesInv, Unasked, Uploads
<1>2. OwnPath(p.path, i)
  BY DEF RetryInv, EntryPaths
<1>3. QED BY <1>1, <1>2, ArchivesAssumption DEF OwnPath

LEMMA EntryFile ==
  ASSUME ArchivesInv, NEW i \in Ids, NEW p \in pending[i]
  PROVE  p.path \in Files /\ p.path \in DOMAIN disk
  BY DEF ArchivesInv, ArchivesTypeOK, Entries

\* Only the file of an upload changes that nothing may be run of yet.
LEMMA UploadGoes ==
  ASSUME ArchivesInv, RetryInv, NEW r \in Askers, ask[r].at \in Unasked, UNCHANGED <<pending, newest>>,
         \A f \in Files : f # ask[r].id => disk'[f] = disk[f]
  PROVE  EntriesGo
<1>1. \A i \in Ids : \A p \in pending[i] : disk'[p.path] = disk[p.path]
  BY OwnUpload, EntryFile
<1>2. QED BY <1>1, EntriesOnlyGo

LEMMA UploadDrops ==
  ASSUME ArchivesInv, NEW r \in Askers, DropUpload(r)
  PROVE  \A f \in Files : f # ask[r].id => disk'[f] = disk[f]
  BY DEF DropUpload, Without, ArchivesInv, ArchivesTypeOK

LEMMA UploadsRetry ==
  ASSUME ArchivesInv, RetryInv, NEW r \in Askers,
         \/ ArriveFails(r) \/ Busy(r) \/ Inspect(r) \/ Rejected(r) \/ Stuck(r)
         \/ \E d \in Nat, ok \in BOOLEAN : Arrived(r, d, ok)
  PROVE  RetryInv'
<1>1. ask[r].at \in Unasked /\ UNCHANGED <<pending, newest, run>>
  BY DEF ArriveFails, Busy, Inspect, Rejected, Stuck, Arrived, Unasked, AskAt
<1>2. PICK s \in Uploads : s = ask[r]
  BY <1>1, AskShape DEF ArchivesInv, Unasked
<1>3. \A f \in Files : f # ask[r].id => disk'[f] = disk[f]
  BY UploadDrops DEF ArriveFails, Busy, Inspect, Rejected, Stuck, Arrived, ArchivesInv, ArchivesTypeOK
<1>4. EntriesGo
  BY <1>1, <1>3, UploadGoes
<1>5. \A at \in Unasked : [s EXCEPT !.at = at].at = at /\ [s EXCEPT !.at = at].id = s.id /\ [s EXCEPT !.at = at].path = s.path
  BY DEF Uploads
<1>6. s.at \in Unasked
  BY <1>1, <1>2
<1>7. \A at \in Unasked : GoesOnWith([s EXCEPT !.at = at], s)
  BY <1>5, <1>6 DEF GoesOnWith, Unasked
<1>8. PICK next : AskGoes(r, next) /\ GoesOnWith(next, ask[r])
  BY <1>2, <1>7, EndsGoes DEF ArriveFails, Busy, Inspect, Rejected, Stuck, Arrived, Unasked
<1>9. \A b \in Askers : GoesOnWith(ask'[b], ask[b])
  BY <1>8, AskGoesOn DEF ArchivesInv
<1>10. Opened => staging' = staging
  <2>1. ASSUME Inspect(r) \/ Rejected(r) \/ Stuck(r) PROVE ~Running
    BY <2>1 DEF Inspect, Rejected, Stuck, Locked, ArchivesInv, OneAtWork, Inspecting, AskAt
  <2>2. Opened => Running
    BY DEF Opened, Running
  <2>3. QED BY <2>1, <2>2 DEF ArriveFails, Busy, Arrived
<1>11. QED BY <1>1, <1>4, <1>9, <1>10, RetryStill

LEMMA HandRetry ==
  ASSUME ArchivesInv, RetryInv, NEW n \in Names,
         Backup(n) \/ DeleteStored(n) \/ \E d \in 0 .. MaxMade, ok \in BOOLEAN : Overwrite(n, d, ok)
  PROVE  RetryInv'
<1>1. UNCHANGED <<ask, run, staging>>
  BY DEF Backup, DeleteStored, Overwrite
<1>2. CASE Backup(n)
  <2>1. EntriesGo
    BY <1>2, OutdatedGo DEF Backup, ArchivesInv
  <2>2. QED BY <1>1, <2>1, SameAsks, RetryStill
<1>3. CASE DeleteStored(n)
  <2>1. ~Opened /\ UNCHANGED <<pending, newest>> /\ disk' = Without(n)
    BY <1>3 DEF DeleteStored, Opened, Running
  <2>2. \A f \in Files : disk'[f] = disk[f] \/ disk'[f] = {}
    BY <2>1 DEF Without, ArchivesInv, ArchivesTypeOK
  <2>3. EntriesGo
    BY <2>1, <2>2, EntryFile, EntriesOnlyGo DEF UnderWay
  <2>4. QED BY <1>1, <2>3, SameAsks, RetryStill
<1>4. ASSUME NEW d \in 0 .. MaxMade, NEW ok \in BOOLEAN, Overwrite(n, d, ok) PROVE RetryInv'
  <2>1. PICK S : S = {i \in Ids : \E p \in pending[i] : p.path = n}
    OBVIOUS
  <2>2. pending' = Outdated(S) /\ newest' = newest /\ \A f \in Files : f # n => disk'[f] = disk[f]
    BY <1>4, <2>1 DEF Overwrite, ArchivesInv, ArchivesTypeOK
  <2>3. \A i \in Ids \ S : \A p \in pending[i] : disk'[p.path] = disk[p.path]
    BY <2>1, <2>2, EntryFile
  <2>4. EntriesGo
    BY <2>2, <2>3, OutdatedGo DEF ArchivesInv
  <2>5. QED BY <1>1, <2>4, SameAsks, RetryStill
<1>5. QED BY <1>2, <1>3, <1>4

LEMMA OthersRetry ==
  ASSUME ArchivesInv, RetryInv,
         \/ DayGoesBy \/ \E i \in Ids : Discard(i)
         \/ \E r \in Askers : Fetch(r) \/ Fetched(r)
  PROVE  RetryInv'
<1>1. UNCHANGED <<run, staging>>
  BY DEF DayGoesBy, Discard, Fetch, Fetched
<1>2. CASE DayGoesBy
  <2>1. UNCHANGED <<disk, pending, newest, ask>>
    BY <1>2 DEF DayGoesBy
  <2>2. QED BY <1>1, <2>1, EntriesOnlyGo, SameAsks, RetryStill
<1>3. ASSUME NEW id \in Ids, Discard(id) PROVE RetryInv'
  <2>1. ~Opened /\ UNCHANGED <<newest, ask>> /\ \A i \in Ids : pending'[i] \subseteq pending[i]
    BY <1>3 DEF Discard, Serving, Opened, ArchivesInv, ArchivesTypeOK
  <2>2. \A f \in Files : disk'[f] = disk[f] \/ disk'[f] = {}
    BY <1>3 DEF Discard, Without, ArchivesInv, ArchivesTypeOK
  <2>3. EntriesGo
    BY <2>1, <2>2, EntryFile, EntriesOnlyGo DEF UnderWay
  <2>4. QED BY <1>1, <2>1, <2>3, SameAsks, RetryStill
<1>4. ASSUME NEW r \in Askers, Fetch(r) \/ Fetched(r) PROVE RetryInv'
  <2>1. PICK next : AskGoes(r, next) /\ next.at \notin Unasked \union {"asked"} /\ disk' = disk
    BY <1>4 DEF Fetch, Fetched, NoAsk, Unasked
  <2>2. EntriesGo
    BY <1>4, EntriesOnlyGo, OutdatedGo DEF Fetch, Fetched, ArchivesInv
  <2>3. GoesOnWith(next, ask[r])
    BY <2>1 DEF GoesOnWith
  <2>4. QED BY <1>1, <2>1, <2>2, <2>3, AskGoesOn, RetryStill DEF ArchivesInv
<1>5. QED BY <1>2, <1>3, <1>4

\* A new request.
LEMMA SweepGoes ==
  ASSUME ArchivesInv, RetryInv, NEW id \in Ids, pending[id] = {}, pending' = SweptPending, newest' = newest,
         \A f \in Files : f # id => disk'[f] = Swept(f)
  PROVE  EntriesGo
<1>1. ASSUME NEW i \in Ids, NEW p \in pending'[i] PROVE p \in pending[i] /\ disk'[p.path] = disk[p.path]
  <2>1. i \notin Stale /\ p \in pending[i]
    BY <1>1 DEF SweptPending
  <2>2. OwnPath(p.path, i) /\ p.path \in Files
    BY <2>1, EntryFile DEF RetryInv, EntryPaths
  <2>3. Stale \subseteq Ids
    BY DEF Stale, ArchivesInv, ArchivesTypeOK
  <2>4. p.path \notin Stale
    BY <2>1, <2>2, <2>3, ArchivesAssumption DEF OwnPath
  <2>5. CASE p.path = id
    <3>1. i = id
      BY <2>2, <2>5, ArchivesAssumption DEF OwnPath
    <3>2. QED BY <2>1, <3>1
  <2>6. CASE p.path # id
    BY <2>1, <2>2, <2>4, <2>6 DEF Swept
  <2>7. QED BY <2>5, <2>6
<1>2. QED BY <1>1, EntriesOnlyGo

LEMMA AsksAnew ==
  ASSUME ArchivesInv, RetryInv, NEW r \in Askers, NEW id \in Ids, NEW next, AskAt(r, "idle"), Free(id), EntriesGo,
         run' = run, AskGoes(r, next), next.at \in Unasked, next.id = id, OwnPath(next.path, id)
  PROVE  EntryPaths' /\ AskPaths' /\ NotYet' /\ SameEntry'
<1>1. ask'[r] = next /\ \A s \in Askers : s # r => ask'[s] = ask[s]
  BY AskIs DEF ArchivesInv
<1>2. PathsGo
  BY PathsGoToo
<1>3. \A s \in Askers : ask[s].at \in Unasked \union {"asked"} => ask[s].id # id
  BY DEF Free, Waits, AskAt, Unasked
<1>4. AskPaths'
  BY <1>1 DEF RetryInv, AskPaths
<1>5. NotYet'
  <2> SUFFICES ASSUME NEW b \in Askers, ask'[b].at \in Unasked
               PROVE  /\ pending'[ask'[b].id] = {} /\ (Running' => run'.id # ask'[b].id)
                      /\ \A s \in Askers : ask'[s].at \in Unasked \union {"asked"} /\ ask'[s].id = ask'[b].id => s = b
    BY DEF NotYet
  <2>1. Running' <=> Running
    BY DEF Running
  <2>2. CASE b = r
    <3>1. pending'[id] = {} /\ (Running' => run'.id # id)
      BY <1>2, <2>1, EntriesStay DEF Free
    <3>2. QED BY <1>1, <1>3, <2>2, <3>1
  <2>3. CASE b # r
    <3>1. ask[b].at \in Unasked /\ ask'[b] = ask[b] /\ ask[b].id \in Ids
      BY <1>1, <2>3, AskShape DEF ArchivesInv, Unasked, Uploads
    <3>2. pending[ask[b].id] = {} /\ (Running => run.id # ask[b].id)
          /\ \A s \in Askers : ask[s].at \in Unasked \union {"asked"} /\ ask[s].id = ask[b].id => s = b
      BY <3>1 DEF RetryInv, NotYet
    <3>3. pending'[ask[b].id] = {}
      BY <1>2, <3>1, <3>2, EntriesStay
    <3>4. QED BY <1>1, <1>3, <2>1, <3>1, <3>2, <3>3
  <2>4. QED BY <2>2, <2>3
<1>6. SameEntry'
  <2>1. ASSUME NEW b \in Askers, AskAt(b, "asked")' PROVE \A p \in pending'[ask'[b].id] : p.path = ask'[b].path
    <3>1. ask'[b] = ask[b] /\ AskAt(b, "asked")
      BY <1>1, <2>1 DEF AskAt, Unasked
    <3>2. ask[b].id \in Ids
      BY <3>1, AskShape DEF ArchivesInv, AskAt, RestoreAsks
    <3>3. \A p \in pending[ask[b].id] : p.path = ask[b].path
      BY <3>1 DEF RetryInv, SameEntry
    <3>4. QED BY <1>2, <3>1, <3>2, <3>3, EntriesStay
  <2>2. ASSUME Running' PROVE \A p \in pending'[run'.id] : p.path = run'.path
    <3>1. Running /\ run.id \in Ids
      BY <2>2, RunShape DEF ArchivesInv, Runs, Running
    <3>2. \A p \in pending[run.id] : p.path = run.path
      BY <3>1 DEF RetryInv, SameEntry
    <3>3. QED BY <1>2, <3>1, <3>2, EntriesStay
  <2>3. \A i \in Ids : \A p, q \in pending'[i] : p.path = q.path
    BY <1>2 DEF RetryInv, SameEntry, PathsGo
  <2>4. QED BY <2>1, <2>2, <2>3 DEF SameEntry
<1>7. QED BY <1>2, <1>4, <1>5, <1>6, EntriesStay

LEMMA ArriveRetry ==
  ASSUME ArchivesInv, RetryInv, NEW r \in Askers, NEW id \in Ids, Arrive(r, id) \/ \E n \in Names : Name(r, id, n)
  PROVE  RetryInv'
<1>1. AskAt(r, "idle") /\ Free(id) /\ pending' = SweptPending /\ UNCHANGED <<newest, run, staging>>
  BY DEF Arrive, Name
<1>2. \A f \in Files : f # id => disk'[f] = Swept(f)
  BY DEF Arrive, Name, ArchivesInv, ArchivesTypeOK
<1>3. EntriesGo
  BY <1>1, <1>2, SweepGoes DEF Free
<1>4. PICK next : AskGoes(r, next) /\ next.at \in Unasked /\ next.id = id /\ OwnPath(next.path, id)
  <2>1. ASSUME NEW at \in Unasked, NEW path, OwnPath(path, id), AskGoes(r, [at |-> at, id |-> id, path |-> path])
        PROVE  \E next : AskGoes(r, next) /\ next.at \in Unasked /\ next.id = id /\ OwnPath(next.path, id)
    BY <2>1
  <2>2. CASE Arrive(r, id)
    BY <2>1, <2>2 DEF Arrive, Unasked, OwnPath
  <2>3. ASSUME NEW n \in Names, Name(r, id, n)
        PROVE  \E next : AskGoes(r, next) /\ next.at \in Unasked /\ next.id = id /\ OwnPath(next.path, id)
    BY <2>1, <2>3 DEF Name, Unasked, OwnPath
  <2>4. QED BY <2>2, <2>3
<1>5. EntryPaths' /\ AskPaths' /\ NotYet' /\ SameEntry'
  BY <1>1, <1>3, <1>4, AsksAnew
<1>6. Fitting'
  BY <1>1, <1>3, SameRunStays, FittingStays
<1>7. QED BY <1>5, <1>6 DEF RetryInv

LEMMA AskRetry ==
  ASSUME ArchivesInv, RetryInv, NEW r \in Askers, NEW id \in Ids, Ask(r, id)
  PROVE  RetryInv'
<1>1. PICK p \in pending[id] : AskGoes(r, [at |-> "asked", id |-> id, path |-> p.path, typed |-> p.asks])
  BY DEF Ask
<1>2. PICK next : AskGoes(r, next) /\ next.at = "asked" /\ next.id = id /\ next.path = p.path
  BY <1>1
<1>3. ask'[r] = next /\ \A s \in Askers : s # r => ask'[s] = ask[s]
  BY <1>2, AskIs DEF ArchivesInv
<1>4. UNCHANGED <<disk, pending, newest, staging, run>>
  BY DEF Ask
<1>5. EntryPaths' /\ AskPaths'
  BY <1>2, <1>3, <1>4 DEF RetryInv, EntryPaths, AskPaths, Unasked
<1>6. NotYet'
  <2>1. \A s \in Askers : ask[s].at \in Unasked => ask[s].id # id
    BY DEF RetryInv, NotYet
  <2>2. Running' <=> Running
    BY <1>4 DEF Running
  <2>3. QED BY <1>2, <1>3, <1>4, <2>1, <2>2 DEF RetryInv, NotYet, Unasked
<1>7. SameEntry'
  <2>1. \A q \in pending[id] : q.path = p.path
    BY DEF RetryInv, SameEntry
  <2>2. Running' <=> Running
    BY <1>4 DEF Running
  <2>3. QED BY <1>2, <1>3, <1>4, <2>1, <2>2 DEF RetryInv, SameEntry, AskAt
<1>8. Fitting'
  <2>1. EntriesGo
    BY <1>4, EntriesOnlyGo
  <2>2. QED BY <1>4, <2>1, SameRunStays, FittingStays
<1>9. QED BY <1>5, <1>6, <1>7, <1>8 DEF RetryInv

\* What an inspection offers fits what it has seen, if that is still there.
LEMMA OfferedRetry ==
  ASSUME ArchivesInv, RetryInv, NEW r \in Askers, Offered(r)
  PROVE  RetryInv'
<1>1. PICK a \in staging : pending' = [pending EXCEPT ![ask[r].id] =
         {[path |-> ask[r].path, asks |-> Phrase(a.made), fresh |-> disk[ask[r].path] = staging]}]
  BY DEF Offered
<1>2. PICK e : e = [path |-> ask[r].path, asks |-> Phrase(a.made), fresh |-> disk[ask[r].path] = staging]
  OBVIOUS
<1>3. e.path = ask[r].path /\ e.asks = Phrase(a.made) /\ (e.fresh <=> disk[ask[r].path] = staging)
  BY <1>2
<1>4. AskGoes(r, NoAsk) /\ UNCHANGED <<disk, newest, run>> /\ ask[r].at \in Unasked /\ ~Running
  BY DEF Offered, AskAt, Unasked, ArchivesInv, OneAtWork, Inspecting
<1>5. ask'[r] = NoAsk /\ \A s \in Askers : s # r => ask'[s] = ask[s]
  BY <1>4, AskIs DEF ArchivesInv
<1>6. PICK id \in Ids : id = ask[r].id
  BY <1>4, AskShape DEF ArchivesInv, Unasked, Uploads
<1>7. pending'[id] = {e} /\ \A i \in Ids : i # id => pending'[i] = pending[i]
  BY <1>1, <1>2, <1>6 DEF ArchivesInv, ArchivesTypeOK
<1>8. ask[r].path \in Files /\ OwnPath(ask[r].path, id)
  BY <1>4, <1>6, AskShape DEF ArchivesInv, Unasked, Uploads, RetryInv, AskPaths
<1>9. \A s \in Askers : s # r /\ ask[s].at \in Unasked \union {"asked"} => ask[s].id # id
  BY <1>4, <1>6 DEF RetryInv, NotYet
<1>10. ~Running' /\ ~Opened' /\ ~Opened
  BY <1>4 DEF Running, Opened
<1>11. EntryPaths'
  BY <1>3, <1>7, <1>8 DEF RetryInv, EntryPaths
<1>12. AskPaths'
  BY <1>5 DEF RetryInv, AskPaths, NoAsk, Unasked
<1>13. \A b \in Askers : ask'[b].at \in Unasked \union {"asked"} => b # r /\ ask'[b] = ask[b] /\ ask[b].id \in Ids
  BY <1>5, AskShape DEF NoAsk, Unasked, Uploads, RestoreAsks, ArchivesInv
<1>14. NotYet'
  BY <1>7, <1>9, <1>10, <1>13 DEF RetryInv, NotYet
<1>15. SameEntry'
  <2>1. \A i \in Ids : \A p, q \in pending'[i] : p.path = q.path
    BY <1>7 DEF RetryInv, SameEntry
  <2>2. \A b \in Askers : AskAt(b, "asked")' => \A p \in pending'[ask'[b].id] : p.path = ask'[b].path
    BY <1>7, <1>9, <1>13 DEF RetryInv, SameEntry, AskAt
  <2>3. QED BY <1>10, <2>1, <2>2 DEF SameEntry
<1>16. Fitting'
  <2> SUFFICES ASSUME NEW i \in Ids, NEW p \in pending'[i], p.fresh PROVE AsAsked(p)'
    BY <1>10 DEF Fitting, UnderWay
  <2>1. CASE i = id
    <3>1. p = e /\ disk[e.path] = staging /\ Single(disk[e.path])
      BY <1>3, <1>7, <1>8, <2>1 DEF ArchivesInv, SingleFiles
    <3>2. \A b \in disk[e.path] : e.asks = Phrase(b.made)
      BY <1>3, <3>1 DEF Single
    <3>3. QED BY <1>4, <3>1, <3>2 DEF AsAsked, Phrase
  <2>2. CASE i # id
    <3>1. AsAsked(p)
      BY <1>7, <1>10, <2>2 DEF RetryInv, Fitting, UnderWay
    <3>2. QED BY <1>4, <3>1 DEF AsAsked, Phrase
  <2>3. QED BY <2>1, <2>2
<1>17. QED BY <1>11, <1>12, <1>14, <1>15, <1>16 DEF RetryInv

LEMMA BeginsRetry ==
  ASSUME ArchivesInv, RetryInv, NEW r \in Askers, Begins(r)
  PROVE  RetryInv'
<1>1. AskGoes(r, NoAsk) /\ AskAt(r, "asked") /\ UNCHANGED <<disk, pending, newest, staging>>
  BY DEF Begins
<1>2. EntriesGo
  BY <1>1, EntriesOnlyGo
<1>3. \A s \in Askers : GoesOnWith(ask'[s], ask[s])
  BY <1>1, EndsGoes, AskGoesOn DEF ArchivesInv
<1>4. CASE Locked
  <2>1. run' = run
    BY <1>4 DEF Begins
  <2>2. QED BY <1>1, <1>2, <1>3, <2>1, RetryStill
<1>5. CASE ~Locked
  <2>1. run' = RunOf(r) /\ ~Running
    BY <1>5 DEF Begins, Locked
  <2>2. run'.id = ask[r].id /\ run'.path = ask[r].path /\ ~Opened /\ ~Opened'
    BY <2>1 DEF RunOf, Opened, Running
  <2>3. ask'[r] = NoAsk /\ \A s \in Askers : s # r => ask'[s] = ask[s]
    BY <1>1, AskIs DEF ArchivesInv
  <2>4. EntryPaths' /\ AskPaths'
    BY <1>1, <2>3 DEF RetryInv, EntryPaths, AskPaths, NoAsk, Unasked
  <2>5. \A b \in Askers : ask'[b].at \in Unasked \union {"asked"} => b # r /\ ask'[b] = ask[b]
    BY <2>3 DEF NoAsk, Unasked
  <2>6. NotYet'
    <3>1. \A b \in Askers : b # r /\ ask[b].at \in Unasked => ask[b].id # ask[r].id
      BY <1>1 DEF RetryInv, NotYet, AskAt, Unasked
    <3>2. QED BY <1>1, <2>2, <2>5, <3>1 DEF RetryInv, NotYet
  <2>7. SameEntry'
    <3>1. \A p \in pending[ask[r].id] : p.path = ask[r].path
      BY <1>1 DEF RetryInv, SameEntry
    <3>2. \A b \in Askers : AskAt(b, "asked")' => \A p \in pending[ask'[b].id] : p.path = ask'[b].path
      BY <2>5 DEF RetryInv, SameEntry, AskAt
    <3>3. QED BY <1>1, <2>2, <3>1, <3>2 DEF RetryInv, SameEntry
  <2>8. Fitting'
    <3>1. \A i \in Ids : ~UnderWay(i) /\ ~UnderWay(i)'
      BY <2>2 DEF UnderWay
    <3>2. \A p : AsAsked(p)' <=> AsAsked(p)
      BY <1>1 DEF AsAsked, Phrase
    <3>3. QED BY <1>1, <3>1, <3>2 DEF RetryInv, Fitting
  <2>9. QED BY <2>4, <2>6, <2>7, <2>8 DEF RetryInv
<1>6. QED BY <1>4, <1>5

LEMMA OpensRetry ==
  ASSUME ArchivesInv, RetryInv, Opens
  PROVE  RetryInv'
<1>1. Running /\ ~Opened /\ Becomes("opened") /\ staging' = disk[run.path] /\ UNCHANGED <<disk, pending, newest, ask>>
  BY DEF Opens, Running, Opened
<1>2. PICK s \in Runs : s = run
  BY <1>1, RunShape DEF ArchivesInv
<1>3. run'.id = run.id /\ run'.path = run.path /\ run'.at = "opened"
  BY <1>1, <1>2 DEF Becomes, Runs
<1>4. PathsGo
  BY <1>1 DEF PathsGo
<1>5. EntryPaths' /\ AskPaths' /\ NotYet' /\ SameEntry'
  BY <1>1, <1>3, <1>4, SameAsks, AsksStay
<1>6. Fitting'
  <2> SUFFICES ASSUME NEW i \in Ids, NEW p \in pending[i], p.fresh
               PROVE  IF UnderWay(i)' THEN disk[p.path] = staging' ELSE AsAsked(p)'
    BY <1>1 DEF Fitting
  <2>1. AsAsked(p)
    BY <1>1 DEF RetryInv, Fitting, UnderWay
  <2>2. AsAsked(p)'
    BY <1>1, <2>1 DEF AsAsked, Phrase
  <2>3. UnderWay(i)' => i = run.id
    BY <1>3 DEF UnderWay
  <2>4. i = run.id => p.path = run.path
    BY <1>1 DEF RetryInv, SameEntry
  <2>5. QED BY <1>1, <2>2, <2>3, <2>4
<1>7. QED BY <1>5, <1>6 DEF RetryInv

LEMMA RunRetry ==
  ASSUME ArchivesInv, RetryInv, Confirms \/ SavedUnverified \/ LoadsStaging \/ \E n \in Names : Saves(n)
  PROVE  RetryInv'
<1>1. Opened /\ Running /\ UNCHANGED <<staging, ask>>
  BY DEF Confirms, SavedUnverified, LoadsStaging, Saves, Opened, Running
<1>2. PICK s \in Runs : s = run
  BY <1>1, RunShape DEF ArchivesInv
<1>3. \A at \in {"confirmed", "saved", "doomed"} : Becomes(at) => run'.id = run.id /\ run'.path = run.path /\ run'.at = at
  BY <1>2 DEF Becomes, Runs
<1>4. SameRun
  <2>1. run'.id = run.id /\ run'.path = run.path /\ run'.at \in {"confirmed", "saved", "doomed", "loaded"}
    BY <1>2, <1>3 DEF Confirms, SavedUnverified, LoadsStaging, Saves, Runs
  <2>2. QED BY <1>1, <2>1 DEF SameRun, Opened, Running
<1>5. EntriesGo
  <2>1. CASE Confirms \/ LoadsStaging
    BY <2>1, EntriesOnlyGo DEF Confirms, LoadsStaging
  <2>2. PICK S : S = Ids \ {run.id}
    OBVIOUS
  <2>3. \A i \in Ids : i \in S \/ UnderWay(i)
    BY <1>1, <2>2 DEF UnderWay
  <2>4. CASE SavedUnverified
    BY <2>2, <2>3, <2>4, OutdatedGo DEF SavedUnverified, ArchivesInv
  <2>5. ASSUME NEW n \in Names, Saves(n) PROVE EntriesGo
    <3>1. ASSUME NEW i \in Ids \ S, NEW p \in pending[i], p.fresh PROVE disk'[p.path] = disk[p.path]
      <4>1. UnderWay(i) /\ i = run.id
        BY <2>2, <2>3, <3>1
      <4>2. disk[p.path] = staging /\ p.path = run.path
        BY <1>1, <3>1, <4>1 DEF RetryInv, Fitting, SameEntry
      <4>3. p.path # n
        BY <1>1, <2>5, <4>2 DEF Saves, ArchivesInv, InStaging
      <4>4. p.path \in DOMAIN disk
        BY <3>1, EntryFile
      <4>5. QED BY <2>5, <4>2, <4>3, <4>4 DEF Saves, Spares
    <3>2. pending' = Outdated(S)
      BY <2>2, <2>5 DEF Saves
    <3>3. QED BY <2>3, <3>1, <3>2, OutdatedGo DEF ArchivesInv
  <2>6. QED BY <2>1, <2>4, <2>5
<1>6. QED BY <1>1, <1>4, <1>5, SameAsks, RetryStays

\* The run is over, and what it had in staging is what its entry asks for.
Renewed(p) == \E q \in pending[run.id] : q.fresh /\ q.path = p.path /\ \E a \in staging : p.asks = Phrase(a.made)

\* What is left of an entry.
LeftOf(i, p, q) == p.path = q.path /\ (p.fresh => (p = q /\ ~UnderWay(i)) \/ (UnderWay(i) /\ Renewed(p)))

LEMMA EndsRetry ==
  ASSUME ArchivesInv, RetryInv, Succeeds \/ Fails \/ EndsUntidy
  PROVE  RetryInv'
<1>1. Running /\ run' = NoRestore /\ UNCHANGED <<ask, newest>> /\ \A f \in Files : disk'[f] = disk[f] \/ disk'[f] = {}
  BY DEF Succeeds, Fails, EndsUntidy, Tidied, Running, Without, ArchivesInv, ArchivesTypeOK
<1>2. ~Running' /\ ~Opened' /\ run.id \in Ids
  BY <1>1, RunShape DEF Running, Opened, NoRestore, Runs, ArchivesInv
<1>3. ASSUME NEW i \in Ids, NEW p, pending' = [pending EXCEPT ![run.id] = {}], p \in pending'[i]
      PROVE  \E q \in pending[i] : LeftOf(i, p, q)
  <2>1. i # run.id /\ p \in pending[i]
    BY <1>2, <1>3 DEF ArchivesInv, ArchivesTypeOK
  <2>2. LeftOf(i, p, p)
    BY <2>1 DEF LeftOf, UnderWay
  <2>3. QED BY <2>1, <2>2
<1>4. ASSUME NEW i \in Ids, NEW p, pending' = pending, ~Opened, p \in pending'[i]
      PROVE  \E q \in pending[i] : LeftOf(i, p, q)
  BY <1>4 DEF LeftOf, UnderWay
<1>5. ASSUME NEW i \in Ids, NEW p, pending' = Outdated({run.id}), p \in pending'[i]
      PROVE  \E q \in pending[i] : LeftOf(i, p, q)
  <2>1. PICK q \in pending[i] : p.path = q.path /\ (p.fresh => i \notin {run.id} /\ p = q)
    BY <1>5, OutdatedIs DEF ArchivesInv
  <2>2. LeftOf(i, p, q)
    BY <2>1 DEF LeftOf, UnderWay
  <2>3. QED BY <2>2
<1>6. ASSUME NEW i \in Ids, NEW p, pending' = Refreshed, Opened, p \in pending'[i]
      PROVE  \E q \in pending[i] : LeftOf(i, p, q)
  <2>1. PICK q \in pending[i] : /\ p.path = q.path /\ p.fresh = q.fresh /\ (i # run.id => p = q)
                                /\ staging # {} /\ i = run.id => \E a \in staging : p.asks = Phrase(a.made)
    BY <1>1, <1>6, RefreshedIs DEF ArchivesInv
  <2>2. staging # {}
    BY <1>6 DEF ArchivesInv, InStaging
  <2>3. LeftOf(i, p, q)
    BY <1>6, <2>1, <2>2 DEF LeftOf, UnderWay, Renewed
  <2>4. QED BY <2>3
<1>7. (run.at = "begun" => ~Opened) /\ (run.at # "begun" => Opened)
  BY <1>1, RunShape DEF ArchivesInv, Opened, Runs
<1>8. ASSUME NEW i \in Ids, NEW p \in pending'[i] PROVE \E q \in pending[i] : LeftOf(i, p, q)
  <2>1. CASE Succeeds
    BY <1>3, <1>8, <2>1 DEF Succeeds, Tidied
  <2>2. CASE Fails
    BY <1>3, <1>4, <1>6, <1>7, <1>8, <2>2 DEF Fails, Tidied
  <2>3. CASE EndsUntidy
    BY <1>5, <1>6, <1>7, <1>8, <2>3 DEF EndsUntidy
  <2>4. QED BY <2>1, <2>2, <2>3
<1>9. PathsGo
  BY <1>8 DEF PathsGo, LeftOf
<1>10. EntryPaths' /\ AskPaths' /\ NotYet' /\ SameEntry'
  BY <1>1, <1>2, <1>9, SameAsks, AsksStay
<1>11. Fitting'
  <2> SUFFICES ASSUME NEW i \in Ids, NEW p \in pending'[i], p.fresh PROVE AsAsked(p)'
    BY <1>2 DEF Fitting, UnderWay
  <2>1. PICK q \in pending[i] : LeftOf(i, p, q)
    BY <1>8
  <2>2. p.path \in Files
    BY <2>1, EntryFile DEF LeftOf
  <2>3. AsAsked(p)
    <3>1. CASE p = q /\ ~UnderWay(i)
      BY <3>1 DEF RetryInv, Fitting
    <3>2. CASE UnderWay(i) /\ Renewed(p)
      <4>1. disk[p.path] = staging /\ Single(staging)
        BY <1>2, <3>2 DEF Renewed, RetryInv, Fitting, UnderWay, ArchivesInv, InStaging
      <4>2. PICK a \in staging : p.asks = Phrase(a.made)
        BY <3>2 DEF Renewed
      <4>3. QED BY <4>1, <4>2 DEF AsAsked, Single
    <3>3. QED BY <2>1, <3>1, <3>2 DEF LeftOf
  <2>4. QED BY <1>1, <2>2, <2>3 DEF AsAsked, Phrase
<1>12. QED BY <1>10, <1>11 DEF RetryInv

LEMMA StartsAgainRetry ==
  ASSUME StartsAgain
  PROVE  RetryInv'
<1>1. (\A i \in Ids : pending'[i] = {}) /\ (\A r \in Askers : ask'[r] = NoAsk) /\ run' = NoRestore
  BY DEF StartsAgain
<1>2. ~Running'
  BY <1>1 DEF Running, NoRestore
<1>3. QED BY <1>1, <1>2 DEF RetryInv, EntryPaths, AskPaths, NotYet, SameEntry, Fitting, NoAsk, Unasked, AskAt

LEMMA RetryStart == ArchivesInit => RetryInv
<1> SUFFICES ASSUME ArchivesInit PROVE RetryInv
  OBVIOUS
<1>1. (\A i \in Ids : pending[i] = {}) /\ (\A r \in Askers : ask[r] = NoAsk) /\ ~Running
  BY DEF ArchivesInit, Running, NoRestore
<1>2. QED BY <1>1 DEF RetryInv, EntryPaths, AskPaths, NotYet, SameEntry, Fitting, NoAsk, Unasked, AskAt

LEMMA RetryStep ==
  ASSUME ArchivesInv, RetryInv, [ArchivesNext]_archives
  PROVE  RetryInv'
<1>1. ASSUME NEW r \in Askers, \E i \in Ids : Arrive(r, i) \/ Ask(r, i) \/ \E n \in Names : Name(r, i, n)
      PROVE RetryInv'
  BY <1>1, ArriveRetry, AskRetry
<1>2. ASSUME NEW r \in Askers,
             \/ \E d \in 0..MaxMade, ok \in BOOLEAN : Arrived(r, d, ok)
             \/ ArriveFails(r) \/ Busy(r) \/ Inspect(r) \/ Rejected(r) \/ Stuck(r)
      PROVE RetryInv'
  <2>1. \A d \in 0..MaxMade : d \in Nat
    BY ArchivesAssumption
  <2>2. QED BY <1>2, <2>1, UploadsRetry
<1>3. ASSUME NEW r \in Askers, Offered(r) \/ Begins(r) PROVE RetryInv'
  BY <1>3, OfferedRetry, BeginsRetry
<1>4. ASSUME DayGoesBy \/ (\E i \in Ids : Discard(i)) \/ \E r \in Askers : Fetch(r) \/ Fetched(r) PROVE RetryInv'
  BY <1>4, OthersRetry
<1>5. ASSUME Opens \/ Confirms \/ SavedUnverified \/ (\E n \in Names : Saves(n)) \/ LoadsStaging PROVE RetryInv'
  BY <1>5, OpensRetry, RunRetry
<1>6. ASSUME Succeeds \/ Fails \/ EndsUntidy \/ StartsAgain PROVE RetryInv'
  BY <1>6, EndsRetry, StartsAgainRetry
<1>7. ASSUME NEW n \in Names,
             Backup(n) \/ DeleteStored(n) \/ \E d \in 0..MaxMade, ok \in BOOLEAN : Overwrite(n, d, ok)
      PROVE RetryInv'
  BY <1>7, HandRetry
<1>8. CASE UNCHANGED archives
  <2>1. UNCHANGED <<disk, pending, newest, ask, run, staging>>
    BY <1>8 DEF archives
  <2>2. QED BY <2>1, EntriesOnlyGo, SameAsks, RetryStill
<1>9. QED BY <1>1, <1>2, <1>3, <1>4, <1>5, <1>6, <1>7, <1>8 DEF ArchivesNext

\* After a failed run the archive may be tried again with the phrase that is
\* shown for it (restore._refresh_phrase), whatever uploads, inspections and
\* backups come between, unless something was recorded since.
THEOREM RetriesFit == ArchivesSpec => []RetryFits
<1>1. ArchivesInv /\ RetryInv => RetryFits
  <2> SUFFICES ASSUME RetryInv, ~Running PROVE RetryFits
    BY DEF RetryFits
  <2>1. ~Opened
    BY DEF Opened, Running
  <2>2. QED BY <2>1 DEF RetryFits, RetryInv, Fitting, UnderWay, AsAsked
<1>2. ArchivesInv /\ RetryInv /\ [ArchivesNext]_archives => RetryInv'
  BY RetryStep
<1>3. QED BY <1>1, <1>2, RetryStart, ArchivesInvHolds, PTL DEF ArchivesSpec

\* The archive a restore is made from is not taken from under it
\* (backup.write_prerestore, routers/backup.delete_stored_backup).
THEOREM RestoredIsKept == ArchivesSpec => RestoredStays
<1>1. ASSUME ArchivesInv, ArchivesNext, Running, Running', run.path \in Names, disk[run.path] # {}
      PROVE  disk'[run.path] # {}
  <2>1. run.path \in Files /\ run.path \notin Ids
    BY <1>1, ArchivesAssumption DEF Files
  <2>2. PICK f : f = run.path /\ f \in Files /\ f \notin Ids /\ disk[f] # {} /\ f \in Names
    BY <1>1, <2>1
  <2>3. f \notin Stale
    BY <1>1, <2>2 DEF Stale, ArchivesInv, ArchivesTypeOK
  <2>4. Running /\ Running' /\ DOMAIN disk = Files /\ (\A n \in Ids : n # f) /\ (\A n \in Names : f \notin Names \ Spares(n))
    BY <1>1, <2>2 DEF ArchivesInv, ArchivesTypeOK, Spares
  <2>5. ASSUME NEW r \in Askers, ask[r].at \in Unasked PROVE ask[r].id # f
    BY <1>1, <2>2, <2>5, AskShape DEF ArchivesInv, Unasked, Uploads
  <2>6. ASSUME NEW r \in Askers, NEW i \in Ids, Arrive(r, i) \/ Ask(r, i) \/ \E n \in Names : Name(r, i, n)
        PROVE  disk'[f] = disk[f]
    BY <2>2, <2>3, <2>4, <2>6 DEF Arrive, Ask, Name, Swept
  <2>7. ASSUME NEW r \in Askers,
               \/ \E d \in 0..MaxMade, ok \in BOOLEAN : Arrived(r, d, ok)
               \/ ArriveFails(r) \/ Busy(r) \/ Rejected(r)
        PROVE  disk'[f] = disk[f]
    <3>1. ask[r].id # f
      BY <2>5, <2>7 DEF Arrived, ArriveFails, Busy, Rejected, AskAt, Unasked
    <3>2. QED BY <2>2, <2>4, <2>7, <3>1 DEF Arrived, ArriveFails, Busy, Rejected, DropUpload, Without
  <2>8. ASSUME NEW r \in Askers, Inspect(r) \/ Stuck(r) \/ Offered(r) \/ Begins(r) \/ Fetch(r) \/ Fetched(r)
        PROVE  disk'[f] = disk[f]
    BY <2>8 DEF Inspect, Stuck, Offered, Begins, Fetch, Fetched
  <2>9. ASSUME NEW i \in Ids, Discard(i) PROVE disk'[f] = disk[f]
    BY <2>2, <2>4, <2>9 DEF Discard, Without
  <2>10. ASSUME Opens \/ Confirms \/ SavedUnverified \/ LoadsStaging \/ DayGoesBy PROVE disk'[f] = disk[f]
    BY <2>10 DEF Opens, Confirms, SavedUnverified, LoadsStaging, DayGoesBy
  <2>11. ~(Succeeds \/ Fails \/ EndsUntidy \/ StartsAgain)
    BY <2>4 DEF Succeeds, Fails, EndsUntidy, StartsAgain, Tidied, Running, NoRestore
  <2>12. ASSUME NEW n \in Names, Saves(n) PROVE disk'[f] = disk[f]
    BY <2>2, <2>4, <2>12 DEF Saves
  <2>13. \A n \in Names : ~Backup(n) /\ ~DeleteStored(n)
    BY <2>4 DEF Backup, DeleteStored
  <2>14. ASSUME NEW n \in Names, NEW d \in 0..MaxMade, NEW ok \in BOOLEAN, Overwrite(n, d, ok) PROVE disk'[f] # {}
    BY <2>2, <2>4, <2>14 DEF Overwrite
  <2>15. disk'[f] # {}
    BY <1>1, <2>2, <2>6, <2>7, <2>8, <2>9, <2>10, <2>11, <2>12, <2>13, <2>14 DEF ArchivesNext
  <2>16. QED BY <2>2, <2>15
<1>2. ArchivesInv /\ [ArchivesNext]_archives =>
        [(Running /\ Running' /\ run.path \in Names) => (disk[run.path] # {} => disk'[run.path] # {})]_archives
  BY <1>1
<1>3. QED BY <1>2, ArchivesInvHolds, PTL DEF ArchivesSpec, RestoredStays

-----------------------------------------------------------------------------
KeySteps == {"rests", "clears", "creates", "fills", "places", "tidies"}
KeyFiles == 0 .. MaxIdentities
KeyTexts == Seq(1 .. MaxIdentities)

KeyFileTypeOK ==
  /\ names \in [{"key", "partial"} -> KeyFiles]
  /\ text \in [1 .. MaxIdentities -> KeyTexts]
  /\ minted \in KeyFiles
  /\ writer \in [KeyWriters -> [at : KeySteps, kind : {"start", "rotate"}, id : KeyFiles, was : KeyTexts]]
  /\ used \subseteq 1 .. MaxIdentities

\* A rotation that has, or had, another writer beside it: nothing is promised of
\* what was minted until now.
Contested == 1 .. minted \subseteq contested

\* What is in a file, or was read of one, has been minted.
Minted ==
  /\ \A f \in 1 .. MaxIdentities : \A i \in DOMAIN text[f] : text[f][i] \in 1 .. minted
  /\ \A w \in KeyWriters : \A i \in DOMAIN writer[w].was : writer[w].was[i] \in 1 .. minted
  /\ used \subseteq 1 .. minted

\* A writer at rest works on nothing, the others on a file of their own.
OwnFiles ==
  /\ \A w \in KeyWriters : writer[w].at = "rests" => writer[w] = Resting
  /\ \A w \in Working : writer[w].at # "rests" /\ writer[w].id \in 1 .. minted
  /\ \A v, w \in Working : writer[v].id = writer[w].id => v = w

\* A file is empty until its writer has filled it.
Unwritten ==
  \A w \in Working : writer[w].at \in {"clears", "creates", "fills"} => text[writer[w].id] = <<>>

\* Nobody works beside a rotation, or its beginning contested what there was.
RotatesAlone == Contested \/ \A v, w \in Working : writer[v].kind = "rotate" => v = w

\* What a rotation found is what the key file still holds, and the file it
\* will put in its place has all of it behind the new identity.
Carries(w) ==
    /\ writer[w].was = InFile /\ InFile # <<>>
    /\ writer[w].at # "tidies"
    /\ writer[w].at \in {"fills", "places"} => names["partial"] = writer[w].id
    /\ writer[w].at = "places" => text[writer[w].id] = <<writer[w].id>> \o writer[w].was
CarriesOver == Contested \/ \A w \in Working : writer[w].kind = "rotate" => Carries(w)

\* KeyFiles not yet made are empty.
Ahead == \A f \in 1 .. MaxIdentities : f > minted => text[f] = <<>>

KeyInv == KeyFileTypeOK /\ OwnFiles /\ Unwritten /\ RotatesAlone /\ CarriesOver /\ Ahead /\ Minted /\ KeyKept

-----------------------------------------------------------------------------
\* What the key file holds is a sequence of identities.
LEMMA InFileType == KeyInv => InFile \in KeyTexts
<1>1. ASSUME KeyInv, names["key"] # None PROVE text[names["key"]] \in KeyTexts
  BY <1>1, KeyFileAssumption DEF KeyInv, KeyFileTypeOK, None, KeyFiles
<1>2. <<>> \in KeyTexts
  BY DEF KeyTexts
<1>3. QED BY <1>1, <1>2 DEF InFile

\* The first identity of a key file that has one.
LEMMA HeadIsFirst ==
  ASSUME NEW Identities, NEW s \in Seq(Identities), s # <<>>
  PROVE  1 \in DOMAIN s /\ s[1] = Head(s) /\ Head(s) \in Identities
<1>1. Len(s) # 0
  BY SMT
<1>2. 1 \in DOMAIN s /\ s[1] \in Identities
  BY <1>1
<1>3. Head(s) = s[1]
  BY <1>1
<1>4. QED BY <1>2, <1>3

LEMMA KeyInitKeeps == KeyFileInit => KeyInv
<1> SUFFICES ASSUME KeyFileInit PROVE KeyInv
  OBVIOUS
<1>1. KeyFileTypeOK
  BY KeyFileAssumption DEF KeyFileInit, KeyFileTypeOK, Resting, None, KeySteps, KeyFiles, KeyTexts
<1>2. Working = {}
  BY DEF Working, KeyFileInit
<1>3. Minted
  BY <1>1 DEF KeyFileInit, Minted, Resting
<1>4. QED BY <1>1, <1>2, <1>3 DEF KeyInv, OwnFiles, Unwritten, RotatesAlone, CarriesOver, Ahead, KeyKept,
        KeyFileInit, Resting

\* What is contested is excepted whole.
LEMMA ContestedKeeps ==
  ASSUME Minted', Contested'
  PROVE  KeyKept'
  BY DEF Minted, Contested, KeyKept

-----------------------------------------------------------------------------
\* A start or a rotation begins: the identity is new, and where a rotation
\* meets another writer everything minted is contested.
LEMMA SetsKeeps ==
  ASSUME KeyInv, NEW w \in KeyWriters, NEW kind \in {"start", "rotate"},
         kind = "rotate" => InFile # <<>>, Sets(w, kind)
  PROVE  KeyInv'
<1>1. InFile' = InFile
  BY DEF InFile, Sets
<1>2. writer[w] = Resting /\ minted < MaxIdentities /\ minted' = minted + 1 /\ UNCHANGED <<names, text, used>>
  BY DEF Sets
<1>3. writer' = [writer EXCEPT ![w] = [at |-> "clears", kind |-> kind, id |-> minted + 1, was |-> InFile]]
  BY DEF Sets
<1>4. Working' = Working \union {w} /\ w \notin Working
  BY <1>2, <1>3 DEF Working, Resting, KeyInv, KeyFileTypeOK
<1>5. \A v \in Working : v # w /\ writer'[v] = writer[v]
  BY <1>3, <1>4 DEF KeyInv, KeyFileTypeOK, Working
<1>6. writer'[w] = [at |-> "clears", kind |-> kind, id |-> minted + 1, was |-> InFile]
  BY <1>3 DEF KeyInv, KeyFileTypeOK
<1>7. Contested' \/ (contested' = contested /\ \A v \in Working : writer[v].kind # "rotate" /\ kind # "rotate")
  BY DEF Sets, BesideRotation, Contested
<1>8. KeyFileTypeOK'
  BY <1>2, <1>3, InFileType, KeyFileAssumption DEF KeyInv, KeyFileTypeOK, KeySteps, KeyFiles
<1>9. OwnFiles'
  <2>1. \A v \in KeyWriters : writer'[v].at = "rests" => writer'[v] = Resting
    BY <1>3 DEF KeyInv, KeyFileTypeOK, OwnFiles
  <2>2. \A v \in Working' : writer'[v].at # "rests" /\ writer'[v].id \in 1 .. minted'
    BY <1>2, <1>4, <1>5, <1>6 DEF KeyInv, KeyFileTypeOK, OwnFiles, KeyFiles
  <2>3. \A v \in Working : writer'[v].id # writer'[w].id
    BY <1>2, <1>5, <1>6 DEF KeyInv, KeyFileTypeOK, OwnFiles, KeyFiles
  <2>4. QED BY <1>4, <1>5, <2>1, <2>2, <2>3 DEF KeyInv, OwnFiles
<1>10. Unwritten'
  <2>1. text'[writer'[w].id] = <<>>
    <3>1. minted + 1 \in 1 .. MaxIdentities /\ minted + 1 > minted
      BY <1>2, KeyFileAssumption DEF KeyInv, KeyFileTypeOK, KeyFiles
    <3>2. QED BY <1>2, <1>6, <3>1 DEF KeyInv, Ahead
  <2>2. QED BY <1>2, <1>4, <1>5, <2>1 DEF KeyInv, Unwritten
<1>11. RotatesAlone'
  BY <1>4, <1>5, <1>6, <1>7 DEF RotatesAlone
<1>12. CarriesOver'
  <2>1. kind = "rotate" => Carries(w)'
    BY <1>1, <1>6 DEF Carries
  <2>2. QED BY <1>4, <1>5, <1>6, <1>7, <2>1 DEF CarriesOver
<1>16. Minted'
  <2>1. \A i \in DOMAIN InFile : InFile[i] \in 1 .. minted
    <3>1. names["key"] # None => names["key"] \in 1 .. MaxIdentities
      BY KeyFileAssumption DEF KeyInv, KeyFileTypeOK, None, KeyFiles
    <3>2. QED BY <3>1 DEF InFile, KeyInv, Minted
  <2>2. 1 .. minted \subseteq 1 .. minted'
    BY <1>2 DEF KeyInv, KeyFileTypeOK, KeyFiles
  <2>3. \A v \in KeyWriters : writer'[v].was = IF v = w THEN InFile ELSE writer[v].was
    BY <1>3, <1>6 DEF KeyInv, KeyFileTypeOK
  <2>4. QED BY <1>2, <2>1, <2>2, <2>3 DEF KeyInv, Minted
<1>13. Ahead'
  BY <1>2 DEF KeyInv, KeyFileTypeOK, Ahead, KeyFiles
<1>14. KeyKept'
  <2>1. CASE Contested'
    BY <1>16, <2>1, ContestedKeeps
  <2>2. CASE contested' = contested
    BY <1>1, <1>2, <2>2 DEF KeyInv, KeyKept, StillOpens
  <2>3. QED BY <1>7, <2>1, <2>2
<1>15. QED BY <1>8, <1>9, <1>10, <1>11, <1>12, <1>13, <1>14, <1>16 DEF KeyInv

\* Only where a writer is has changed, and possibly what the partial name
\* has: OwnFiles, RotatesAlone, Ahead and KeyKept are as they were.
LEMMA MovedOn ==
  ASSUME KeyInv, NEW w \in Working, NEW at \in KeySteps \ {"rests"}, At(w, at),
         names' \in [{"key", "partial"} -> KeyFiles], names'["key"] = names["key"],
         UNCHANGED <<text, minted, used, contested>>
  PROVE  /\ KeyFileTypeOK' /\ OwnFiles' /\ RotatesAlone' /\ Ahead' /\ Minted' /\ KeyKept'
         /\ Working' = Working /\ InFile' = InFile /\ Contested' = Contested
         /\ \A v \in Working : v # w => writer'[v] = writer[v]
         /\ writer'[w] = [writer[w] EXCEPT !.at = at]
<1>1. w \in KeyWriters /\ writer' = [writer EXCEPT ![w].at = at]
  BY DEF Working, At
<1>2. writer'[w] = [writer[w] EXCEPT !.at = at] /\ \A v \in KeyWriters : v # w => writer'[v] = writer[v]
  BY <1>1 DEF KeyInv, KeyFileTypeOK
<1>3. writer'[w].at = at /\ writer'[w].kind = writer[w].kind /\ writer'[w].id = writer[w].id
      /\ writer'[w].was = writer[w].was
  BY <1>1, <1>2 DEF KeyInv, KeyFileTypeOK
<1>4. Working' = Working
  <2>1. writer'[w] # Resting
    BY <1>3 DEF Resting
  <2>2. QED BY <1>1, <1>2, <2>1 DEF Working
<1>5. InFile' = InFile
  BY DEF InFile
<1>6. KeyFileTypeOK'
  BY <1>1 DEF KeyInv, KeyFileTypeOK
<1>7. OwnFiles'
  <2>1. \A v \in KeyWriters : writer'[v].at = "rests" => writer'[v] = Resting
    BY <1>2, <1>3 DEF KeyInv, OwnFiles
  <2>2. \A v \in Working : writer'[v].at # "rests" /\ writer'[v].id = writer[v].id
    BY <1>2, <1>3 DEF KeyInv, OwnFiles, Working
  <2>3. QED BY <1>4, <2>1, <2>2 DEF KeyInv, OwnFiles
<1>8. RotatesAlone'
  <2>1. \A v \in Working : writer'[v].kind = writer[v].kind
    BY <1>2, <1>3 DEF Working
  <2>2. QED BY <1>4, <2>1 DEF KeyInv, RotatesAlone, Contested
<1>9. Ahead' /\ Contested' = Contested
  BY DEF KeyInv, Ahead, Contested
<1>10. KeyKept'
  BY <1>5 DEF KeyInv, KeyKept, StillOpens
<1>12. Minted'
  <2>1. \A v \in KeyWriters : writer'[v].was = writer[v].was
    BY <1>2, <1>3
  <2>2. QED BY <2>1 DEF KeyInv, Minted
<1>11. QED BY <1>2, <1>4, <1>5, <1>6, <1>7, <1>8, <1>9, <1>10, <1>12 DEF Working

\* A writer past its last step, or stopped, rests: nothing else depends on it
\* while the key file holds the same.
LEMMA RestsKeeps ==
  ASSUME KeyInv, NEW w \in Working, Rests(w), names' \in [{"key", "partial"} -> KeyFiles],
         UNCHANGED <<text, minted, used, contested>>, InFile' = InFile,
         Contested \/ \A v \in Working \ {w} : writer[v].kind # "rotate" \/ names' = names
  PROVE  KeyInv'
<1>1. w \in KeyWriters /\ writer' = [writer EXCEPT ![w] = Resting]
  BY DEF Working, Rests
<1>2. writer'[w] = Resting /\ \A v \in KeyWriters : v # w => writer'[v] = writer[v]
  BY <1>1 DEF KeyInv, KeyFileTypeOK
<1>3. Working' = Working \ {w}
  BY <1>1, <1>2 DEF Working
<1>4. \A v \in Working' : v \in Working /\ v # w /\ writer'[v] = writer[v]
  BY <1>2, <1>3 DEF Working
<1>5. KeyFileTypeOK'
  BY <1>1, KeyFileAssumption DEF KeyInv, KeyFileTypeOK, Resting, None, KeySteps, KeyFiles, KeyTexts
<1>6. OwnFiles'
  BY <1>2, <1>4 DEF KeyInv, OwnFiles
<1>7. Unwritten' /\ RotatesAlone' /\ Ahead' /\ Contested' = Contested
  BY <1>4 DEF KeyInv, Unwritten, RotatesAlone, Ahead, Contested
<1>8. CarriesOver'
  BY <1>4, <1>7 DEF KeyInv, CarriesOver, Carries
<1>9. KeyKept'
  BY DEF KeyInv, KeyKept, StillOpens
<1>11. Minted'
  <2>1. \A v \in KeyWriters : writer'[v].was = writer[v].was \/ writer'[v].was = <<>>
    BY <1>2 DEF Resting
  <2>2. QED BY <2>1 DEF KeyInv, Minted
<1>10. QED BY <1>5, <1>6, <1>7, <1>8, <1>9, <1>11 DEF KeyInv

-----------------------------------------------------------------------------
LEMMA ClearsKeeps ==
  ASSUME KeyInv, NEW w \in KeyWriters, Clears(w)
  PROVE  KeyInv'
<1>1. w \in Working /\ writer[w].at = "clears" /\ At(w, "creates") /\ UNCHANGED <<text, minted, used, contested>>
  BY DEF Clears, Working, Resting
<1>2. names' \in [{"key", "partial"} -> KeyFiles] /\ names'["key"] = names["key"]
  BY KeyFileAssumption DEF Clears, KeyInv, KeyFileTypeOK, None, KeyFiles
<1>3. /\ KeyFileTypeOK' /\ OwnFiles' /\ RotatesAlone' /\ Ahead' /\ Minted' /\ KeyKept'
      /\ Working' = Working /\ InFile' = InFile /\ Contested' = Contested
      /\ \A v \in Working : v # w => writer'[v] = writer[v]
      /\ writer'[w] = [writer[w] EXCEPT !.at = "creates"]
  BY <1>1, <1>2, MovedOn DEF KeySteps
<1>4. writer'[w].at = "creates" /\ writer'[w].id = writer[w].id /\ writer'[w].was = writer[w].was
  BY <1>3 DEF KeyInv, KeyFileTypeOK
<1>5. Unwritten'
  <2>1. text'[writer'[w].id] = <<>>
    BY <1>1, <1>4 DEF KeyInv, Unwritten
  <2>2. QED BY <1>1, <1>3, <2>1 DEF KeyInv, Unwritten
<1>6. CarriesOver'
  <2>1. Contested \/ \A v \in Working : writer'[v].kind = "rotate" => v = w /\ writer[v].kind = "rotate"
    BY <1>1, <1>3 DEF KeyInv, KeyFileTypeOK, RotatesAlone
  <2>2. QED BY <1>1, <1>3, <1>4, <2>1 DEF KeyInv, CarriesOver, Carries
<1>7. QED BY <1>3, <1>5, <1>6 DEF KeyInv

LEMMA CreatesKeeps ==
  ASSUME KeyInv, NEW w \in KeyWriters, Creates(w)
  PROVE  KeyInv'
<1>1. w \in Working /\ writer[w].at = "creates" /\ UNCHANGED <<text, minted, used, contested>>
  BY DEF Creates, Working, Resting
<1>2. CASE names["partial"] = None
  <2>1. names' = [names EXCEPT !["partial"] = writer[w].id] /\ At(w, "fills")
    BY <1>2 DEF Creates
  <2>2. names' \in [{"key", "partial"} -> KeyFiles] /\ names'["key"] = names["key"]
        /\ names'["partial"] = writer[w].id
    BY <2>1 DEF KeyInv, KeyFileTypeOK
  <2>3. /\ KeyFileTypeOK' /\ OwnFiles' /\ RotatesAlone' /\ Ahead' /\ Minted' /\ KeyKept'
        /\ Working' = Working /\ InFile' = InFile /\ Contested' = Contested
        /\ \A v \in Working : v # w => writer'[v] = writer[v]
        /\ writer'[w] = [writer[w] EXCEPT !.at = "fills"]
    BY <1>1, <2>1, <2>2, MovedOn DEF KeySteps
  <2>4. writer'[w].at = "fills" /\ writer'[w].id = writer[w].id /\ writer'[w].was = writer[w].was
    BY <2>3 DEF KeyInv, KeyFileTypeOK
  <2>5. Unwritten'
    <3>1. text'[writer'[w].id] = <<>>
      BY <1>1, <2>4 DEF KeyInv, Unwritten
    <3>2. QED BY <1>1, <2>3, <3>1 DEF KeyInv, Unwritten
  <2>6. CarriesOver'
    <3>1. Contested \/ \A v \in Working : writer'[v].kind = "rotate" => v = w /\ writer[v].kind = "rotate"
      BY <1>1, <2>3 DEF KeyInv, KeyFileTypeOK, RotatesAlone
    <3>2. QED BY <1>1, <2>2, <2>3, <2>4, <3>1 DEF KeyInv, CarriesOver, Carries
  <2>7. QED BY <2>3, <2>5, <2>6 DEF KeyInv
<1>3. CASE names["partial"] # None
  <2>1. Rests(w) /\ names' = names
    BY <1>3 DEF Creates
  <2>2. InFile' = InFile
    BY <1>1, <2>1 DEF InFile
  <2>3. QED BY <1>1, <2>1, <2>2, RestsKeeps DEF KeyInv, KeyFileTypeOK
<1>4. QED BY <1>2, <1>3

\* The file that is written may already be the key, linked by another start:
\* it held nothing then, and no archive was made with it.
LEMMA FillsKeeps ==
  ASSUME KeyInv, NEW w \in KeyWriters, Fills(w)
  PROVE  KeyInv'
<1> DEFINE id == writer[w].id
           full == <<id>> \o (IF writer[w].kind = "rotate" THEN writer[w].was ELSE <<>>)
<1>1. w \in Working /\ writer[w].at = "fills" /\ At(w, "places") /\ UNCHANGED <<names, minted, used, contested>>
      /\ text' = [text EXCEPT ![id] = full]
  BY DEF Fills, Working, Resting
<1>2. id \in 1 .. minted /\ id \in 1 .. MaxIdentities /\ text[id] = <<>>
  BY <1>1, KeyFileAssumption DEF KeyInv, KeyFileTypeOK, OwnFiles, Unwritten, KeyFiles
<1>3. /\ writer' = [writer EXCEPT ![w].at = "places"]
      /\ writer'[w] = [writer[w] EXCEPT !.at = "places"]
      /\ \A v \in KeyWriters : v # w => writer'[v] = writer[v]
  BY <1>1 DEF At, KeyInv, KeyFileTypeOK
<1>4. writer'[w].at = "places" /\ writer'[w].kind = writer[w].kind /\ writer'[w].id = id
      /\ writer'[w].was = writer[w].was
  BY <1>3 DEF KeyInv, KeyFileTypeOK
<1>5. Working' = Working
  <2>1. writer'[w] # Resting
    BY <1>4 DEF Resting
  <2>2. QED BY <1>1, <1>3, <2>1 DEF Working
<1>6. full \in KeyTexts
  <2>1. writer[w].was \in KeyTexts /\ <<id>> \in KeyTexts /\ <<>> \in KeyTexts
    BY <1>2 DEF KeyInv, KeyFileTypeOK, KeyTexts
  <2>2. <<id>> \o writer[w].was \in KeyTexts /\ <<id>> \o <<>> \in KeyTexts
    BY <2>1 DEF KeyTexts
  <2>3. QED BY <2>2
<1>7. \A f \in 1 .. MaxIdentities : f # id => text'[f] = text[f]
  BY <1>1, <1>2 DEF KeyInv, KeyFileTypeOK
<1>8. text'[id] = full
  BY <1>1, <1>2 DEF KeyInv, KeyFileTypeOK
<1>9. names["key"] # id => InFile' = InFile
  BY <1>1, <1>7 DEF InFile, None, KeyInv, KeyFileTypeOK, KeyFiles
<1>10. names["key"] = id => InFile = <<>> /\ used \ contested = {}
  <2>1. names["key"] = id => InFile = <<>>
    BY <1>2 DEF InFile, None
  <2>2. InFile = <<>> => used \ contested = {}
    BY DEF KeyInv, KeyKept, StillOpens
  <2>3. QED BY <2>1, <2>2
<1>11. KeyFileTypeOK'
  BY <1>1, <1>2, <1>3, <1>6 DEF KeyInv, KeyFileTypeOK, KeySteps
<1>12. OwnFiles'
  <2>1. \A v \in KeyWriters : writer'[v].at = "rests" => writer'[v] = Resting
    BY <1>3, <1>4 DEF KeyInv, OwnFiles
  <2>2. \A v \in Working : writer'[v].at # "rests" /\ writer'[v].id = writer[v].id
    BY <1>3, <1>4 DEF KeyInv, OwnFiles, Working
  <2>3. QED BY <1>1, <1>5, <2>1, <2>2 DEF KeyInv, OwnFiles
<1>13. Unwritten'
  <2>1. \A v \in Working : v # w => writer[v].id # id /\ writer[v].id \in 1 .. MaxIdentities
    BY <1>1, KeyFileAssumption DEF KeyInv, KeyFileTypeOK, OwnFiles, KeyFiles
  <2>2. QED BY <1>3, <1>4, <1>5, <1>7, <2>1 DEF KeyInv, Unwritten, Working
<1>14. RotatesAlone'
  <2>1. \A v \in Working : writer'[v].kind = writer[v].kind
    BY <1>3, <1>4 DEF Working
  <2>2. QED BY <1>1, <1>5, <2>1 DEF KeyInv, RotatesAlone, Contested
<1>15. CarriesOver'
  <2>1. Contested \/ \A v \in Working : writer'[v].kind = "rotate" => v = w /\ writer[v].kind = "rotate"
    BY <1>1, <1>3, <1>4 DEF KeyInv, RotatesAlone, Working
  <2>2. ASSUME ~Contested, writer[w].kind = "rotate"
        PROVE  /\ writer[w].was = InFile' /\ InFile' # <<>> /\ names'["partial"] = id
               /\ text'[id] = <<id>> \o writer[w].was
    <3>1. writer[w].was = InFile /\ InFile # <<>> /\ names["partial"] = id
      BY <1>1, <2>2 DEF KeyInv, CarriesOver, Carries
    <3>2. QED BY <1>1, <1>8, <1>9, <1>10, <2>2, <3>1
  <2>4. Contested' = Contested
    BY <1>1 DEF Contested
  <2>3. QED BY <1>4, <1>5, <2>1, <2>2, <2>4 DEF CarriesOver, Carries
<1>16. Ahead'
  BY <1>1, <1>2, <1>7 DEF KeyInv, KeyFileTypeOK, Ahead, KeyFiles
<1>17. KeyKept'
  BY <1>1, <1>9, <1>10 DEF KeyInv, KeyKept, StillOpens
<1>19. Minted'
  <2>1. \A v \in KeyWriters : writer'[v].was = writer[v].was
    BY <1>3, <1>4
  <2>2. \A i \in DOMAIN writer[w].was : writer[w].was[i] \in 1 .. minted
    BY DEF KeyInv, Minted
  <2>3. \A i \in DOMAIN full : full[i] \in 1 .. minted
    <3>1. CASE writer[w].kind # "rotate"
      <4>1. full = <<id>> \o <<>>
        BY <3>1
      <4>2. QED BY <1>2, <4>1
    <3>2. CASE writer[w].kind = "rotate"
      <4>1. PICK past \in KeyTexts : past = writer[w].was
        BY DEF KeyInv, KeyFileTypeOK
      <4>2. full = <<id>> \o past /\ past \in Seq(1 .. MaxIdentities)
        BY <3>2, <4>1 DEF KeyTexts
      <4>3. QED BY <1>2, <2>2, <4>1, <4>2
    <3>3. QED BY <3>1, <3>2
  <2>4. QED BY <1>1, <1>7, <1>8, <2>1, <2>3 DEF KeyInv, Minted
<1>18. QED BY <1>11, <1>12, <1>13, <1>14, <1>15, <1>16, <1>17, <1>19 DEF KeyInv

\* A start links the partial file when there is no key: there was nothing to
\* lose then.
LEMMA PlacedKeeps ==
  ASSUME KeyInv, NEW w \in KeyWriters, Placed(w)
  PROVE  KeyInv'
<1>1. w \in Working /\ writer[w].at = "places" /\ writer[w].kind = "start" /\ UNCHANGED <<text, minted, used, contested>>
  BY DEF Placed, Working, Resting
<1>2. Contested \/ \A v \in Working : writer[v].kind # "rotate"
  BY <1>1 DEF KeyInv, RotatesAlone
<1>3. CASE names["partial"] = None
  <2>1. Rests(w) /\ names' = names
    BY <1>3 DEF Placed
  <2>2. InFile' = InFile
    BY <1>1, <2>1 DEF InFile
  <2>3. QED BY <1>1, <2>1, <2>2, RestsKeeps DEF KeyInv, KeyFileTypeOK
<1>4. CASE names["partial"] # None
  <2>1. names' = [names EXCEPT !["key"] = Linked] /\ At(w, "tidies")
    BY <1>4 DEF Placed
  <2>2. CASE names["key"] # None
    <3>1. names' = names
      BY <2>1, <2>2 DEF Linked, KeyInv, KeyFileTypeOK
    <3>2. /\ KeyFileTypeOK' /\ OwnFiles' /\ RotatesAlone' /\ Ahead' /\ Minted' /\ KeyKept'
          /\ Working' = Working /\ Contested' = Contested
          /\ \A v \in Working : v # w => writer'[v] = writer[v]
          /\ writer'[w] = [writer[w] EXCEPT !.at = "tidies"]
      BY <1>1, <2>1, <3>1, MovedOn DEF KeySteps, KeyInv, KeyFileTypeOK
    <3>3. writer'[w].at = "tidies" /\ writer'[w].kind = "start"
      BY <1>1, <3>2 DEF KeyInv, KeyFileTypeOK
    <3>5. Unwritten'
      BY <1>1, <3>2, <3>3 DEF KeyInv, Unwritten
    <3>6. CarriesOver'
      <4>1. Contested \/ \A v \in Working : writer'[v].kind # "rotate"
        BY <1>2, <3>2, <3>3
      <4>2. QED BY <3>2, <4>1 DEF CarriesOver
    <3>4. QED BY <3>2, <3>5, <3>6 DEF KeyInv
  <2>3. CASE names["key"] = None
    <3>1. used \ contested = {}
      BY <2>3 DEF InFile, KeyInv, KeyKept, StillOpens
    <3>2. names' \in [{"key", "partial"} -> KeyFiles]
      BY <2>1, <2>3 DEF Linked, KeyInv, KeyFileTypeOK
    <3>3. /\ writer' = [writer EXCEPT ![w].at = "tidies"]
          /\ writer'[w] = [writer[w] EXCEPT !.at = "tidies"]
          /\ \A v \in KeyWriters : v # w => writer'[v] = writer[v]
      BY <2>1 DEF At, KeyInv, KeyFileTypeOK
    <3>4. writer'[w].at = "tidies" /\ writer'[w].kind = "start" /\ writer'[w].id = writer[w].id
      BY <1>1, <3>3 DEF KeyInv, KeyFileTypeOK
    <3>5. writer'[w] # Resting
      BY <3>4 DEF Resting
    <3>6. Working' = Working
      BY <1>1, <3>3, <3>5 DEF Working
    <3>7. KeyFileTypeOK'
      BY <1>1, <3>2, <3>3 DEF KeyInv, KeyFileTypeOK, KeySteps
    <3>8. OwnFiles'
      <4>1. \A v \in KeyWriters : writer'[v].at = "rests" => writer'[v] = Resting
        BY <3>3, <3>4 DEF KeyInv, OwnFiles
      <4>2. \A v \in Working : writer'[v].at # "rests" /\ writer'[v].id = writer[v].id
        BY <3>3, <3>4 DEF KeyInv, OwnFiles, Working
      <4>3. QED BY <1>1, <3>6, <4>1, <4>2 DEF KeyInv, OwnFiles
    <3>9. Unwritten' /\ RotatesAlone' /\ CarriesOver'
      <4>1. Contested' \/ \A v \in Working : writer'[v].kind # "rotate"
        BY <1>1, <1>2, <3>3, <3>4 DEF Working, Contested
      <4>2. Unwritten'
        BY <1>1, <3>3, <3>4, <3>6 DEF KeyInv, Unwritten, Working
      <4>3. QED BY <3>6, <4>1, <4>2 DEF RotatesAlone, CarriesOver
    <3>10. Ahead' /\ KeyKept' /\ Minted'
      <4>1. \A v \in KeyWriters : writer'[v].was = writer[v].was
        BY <1>1, <3>3 DEF KeyInv, KeyFileTypeOK
      <4>2. QED BY <1>1, <3>1, <4>1 DEF KeyInv, Ahead, KeyKept, Minted
    <3>11. QED BY <3>7, <3>8, <3>9, <3>10 DEF KeyInv
  <2>4. QED BY <2>2, <2>3
<1>5. QED BY <1>3, <1>4

LEMMA TidiesKeeps ==
  ASSUME KeyInv, NEW w \in KeyWriters, Tidies(w)
  PROVE  KeyInv'
<1>1. w \in Working /\ writer[w].at = "tidies" /\ Rests(w) /\ UNCHANGED <<text, minted, used, contested>>
      /\ names' = [names EXCEPT !["partial"] = None]
  BY DEF Tidies, Working, Resting
<1>2. Contested \/ writer[w].kind = "start"
  BY <1>1 DEF KeyInv, KeyFileTypeOK, CarriesOver, Carries, Working
<1>3. Contested \/ \A v \in Working : writer[v].kind # "rotate"
  BY <1>1, <1>2 DEF KeyInv, RotatesAlone
<1>4. names' \in [{"key", "partial"} -> KeyFiles] /\ names'["key"] = names["key"]
  BY <1>1, KeyFileAssumption DEF KeyInv, KeyFileTypeOK, None, KeyFiles
<1>5. InFile' = InFile
  BY <1>1, <1>4 DEF InFile
<1>6. QED BY <1>1, <1>3, <1>4, <1>5, RestsKeeps

\* A rotation puts its file in place: all the key file held is in it, or it
\* was contested.
LEMMA ReplacesKeeps ==
  ASSUME KeyInv, NEW w \in KeyWriters, Replaces(w)
  PROVE  KeyInv'
<1> DEFINE id == writer[w].id
<1>1. w \in Working /\ writer[w].at = "places" /\ writer[w].kind = "rotate" /\ Rests(w)
      /\ UNCHANGED <<text, minted, used, contested>>
  BY DEF Replaces, Working, Resting
<1>2. writer' = [writer EXCEPT ![w] = Resting]
  BY <1>1 DEF Rests
<1>3. writer'[w] = Resting /\ \A v \in KeyWriters : v # w => writer'[v] = writer[v]
  BY <1>1, <1>2 DEF KeyInv, KeyFileTypeOK
<1>4. Working' = Working \ {w}
  BY <1>3 DEF Working
<1>5. names' \in [{"key", "partial"} -> KeyFiles]
  BY KeyFileAssumption DEF Replaces, KeyInv, KeyFileTypeOK, None, KeyFiles
<1>6. KeyFileTypeOK'
  BY <1>1, <1>2, <1>5, KeyFileAssumption DEF KeyInv, KeyFileTypeOK, Resting, None, KeySteps, KeyFiles, KeyTexts
<1>7. OwnFiles' /\ Unwritten'
  <2>1. \A v \in Working' : v \in Working /\ v # w /\ writer'[v] = writer[v]
    BY <1>3, <1>4 DEF Working
  <2>2. QED BY <1>1, <1>3, <2>1 DEF KeyInv, OwnFiles, Unwritten
<1>8. Ahead' /\ Contested' = Contested
  BY <1>1 DEF KeyInv, Ahead, Contested
<1>9. Minted'
  <2>1. \A v \in KeyWriters : writer'[v].was = writer[v].was \/ writer'[v].was = <<>>
    BY <1>3 DEF Resting
  <2>2. QED BY <1>1, <2>1 DEF KeyInv, Minted
<1>10. RotatesAlone' /\ CarriesOver'
  <2>1. ~Contested => Working' = {}
    BY <1>1, <1>4 DEF KeyInv, RotatesAlone
  <2>2. QED BY <1>8, <2>1 DEF RotatesAlone, CarriesOver
<1>11. KeyKept'
  <2>1. CASE Contested
    BY <1>8, <1>9, <2>1, ContestedKeeps
  <2>2. CASE ~Contested
    <3>1. id \in 1 .. MaxIdentities /\ names["partial"] = id /\ text[id] = <<id>> \o InFile
      BY <1>1, <2>2, KeyFileAssumption DEF KeyInv, KeyFileTypeOK, OwnFiles, CarriesOver, Carries, KeyFiles
    <3>2. names' = [key |-> id, partial |-> None]
      BY <3>1 DEF Replaces, None
    <3>3. InFile' = <<id>> \o InFile
      BY <1>1, <3>1, <3>2 DEF InFile, None
    <3>4. SUFFICES ASSUME NEW u \in used \ contested PROVE \E i \in DOMAIN InFile' : InFile'[i] = u
      BY <1>1 DEF KeyKept, StillOpens
    <3>5. PICK i \in DOMAIN InFile : InFile[i] = u
      BY <3>4 DEF KeyInv, KeyKept, StillOpens
    <3>6. InFile \in KeyTexts
      BY InFileType
    <3>7. i + 1 \in DOMAIN (<<id>> \o InFile) /\ (<<id>> \o InFile)[i + 1] = u
      BY <3>1, <3>5, <3>6 DEF KeyTexts
    <3>8. QED BY <3>3, <3>7
  <2>3. QED BY <2>1, <2>2
<1>12. QED BY <1>6, <1>7, <1>8, <1>9, <1>10, <1>11 DEF KeyInv

LEMMA CutKeeps ==
  ASSUME KeyInv, NEW w \in KeyWriters, Cut(w)
  PROVE  KeyInv'
<1>1. InFile' = InFile
  BY DEF Cut, InFile
<1>2. w \in Working /\ Rests(w) /\ UNCHANGED <<names, text, minted, used, contested>>
  BY DEF Cut
<1>3. QED BY <1>1, <1>2, RestsKeeps DEF KeyInv, KeyFileTypeOK

\* An archive is encrypted with the first identity there is.
LEMMA EncryptsKeeps ==
  ASSUME KeyInv, Encrypts
  PROVE  KeyInv'
<1>1. InFile # <<>> /\ used' = used \union {Head(InFile)} /\ UNCHANGED <<names, text, minted, writer, contested>>
  BY DEF Encrypts
<1>2. InFile' = InFile /\ Working' = Working
  BY <1>1 DEF InFile, Working
<1>3. 1 \in DOMAIN InFile /\ InFile[1] = Head(InFile) /\ Head(InFile) \in 1 .. MaxIdentities
  <2>1. InFile \in Seq(1 .. MaxIdentities)
    BY InFileType DEF KeyTexts
  <2>2. QED BY <1>1, <2>1, HeadIsFirst
<1>4. KeyKept'
  BY <1>1, <1>2, <1>3 DEF KeyInv, KeyKept, StillOpens
<1>5. KeyFileTypeOK'
  BY <1>1, <1>3 DEF KeyInv, KeyFileTypeOK
<1>6. OwnFiles' /\ Unwritten' /\ Ahead' /\ Contested' = Contested
  BY <1>1, <1>2 DEF KeyInv, OwnFiles, Unwritten, Ahead, Contested
<1>8. RotatesAlone' /\ CarriesOver'
  BY <1>1, <1>2, <1>6 DEF KeyInv, RotatesAlone, CarriesOver, Carries
<1>9. Minted'
  <2>1. names["key"] # None => names["key"] \in 1 .. MaxIdentities
    BY KeyFileAssumption DEF KeyInv, KeyFileTypeOK, None, KeyFiles
  <2>2. Head(InFile) \in 1 .. minted
    BY <1>1, <1>3, <2>1 DEF InFile, KeyInv, Minted
  <2>3. QED BY <1>1, <2>2 DEF KeyInv, Minted
<1>7. QED BY <1>4, <1>5, <1>6, <1>8, <1>9 DEF KeyInv

LEMMA StillKeeps ==
  ASSUME KeyInv, UNCHANGED keyfile
  PROVE  KeyInv'
  BY DEF keyfile, KeyInv, KeyFileTypeOK, OwnFiles, Unwritten, RotatesAlone, CarriesOver, Carries, Contested,
         Ahead, Minted, KeyKept, StillOpens, InFile, Working

LEMMA KeyStep ==
  ASSUME KeyInv, [KeyFileNext]_keyfile
  PROVE  KeyInv'
<1>1. ASSUME NEW w \in KeyWriters, Ensures(w) PROVE KeyInv'
  BY <1>1, SetsKeeps DEF Ensures
<1>2. ASSUME NEW w \in KeyWriters, Rotates(w) PROVE KeyInv'
  BY <1>2, SetsKeeps DEF Rotates
<1>3. QED
  BY <1>1, <1>2, ClearsKeeps, CreatesKeeps, FillsKeeps, PlacedKeeps, TidiesKeeps, ReplacesKeeps, CutKeeps,
     EncryptsKeeps, StillKeeps DEF KeyFileNext

-----------------------------------------------------------------------------
\* The invariant holds in every reachable state, wherever a start or a
\* rotation (archive_keys.py) is stopped and whoever else was at work.
THEOREM KeyInvHolds == KeyFileSpec => []KeyInv
<1>1. KeyInv /\ [KeyFileNext]_keyfile => KeyInv'
  BY KeyStep
<1>2. QED BY <1>1, KeyInitKeeps, PTL DEF KeyFileSpec

\* Any number of starts and rotations at work in any order and stopped at any
\* step (archive_keys.ensure_key and rotate): what archives were encrypted with
\* stays in the key file, but for the identities minted by the time a rotation
\* and another writer were last at work together.  Starts may meet each other,
\* and what is minted after such a meeting is kept again.
THEOREM KeysAreKept == KeyFileSpec => []KeyKept
<1>1. KeyInv => KeyKept
  BY DEF KeyInv
<1>2. QED BY <1>1, KeyInvHolds, PTL

-----------------------------------------------------------------------------
(* Secrets: the key they are encrypted with, where one PUT at a time meets  *)
(* the first use of it, the list of what was cleared, and what the owner    *)
(* entered.                                                                 *)

KeyIn == [is : BOOLEAN, key : Nat]
PutRec == [at : {"sealing", "generated", "created", "written", "sealed", "listed"}, secret : Secrets,
        empty : BOOLEAN, key : Nat, list : SUBSET Secrets]
SecretRow == [as : {"unset", "plain", "encrypted"}, key : Nat]

SecretsTypeOK ==
  /\ file \in KeyIn /\ cipher \in Nat /\ keys \in Nat
  /\ putting \in [Putters -> PutRec \union {NoPut}]
  /\ stored \in [Secrets -> SecretRow] /\ named \subseteq Secrets /\ entered \subseteq Secrets /\ owed \subseteq Secrets
  /\ \A c \in clearing : c.refused \subseteq Secrets /\ c.list \subseteq Secrets

\* One PUT at most makes a key, where there was none; the key in memory and the
\* one a secret was sealed with are the file's.
KeyKnown ==
  /\ ~file.is => file.key = 0
  /\ cipher # 0 => file.is /\ cipher = file.key
  /\ \A p, q \in Making : p = q
  /\ \A q \in Putters :
       /\ PutAt(q, "generated") => ~file.is /\ cipher = 0 /\ putting[q].key # 0
       /\ PutAt(q, "created") => file.is /\ file.key = 0 /\ cipher = 0 /\ putting[q].key # 0
       /\ PutAt(q, "written") => file.is /\ file.key = putting[q].key /\ file.key # 0
       /\ putting[q].at \in {"sealed", "listed"} =>
            putting[q].empty \/ (file.is /\ putting[q].key = file.key /\ file.key # 0)

MadeInv == SecretsTypeOK /\ KeyKnown

\* What a PUT or the clearing has read of the list still has all that is owed.
OwedInv ==
  /\ SecretsTypeOK /\ owed \subseteq named
  /\ clearing # {} => Quiet
  /\ \A c \in clearing : owed \subseteq c.list
  /\ \A q \in Putters : PutAt(q, "listed") => owed \subseteq putting[q].list

\* The clearing refuses no secret the owner entered.
EnteredInv ==
  /\ MadeInv /\ OwedInv /\ EnteredReadable
  /\ \A c \in clearing : c.refused \cap entered = {}

-----------------------------------------------------------------------------
Ats == {"sealing", "generated", "created", "written", "sealed", "listed"}

\* Where a step of a PUT takes it.
PutTo(q, at, k, L) ==
  /\ putting' \in [Putters -> PutRec \union {NoPut}] /\ putting'[q] \in PutRec
  /\ putting'[q].at = at /\ putting'[q].key = k /\ putting'[q].list = L
  /\ putting'[q].secret = putting[q].secret /\ putting'[q].empty = putting[q].empty
  /\ \A p \in Putters : p # q => putting'[p] = putting[p]

LEMMA PutIs ==
  ASSUME SecretsTypeOK, NEW q \in Putters, putting[q].at # "idle"
  PROVE  /\ putting[q] \in PutRec /\ putting[q].key \in Nat /\ putting[q].list \in SUBSET Secrets /\ putting[q].secret \in Secrets
         /\ cipher \in Nat /\ keys + 1 \in Nat /\ file \in KeyIn /\ file.key \in Nat
<1>1. putting[q] \in PutRec
  BY DEF SecretsTypeOK, NoPut
<1>2. QED BY <1>1 DEF SecretsTypeOK, PutRec, KeyIn

LEMMA PutGoesTo ==
  ASSUME SecretsTypeOK, NEW q \in Putters, putting[q] \in PutRec, NEW at \in Ats, NEW k \in Nat, NEW L \in SUBSET Secrets
  PROVE  /\ PutGoes(q, at) => PutTo(q, at, putting[q].key, putting[q].list)
         /\ putting' = [putting EXCEPT ![q].at = at, ![q].key = k] => PutTo(q, at, k, putting[q].list)
         /\ putting' = [putting EXCEPT ![q].at = at, ![q].list = L] => PutTo(q, at, putting[q].key, L)
<1>1. putting \in [Putters -> PutRec \union {NoPut}]
  BY DEF SecretsTypeOK
<1>2. ASSUME PutGoes(q, at) PROVE PutTo(q, at, putting[q].key, putting[q].list)
  BY <1>1, <1>2 DEF PutGoes, PutTo, PutRec, Ats
<1>3. ASSUME putting' = [putting EXCEPT ![q].at = at, ![q].key = k] PROVE PutTo(q, at, k, putting[q].list)
  BY <1>1, <1>3 DEF PutTo, PutRec, Ats
<1>4. ASSUME putting' = [putting EXCEPT ![q].at = at, ![q].list = L] PROVE PutTo(q, at, putting[q].key, L)
  BY <1>1, <1>4 DEF PutTo, PutRec, Ats
<1>5. QED BY <1>2, <1>3, <1>4

LEMMA NotIdle == \A r \in PutRec : r # NoPut /\ r.at # "idle"
  BY DEF PutRec, NoPut

LEMMA TypeStart == SecretsInit => SecretsTypeOK
  BY DEF SecretsInit, SecretsTypeOK, KeyIn, SecretRow, Unset

LEMMA PutsType ==
  ASSUME SecretsTypeOK, NEW q \in Putters, NEW s \in Secrets, NEW e \in BOOLEAN, Puts(q, s, e)
  PROVE  SecretsTypeOK'
<1>1. [at |-> IF e THEN "sealed" ELSE "sealing", secret |-> s, empty |-> e, key |-> 0, list |-> {}] \in PutRec
  BY DEF PutRec
<1>2. QED BY <1>1 DEF Puts, SecretsTypeOK

LEMMA RestoresType ==
  ASSUME SecretsTypeOK, NEW brought \in Archived, NEW list \in SUBSET Secrets,
         Restores(brought, list) \/ RestoresBeside(brought, list)
  PROVE  SecretsTypeOK'
<1>1. brought \in [Secrets -> SecretRow]
  BY DEF SecretsTypeOK, KeyIn, Archived, SecretRow, Unset, Plain, Under
<1>2. Unset \in SecretRow /\ Unusable(brought, TRUE) \subseteq Secrets /\ StillOwed(brought, list) \subseteq Secrets
  BY DEF SecretRow, Unset, Unusable, StillOwed
<1>3. stored' \in [Secrets -> SecretRow]
  BY <1>1, <1>2 DEF Restores, RestoresBeside
<1>4. QED BY <1>2, <1>3 DEF SecretsTypeOK, Restores, RestoresBeside, Renamed

LEMMA PutSteps ==
  ASSUME SecretsTypeOK, NEW q \in Putters
  PROVE  /\ Keyed(q) => PutTo(q, "sealed", cipher, putting[q].list)
         /\ Generates(q) => PutTo(q, "generated", keys + 1, putting[q].list)
         /\ CreatesFile(q) => PutTo(q, "created", putting[q].key, putting[q].list)
         /\ WritesKey(q) => PutTo(q, "written", putting[q].key, putting[q].list)
         /\ Ciphers(q) => PutTo(q, "sealing", putting[q].key, putting[q].list)
         /\ Lists(q) => PutTo(q, "listed", putting[q].key, named)
<1>1. "sealed" \in Ats /\ "generated" \in Ats /\ "created" \in Ats /\ "written" \in Ats /\ "sealing" \in Ats /\ "listed" \in Ats
  BY DEF Ats
<1>2. named \in SUBSET Secrets
  BY DEF SecretsTypeOK
<1>3. CASE putting[q].at = "idle"
  BY <1>3 DEF Keyed, Generates, CreatesFile, WritesKey, Ciphers, Lists, PutAt
<1>4. CASE putting[q].at # "idle"
  <2>1. /\ putting[q] \in PutRec /\ putting[q].key \in Nat /\ putting[q].list \in SUBSET Secrets
        /\ cipher \in Nat /\ keys + 1 \in Nat
    BY <1>4, PutIs
  <2>2. Keyed(q) => PutTo(q, "sealed", cipher, putting[q].list)
    BY <1>1, <2>1, PutGoesTo DEF Keyed
  <2>3. Generates(q) => PutTo(q, "generated", keys + 1, putting[q].list)
    BY <1>1, <2>1, PutGoesTo DEF Generates
  <2>4. CreatesFile(q) => PutTo(q, "created", putting[q].key, putting[q].list)
    BY <1>1, <2>1, PutGoesTo DEF CreatesFile
  <2>5. WritesKey(q) => PutTo(q, "written", putting[q].key, putting[q].list)
    BY <1>1, <2>1, PutGoesTo DEF WritesKey
  <2>6. Ciphers(q) => PutTo(q, "sealing", putting[q].key, putting[q].list)
    BY <1>1, <2>1, PutGoesTo DEF Ciphers
  <2>7. Lists(q) => PutTo(q, "listed", putting[q].key, named)
    BY <1>1, <1>2, <2>1, PutGoesTo DEF Lists
  <2>8. QED BY <2>2, <2>3, <2>4, <2>5, <2>6, <2>7
<1>5. QED BY <1>3, <1>4

LEMMA PutStepsType ==
  ASSUME SecretsTypeOK, NEW q \in Putters,
         Keyed(q) \/ ReadsKey(q) \/ Generates(q) \/ CreatesFile(q) \/ WritesKey(q) \/ Ciphers(q) \/ Lists(q) \/ Commits(q)
  PROVE  SecretsTypeOK'
<1>1. /\ putting[q] \in PutRec /\ putting[q].key \in Nat /\ putting[q].list \in SUBSET Secrets /\ putting[q].secret \in Secrets
      /\ cipher \in Nat /\ keys + 1 \in Nat /\ file \in KeyIn /\ file.key \in Nat
  BY PutIs DEF Keyed, ReadsKey, Generates, CreatesFile, WritesKey, Ciphers, Lists, Commits, PutAt
<1>2. putting' \in [Putters -> PutRec \union {NoPut}]
  <2>1. CASE ReadsKey(q) \/ Commits(q)
    BY <1>1, <2>1 DEF SecretsTypeOK, ReadsKey, Commits
  <2>2. CASE Keyed(q) \/ Generates(q) \/ CreatesFile(q) \/ WritesKey(q) \/ Ciphers(q) \/ Lists(q)
    BY <2>2, PutSteps DEF PutTo
  <2>3. QED BY <2>1, <2>2
<1>3. file' \in KeyIn
  <2>1. CASE WritesKey(q)
    <3>1. file' = [file EXCEPT !.key = putting[q].key]
      BY <2>1 DEF WritesKey, Persisted
    <3>2. QED BY <1>1, <3>1 DEF KeyIn
  <2>2. CASE CreatesFile(q)
    BY <2>2 DEF CreatesFile, KeyIn
  <2>3. CASE file' = file
    BY <1>1, <2>3
  <2>4. QED BY <2>1, <2>2, <2>3 DEF Keyed, ReadsKey, Generates, Ciphers, Lists, Commits
<1>4. cipher' \in Nat /\ keys' \in Nat
  BY <1>1 DEF SecretsTypeOK, Keyed, ReadsKey, Generates, CreatesFile, WritesKey, Ciphers, Lists, Commits
<1>5. stored' \in [Secrets -> SecretRow] /\ named' \subseteq Secrets /\ entered' \subseteq Secrets /\ owed' \subseteq Secrets
  BY <1>1 DEF SecretsTypeOK, Keyed, ReadsKey, Generates, CreatesFile, WritesKey, Ciphers, Lists, Commits, SecretRow, Under, Unset
<1>6. clearing' = clearing
  BY DEF Keyed, ReadsKey, Generates, CreatesFile, WritesKey, Ciphers, Lists, Commits
<1>7. QED BY <1>2, <1>3, <1>4, <1>5, <1>6 DEF SecretsTypeOK

LEMMA TypeStep == SecretsTypeOK /\ [SecretsNext]_secrets => SecretsTypeOK'
<1> SUFFICES ASSUME SecretsTypeOK, [SecretsNext]_secrets PROVE SecretsTypeOK'
  OBVIOUS
<1>1. CASE UNCHANGED secrets
  BY <1>1 DEF secrets, SecretsTypeOK
<1>2. CASE ClearReads
  BY <1>2 DEF ClearReads, SecretsTypeOK, Unusable
<1>3. CASE ClearWrites
  <2>1. PICK c \in clearing : /\ stored' = [s \in Secrets |-> IF s \in c.refused THEN Unset ELSE stored[s]]
                              /\ named' = c.list \union c.refused /\ owed' = owed \union c.refused
    BY <1>3 DEF ClearWrites, Renamed
  <2>2. stored' \in [Secrets -> SecretRow]
    BY <2>1 DEF SecretsTypeOK, SecretRow, Unset
  <2>3. named' \subseteq Secrets /\ owed' \subseteq Secrets
    BY <2>1 DEF SecretsTypeOK
  <2>4. QED BY <1>3, <2>2, <2>3 DEF ClearWrites, SecretsTypeOK
<1>4. CASE StartsOver
  BY <1>4 DEF StartsOver, SecretsTypeOK
<1>5. QED BY <1>1, <1>2, <1>3, <1>4, PutsType, PutStepsType, RestoresType DEF SecretsNext

-----------------------------------------------------------------------------
\* No file, nor the key in memory, nor what a PUT is sealed with changes.
LEMMA MadeStays ==
  ASSUME MadeInv, UNCHANGED <<file, cipher>>,
         \A q \in Putters : \/ putting'[q] = putting[q] \/ putting'[q].at \in {"idle", "sealing"}
                            \/ /\ putting'[q].at = "sealed" /\ putting'[q].empty
                            \/ /\ putting[q].at = "sealed" /\ putting'[q].at = "listed"
                               /\ putting'[q].key = putting[q].key /\ putting'[q].empty = putting[q].empty
  PROVE  KeyKnown'
<1>1. Making' \subseteq Making
  BY DEF Making
<1>2. \A p, q \in Making' : p = q
  BY <1>1 DEF MadeInv, KeyKnown
<1>3. ASSUME NEW q \in Putters
      PROVE  /\ PutAt(q, "generated")' => ~file.is /\ cipher = 0 /\ putting'[q].key # 0
             /\ PutAt(q, "created")' => file.is /\ file.key = 0 /\ cipher = 0 /\ putting'[q].key # 0
             /\ PutAt(q, "written")' => file.is /\ file.key = putting'[q].key /\ file.key # 0
             /\ putting'[q].at \in {"sealed", "listed"} =>
                  putting'[q].empty \/ (file.is /\ putting'[q].key = file.key /\ file.key # 0)
  BY DEF MadeInv, KeyKnown, PutAt
<1>4. QED BY <1>2, <1>3 DEF MadeInv, KeyKnown

LEMMA MadeKeeps ==
  ASSUME MadeInv, "first_use" \notin Faults, [SecretsNext]_secrets
  PROVE  MadeInv'
<1>1. SecretsTypeOK'
  BY TypeStep DEF MadeInv
<1>2. ASSUME UNCHANGED <<file, cipher, putting>> PROVE KeyKnown'
  BY <1>2, MadeStays
<1>3. CASE UNCHANGED secrets \/ ClearReads \/ ClearWrites
           \/ \E brought \in Archived, list \in SUBSET Secrets : Restores(brought, list) \/ RestoresBeside(brought, list)
  <2>1. ASSUME NEW brought \in Archived, NEW list \in SUBSET Secrets, Restores(brought, list) \/ RestoresBeside(brought, list)
        PROVE  KeyKnown'
    BY <1>2, <2>1 DEF Restores, RestoresBeside
  <2>2. (UNCHANGED secrets \/ ClearReads \/ ClearWrites) => UNCHANGED <<file, cipher, putting>>
    BY DEF secrets, ClearReads, ClearWrites
  <2>3. (UNCHANGED secrets \/ ClearReads \/ ClearWrites) => KeyKnown'
    BY <1>2, <2>2
  <2>4. QED BY <1>1, <1>3, <2>1, <2>3, Zenon DEF MadeInv
<1>4. CASE StartsOver
  <2>1. \A q \in Putters : putting'[q] = NoPut
    BY <1>4 DEF StartsOver
  <2>2. file' = file /\ cipher' = 0
    BY <1>4 DEF StartsOver
  <2>3. Making' = {}
    BY <2>1 DEF Making, NoPut
  <2>4. \A q \in Putters : putting'[q].at \notin Ats
    BY <2>1 DEF NoPut, Ats
  <2>5. /\ \A p, q \in Making' : p = q
        /\ ~file.is => file.key = 0
    BY <2>3 DEF MadeInv, KeyKnown
  <2>6. ~file'.is => file'.key = 0
    BY <2>2, <2>5
  <2>7. ~(cipher' # 0)
    BY <2>2
  <2>8. \A q \in Putters : ~PutAt(q, "generated")' /\ ~PutAt(q, "created")' /\ ~PutAt(q, "written")' /\ putting'[q].at \notin {"sealed", "listed"}
    BY <2>4 DEF PutAt, Ats
  <2>9. QED BY <1>1, <2>5, <2>6, <2>7, <2>8 DEF MadeInv, KeyKnown
<1>5. ASSUME NEW q \in Putters, NEW s \in Secrets, NEW e \in BOOLEAN, Puts(q, s, e) PROVE KeyKnown'
  <2>1. PICK r : r = [at |-> IF e THEN "sealed" ELSE "sealing", secret |-> s, empty |-> e, key |-> 0, list |-> {}]
    OBVIOUS
  <2>2. putting' = [putting EXCEPT ![q] = r] /\ UNCHANGED <<file, cipher>>
    BY <1>5, <2>1 DEF Puts
  <2>3. putting'[q] = r /\ \A p \in Putters : p # q => putting'[p] = putting[p]
    BY <2>2 DEF MadeInv, SecretsTypeOK
  <2>4. r.at = "sealing" \/ (r.at = "sealed" /\ r.empty)
    BY <2>1
  <2>5. QED BY <2>2, <2>3, <2>4, MadeStays
<1>6. ASSUME NEW q \in Putters, Keyed(q) \/ ReadsKey(q) \/ Generates(q) \/ CreatesFile(q) \/ WritesKey(q)
                                \/ Ciphers(q) \/ Lists(q) \/ Commits(q)
      PROVE  KeyKnown'
  <2>1. /\ putting[q] \in PutRec /\ putting[q].key \in Nat /\ putting[q].list \in SUBSET Secrets
        /\ cipher \in Nat /\ keys \in Nat /\ keys + 1 \in Nat /\ keys + 1 # 0 /\ file \in KeyIn /\ file.key \in Nat
        /\ named \in SUBSET Secrets
    <3>1. putting[q].at # "idle"
      BY <1>6 DEF Keyed, ReadsKey, Generates, CreatesFile, WritesKey, Ciphers, Lists, Commits, PutAt
    <3>2. QED BY <3>1, PutIs DEF MadeInv, SecretsTypeOK
  <2>2. CASE Keyed(q)
    <3>1. /\ putting'[q].at = "sealed" /\ putting'[q].key = cipher /\ \A p \in Putters : p # q => putting'[p] = putting[p]
          /\ cipher # 0 /\ UNCHANGED <<file, cipher>>
      BY <2>1, <2>2, PutSteps DEF MadeInv, PutTo, Keyed
    <3>2. \A p, r \in Making' : p = r
      BY <3>1 DEF Making, MadeInv, KeyKnown
    <3>3. file.is /\ cipher = file.key
      BY <3>1 DEF MadeInv, KeyKnown
    <3>4. QED BY <3>1, <3>2, <3>3 DEF MadeInv, KeyKnown, PutAt
  <2>3. CASE ReadsKey(q)
    <3>1. \A p \in Putters : putting'[p] = putting[p] \/ putting'[p].at = "idle"
      BY <2>1, <2>3 DEF ReadsKey, MadeInv, SecretsTypeOK, NoPut
    <3>2. CASE cipher' = cipher
      BY <2>3, <3>1, <3>2, MadeStays DEF ReadsKey
    <3>3. CASE cipher' # cipher
      <4>1. file' = file /\ file.is /\ file.key # 0 /\ cipher' = file.key /\ putting' = putting
        BY <2>3, <3>3 DEF ReadsKey
      <4>2. \A p \in Putters : ~PutAt(p, "generated") /\ ~PutAt(p, "created")
        BY <4>1 DEF MadeInv, KeyKnown
      <4>3. QED BY <4>1, <4>2 DEF MadeInv, KeyKnown, PutAt, Making
    <3>4. QED BY <3>2, <3>3
  <2>4. CASE Generates(q)
    <3>1. /\ putting'[q].at = "generated" /\ putting'[q].key = keys + 1 /\ \A p \in Putters : p # q => putting'[p] = putting[p]
          /\ cipher = 0 /\ ~file.is /\ Making = {} /\ UNCHANGED <<file, cipher>>
      BY <2>1, <2>4, PutSteps DEF MadeInv, PutTo, Generates, Alone
    <3>2. \A p, r \in Making' : p = r
      BY <3>1 DEF Making
    <3>3. QED BY <2>1, <3>1, <3>2 DEF MadeInv, KeyKnown, PutAt
  <2>5. CASE CreatesFile(q)
    <3>1. /\ putting[q].at = "generated" /\ putting'[q].at = "created" /\ putting'[q].key = putting[q].key
          /\ \A p \in Putters : p # q => putting'[p] = putting[p]
          /\ cipher' = cipher /\ file' = [is |-> TRUE, key |-> 0]
      BY <2>1, <2>5, PutSteps DEF MadeInv, PutTo, CreatesFile, PutAt
    <3>2. \A p, r \in Making' : p = r
      BY <3>1 DEF Making, MadeInv, KeyKnown
    <3>3. file'.is /\ file'.key = 0 /\ ~file.is /\ cipher = 0 /\ putting[q].key # 0
      BY <3>1 DEF MadeInv, KeyKnown, PutAt
    <3>4. \A p \in Putters : p # q => ~PutAt(p, "generated") /\ ~PutAt(p, "created") /\ ~PutAt(p, "written")
      BY <3>1 DEF MadeInv, KeyKnown, PutAt, Making
    <3>5. QED BY <3>1, <3>2, <3>3, <3>4 DEF MadeInv, KeyKnown, PutAt
  <2>6. CASE WritesKey(q)
    <3>1. /\ putting[q].at = "created" /\ putting'[q].at = "written" /\ putting'[q].key = putting[q].key
          /\ \A p \in Putters : p # q => putting'[p] = putting[p]
          /\ cipher' = cipher /\ file' = [file EXCEPT !.key = putting[q].key]
      BY <2>1, <2>6, PutSteps DEF MadeInv, PutTo, WritesKey, PutAt, Persisted
    <3>2. \A p, r \in Making' : p = r
      BY <3>1 DEF Making, MadeInv, KeyKnown
    <3>3. file'.is /\ file'.key = putting[q].key /\ file.is /\ file.key = 0 /\ cipher = 0 /\ putting[q].key # 0
      BY <2>1, <3>1 DEF MadeInv, KeyKnown, PutAt, KeyIn
    <3>4. \A p \in Putters : p # q => ~PutAt(p, "generated") /\ ~PutAt(p, "created") /\ ~PutAt(p, "written")
      BY <3>1 DEF MadeInv, KeyKnown, PutAt, Making
    <3>5. \A p \in Putters : putting[p].at \in {"sealed", "listed"} => putting[p].empty
      BY <3>3 DEF MadeInv, KeyKnown
    <3>6. QED BY <3>1, <3>2, <3>3, <3>4, <3>5 DEF MadeInv, KeyKnown, PutAt
  <2>7. CASE Ciphers(q)
    <3>1. /\ putting[q].at = "written" /\ putting'[q].at = "sealing"
          /\ \A p \in Putters : p # q => putting'[p] = putting[p]
          /\ cipher' = putting[q].key /\ file' = file
      BY <2>1, <2>7, PutSteps DEF MadeInv, PutTo, Ciphers, PutAt
    <3>2. \A p, r \in Making' : p = r
      BY <3>1 DEF Making, MadeInv, KeyKnown
    <3>3. file.is /\ file.key = putting[q].key
      BY <3>1 DEF MadeInv, KeyKnown, PutAt
    <3>4. \A p \in Putters : p # q => ~PutAt(p, "generated") /\ ~PutAt(p, "created") /\ ~PutAt(p, "written")
      BY <3>1 DEF MadeInv, KeyKnown, PutAt, Making
    <3>5. QED BY <3>1, <3>2, <3>3, <3>4 DEF MadeInv, KeyKnown, PutAt
  <2>8. CASE Lists(q)
    <3>1. /\ putting[q].at = "sealed" /\ putting'[q].at = "listed" /\ putting'[q].key = putting[q].key
          /\ putting'[q].empty = putting[q].empty
          /\ \A p \in Putters : p # q => putting'[p] = putting[p]
          /\ UNCHANGED <<file, cipher>>
      BY <2>1, <2>8, PutSteps DEF MadeInv, PutTo, Lists, PutAt
    <3>2. QED BY <3>1, MadeStays
  <2>9. CASE Commits(q)
    <3>1. \A p \in Putters : putting'[p] = putting[p] \/ putting'[p].at = "idle"
      BY <2>1, <2>9 DEF Commits, MadeInv, SecretsTypeOK, NoPut
    <3>2. QED BY <2>9, <3>1, MadeStays DEF Commits
  <2>10. QED BY <1>6, <2>2, <2>3, <2>4, <2>5, <2>6, <2>7, <2>8, <2>9
<1>7. QED BY <1>1, <1>3, <1>4, <1>5, <1>6 DEF MadeInv, SecretsNext

LEMMA MadeStart == SecretsInit => MadeInv
<1> SUFFICES ASSUME SecretsInit PROVE MadeInv
  OBVIOUS
<1>1. \A q \in Putters : putting[q].at = "idle"
  BY DEF SecretsInit, NoPut
<1>2. KeyKnown
  BY <1>1 DEF SecretsInit, KeyKnown, Making, PutAt
<1>3. QED BY <1>2, TypeStart DEF MadeInv

-----------------------------------------------------------------------------
LEMMA OwedStart == SecretsInit => OwedInv
  BY TypeStart DEF SecretsInit, OwedInv, Quiet, PutAt, NoPut

\* Between two restores: a PUT or the clearing, never both.
LEMMA OwedKeeps ==
  ASSUME OwedInv, "overlap" \notin Faults, [SecretsNext]_secrets
  PROVE  OwedInv'
<1>1. SecretsTypeOK'
  BY TypeStep DEF OwedInv
<1>2. CASE UNCHANGED secrets
  BY <1>1, <1>2 DEF secrets, OwedInv, Quiet, PutAt
<1>3. CASE ClearReads
  BY <1>1, <1>3 DEF ClearReads, OwedInv, Quiet, PutAt, Alone
<1>4. CASE ClearWrites
  <2>1. PICK c \in clearing : named' = c.list \union c.refused /\ owed' = owed \union c.refused
    BY <1>4 DEF ClearWrites, Renamed
  <2>2. owed' \subseteq named' /\ clearing' = {} /\ putting' = putting
    BY <1>4, <2>1 DEF ClearWrites, OwedInv
  <2>3. \A q \in Putters : ~PutAt(q, "listed")'
    BY <2>1, <2>2 DEF OwedInv, Quiet, PutAt
  <2>4. QED BY <1>1, <2>2, <2>3 DEF OwedInv
<1>5. CASE StartsOver
  BY <1>1, <1>5 DEF StartsOver, OwedInv, Quiet, PutAt, NoPut
<1>6. ASSUME NEW brought \in Archived, NEW list \in SUBSET Secrets, Restores(brought, list) \/ RestoresBeside(brought, list) PROVE OwedInv'
  <2>1. owed' \subseteq named'
    BY <1>6 DEF Restores, RestoresBeside, Renamed, StillOwed
  <2>2. clearing' = {} /\ \A q \in Putters : ~PutAt(q, "listed")'
    BY <1>6 DEF Restores, RestoresBeside, Quiet, PutAt
  <2>3. QED BY <1>1, <2>1, <2>2 DEF OwedInv
<1>7. ASSUME NEW q \in Putters, NEW s \in Secrets, NEW e \in BOOLEAN, Puts(q, s, e) PROVE OwedInv'
  <2>1. /\ clearing = {} /\ UNCHANGED <<clearing, owed, named>>
        /\ \A p \in Putters : putting'[p].at # "listed" \/ putting'[p] = putting[p]
    BY <1>7 DEF Puts, Alone, OwedInv, SecretsTypeOK
  <2>2. QED BY <1>1, <2>1 DEF OwedInv, PutAt
<1>8. ASSUME NEW q \in Putters, Keyed(q) \/ ReadsKey(q) \/ Generates(q) \/ CreatesFile(q) \/ WritesKey(q) \/ Ciphers(q)
      PROVE  OwedInv'
  <2>1. UNCHANGED <<clearing, owed, named>> /\ clearing = {}
    BY <1>8 DEF Keyed, ReadsKey, Generates, CreatesFile, WritesKey, Ciphers, OwedInv, Quiet, PutAt
  <2>2. \A p \in Putters : putting'[p].at # "listed" \/ putting'[p] = putting[p]
    <3>1. CASE ReadsKey(q)
      BY <3>1 DEF ReadsKey, OwedInv, SecretsTypeOK, NoPut
    <3>2. CASE ~ReadsKey(q)
      BY <1>8, <3>2, PutSteps DEF PutTo, OwedInv
    <3>3. QED BY <3>1, <3>2
  <2>3. QED BY <1>1, <2>1, <2>2 DEF OwedInv, PutAt
<1>9. ASSUME NEW q \in Putters, Lists(q) PROVE OwedInv'
  <2>1. UNCHANGED <<clearing, owed, named>> /\ clearing = {}
    BY <1>9 DEF Lists, OwedInv, Quiet, PutAt
  <2>2. PutTo(q, "listed", putting[q].key, named)
    BY <1>9, PutSteps DEF OwedInv
  <2>3. QED BY <1>1, <2>1, <2>2 DEF OwedInv, PutAt, PutTo
<1>10. ASSUME NEW q \in Putters, Commits(q) PROVE OwedInv'
  <2>1. /\ clearing' = clearing /\ clearing = {} /\ owed' = owed \ {putting[q].secret}
        /\ named' = IF putting[q].secret \in putting[q].list THEN putting[q].list \ {putting[q].secret} ELSE named
        /\ owed \subseteq putting[q].list /\ owed \subseteq named
    BY <1>10 DEF Commits, OwedInv, Quiet, PutAt
  <2>2. \A p \in Putters : putting'[p].at # "listed" \/ putting'[p] = putting[p]
    BY <1>10 DEF Commits, OwedInv, SecretsTypeOK, NoPut
  <2>3. QED BY <1>1, <2>1, <2>2 DEF OwedInv, PutAt
<1>11. QED BY <1>2, <1>3, <1>4, <1>5, <1>6, <1>7, <1>8, <1>9, <1>10 DEF SecretsNext

-----------------------------------------------------------------------------
LEMMA EnteredStart == SecretsInit => EnteredInv
  BY MadeStart, OwedStart DEF EnteredInv, SecretsInit, EnteredReadable

\* The file's key is kept by every step that does not make it.
LEMMA KeyFileStays ==
  ASSUME MadeInv, [SecretsNext]_secrets, file.key # 0
  PROVE  file' = file
<1>1. ASSUME NEW q \in Putters, CreatesFile(q) \/ WritesKey(q) PROVE FALSE
  BY <1>1 DEF CreatesFile, WritesKey, MadeInv, KeyKnown, PutAt
<1>2. ASSUME NEW q \in Putters, NEW s, NEW e, Puts(q, s, e) PROVE file' = file
  BY <1>2 DEF Puts
<1>3. ASSUME NEW q \in Putters, Keyed(q) \/ ReadsKey(q) \/ Generates(q) \/ Ciphers(q) \/ Lists(q) \/ Commits(q) PROVE file' = file
  BY <1>3 DEF Keyed, ReadsKey, Generates, Ciphers, Lists, Commits
<1>4. ASSUME NEW brought, NEW list, Restores(brought, list) \/ RestoresBeside(brought, list) PROVE file' = file
  BY <1>4 DEF Restores, RestoresBeside
<1>5. (UNCHANGED secrets \/ ClearReads \/ ClearWrites \/ StartsOver) => file' = file
  BY DEF secrets, ClearReads, ClearWrites, StartsOver
<1>6. QED BY <1>1, <1>2, <1>3, <1>4, <1>5 DEF SecretsNext

LEMMA EnteredKeeps ==
  ASSUME EnteredInv, Faults = {}, [SecretsNext]_secrets
  PROVE  EnteredInv'
<1>1. MadeInv' /\ OwedInv'
  BY MadeKeeps, OwedKeeps DEF EnteredInv
<1>2. \A s \in entered : Usable(stored[s]) /\ stored[s].key # 0 /\ stored[s].key = file.key
  BY DEF EnteredInv, EnteredReadable, Readable
<1>3. entered # {} => file' = file
  BY <1>2, KeyFileStays DEF EnteredInv
<1>4. ASSUME UNCHANGED <<stored, entered>> PROVE EnteredReadable'
  BY <1>2, <1>3, <1>4 DEF EnteredReadable, Readable, Usable
<1>5. CASE UNCHANGED secrets
  BY <1>1, <1>4, <1>5 DEF secrets, EnteredInv
<1>6. CASE ClearReads
  <2>1. ASSUME NEW u, u = Unusable(stored, FALSE) PROVE \A c \in clearing' : c.refused = u
    <3>1. clearing' = {[refused |-> u, list |-> named]}
      BY <1>6, <2>1, Zenon DEF ClearReads
    <3>2. QED BY <3>1
  <2>2. Unusable(stored, FALSE) \cap entered = {}
    BY <1>2 DEF Unusable
  <2>3. UNCHANGED <<stored, entered>>
    BY <1>6 DEF ClearReads
  <2>4. QED BY <1>1, <1>4, <2>1, <2>2, <2>3 DEF EnteredInv
<1>7. CASE ClearWrites
  <2>1. PICK c \in clearing : stored' = [s \in Secrets |-> IF s \in c.refused THEN Unset ELSE stored[s]]
    BY <1>7 DEF ClearWrites
  <2>2. entered' = entered /\ clearing' = {} /\ entered \subseteq Secrets
    BY <1>7 DEF ClearWrites, EnteredInv, MadeInv, SecretsTypeOK
  <2>3. \A s \in entered : stored'[s] = stored[s]
    BY <2>1, <2>2 DEF EnteredInv
  <2>4. EnteredReadable'
    BY <1>2, <1>3, <2>2, <2>3 DEF EnteredReadable, Readable, Usable
  <2>5. QED BY <1>1, <2>2, <2>4 DEF EnteredInv
<1>8. CASE StartsOver
  BY <1>1, <1>4, <1>8 DEF StartsOver, EnteredInv
<1>9. ASSUME NEW brought \in Archived, NEW list \in SUBSET Secrets, Restores(brought, list) \/ RestoresBeside(brought, list) PROVE EnteredInv'
  BY <1>1, <1>9 DEF Restores, RestoresBeside, EnteredInv, EnteredReadable
<1>10. ASSUME NEW q \in Putters, NEW s \in Secrets, NEW e \in BOOLEAN, Puts(q, s, e) PROVE EnteredInv'
  BY <1>1, <1>4, <1>10 DEF Puts, EnteredInv
<1>11. ASSUME NEW q \in Putters, Keyed(q) \/ ReadsKey(q) \/ Generates(q) \/ CreatesFile(q) \/ WritesKey(q) \/ Ciphers(q) \/ Lists(q)
       PROVE  EnteredInv'
  <2>1. UNCHANGED <<stored, entered, clearing>>
    BY <1>11 DEF Keyed, ReadsKey, Generates, CreatesFile, WritesKey, Ciphers, Lists
  <2>2. QED BY <1>1, <1>4, <2>1 DEF EnteredInv
<1>12. ASSUME NEW q \in Putters, Commits(q) PROVE EnteredInv'
  <2>1. putting[q] \in PutRec /\ putting[q].secret \in Secrets
    BY <1>12, PutIs DEF Commits, PutAt, EnteredInv, MadeInv
  <2>2. PICK s : s = putting[q].secret
    OBVIOUS
  <2>3. /\ stored' = [stored EXCEPT ![s] = IF putting[q].empty THEN Unset ELSE Under(putting[q].key)]
        /\ entered' = IF putting[q].empty THEN entered \ {s} ELSE entered \union {s}
        /\ clearing' = clearing /\ file' = file /\ putting[q].at = "listed" /\ clearing = {}
    BY <1>12, <2>2 DEF Commits, PutAt, EnteredInv, OwedInv, Quiet
  <2>4. stored \in [Secrets -> SecretRow] /\ s \in Secrets /\ entered \subseteq Secrets
    BY <2>1, <2>2 DEF EnteredInv, MadeInv, SecretsTypeOK
  <2>5. CASE putting[q].empty
    <3>1. \A t \in entered' : t \in entered /\ stored'[t] = stored[t]
      BY <2>3, <2>4, <2>5
    <3>2. QED BY <1>1, <1>2, <2>3, <3>1 DEF EnteredInv, EnteredReadable, Readable, Usable
  <2>6. CASE ~putting[q].empty
    <3>1. putting[q].key = file.key /\ file.key # 0
      BY <2>3, <2>6 DEF EnteredInv, MadeInv, KeyKnown
    <3>2. stored'[s] = Under(file.key)
      BY <2>3, <2>4, <2>6, <3>1
    <3>3. \A t \in entered' : t = s \/ (t \in entered /\ stored'[t] = stored[t])
      BY <2>3, <2>4, <2>6
    <3>4. QED BY <1>1, <1>2, <2>3, <3>1, <3>2, <3>3 DEF EnteredInv, EnteredReadable, Readable, Usable, Under
  <2>7. QED BY <2>5, <2>6
<1>13. QED BY <1>5, <1>6, <1>7, <1>8, <1>9, <1>10, <1>11, <1>12 DEF SecretsNext

-----------------------------------------------------------------------------
\* With one PUT at a time at the first use of the key, the key in the file stays
\* the one that was generated, whatever else is at work, restarts and restores
\* included (crypto._load_key_material).
THEOREM KeyIsKept ==
  ASSUME "first_use" \notin Faults
  PROVE  SecretsSpec => KeyMadeOnce
<1>1. MadeInv /\ [SecretsNext]_secrets => MadeInv'
  BY MadeKeeps
<1>2. MadeInv /\ [SecretsNext]_secrets => [file.key # 0 => file' = file]_secrets
  BY KeyFileStays
<1>3. QED BY MadeStart, <1>1, <1>2, PTL DEF SecretsSpec, KeyMadeOnce

\* With no PUT between the clearing's reads and its writes, a secret that was
\* cleared as unusable is named until it is entered again, though two PUTs race
\* for the key (app_settings.clear_unusable_secrets, set_setting).
THEOREM ClearedAreNamed ==
  ASSUME "overlap" \notin Faults
  PROVE  SecretsSpec => []ClearedIsNamed
<1>1. OwedInv => ClearedIsNamed
  BY DEF OwedInv, ClearedIsNamed
<1>2. OwedInv /\ [SecretsNext]_secrets => OwedInv'
  BY OwedKeeps
<1>3. QED BY OwedStart, <1>1, <1>2, PTL DEF SecretsSpec

\* Where neither of the two known defects can happen, a secret the owner entered
\* can be read with the key in the file, after any restart, clearing and restore
\* (crypto.get_cipher, app_settings.clear_unusable_secrets).
THEOREM EnteredIsReadable ==
  ASSUME Faults = {}
  PROVE  SecretsSpec => []EnteredReadable
<1>1. EnteredInv => EnteredReadable
  BY DEF EnteredInv
<1>2. EnteredInv /\ [SecretsNext]_secrets => EnteredInv'
  BY EnteredKeeps
<1>3. QED BY EnteredStart, <1>1, <1>2, PTL DEF SecretsSpec

-----------------------------------------------------------------------------
\* The least of any natural numbers.
Below == {p \in Nat \X Nat : p[1] < p[2]}
LEMMA Least ==
  ASSUME NEW S \in SUBSET Nat, S # {}
  PROVE  \E n \in S : \A m \in S : n <= m
<1>1. WF!OpToRel(<, Nat) = Below
  BY DEF WF!OpToRel, Below
<1>2. WF!IsWellFoundedOn(Below, Nat)
  BY <1>1, WF!NatLessThanWellFounded
<1>3. PICK n \in S : \A m \in S : ~(<<m, n>> \in Below)
  BY <1>2, WF!WFMin
<1>4. ASSUME NEW m \in S PROVE n <= m
  <2>1. <<m, n>> \in Nat \X Nat /\ <<m, n>>[1] = m /\ <<m, n>>[2] = n
    OBVIOUS
  <2>2. ~(m < n)
    BY <1>3, <2>1 DEF Below
  <2>3. QED BY <2>2
<1>5. QED BY <1>4

-----------------------------------------------------------------------------
(* Members of a finite set, each with those before it and itself: their    *)
(* numbers are the places 1, 2, ..., each taken once.                      *)
Lined(S, before) ==
  /\ IsFiniteSet(S) /\ before \in [S -> SUBSET S] /\ \A m \in S : m \in before[m]
  /\ \A m, n \in S : m # n => \/ before[m] \subseteq before[n] /\ n \notin before[m]
                              \/ before[n] \subseteq before[m] /\ m \notin before[n]

Numbered(S, before) ==
  /\ Cardinality(S) \in Nat
  /\ \A m \in S : Cardinality(before[m]) \in 1 .. Cardinality(S)
  /\ \A m, n \in S : m \in before[n] /\ m # n => Cardinality(before[m]) < Cardinality(before[n])
  /\ \A m, n \in S : Cardinality(before[m]) = Cardinality(before[n]) => m = n
  /\ \A r \in 1 .. Cardinality(S) : \E m \in S : Cardinality(before[m]) = r

LEMMA PlacesAre ==
  ASSUME NEW S, NEW before, Lined(S, before)
  PROVE  Numbered(S, before)
<1> USE DEF Lined
<1>1. PICK C \in Nat : C = Cardinality(S)
  BY FS_CardinalityType
<1>2. PICK rank : rank = [m \in S |-> Cardinality(before[m])]
  OBVIOUS
<1>3. ASSUME NEW m \in S
      PROVE  IsFiniteSet(before[m]) /\ rank[m] \in 1 .. C
  <2>1. IsFiniteSet(before[m]) /\ Cardinality(before[m]) <= C
    BY <1>1, FS_Subset
  <2>2. Cardinality(before[m]) \in Nat /\ Cardinality(before[m]) # 0
    BY <2>1, FS_CardinalityType, FS_EmptySet
  <2>3. QED BY <1>2, <2>1, <2>2
<1>4. ASSUME NEW m \in S, NEW n \in S, before[m] \subseteq before[n], n \notin before[m]
      PROVE  rank[m] < rank[n]
  <2>1. IsFiniteSet(before[n]) /\ before[m] # before[n]
    BY <1>3, <1>4
  <2>2. Cardinality(before[m]) <= Cardinality(before[n]) /\ Cardinality(before[m]) # Cardinality(before[n])
    BY <1>4, <2>1, FS_Subset
  <2>3. rank[m] \in Nat /\ rank[n] \in Nat
    BY <1>3
  <2>4. QED BY <1>2, <2>2, <2>3
<1>5. ASSUME NEW m \in S, NEW n \in S, m # n
      PROVE  rank[m] # rank[n]
  <2>1. rank[m] < rank[n] \/ rank[n] < rank[m]
    BY <1>4, <1>5
  <2>2. rank[m] \in Nat /\ rank[n] \in Nat
    BY <1>3
  <2>3. QED BY <2>1, <2>2
<1>6. ASSUME NEW r \in 1 .. C
      PROVE  \E m \in S : rank[m] = r
  <2>1. SUFFICES ASSUME \A m \in S : rank[m] # r PROVE FALSE
    OBVIOUS
  <2>2. PICK I : I = 1 .. C
    OBVIOUS
  <2>3. IsFiniteSet(I) /\ Cardinality(I) = C
    BY <2>2, FS_Interval
  <2>4. PICK T : T = I \ {r} /\ IsFiniteSet(T) /\ Cardinality(T) = C - 1
    <3>1. r \in I
      BY <2>2
    <3>2. QED BY <2>3, <3>1, FS_RemoveElement
  <2>5. rank \in [S -> T]
    BY <1>2, <1>3, <2>1, <2>2, <2>4
  <2>6. Cardinality(T) < Cardinality(S)
    BY <1>1, <2>4
  <2>7. \E m, n \in S : m # n /\ rank[m] = rank[n]
    BY <2>4, <2>5, <2>6, FS_PigeonHole
  <2>8. QED BY <1>5, <2>7
<1>7. ASSUME NEW m \in S, NEW n \in S, m \in before[n], m # n
      PROVE  rank[m] < rank[n]
  BY <1>4, <1>7
<1>8. QED BY <1>1, <1>2, <1>3, <1>5, <1>6, <1>7 DEF Numbered

\* Numbers of a set of them: in their order.
LEMMA NthIs ==
  ASSUME NEW L \in Nat, NEW S \in SUBSET (1 .. L)
  PROVE  Cardinality(S) \in Nat /\ Cardinality(S) <= L
         /\ Numbered(S, [m \in S |-> {k \in S : k <= m}])
<1>1. IsFiniteSet(1 .. L) /\ Cardinality(1 .. L) = L
  BY FS_Interval
<1>2. IsFiniteSet(S) /\ Cardinality(S) \in Nat /\ Cardinality(S) <= L
  BY <1>1, FS_Subset, FS_CardinalityType
<1>3. PICK before : before = [m \in S |-> {k \in S : k <= m}]
  OBVIOUS
<1>4. before \in [S -> SUBSET S] /\ \A m, k \in S : k \in before[m] <=> k <= m
  BY <1>3
<1>5. ASSUME NEW m \in S, NEW n \in S, m < n
      PROVE  before[m] \subseteq before[n] /\ n \notin before[m]
  <2>1. n \notin before[m]
    BY <1>4, <1>5
  <2>2. ASSUME NEW k \in before[m] PROVE k \in before[n]
    <3>1. before[m] \in SUBSET S
      BY <1>4
    <3>2. k \in S /\ k <= m
      BY <1>4, <3>1
    <3>3. QED BY <1>4, <1>5, <3>2
  <2>3. QED BY <2>1, <2>2
<1>6. \A m, n \in S : m # n => m < n \/ n < m
  OBVIOUS
<1>7. Lined(S, before)
  BY <1>2, <1>4, <1>5, <1>6 DEF Lined
<1>8. QED BY <1>2, <1>3, <1>7, PlacesAre

-----------------------------------------------------------------------------
(* Prices: no two estimates of a piece are of one date, and a run for melt  *)
(* values has read, or was beside, every number from before it began.       *)

EstSources == {"manual", "source", "melt"}
Ests == (Nat \ {0}) \X EstSources
Typings == [at : {"idle", "typing"}, item : SUBSET Priced, source : EstSources \union {"none"}, begun : Nat]
SeenEsts == [Priced -> SUBSET Ests] \union {Unread}
PriceRuns == [at : {"idle", "read", "visit", "reopen"}, of : {"none", "melt", "source"}, begun : Nat,
              beside : SUBSET Nat, seen : SeenEsts, cutoff : Nat, todo : SUBSET Priced, pending : SUBSET Priced]

PricesTypeOK ==
  /\ clock \in Nat \ {0} /\ est \in [Priced -> SUBSET Ests]
  /\ typing \in [Typists -> Typings] /\ refresh \in [Refreshers -> PriceRuns]
  /\ \A t \in Typists : IF typing[t].at = "typing" THEN typing[t].begun # 0 /\ typing[t].source # "none"
                        ELSE typing[t].begun = 0

\* Every transaction has a date of its own, and so has what it writes.
DatesApart ==
  /\ \A i \in Priced : \A e \in est[i] : e[1] <= clock /\ \A f \in est[i] : e[1] = f[1] => e = f
  /\ \A t \in Typists : /\ typing[t].begun <= clock
                        /\ \A i \in Priced : \A e \in est[i] : e[1] # typing[t].begun
                        /\ \A u \in Typists : typing[t].begun = typing[u].begun => t = u \/ typing[t].begun = 0
                        /\ \A r \in Refreshers : typing[t].begun = refresh[r].begun => typing[t].begun = 0
  /\ \A r \in Refreshers : /\ refresh[r].begun <= clock
                           /\ \A i \in Priced : \A e \in est[i] : e[1] # refresh[r].begun
                           /\ \A q \in Refreshers : refresh[r].begun = refresh[q].begun => r = q \/ refresh[r].begun = 0

\* A run is in a transaction while it has something to write.
InTransaction(s) ==
  /\ s.at \in {"idle", "reopen"} => s.begun = 0
  /\ s.at \in {"idle", "read"} => s.pending = {}
  /\ s.of = "none" => s.at = "idle"
  /\ s.at = "read" => s.begun # 0
  /\ s.at = "visit" /\ (s.todo # {} \/ s.pending # {}) => s.begun # 0
  /\ s.at = "reopen" => s.seen = Unread /\ (s.of = "melt" => s.pending = {})

KnownOf(s, i) == IF i \in DOMAIN s.seen THEN s.seen[i] ELSE est[i]

SeenIs(s) ==
  \A i \in DOMAIN s.seen : /\ \A m \in s.seen[i] : m[1] <= clock /\ (m[2] = "melt" => m \in est[i])
                           /\ \A e, f \in s.seen[i] : e[1] = f[1] => e = f

MeltAtWork(s) == s.of = "melt" /\ s.begun # 0
WrittenBeside(s, date) == date \in s.beside \/ date > s.begun

\* Of the numbers that are not melt values: read, or written beside the run.
MeltSees(s, i) == \A e \in est[i] : e[2] \in Own => WrittenBeside(s, e[1]) \/ e \in KnownOf(s, i)
MeltCovers(s, i) ==
  \A e \in est[i] : e[2] \in Own => WrittenBeside(s, e[1]) \/ \E m \in est[i] : m[2] = "melt" /\ e[1] < m[1]

MeltIs(s) ==
  MeltAtWork(s) => /\ s.at = "visit" => \A i \in Priced : MeltSees(s, i)
                   /\ \A i \in s.pending : MeltCovers(s, i)

MeltBeside(s) ==
  MeltAtWork(s) => /\ \A t \in Typists : typing[t].begun # 0 => WrittenBeside(s, typing[t].begun)
                   /\ \A q \in Refreshers : refresh[q].of = "source" /\ refresh[q].begun # 0 => WrittenBeside(s, refresh[q].begun)

RunIsSound(s) == InTransaction(s) /\ SeenIs(s) /\ MeltIs(s) /\ MeltBeside(s)

PricesInv == PricesTypeOK /\ DatesApart /\ \A r \in Refreshers : RunIsSound(refresh[r])

-----------------------------------------------------------------------------
LEMMA EstIs == \A e \in Ests : e[1] \in Nat /\ e[1] # 0 /\ e[2] \in EstSources /\ e = <<e[1], e[2]>>
  BY DEF Ests

LEMMA MadeEstIs ==
  ASSUME NEW d \in Nat \ {0}, NEW s \in EstSources
  PROVE  <<d, s>> \in Ests /\ <<d, s>>[1] = d /\ <<d, s>>[2] = s
  BY DEF Ests

\* The latest of a piece's estimates is the one that none is later than.
LEMMA LatestIs ==
  ASSUME NEW es \in SUBSET Ests, NEW top \in Nat, \A e \in es : e[1] <= top,
         \A e, f \in es : e[1] = f[1] => e = f
  PROVE  /\ Latest(es) \in es \union {NoEstimate} /\ \A f \in es : f[1] <= Latest(es)[1]
         /\ \A e \in es : (\A f \in es : f[1] <= e[1]) => Latest(es) = e
<1>1. PICK all : all = es \union {NoEstimate}
  OBVIOUS
<1>2. \A e \in all : e[1] \in Nat
  BY <1>1, EstIs DEF NoEstimate
<1>3. \E e \in all : \A f \in all : f[1] <= e[1]
  <2>1. PICK S : S = {n \in Nat : \A f \in all : f[1] <= n}
    OBVIOUS
  <2>2. top \in S
    BY <1>1, <2>1 DEF NoEstimate
  <2>3. PICK n \in S : \A m \in S : n <= m
    BY <2>1, <2>2, Least
  <2>4. n \in Nat /\ \A f \in all : f[1] <= n
    BY <2>1, <2>3
  <2>5. CASE \E e \in all : e[1] = n
    BY <2>4, <2>5
  <2>6. CASE ~\E e \in all : e[1] = n
    <3>1. NoEstimate \in all /\ NoEstimate[1] = 0
      BY <1>1 DEF NoEstimate
    <3>2. n # 0
      BY <2>6, <3>1
    <3>3. \A f \in all : f[1] <= n - 1
      BY <1>2, <2>4, <2>6
    <3>4. n - 1 \in S
      BY <2>1, <2>4, <3>2, <3>3
    <3>5. QED BY <2>3, <2>4, <3>4
  <2>7. QED BY <2>5, <2>6
<1>4. Latest(es) \in all /\ \A f \in all : f[1] <= Latest(es)[1]
  BY <1>1, <1>3 DEF Latest
<1>5. ASSUME NEW e \in es, \A f \in es : f[1] <= e[1] PROVE Latest(es) = e
  <2>1. e[1] \in Nat /\ e[1] # 0 /\ Latest(es)[1] \in Nat
    BY <1>2, <1>4, EstIs
  <2>2. e[1] <= Latest(es)[1]
    BY <1>1, <1>4, <1>5
  <2>3. Latest(es) # NoEstimate
    BY <2>1, <2>2 DEF NoEstimate
  <2>4. Latest(es) \in es
    BY <1>1, <1>4, <2>3
  <2>5. Latest(es)[1] <= e[1]
    BY <1>5, <2>4
  <2>6. Latest(es)[1] = e[1]
    BY <2>1, <2>2, <2>5
  <2>7. QED BY <1>5, <2>4, <2>6
<1>6. QED BY <1>1, <1>4, <1>5

LEMMA PieceIs ==
  ASSUME PricesInv, NEW i \in Priced
  PROVE  /\ est[i] \in SUBSET Ests /\ clock \in Nat /\ \A e \in est[i] : e[1] <= clock
         /\ \A e, f \in est[i] : e[1] = f[1] => e = f
  BY DEF PricesInv, PricesTypeOK, DatesApart

LEMMA RunOfPrices ==
  ASSUME PricesInv, NEW r \in Refreshers
  PROVE  /\ refresh[r] \in PriceRuns /\ RunIsSound(refresh[r]) /\ refresh[r].begun \in Nat /\ refresh[r].todo \subseteq Priced
         /\ refresh[r].pending \subseteq Priced /\ refresh[r].beside \subseteq Nat /\ refresh[r].seen \in SeenEsts
         /\ refresh[r].of \in {"none", "melt", "source"} /\ refresh[r].begun <= clock /\ clock \in Nat
<1>1. refresh[r] \in PriceRuns /\ RunIsSound(refresh[r])
  BY DEF PricesInv, PricesTypeOK
<1>2. QED BY <1>1 DEF PricesInv, PricesTypeOK, DatesApart, PriceRuns

LEMMA NoRunIs == NoRun \in PriceRuns /\ NoRun.begun = 0 /\ NoRun.at = "idle" /\ NoRun.of = "none" /\ NoRun.pending = {}
                 /\ NoRun.seen = Unread
  BY DEF NoRun, PriceRuns, SeenEsts, Unread

LEMMA UnreadIs == DOMAIN Unread = {} /\ Unread \in SeenEsts
  BY DEF Unread, SeenEsts

LEMMA NoRunOf == RunIsSound(NoRun)
  BY NoRunIs, UnreadIs DEF RunIsSound, InTransaction, SeenIs, MeltIs, MeltBeside, MeltAtWork

LEMMA PricesStart == PricesInit => PricesInv
<1> SUFFICES ASSUME PricesInit PROVE PricesInv
  OBVIOUS
<1>1. PICK es \in {{}, {<<1, "melt">>}} : est = [i \in Priced |-> es]
  BY DEF PricesInit
<1>1a. <<1, "melt">> \in Ests /\ <<1, "melt">>[1] = 1
  <2>1. 1 \in Nat \ {0} /\ "melt" \in EstSources
    BY DEF EstSources
  <2>2. QED BY <2>1, MadeEstIs
<1>2. es \subseteq Ests /\ \A e \in es : e = <<1, "melt">> /\ e[1] = 1
  BY <1>1, <1>1a
<1>3. NoTyping \in Typings /\ NoTyping.at = "idle" /\ NoTyping.begun = 0
  BY DEF NoTyping, Typings
<1>4. /\ clock = 1 /\ est \in [Priced -> SUBSET Ests] /\ typing \in [Typists -> Typings] /\ refresh \in [Refreshers -> PriceRuns]
      /\ \A t \in Typists : typing[t].at = "idle" /\ typing[t].begun = 0
      /\ \A r \in Refreshers : refresh[r] = NoRun /\ refresh[r].begun = 0
      /\ \A i \in Priced : est[i] = es
  BY <1>1, <1>2, <1>3, NoRunIs DEF PricesInit
<1>5. PricesTypeOK
  BY <1>4 DEF PricesTypeOK
<1>6. DatesApart
  BY <1>2, <1>4 DEF DatesApart
<1>7. QED BY <1>4, <1>5, <1>6, NoRunOf DEF PricesInv

-----------------------------------------------------------------------------
(* What a run is, while others are at work.                                *)

OthersBegin(s) ==
  /\ \A t \in Typists : typing'[t].begun # 0 => typing'[t].begun = typing[t].begun \/ typing'[t].begun > s.begun
  /\ \A q \in Refreshers : refresh'[q].of = "source" /\ refresh'[q].begun # 0 =>
       (refresh'[q].of = refresh[q].of /\ refresh'[q].begun = refresh[q].begun) \/ refresh'[q].begun > s.begun

\* A run stays what it is while melt values stay, and numbers that come were
\* written beside it.
LEMMA RunStays ==
  ASSUME NEW s, s.seen \in SeenEsts, s.pending \subseteq Priced, RunIsSound(s), OthersBegin(s),
         clock \in Nat, clock' \in Nat, clock <= clock',
         \A i \in Priced : \A m \in est[i] : m[2] = "melt" => m \in est'[i],
         MeltAtWork(s) => \A i \in Priced : \A e \in est'[i] :
           e[2] \in Own => e \in est[i] \/ WrittenBeside(s, e[1])
  PROVE  RunIsSound(s)'
<1>1. DOMAIN s.seen \subseteq Priced
  BY UnreadIs DEF SeenEsts
<1>1a. \A j \in DOMAIN s.seen : \A m \in s.seen[j] : m[1] \in Nat
  BY EstIs, UnreadIs DEF SeenEsts
<1>2. SeenIs(s)'
  BY <1>1, <1>1a DEF RunIsSound, SeenIs
<1>3. ASSUME NEW i \in Priced, MeltAtWork(s), MeltSees(s, i) PROVE MeltSees(s, i)'
  <2>1. ASSUME NEW e \in est'[i], e[2] \in Own, ~WrittenBeside(s, e[1]) PROVE e \in KnownOf(s, i)'
    <3>1. e \in est[i] /\ e \in KnownOf(s, i)
      BY <1>3, <2>1 DEF MeltSees
    <3>2. QED BY <2>1, <3>1 DEF KnownOf
  <2>2. QED BY <2>1 DEF MeltSees, WrittenBeside
<1>4. ASSUME NEW i \in Priced, MeltAtWork(s), MeltCovers(s, i) PROVE MeltCovers(s, i)'
  <2>1. ASSUME NEW e \in est'[i], e[2] \in Own, ~WrittenBeside(s, e[1])
        PROVE \E m \in est'[i] : m[2] = "melt" /\ e[1] < m[1]
    <3>1. PICK m \in est[i] : m[2] = "melt" /\ e[1] < m[1]
      BY <1>4, <2>1 DEF MeltCovers
    <3>2. QED BY <3>1
  <2>2. QED BY <2>1 DEF MeltCovers, WrittenBeside
<1>5. MeltIs(s)'
  BY <1>3, <1>4 DEF RunIsSound, MeltIs, MeltAtWork
<1>6. MeltBeside(s)'
  BY DEF RunIsSound, MeltBeside, OthersBegin, WrittenBeside, MeltAtWork
<1>7. InTransaction(s)'
  BY DEF RunIsSound, InTransaction
<1>8. QED BY <1>2, <1>5, <1>6, <1>7 DEF RunIsSound

\* A step of a run that writes nothing.
LEMMA RunMoves ==
  ASSUME PricesInv, NEW r \in Refreshers, NEW s \in PriceRuns, RunIsSound(s), refresh' = [refresh EXCEPT ![r] = s],
         s.begun = 0 \/ (s.begun = refresh[r].begun /\ s.of = refresh[r].of),
         UNCHANGED <<clock, est, typing>>
  PROVE  PricesInv'
<1>1. /\ refresh' \in [Refreshers -> PriceRuns] /\ refresh'[r] = s
      /\ \A q \in Refreshers : q # r => refresh'[q] = refresh[q]
  BY DEF PricesInv, PricesTypeOK
<1>2. PricesTypeOK'
  BY <1>1 DEF PricesInv, PricesTypeOK
<1>3. \A q \in Refreshers : refresh'[q].begun = 0 \/ (refresh'[q].begun = refresh[q].begun /\ refresh'[q].of = refresh[q].of)
  BY <1>1
<1>4. \A i \in Priced : \A e \in est[i] : e[1] # 0
  BY PieceIs, EstIs
<1>5. DatesApart'
  BY <1>3, <1>4 DEF PricesInv, PricesTypeOK, DatesApart
<1>6. ASSUME NEW q \in Refreshers PROVE RunIsSound(refresh[q])'
  <2>1. PICK u : u = refresh'[q]
    OBVIOUS
  <2>2. RunIsSound(u) /\ u \in PriceRuns
    BY <1>1, <2>1 DEF PricesInv
  <2>3. OthersBegin(u)
    BY <1>3 DEF OthersBegin
  <2>4. u.seen \in SeenEsts /\ u.pending \subseteq Priced
    BY <2>2 DEF PriceRuns
  <2>5. RunIsSound(u)'
    BY <2>2, <2>3, <2>4, RunStays DEF PricesInv, PricesTypeOK
  <2>6. QED BY <2>1, <2>5
<1>7. QED BY <1>2, <1>5, <1>6 DEF PricesInv

LEMMA StopsKeeps ==
  ASSUME PricesInv, NEW r \in Refreshers, Stops(r)
  PROVE  PricesInv'
  BY NoRunIs, NoRunOf, RunMoves DEF Stops

LEMMA ReadsKeeps ==
  ASSUME PricesInv, NEW r \in Refreshers, Reads(r)
  PROVE  PricesInv'
<1>1. PICK s : s = [refresh[r] EXCEPT !.at = "visit", !.todo = Priced, !.seen = est]
  OBVIOUS
<1>2. est \in SeenEsts
  BY DEF PricesInv, PricesTypeOK, SeenEsts
<1>3. /\ s \in PriceRuns /\ s.at = "visit" /\ s.seen = est /\ s.begun = refresh[r].begun /\ s.of = refresh[r].of
      /\ s.pending = refresh[r].pending /\ s.beside = refresh[r].beside
  BY <1>1, <1>2, RunOfPrices DEF PriceRuns
<1>4. refresh[r].pending = {} /\ refresh[r].at = "read"
  BY RunOfPrices DEF Reads, RunIsSound, InTransaction
<1>5. refresh' = [refresh EXCEPT ![r] = s]
  BY <1>1 DEF Reads
<1>6. InTransaction(s)
  BY <1>3, <1>4, RunOfPrices DEF RunIsSound, InTransaction
<1>7. SeenIs(s)
  BY <1>2, <1>3, PieceIs DEF SeenIs, SeenEsts, PricesInv, PricesTypeOK
<1>8. MeltIs(s)
  BY <1>3, <1>4 DEF MeltIs, MeltSees, KnownOf, PricesInv, PricesTypeOK
<1>9. MeltBeside(s)
  BY <1>3, RunOfPrices DEF RunIsSound, MeltBeside, MeltAtWork, WrittenBeside
<1>10. QED BY <1>3, <1>5, <1>6, <1>7, <1>8, <1>9, RunMoves DEF RunIsSound, Reads

LEMMA NotDueKeeps ==
  ASSUME PricesInv, NEW r \in Refreshers, NEW i \in Priced, NotDue(r, i)
  PROVE  PricesInv'
<1>1. PICK s : s = [refresh[r] EXCEPT !.todo = @ \ {i}]
  OBVIOUS
<1>2. /\ s \in PriceRuns /\ s.at = refresh[r].at /\ s.seen = refresh[r].seen /\ s.begun = refresh[r].begun
      /\ s.of = refresh[r].of /\ s.pending = refresh[r].pending /\ s.beside = refresh[r].beside
      /\ s.todo \subseteq refresh[r].todo
  BY <1>1, RunOfPrices DEF PriceRuns
<1>3. refresh' = [refresh EXCEPT ![r] = s]
  BY <1>1 DEF NotDue
<1>4. RunIsSound(refresh[r])
  BY RunOfPrices
<1>5. InTransaction(s) /\ SeenIs(s) /\ MeltIs(s) /\ MeltBeside(s)
  BY <1>2, <1>4 DEF RunIsSound, InTransaction, SeenIs, MeltIs, MeltBeside, MeltAtWork, MeltSees, MeltCovers, KnownOf,
     WrittenBeside
<1>6. QED BY <1>2, <1>3, <1>5, RunMoves DEF RunIsSound, NotDue

\* A run computes a melt value when a melt value is the latest it knows.
LEMMA DueIsCovered ==
  ASSUME PricesInv, NEW r \in Refreshers, NEW i \in Priced, Visits(r, i), Due(r, i), MeltAtWork(refresh[r])
  PROVE  MeltCovers(refresh[r], i)
<1>1. PICK known : known = KnownOf(refresh[r], i)
  OBVIOUS
<1>2. RunIsSound(refresh[r]) /\ refresh[r].seen \in SeenEsts /\ clock \in Nat
  BY RunOfPrices
<1>3. known \in SUBSET Ests /\ \A e, f \in known : e[1] = f[1] => e = f
  BY <1>1, <1>2, PieceIs, UnreadIs DEF KnownOf, SeenEsts, RunIsSound, SeenIs
<1>3a. \A m \in known : m[1] <= clock
  BY <1>1, <1>2, PieceIs DEF KnownOf, RunIsSound, SeenIs
<1>4. \A m \in known : m[2] = "melt" => m \in est[i]
  BY <1>1, <1>2 DEF KnownOf, RunIsSound, SeenIs
<1>5. Latest(known)[2] \in {"none", "melt"} /\ MeltSees(refresh[r], i)
  BY <1>1, <1>2 DEF Due, DueMelt, Known, KnownOf, Visits, MeltAtWork, RunIsSound, MeltIs
<1>6. ASSUME NEW e \in est[i], e[2] \in Own, ~WrittenBeside(refresh[r], e[1])
      PROVE  \E m \in est[i] : m[2] = "melt" /\ e[1] < m[1]
  <2>1. e \in known /\ e[1] \in Nat /\ e[1] # 0 /\ e[1] <= clock
    BY <1>1, <1>5, <1>6, PieceIs, EstIs DEF MeltSees
  <2>2. /\ Latest(known) \in known \union {NoEstimate} /\ \A f \in known : f[1] <= Latest(known)[1]
    BY <1>2, <1>3, <1>3a, LatestIs
  <2>3. Latest(known) # NoEstimate
    BY <2>1, <2>2 DEF NoEstimate
  <2>4. Latest(known) \in known /\ Latest(known)[2] = "melt" /\ Latest(known) \in est[i]
    BY <1>3, <1>4, <1>5, <2>2, <2>3, EstIs DEF EstSources
  <2>5. e # Latest(known) /\ Latest(known)[1] \in Nat /\ e[1] <= Latest(known)[1]
    BY <1>3, <1>6, <2>1, <2>2, <2>4, EstIs DEF Own
  <2>6. e[1] # Latest(known)[1]
    BY <1>3, <2>1, <2>4, <2>5
  <2>7. QED BY <2>1, <2>4, <2>5, <2>6
<1>7. QED BY <1>6 DEF MeltCovers

LEMMA ComputesKeeps ==
  ASSUME PricesInv, NEW r \in Refreshers, NEW i \in Priced, Computes(r, i)
  PROVE  PricesInv'
<1>1. PICK s : s = [refresh[r] EXCEPT !.todo = @ \ {i}, !.pending = @ \union {i}]
  OBVIOUS
<1>2. /\ s \in PriceRuns /\ s.at = refresh[r].at /\ s.seen = refresh[r].seen /\ s.begun = refresh[r].begun
      /\ s.of = refresh[r].of /\ s.pending = refresh[r].pending \union {i} /\ s.beside = refresh[r].beside
      /\ s.todo \subseteq refresh[r].todo
  BY <1>1, RunOfPrices DEF PriceRuns
<1>3. refresh' = [refresh EXCEPT ![r] = s]
  BY <1>1 DEF Computes
<1>4. RunIsSound(refresh[r]) /\ refresh[r].at = "visit" /\ refresh[r].todo # {}
  BY RunOfPrices DEF Computes, Visits
<1>5. MeltAtWork(refresh[r]) => MeltCovers(refresh[r], i)
  BY DueIsCovered DEF Computes
<1>6. InTransaction(s) /\ SeenIs(s) /\ MeltBeside(s)
  BY <1>2, <1>4 DEF RunIsSound, InTransaction, SeenIs, MeltBeside, MeltAtWork, WrittenBeside
<1>7. MeltIs(s)
  BY <1>2, <1>4, <1>5 DEF RunIsSound, MeltIs, MeltAtWork, MeltSees, MeltCovers, KnownOf, WrittenBeside
<1>8. QED BY <1>2, <1>3, <1>6, <1>7, RunMoves DEF RunIsSound, Computes

-----------------------------------------------------------------------------
(* Steps that write, or begin a transaction.                               *)

\* A run commits what it has: it is in no transaction then.
LEMMA CommitsRunKeeps ==
  ASSUME PricesInv, NEW r \in Refreshers, Flushed(r), refresh[r].pending # {} => refresh[r].begun # 0,
         NEW s \in PriceRuns, s.begun = 0, s.seen = Unread, InTransaction(s),
         refresh' = [refresh EXCEPT ![r] = s], UNCHANGED <<clock, typing>>
  PROVE  PricesInv'
<1>1. PICK e : e = <<refresh[r].begun, refresh[r].of>>
  OBVIOUS
<1>2. RunIsSound(refresh[r]) /\ refresh[r] \in PriceRuns /\ refresh[r].pending \subseteq Priced /\ clock \in Nat
      /\ refresh[r].begun \in Nat /\ refresh[r].begun <= clock
  BY RunOfPrices
<1>3. refresh[r].pending # {} => e \in Ests /\ e[1] = refresh[r].begun /\ e[2] = refresh[r].of /\ e[1] # 0
  <2>1. refresh[r].pending # {} => refresh[r].of \in EstSources /\ refresh[r].begun \in Nat \ {0}
    BY <1>2 DEF RunIsSound, InTransaction, EstSources, PriceRuns
  <2>2. QED BY <1>1, <2>1, MadeEstIs
<1>4. \A i \in Priced : est'[i] = IF i \in refresh[r].pending THEN est[i] \union {e} ELSE est[i]
  BY <1>1 DEF Flushed, Dated
<1>5. est' \in [Priced -> SUBSET Ests]
  <2>1. est' = [i \in Priced |-> IF i \in refresh[r].pending THEN est[i] \union {e} ELSE est[i]]
    BY <1>1 DEF Flushed, Dated
  <2>2. \A i \in Priced : est[i] \in SUBSET Ests
    BY PieceIs
  <2>3. QED BY <1>3, <2>1, <2>2
<1>6. /\ refresh' \in [Refreshers -> PriceRuns] /\ refresh'[r] = s
      /\ \A q \in Refreshers : q # r => refresh'[q] = refresh[q]
  BY DEF PricesInv, PricesTypeOK
<1>7. PricesTypeOK'
  BY <1>5, <1>6 DEF PricesInv, PricesTypeOK
<1>8. \A i \in Priced : \A f \in est'[i] :
        f \in est[i] \/ (f = e /\ refresh[r].pending # {})
  BY <1>4
<1>9. \A q \in Refreshers : refresh'[q].begun = 0 \/ (q # r /\ refresh'[q] = refresh[q])
  BY <1>6
<1>10. DatesApart'
  <2>1. \A i \in Priced : \A f \in est'[i] : f[1] <= clock' /\ \A g \in est'[i] : f[1] = g[1] => f = g
    BY <1>2, <1>3, <1>8 DEF PricesInv, DatesApart
  <2>2. \A i \in Priced : \A f \in est'[i] : f[1] # 0
    BY <1>3, <1>8, PieceIs, EstIs
  <2>3. ASSUME NEW t \in Typists
        PROVE  /\ typing'[t].begun <= clock' /\ \A i \in Priced : \A f \in est'[i] : f[1] # typing'[t].begun
               /\ \A u \in Typists : typing'[t].begun = typing'[u].begun => t = u \/ typing'[t].begun = 0
               /\ \A q \in Refreshers : typing'[t].begun = refresh'[q].begun => typing'[t].begun = 0
    <3>1. \A i \in Priced : \A f \in est'[i] : f[1] # typing'[t].begun
      BY <1>3, <1>8, <2>2 DEF PricesInv, DatesApart
    <3>2. QED BY <1>9, <3>1 DEF PricesInv, DatesApart
  <2>4. ASSUME NEW p \in Refreshers
        PROVE  /\ refresh'[p].begun <= clock' /\ \A i \in Priced : \A f \in est'[i] : f[1] # refresh'[p].begun
               /\ \A q \in Refreshers : refresh'[p].begun = refresh'[q].begun => p = q \/ refresh'[p].begun = 0
    <3>1. CASE refresh'[p].begun = 0
      BY <1>2, <2>2, <3>1
    <3>2. CASE refresh'[p].begun # 0
      <4>1. p # r /\ refresh'[p] = refresh[p]
        BY <1>9, <3>2
      <4>2. refresh[r].begun # refresh[p].begun
        BY <3>2, <4>1 DEF PricesInv, DatesApart
      <4>3. \A i \in Priced : \A f \in est'[i] : f[1] # refresh'[p].begun
        BY <1>3, <1>8, <4>1, <4>2 DEF PricesInv, DatesApart
      <4>4. QED BY <1>9, <4>1, <4>3 DEF PricesInv, DatesApart
    <3>3. QED BY <3>1, <3>2
  <2>5. QED BY <2>1, <2>3, <2>4 DEF DatesApart
<1>11. ASSUME NEW q \in Refreshers PROVE RunIsSound(refresh[q])'
  <2>1. CASE q = r
    <3>1. SeenIs(s)' /\ MeltIs(s)' /\ MeltBeside(s)' /\ InTransaction(s)'
      BY UnreadIs DEF SeenIs, MeltIs, MeltBeside, MeltAtWork, InTransaction
    <3>2. QED BY <1>6, <2>1, <3>1 DEF RunIsSound
  <2>2. CASE q # r
    <3>1. PICK u : u = refresh[q]
      OBVIOUS
    <3>2. refresh'[q] = u /\ RunIsSound(u) /\ u.seen \in SeenEsts /\ u.pending \subseteq Priced
      BY <1>6, <2>2, <3>1, RunOfPrices
    <3>3. OthersBegin(u)
      BY <1>9 DEF OthersBegin
    <3>4. \A i \in Priced : \A m \in est[i] : m[2] = "melt" => m \in est'[i]
      BY <1>4
    <3>5. ASSUME MeltAtWork(u), NEW i \in Priced, NEW f \in est'[i], f[2] \in Own
          PROVE  f \in est[i] \/ WrittenBeside(u, f[1])
      <4>1. CASE f = e /\ refresh[r].pending # {}
        <5>1. refresh[r].of = "source" /\ refresh[r].begun # 0
          BY <1>2, <1>3, <3>5, <4>1 DEF Own, PriceRuns
        <5>2. QED BY <1>3, <3>2, <3>5, <4>1, <5>1 DEF RunIsSound, MeltBeside
      <4>2. QED BY <1>8, <4>1
    <3>6. RunIsSound(u)'
      BY <3>2, <3>3, <3>4, <3>5, RunStays DEF PricesInv, PricesTypeOK
    <3>7. QED BY <3>1, <3>2, <3>6
  <2>3. QED BY <2>1, <2>2
<1>12. QED BY <1>7, <1>10, <1>11 DEF PricesInv

LEMMA ExpiredKeeps ==
  ASSUME PricesInv, NEW r \in Refreshers, NEW i \in Priced, NEW more \in SUBSET {i}, Visits(r, i), Expired(r, i, more),
         more = {} \/ refresh[r].of = "source", UNCHANGED <<clock, typing>>
  PROVE  PricesInv'
<1>1. PICK at : at = IF refresh[r].todo = {i} /\ more = {} THEN "visit" ELSE "reopen"
  OBVIOUS
<1>2. PICK s : s = [refresh[r] EXCEPT !.at = IF refresh[r].todo = {i} /\ more = {} THEN "visit" ELSE "reopen",
                    !.begun = 0, !.todo = @ \ {i}, !.seen = AfterCommit(@), !.pending = more]
  OBVIOUS
<1>3. /\ s \in PriceRuns /\ s.at = at /\ s.seen = Unread /\ s.begun = 0
      /\ s.of = refresh[r].of /\ s.pending = more /\ s.todo = refresh[r].todo \ {i}
  BY <1>1, <1>2, RunOfPrices, UnreadIs DEF PriceRuns, AfterCommit
<1>4. refresh' = [refresh EXCEPT ![r] = s]
  BY <1>2 DEF Expired
<1>5. RunIsSound(refresh[r]) /\ refresh[r].at = "visit" /\ refresh[r].todo # {}
  BY RunOfPrices DEF Visits
<1>6. InTransaction(s)
  BY <1>1, <1>3, <1>5 DEF RunIsSound, InTransaction
<1>7. refresh[r].pending # {} => refresh[r].begun # 0
  BY <1>5 DEF RunIsSound, InTransaction
<1>8. QED BY <1>3, <1>4, <1>6, <1>7, CommitsRunKeeps DEF Expired

LEMMA EndsRunKeeps ==
  ASSUME PricesInv, NEW r \in Refreshers, Flushed(r), refresh[r].at = "visit", refresh' = [refresh EXCEPT ![r] = NoRun],
         UNCHANGED <<clock, typing>>
  PROVE  PricesInv'
<1>1. refresh[r].pending # {} => refresh[r].begun # 0
  BY RunOfPrices DEF RunIsSound, InTransaction
<1>2. QED BY <1>1, NoRunIs, NoRunOf, CommitsRunKeeps DEF RunIsSound

\* A typed number goes; melt values stay.
LEMMA DeletesKeeps ==
  ASSUME PricesInv, NEW i \in Priced, DeleteTyped(i)
  PROVE  PricesInv'
<1>1. PICK e \in est[i] : e[2] = "manual" /\ est' = [est EXCEPT ![i] = @ \ {e}]
  BY DEF DeleteTyped
<1>2. /\ est' \in [Priced -> SUBSET Ests] /\ \A j \in Priced : est'[j] \subseteq est[j]
      /\ \A j \in Priced : \A m \in est[j] : m[2] = "melt" => m \in est'[j]
  BY <1>1 DEF PricesInv, PricesTypeOK
<1>3. UNCHANGED <<clock, typing, refresh>>
  BY DEF DeleteTyped
<1>4. PricesTypeOK'
  BY <1>2, <1>3 DEF PricesInv, PricesTypeOK
<1>5. DatesApart'
  BY <1>2, <1>3 DEF PricesInv, DatesApart
<1>6. ASSUME NEW q \in Refreshers PROVE RunIsSound(refresh[q])'
  <2>1. PICK u : u = refresh[q]
    OBVIOUS
  <2>2. refresh'[q] = u /\ RunIsSound(u) /\ u.seen \in SeenEsts /\ u.pending \subseteq Priced
    BY <1>3, <2>1, RunOfPrices
  <2>3. OthersBegin(u)
    BY <1>3 DEF OthersBegin
  <2>4. RunIsSound(u)'
    BY <1>2, <1>3, <2>2, <2>3, RunStays DEF PricesInv, PricesTypeOK
  <2>5. QED BY <2>1, <2>2, <2>4
<1>7. QED BY <1>4, <1>5, <1>6 DEF PricesInv

\* A typist writes what the transaction of the request was begun for.
LEMMA TypedKeeps ==
  ASSUME PricesInv, NEW t \in Typists, Typed(t)
  PROVE  PricesInv'
<1>1. PICK e : e = <<typing[t].begun, typing[t].source>>
  OBVIOUS
<1>2. /\ typing[t] \in Typings /\ typing[t].begun \in Nat \ {0} /\ typing[t].source \in EstSources /\ clock \in Nat
      /\ typing[t].begun <= clock
  BY DEF PricesInv, PricesTypeOK, Typed, Typings, DatesApart
<1>3. e \in Ests /\ e[1] = typing[t].begun /\ e[2] = typing[t].source /\ e[1] # 0
  BY <1>1, <1>2, MadeEstIs
<1>4. est' = [i \in Priced |-> IF i \in typing[t].item THEN est[i] \union {e} ELSE est[i]]
  BY <1>1 DEF Typed
<1>5. est' \in [Priced -> SUBSET Ests]
  BY <1>3, <1>4, PieceIs
<1>6. \A i \in Priced : est[i] \subseteq est'[i] /\ \A f \in est'[i] : f \in est[i] \/ f = e
  BY <1>4
<1>7. UNCHANGED <<clock, refresh>>
  BY DEF Typed
<1>8. NoTyping \in Typings /\ NoTyping.at = "idle" /\ NoTyping.begun = 0
  BY DEF NoTyping, Typings
<1>9. /\ typing' \in [Typists -> Typings] /\ typing'[t].at = "idle" /\ typing'[t].begun = 0
      /\ \A u \in Typists : u # t => typing'[u] = typing[u]
  BY <1>8 DEF Typed, PricesInv, PricesTypeOK
<1>10. PricesTypeOK'
  BY <1>5, <1>7, <1>9 DEF PricesInv, PricesTypeOK
<1>11. DatesApart'
  <2>1. \A i \in Priced : \A f \in est'[i] : f[1] <= clock' /\ \A g \in est'[i] : f[1] = g[1] => f = g
    BY <1>2, <1>3, <1>6, <1>7 DEF PricesInv, DatesApart
  <2>2. \A i \in Priced : \A f \in est'[i] : f[1] # 0
    BY <1>3, <1>6, PieceIs, EstIs
  <2>3. ASSUME NEW u \in Typists
        PROVE  /\ typing'[u].begun <= clock' /\ \A i \in Priced : \A f \in est'[i] : f[1] # typing'[u].begun
               /\ \A v \in Typists : typing'[u].begun = typing'[v].begun => u = v \/ typing'[u].begun = 0
               /\ \A q \in Refreshers : typing'[u].begun = refresh'[q].begun => typing'[u].begun = 0
    <3>1. CASE typing'[u].begun = 0
      BY <1>2, <1>7, <2>2, <3>1
    <3>2. CASE typing'[u].begun # 0
      <4>1. u # t /\ typing'[u] = typing[u]
        BY <1>9, <3>2
      <4>2. \A i \in Priced : \A f \in est'[i] : f[1] # typing'[u].begun
        BY <1>2, <1>3, <1>6, <4>1 DEF PricesInv, DatesApart
      <4>3. QED BY <1>7, <1>9, <3>2, <4>1, <4>2 DEF PricesInv, DatesApart
    <3>3. QED BY <3>1, <3>2
  <2>4. \A q \in Refreshers : /\ refresh[q].begun <= clock' /\ \A i \in Priced : \A f \in est'[i] : f[1] # refresh[q].begun
                              /\ \A p \in Refreshers : refresh[q].begun = refresh[p].begun => q = p \/ refresh[q].begun = 0
    BY <1>2, <1>3, <1>6, <1>7 DEF PricesInv, DatesApart
  <2>5. QED BY <1>7, <2>1, <2>3, <2>4 DEF DatesApart
<1>12. ASSUME NEW q \in Refreshers PROVE RunIsSound(refresh[q])'
  <2>1. PICK u : u = refresh[q]
    OBVIOUS
  <2>2. refresh'[q] = u /\ RunIsSound(u) /\ u.seen \in SeenEsts /\ u.pending \subseteq Priced
    BY <1>7, <2>1, RunOfPrices
  <2>3. OthersBegin(u)
    BY <1>7, <1>9 DEF OthersBegin
  <2>4. MeltAtWork(u) => WrittenBeside(u, e[1])
    BY <1>2, <1>3, <2>2 DEF RunIsSound, MeltBeside
  <2>5. RunIsSound(u)'
    BY <1>6, <1>7, <2>2, <2>3, <2>4, RunStays DEF PricesInv, PricesTypeOK
  <2>6. QED BY <2>1, <2>2, <2>5
<1>13. QED BY <1>10, <1>11, <1>12 DEF PricesInv

\* A transaction that begins has a date after all there are.
LEMMA TypesKeeps ==
  ASSUME PricesInv, NEW t \in Typists, NEW i \in Priced, NEW source \in Own \union {"melt"}, Types(t, i, source)
  PROVE  PricesInv'
<1>1. PICK n : n = clock + 1
  OBVIOUS
<1>2. clock \in Nat /\ clock' = n /\ n \in Nat \ {0} /\ n > clock /\ clock <= clock'
  BY <1>1 DEF Types, Ticks, PricesInv, PricesTypeOK
<1>3. PICK s : s = [at |-> "typing", item |-> {i}, source |-> source, begun |-> n]
  OBVIOUS
<1>4. s \in Typings /\ s.at = "typing" /\ s.begun = n /\ s.source = source /\ source # "none"
  BY <1>2, <1>3 DEF Typings, EstSources, Own
<1>5. typing' = [typing EXCEPT ![t] = s] /\ UNCHANGED <<est, refresh>>
  BY <1>2, <1>3 DEF Types
<1>6. /\ typing' \in [Typists -> Typings] /\ typing'[t] = s
      /\ \A u \in Typists : u # t => typing'[u] = typing[u]
  BY <1>4, <1>5 DEF PricesInv, PricesTypeOK
<1>7. PricesTypeOK'
  BY <1>2, <1>4, <1>5, <1>6 DEF PricesInv, PricesTypeOK
<1>8. /\ \A j \in Priced : \A f \in est[j] : f[1] \in Nat /\ f[1] <= clock
      /\ \A u \in Typists : typing[u].begun \in Nat /\ typing[u].begun <= clock
      /\ \A q \in Refreshers : refresh[q].begun \in Nat /\ refresh[q].begun <= clock
  BY PieceIs, EstIs, RunOfPrices DEF PricesInv, PricesTypeOK, DatesApart, Typings
<1>9. DatesApart'
  <2>1. \A j \in Priced : \A f \in est'[j] : f[1] <= clock' /\ \A g \in est'[j] : f[1] = g[1] => f = g
    BY <1>2, <1>5, <1>8 DEF PricesInv, DatesApart
  <2>2. ASSUME NEW u \in Typists
        PROVE  /\ typing'[u].begun <= clock' /\ \A j \in Priced : \A f \in est'[j] : f[1] # typing'[u].begun
               /\ \A v \in Typists : typing'[u].begun = typing'[v].begun => u = v \/ typing'[u].begun = 0
               /\ \A q \in Refreshers : typing'[u].begun = refresh'[q].begun => typing'[u].begun = 0
    <3>1. CASE u = t
      BY <1>2, <1>4, <1>5, <1>6, <1>8, <3>1
    <3>2. CASE u # t
      <4>1. typing'[u] = typing[u] /\ typing'[u].begun # n
        BY <1>2, <1>6, <1>8, <3>2
      <4>2. \A v \in Typists : typing'[u].begun = typing'[v].begun => u = v \/ typing'[u].begun = 0
        BY <1>4, <1>6, <4>1 DEF PricesInv, DatesApart
      <4>3. QED BY <1>2, <1>5, <1>8, <4>1, <4>2 DEF PricesInv, DatesApart
    <3>3. QED BY <3>1, <3>2
  <2>3. \A q \in Refreshers : /\ refresh'[q].begun <= clock' /\ \A j \in Priced : \A f \in est'[j] : f[1] # refresh'[q].begun
                              /\ \A p \in Refreshers : refresh'[q].begun = refresh'[p].begun => q = p \/ refresh'[q].begun = 0
    BY <1>2, <1>5, <1>8 DEF PricesInv, DatesApart
  <2>4. QED BY <2>1, <2>2, <2>3 DEF DatesApart
<1>10. ASSUME NEW q \in Refreshers PROVE RunIsSound(refresh[q])'
  <2>1. PICK u : u = refresh[q]
    OBVIOUS
  <2>2. refresh'[q] = u /\ RunIsSound(u) /\ u.seen \in SeenEsts /\ u.pending \subseteq Priced /\ u.begun \in Nat /\ u.begun <= clock
    BY <1>5, <2>1, RunOfPrices
  <2>3. OthersBegin(u)
    BY <1>2, <1>4, <1>5, <1>6, <2>2 DEF OthersBegin
  <2>4. RunIsSound(u)'
    BY <1>2, <1>5, <2>2, <2>3, RunStays DEF PricesInv, PricesTypeOK
  <2>5. QED BY <2>1, <2>2, <2>4
<1>11. QED BY <1>7, <1>9, <1>10 DEF PricesInv

LEMMA ReopensRunKeeps ==
  ASSUME PricesInv, NEW r \in Refreshers, clock' = clock + 1, NEW s \in PriceRuns, s.begun = clock', s.beside = AtWork,
         s.seen = Unread, s.of = "melt" => s.pending = {}, InTransaction(s), refresh[r].begun = 0,
         refresh' = [refresh EXCEPT ![r] = s], UNCHANGED <<est, typing>>
  PROVE  PricesInv'
<1>1. clock \in Nat /\ clock' \in Nat \ {0} /\ clock' > clock /\ clock <= clock'
  BY DEF PricesInv, PricesTypeOK
<1>2. /\ refresh' \in [Refreshers -> PriceRuns] /\ refresh'[r] = s
      /\ \A q \in Refreshers : q # r => refresh'[q] = refresh[q]
  BY DEF PricesInv, PricesTypeOK
<1>3. PricesTypeOK'
  BY <1>1, <1>2 DEF PricesInv, PricesTypeOK
<1>4. /\ \A j \in Priced : \A f \in est[j] : f[1] \in Nat /\ f[1] <= clock
      /\ \A u \in Typists : typing[u].begun \in Nat /\ typing[u].begun <= clock
      /\ \A q \in Refreshers : refresh[q].begun \in Nat /\ refresh[q].begun <= clock
  BY PieceIs, EstIs, RunOfPrices DEF PricesInv, PricesTypeOK, DatesApart, Typings
<1>5. DatesApart'
  <2>1. \A j \in Priced : \A f \in est'[j] : f[1] <= clock' /\ \A g \in est'[j] : f[1] = g[1] => f = g
    BY <1>1, <1>4 DEF PricesInv, DatesApart
  <2>2. ASSUME NEW u \in Typists
        PROVE  /\ typing'[u].begun <= clock' /\ \A j \in Priced : \A f \in est'[j] : f[1] # typing'[u].begun
               /\ \A v \in Typists : typing'[u].begun = typing'[v].begun => u = v \/ typing'[u].begun = 0
               /\ \A q \in Refreshers : typing'[u].begun = refresh'[q].begun => typing'[u].begun = 0
    <3>1. \A q \in Refreshers : typing'[u].begun = refresh'[q].begun => typing'[u].begun = 0
      BY <1>1, <1>2, <1>4 DEF PricesInv, DatesApart
    <3>2. QED BY <1>1, <1>4, <3>1 DEF PricesInv, DatesApart
  <2>3. ASSUME NEW q \in Refreshers
        PROVE  /\ refresh'[q].begun <= clock' /\ \A j \in Priced : \A f \in est'[j] : f[1] # refresh'[q].begun
               /\ \A p \in Refreshers : refresh'[q].begun = refresh'[p].begun => q = p \/ refresh'[q].begun = 0
    <3>1. CASE q = r
      BY <1>1, <1>2, <1>4, <3>1
    <3>2. CASE q # r
      <4>1. refresh'[q] = refresh[q] /\ refresh'[q].begun # clock'
        BY <1>1, <1>2, <1>4, <3>2
      <4>2. \A p \in Refreshers : refresh'[q].begun = refresh'[p].begun => q = p \/ refresh'[q].begun = 0
        BY <1>2, <4>1 DEF PricesInv, DatesApart
      <4>3. QED BY <1>1, <1>4, <4>1, <4>2 DEF PricesInv, DatesApart
    <3>3. QED BY <3>1, <3>2
  <2>4. QED BY <2>1, <2>2, <2>3 DEF DatesApart
<1>6. ASSUME NEW q \in Refreshers PROVE RunIsSound(refresh[q])'
  <2>1. CASE q = r
    <3>1. SeenIs(s)'
      BY UnreadIs DEF SeenIs
    <3>2. MeltIs(s)'
      BY UnreadIs DEF MeltIs, MeltAtWork, MeltSees, KnownOf
    <3>3. MeltBeside(s)'
      <4>1. \A t \in Typists : typing[t].begun # 0 => typing[t].begun \in s.beside
        BY DEF AtWork
      <4>2. \A p \in Refreshers : p # r /\ refresh[p].begun # 0 => refresh[p].begun \in s.beside
        BY DEF AtWork
      <4>3. MeltAtWork(s) => s.of # "source"
        BY DEF MeltAtWork
      <4>4. QED BY <1>2, <4>1, <4>2, <4>3 DEF MeltBeside, MeltAtWork, WrittenBeside
    <3>4. InTransaction(s)'
      BY DEF InTransaction
    <3>5. QED BY <1>2, <2>1, <3>1, <3>2, <3>3, <3>4 DEF RunIsSound
  <2>2. CASE q # r
    <3>1. PICK u : u = refresh[q]
      OBVIOUS
    <3>2. refresh'[q] = u /\ RunIsSound(u) /\ u.seen \in SeenEsts /\ u.pending \subseteq Priced /\ u.begun \in Nat /\ u.begun <= clock
      BY <1>2, <2>2, <3>1, RunOfPrices
    <3>3. OthersBegin(u)
      BY <1>1, <1>2, <3>2 DEF OthersBegin
    <3>4. RunIsSound(u)'
      BY <1>1, <3>2, <3>3, RunStays
    <3>5. QED BY <3>1, <3>2, <3>4
  <2>3. QED BY <2>1, <2>2
<1>7. QED BY <1>3, <1>5, <1>6 DEF PricesInv

LEMMA StartsRunKeeps ==
  ASSUME PricesInv, NEW r \in Refreshers, NEW of \in {"melt", "source"}, StartsRun(r, of)
  PROVE  PricesInv'
<1>1. PICK cutoff \in {1, clock} :
        refresh' = [refresh EXCEPT ![r] =
          [NoRun EXCEPT !.at = "read", !.of = of, !.begun = clock', !.cutoff = cutoff, !.beside = AtWork]]
  BY DEF StartsRun
<1>2. PICK s : s = [NoRun EXCEPT !.at = "read", !.of = of, !.begun = clock', !.cutoff = cutoff, !.beside = AtWork]
  OBVIOUS
<1>3. clock' = clock + 1 /\ clock \in Nat /\ clock' # 0 /\ clock' \in Nat /\ cutoff \in Nat
  BY DEF StartsRun, Ticks, PricesInv, PricesTypeOK
<1>4. AtWork \subseteq Nat
  BY RunOfPrices DEF AtWork, PricesInv, PricesTypeOK, Typings
<1>5. /\ s \in PriceRuns /\ s.at = "read" /\ s.of = of /\ s.begun = clock' /\ s.beside = AtWork /\ s.seen = Unread
      /\ s.pending = {} /\ s.todo = {}
  BY <1>2, <1>3, <1>4, UnreadIs DEF NoRun, PriceRuns
<1>6. refresh' = [refresh EXCEPT ![r] = s]
  BY <1>1, <1>2
<1>7. InTransaction(s)
  BY <1>3, <1>5 DEF InTransaction
<1>8. refresh[r].begun = 0
  BY RunOfPrices DEF StartsRun, RunIsSound, InTransaction
<1>9. QED BY <1>3, <1>5, <1>6, <1>7, <1>8, ReopensRunKeeps DEF StartsRun

LEMMA ReopensKeeps ==
  ASSUME PricesInv, NEW r \in Refreshers, Reopens(r)
  PROVE  PricesInv'
<1>1. PICK s : s = [refresh[r] EXCEPT !.at = "visit", !.begun = clock', !.beside = AtWork]
  OBVIOUS
<1>2. refresh' = [refresh EXCEPT ![r] = s]
  BY <1>1 DEF Reopens
<1>3. clock' = clock + 1 /\ clock \in Nat /\ clock' # 0 /\ clock' \in Nat
  BY DEF Reopens, Ticks, PricesInv, PricesTypeOK
<1>4. AtWork \subseteq Nat
  BY RunOfPrices DEF AtWork, PricesInv, PricesTypeOK, Typings
<1>5. /\ s \in PriceRuns /\ s.at = "visit" /\ s.of = refresh[r].of /\ s.begun = clock' /\ s.beside = AtWork
      /\ s.seen = refresh[r].seen /\ s.pending = refresh[r].pending /\ s.todo = refresh[r].todo
  BY <1>1, <1>3, <1>4, RunOfPrices DEF PriceRuns
<1>6. RunIsSound(refresh[r]) /\ refresh[r].at = "reopen"
  BY RunOfPrices DEF Reopens
<1>7. s.seen = Unread /\ (s.of = "melt" => s.pending = {}) /\ InTransaction(s) /\ refresh[r].begun = 0
  BY <1>3, <1>5, <1>6 DEF RunIsSound, InTransaction
<1>8. QED BY <1>2, <1>3, <1>5, <1>7, ReopensRunKeeps DEF Reopens

LEMMA PricesStep == PricesInv /\ [PricesNext]_prices => PricesInv'
<1> SUFFICES ASSUME PricesInv, [PricesNext]_prices PROVE PricesInv'
  OBVIOUS
<1>1. CASE UNCHANGED prices
  BY <1>1 DEF prices, PricesInv, PricesTypeOK, DatesApart, RunIsSound, InTransaction, SeenIs, MeltIs, MeltBeside,
     MeltAtWork, MeltSees, MeltCovers, KnownOf, WrittenBeside
<1>2. ASSUME NEW t \in Typists, Typed(t) \/ \E i \in Priced, s \in Own \union {"melt"} : Types(t, i, s)
      PROVE  PricesInv'
  BY <1>2, TypedKeeps, TypesKeeps
<1>3. ASSUME NEW i \in Priced, DeleteTyped(i) PROVE PricesInv'
  BY <1>3, DeletesKeeps
<1>4. ASSUME NEW r \in Refreshers, \/ \E of \in {"melt", "source"} : StartsRun(r, of)
                                  \/ Reads(r) \/ Reopens(r) \/ Finishes(r) \/ Stops(r)
      PROVE  PricesInv'
  BY <1>4, StartsRunKeeps, ReadsKeeps, ReopensKeeps, EndsRunKeeps, StopsKeeps DEF Finishes
<1>5. ASSUME NEW r \in Refreshers, NEW i \in Priced,
             NotDue(r, i) \/ Computes(r, i) \/ Attempted(r, i) \/ Answers(r, i) \/ Refused(r, i)
      PROVE  PricesInv'
  <2>1. CASE NotDue(r, i) \/ Computes(r, i)
    BY <2>1, NotDueKeeps, ComputesKeeps
  <2>2. CASE Attempted(r, i)
    BY <2>2, ExpiredKeeps DEF Attempted
  <2>3. CASE Answers(r, i)
    BY <2>3, ExpiredKeeps DEF Answers, Requests
  <2>4. CASE Refused(r, i)
    BY <2>4, EndsRunKeeps DEF Refused, Requests, Visits
  <2>5. QED BY <1>5, <2>1, <2>2, <2>3, <2>4
<1>6. QED BY <1>1, <1>2, <1>3, <1>4, <1>5 DEF PricesNext

-----------------------------------------------------------------------------
\* A melt refresh that writes leaves the latest number the latest, unless that
\* number was being written when the refresh's transaction began.
Buries(r, i) ==
  /\ refresh[r].of = "melt" /\ refresh'[r] # refresh[r]
  /\ est'[i] # est[i] /\ Latest(est[i])[2] \in Own
  /\ Latest(est'[i]) # Latest(est[i]) /\ ~(Latest(est[i])[1] \in refresh[r].beside)

\* What a melt run writes in a commit covers a melt value that was the latest.
LEMMA WritingBuriesNothing ==
  ASSUME PricesInv, NEW r \in Refreshers, NEW i \in Priced, Flushed(r), refresh[r].at = "visit"
  PROVE  ~Buries(r, i)
<1> SUFFICES ASSUME Buries(r, i) PROVE FALSE
  OBVIOUS
<1>1. PICK e : e = <<refresh[r].begun, refresh[r].of>>
  OBVIOUS
<1>2. i \in refresh[r].pending /\ est'[i] = est[i] \union {e} /\ refresh[r].of = "melt"
  BY <1>1 DEF Flushed, Dated, Buries
<1>3. RunIsSound(refresh[r]) /\ refresh[r].begun \in Nat \ {0}
  BY <1>2, RunOfPrices DEF RunIsSound, InTransaction
<1>4. e \in Ests /\ e[1] = refresh[r].begun
  BY <1>1, <1>2, <1>3, MadeEstIs DEF EstSources
<1>5. PICK l : l = Latest(est[i])
  OBVIOUS
<1>6. /\ est[i] \in SUBSET Ests /\ clock \in Nat /\ \A f \in est[i] : f[1] <= clock
      /\ \A f, g \in est[i] : f[1] = g[1] => f = g
  BY PieceIs
<1>7. l \in est[i] \union {NoEstimate} /\ \A f \in est[i] : f[1] <= l[1]
  BY <1>5, <1>6, LatestIs
<1>8. l \in est[i] /\ l[2] \in Own /\ l[1] \in Nat
  BY <1>5, <1>6, <1>7, EstIs DEF Buries, NoEstimate, Own
<1>9. l[1] # e[1]
  BY <1>4, <1>8 DEF PricesInv, DatesApart
<1>10. CASE e[1] > l[1]
  <2>1. \A m \in est[i] : ~(l[1] < m[1])
    BY <1>6, <1>7, <1>8, EstIs
  <2>2. WrittenBeside(refresh[r], l[1])
    BY <1>2, <1>3, <1>8, <2>1 DEF RunIsSound, MeltIs, MeltAtWork, MeltCovers
  <2>3. ~(l[1] > refresh[r].begun)
    BY <1>3, <1>4, <1>8, <1>10
  <2>4. QED BY <1>5, <2>2, <2>3 DEF Buries, WrittenBeside
<1>11. CASE e[1] < l[1]
  <2>1. PICK es : es = est'[i]
    OBVIOUS
  <2>1a. es = est[i] \union {e}
    BY <1>2, <2>1
  <2>1b. e[1] <= l[1]
    BY <1>4, <1>3, <1>8, <1>11
  <2>2. es \in SUBSET Ests /\ l \in es /\ \A f \in es : f[1] <= l[1]
    BY <1>4, <1>6, <1>7, <1>8, <2>1a, <2>1b
  <2>3. \A f, g \in es : f[1] = g[1] => f = g
    BY <1>2, <1>4, <1>6, <2>1 DEF PricesInv, DatesApart
  <2>4. Latest(es) = l
    BY <1>8, <2>2, <2>3, LatestIs
  <2>5. QED BY <1>5, <2>1, <2>4 DEF Buries
<1>12. QED BY <1>3, <1>4, <1>8, <1>9, <1>10, <1>11

\* "a fresh melt value must never bury the user's own number or another
\* source's" (pricing.py:564).
THEOREM NumbersAreNotBuried == PricesSpec => NotBuried
<1>1. PricesInv /\ [PricesNext]_prices =>
        [\A r \in Refreshers, i \in Priced :
           refresh[r].of = "melt" /\ refresh'[r] # refresh[r]
             /\ est'[i] # est[i] /\ Latest(est[i])[2] \in Own =>
           \/ Latest(est'[i]) = Latest(est[i])
           \/ Latest(est[i])[1] \in refresh[r].beside]_prices
  <2> SUFFICES ASSUME PricesInv, PricesNext, NEW r \in Refreshers, NEW i \in Priced, Buries(r, i) PROVE FALSE
    BY DEF Buries
  <2>1. refresh'[r] # refresh[r] /\ est'[i] # est[i]
    BY DEF Buries
  <2>2. ASSUME NEW t \in Typists, Typed(t) \/ \E j \in Priced, s \in Own \union {"melt"} : Types(t, j, s)
        PROVE  FALSE
    BY <2>1, <2>2 DEF Typed, Types
  <2>3. ASSUME NEW j \in Priced, DeleteTyped(j) PROVE FALSE
    BY <2>1, <2>3 DEF DeleteTyped
  <2>4. ASSUME NEW q \in Refreshers, Flushed(q), refresh[q].at = "visit",
               \A p \in Refreshers : p # q => refresh'[p] = refresh[p]
        PROVE  FALSE
    BY <2>1, <2>4, WritingBuriesNothing
  <2>5. refresh \in [Refreshers -> PriceRuns]
    BY DEF PricesInv, PricesTypeOK
  <2>6. ASSUME NEW q \in Refreshers, \/ \E of \in {"melt", "source"} : StartsRun(q, of)
                                    \/ Reads(q) \/ Reopens(q) \/ Finishes(q) \/ Stops(q)
        PROVE  FALSE
    <3>1. Finishes(q)
      BY <2>1, <2>6 DEF StartsRun, Reads, Reopens, Stops
    <3>2. \A p \in Refreshers : p # q => refresh'[p] = refresh[p]
      BY <2>5, <3>1 DEF Finishes
    <3>3. QED BY <2>4, <3>1, <3>2 DEF Finishes
  <2>7. ASSUME NEW q \in Refreshers, NEW j \in Priced,
               NotDue(q, j) \/ Computes(q, j) \/ Attempted(q, j) \/ Answers(q, j) \/ Refused(q, j)
        PROVE  FALSE
    <3>1. Attempted(q, j) \/ Answers(q, j) \/ Refused(q, j)
      BY <2>1, <2>7 DEF NotDue, Computes
    <3>2. Flushed(q) /\ refresh[q].at = "visit"
      BY <3>1 DEF Attempted, Answers, Refused, Requests, Visits, Expired
    <3>3. \A p \in Refreshers : p # q => refresh'[p] = refresh[p]
      BY <2>5, <3>1 DEF Attempted, Answers, Refused, Expired
    <3>4. QED BY <2>4, <3>2, <3>3
  <2>8. QED BY <2>2, <2>3, <2>6, <2>7 DEF PricesNext
<1>2. QED BY <1>1, PricesStart, PricesStep, PTL DEF PricesSpec, NotBuried

-----------------------------------------------------------------------------
(* Reports: a piece has any number of estimates, none of which is of a day *)
(* to come.                                                                *)

Worths == [key : Keys, own : BOOLEAN, day : Nat]

ReportsInv ==
  /\ valued \in Seq(Worths) /\ preferred \in Adapters \union {"none"}
  /\ strategy \in {"latest", "preferred_source", "average"}
  /\ today \in Nat /\ today <= Unknown /\ soldOn \in Nat
  /\ \A n \in DOMAIN valued : valued[n].day <= today


LEMMA EstimateKeeps ==
  ASSUME ReportsInv, NEW k \in Keys, NEW own \in BOOLEAN, Estimate(k, own)
  PROVE  ReportsInv'
<1>1. PICK e : e = [key |-> k, own |-> own, day |-> today]
  OBVIOUS
<1>2. e \in Worths /\ e.day = today
  BY <1>1 DEF Worths, ReportsInv
<1>3. valued' = <<e>> \o valued
  BY <1>1, Zenon DEF Estimate
<1>4. <<e>> \in Seq(Worths) /\ Len(<<e>>) = 1 /\ <<e>>[1] = e /\ valued \in Seq(Worths)
  BY <1>2 DEF ReportsInv
<1>5. valued' \in Seq(Worths)
  BY <1>3, <1>4
<1>6. ASSUME NEW n \in DOMAIN valued' PROVE valued'[n].day <= today
  <2>1. CASE n = 1
    BY <1>2, <1>3, <1>4, <2>1 DEF ReportsInv
  <2>2. CASE n # 1
    <3>1. n - 1 \in DOMAIN valued /\ valued'[n] = valued[n - 1]
      BY <1>3, <1>4, <2>2
    <3>2. QED BY <3>1 DEF ReportsInv
  <2>3. QED BY <2>1, <2>2
<1>7. UNCHANGED <<strategy, preferred, today, soldOn>>
  BY DEF Estimate
<1>8. QED BY <1>5, <1>6, <1>7 DEF ReportsInv

LEMMA DeleteValueKeeps ==
  ASSUME ReportsInv, NEW n \in Nat, DeleteValue(n)
  PROVE  ReportsInv'
<1>1. n \in 1 .. Len(valued) /\ valued \in Seq(Worths)
  BY DEF ReportsInv, DeleteValue
<1>2. PICK a \in Seq(Worths) : a = SubSeq(valued, 1, n - 1) /\ Len(a) = n - 1 /\ \A m \in 1 .. n - 1 : a[m] = valued[m]
  <2>1. \A i \in 1 .. n - 1 : valued[i] \in Worths
    BY <1>1
  <2>2. /\ SubSeq(valued, 1, n - 1) \in Seq(Worths)
        /\ Len(SubSeq(valued, 1, n - 1)) = IF 1 <= n - 1 THEN n - 1 - 1 + 1 ELSE 0
        /\ \A i \in 1 .. n - 1 - 1 + 1 : SubSeq(valued, 1, n - 1)[i] = valued[1 + i - 1]
    BY <1>1, <2>1, SubSeqProperties
  <2>3. Len(SubSeq(valued, 1, n - 1)) = n - 1
    BY <1>1, <2>2
  <2>4. ASSUME NEW m \in 1 .. n - 1 PROVE SubSeq(valued, 1, n - 1)[m] = valued[m]
    <3>1. m \in 1 .. n - 1 - 1 + 1 /\ 1 + m - 1 = m
      BY <1>1
    <3>2. QED BY <2>2, <3>1
  <2>5. QED BY <2>2, <2>3, <2>4
<1>3. PICK b \in Seq(Worths) : /\ b = SubSeq(valued, n + 1, Len(valued)) /\ Len(b) = Len(valued) - n
                               /\ \A m \in 1 .. Len(valued) - n : b[m] = valued[n + m]
  <2>1. \A i \in n + 1 .. Len(valued) : valued[i] \in Worths
    BY <1>1
  <2>2. /\ SubSeq(valued, n + 1, Len(valued)) \in Seq(Worths)
        /\ Len(SubSeq(valued, n + 1, Len(valued))) = IF n + 1 <= Len(valued) THEN Len(valued) - (n + 1) + 1 ELSE 0
        /\ \A i \in 1 .. Len(valued) - (n + 1) + 1 : SubSeq(valued, n + 1, Len(valued))[i] = valued[n + 1 + i - 1]
    BY <1>1, <2>1, SubSeqProperties
  <2>3. Len(SubSeq(valued, n + 1, Len(valued))) = Len(valued) - n
    BY <1>1, <2>2
  <2>4. ASSUME NEW m \in 1 .. Len(valued) - n PROVE SubSeq(valued, n + 1, Len(valued))[m] = valued[n + m]
    <3>1. m \in 1 .. Len(valued) - (n + 1) + 1 /\ n + 1 + m - 1 = n + m
      BY <1>1
    <3>2. QED BY <2>2, <3>1
  <2>5. QED BY <2>2, <2>3, <2>4
<1>4. valued' = a \o b
  BY <1>2, <1>3 DEF DeleteValue
<1>5. valued' \in Seq(Worths) /\ Len(valued') = Len(a) + Len(b)
  BY <1>4
<1>6. ASSUME NEW m \in 1 .. Len(valued') PROVE valued'[m].day <= today
  <2>1. CASE m <= Len(a)
    <3>1. valued'[m] = valued[m] /\ m \in DOMAIN valued
      BY <1>1, <1>2, <1>4, <1>5, <2>1
    <3>2. QED BY <3>1 DEF ReportsInv
  <2>2. CASE m > Len(a)
    <3>1. PICK i \in 1 .. Len(b) : i = m - Len(a)
      <4>1. m - Len(a) \in 1 .. Len(b)
        BY <1>5, <2>2
      <4>2. QED BY <4>1
    <3>2. valued'[m] = b[i] /\ n + i = m + 1 /\ m + 1 \in DOMAIN valued
      BY <1>1, <1>2, <1>3, <1>4, <1>5, <2>2, <3>1
    <3>3. valued'[m] = valued[m + 1]
      BY <1>3, <3>1, <3>2
    <3>4. QED BY <3>2, <3>3 DEF ReportsInv
  <2>3. QED BY <1>2, <1>5, <2>1, <2>2
<1>7. UNCHANGED <<strategy, preferred, today, soldOn>>
  BY DEF DeleteValue
<1>8. QED BY <1>5, <1>6, <1>7 DEF ReportsInv

LEMMA ReportsStep == ReportsInv /\ [ReportsNext]_reports => ReportsInv'
<1> SUFFICES ASSUME ReportsInv, [ReportsNext]_reports PROVE ReportsInv'
  OBVIOUS
<1>1. CASE UNCHANGED reports
  BY <1>1 DEF reports, ReportsInv
<1>2. ASSUME NEW s \in {"latest", "preferred_source", "average"}, PicksStrategy(s) PROVE ReportsInv'
  BY <1>2 DEF PicksStrategy, ReportsInv
<1>3. ASSUME NEW k \in Adapters \union {"none"}, PicksSource(k) PROVE ReportsInv'
  BY <1>3 DEF PicksSource, ReportsInv
<1>4. CASE RateComes
  BY <1>4 DEF RateComes, ReportsInv
<1>5. CASE TomorrowComes
  <2>1. ASSUME NEW n \in DOMAIN valued PROVE valued[n].day <= today + 1
    <3>1. valued[n] \in Worths
      BY DEF ReportsInv
    <3>2. valued[n].day \in Nat /\ valued[n].day <= today /\ today \in Nat
      BY <3>1 DEF ReportsInv, Worths
    <3>3. QED BY <3>2
  <2>2. QED BY <1>5, <2>1, ReportsAssumption DEF TomorrowComes, ReportsInv, Unknown
<1>6. ASSUME NEW on \in {Unsold, Unknown} \union (1 .. today), SellsPiece(on) PROVE ReportsInv'
  BY <1>6, ReportsAssumption DEF SellsPiece, ReportsInv, Unsold, Unknown
<1>7. ASSUME NEW n \in 1 .. MaxValues, DeleteValue(n) PROVE ReportsInv'
  BY <1>7, DeleteValueKeeps, ReportsAssumption
<1>8. QED BY <1>1, <1>2, <1>3, <1>4, <1>5, <1>6, <1>7, EstimateKeeps DEF ReportsNext

LEMMA ReportsStart == ReportsInit => ReportsInv
  BY ReportsAssumption DEF ReportsInit, ReportsInv, Unsold, Unknown

-----------------------------------------------------------------------------
LEMMA MinIs ==
  ASSUME NEW S \in SUBSET Nat, S # {}
  PROVE  Min(S) \in S /\ \A y \in S : Min(S) <= y
<1>1. \E n \in S : \A m \in S : n <= m
  BY Least
<1>2. QED BY <1>1 DEF Min

\* The estimates of one list of them that the choice falls on, and what the
\* report of stale ones makes of the same list.
LEMMA DisplayedIs ==
  ASSUME ReportsInv, NEW es \in SUBSET DOMAIN valued
  PROVE  \/ es = {} /\ Displayed(es) = [of |-> {}, as |-> "none"] /\ DisplayIds(es) = {}
         \/ \E n \in LatestByKey(es) :
              Displayed(es) = [of |-> {n}, as |-> valued[n].key] /\ DisplayIds(es) = {n}
         \/ \E n \in LatestByKey(es) :
              /\ Displayed(es) = [of |-> {n}, as |-> valued[n].key]
              /\ strategy = "average" /\ DisplayIds(es) = OfAdapters(es)
              /\ \A m \in OfAdapters(es) : ~Converts(valued[m])
         \/ \E parts \in SUBSET OfAdapters(es) :
              /\ Displayed(es) = [of |-> parts, as |-> "average"] /\ strategy = "average"
              /\ DisplayIds(es) = OfAdapters(es)
              /\ \A m \in parts : Converts(valued[m])
              /\ \A m \in OfAdapters(es) \ parts : ~Converts(valued[m])
<1>1. es \subseteq Nat
  BY DEF ReportsInv
<1>2. PICK mine \in SUBSET es : mine = {n \in es : valued[n].key = preferred}
  OBVIOUS
<1>3. PICK parts : parts = {n \in OfAdapters(es) : Converts(valued[n])}
  OBVIOUS
<1>4. parts \subseteq OfAdapters(es) /\ OfAdapters(es) \subseteq LatestByKey(es) /\ LatestByKey(es) \subseteq es
  BY <1>3 DEF OfAdapters, LatestByKey
<1>5. CASE es = {}
  <2>1. mine = {} /\ parts = {} /\ OfAdapters(es) = {}
    BY <1>4, <1>5
  <2>2. Displayed(es) = [of |-> {}, as |-> "none"]
    BY <1>2, <1>3, <1>5, <2>1 DEF Displayed
  <2>3. DisplayIds(es) = {}
    BY <1>2, <1>5, <2>1 DEF DisplayIds
  <2>4. QED BY <1>5, <2>2, <2>3
<1>6. CASE es # {} /\ strategy = "preferred_source" /\ mine # {}
  <2>1. Displayed(es) = [of |-> {Min(mine)}, as |-> preferred] /\ DisplayIds(es) = {Min(mine)}
    BY <1>2, <1>6 DEF Displayed, DisplayIds
  <2>2. Min(mine) \in mine /\ \A y \in mine : Min(mine) <= y
    BY <1>1, <1>6, MinIs
  <2>3. Min(mine) \in LatestByKey(es) /\ valued[Min(mine)].key = preferred
    <3>1. Min(mine) \in es /\ valued[Min(mine)].key = preferred
      BY <1>2, <2>2
    <3>2. ASSUME NEW m \in es, m < Min(mine) PROVE valued[m].key # preferred
      <4>1. m \notin mine
        BY <1>1, <2>2, <3>2
      <4>2. QED BY <1>2, <4>1
    <3>3. QED BY <3>1, <3>2 DEF LatestByKey
  <2>4. QED BY <2>1, <2>3
<1>7. CASE es # {} /\ strategy = "average" /\ parts # {}
  <2>1. Displayed(es) = [of |-> parts, as |-> "average"]
    BY <1>3, <1>7 DEF Displayed
  <2>2. DisplayIds(es) = OfAdapters(es)
    BY <1>4, <1>7 DEF DisplayIds
  <2>3. QED BY <1>3, <1>4, <1>7, <2>1, <2>2
<1>8. CASE es # {} /\ ~(strategy = "preferred_source" /\ mine # {}) /\ ~(strategy = "average" /\ parts # {})
  <2>1. Displayed(es) = [of |-> {Min(es)}, as |-> valued[Min(es)].key]
    BY <1>2, <1>3, <1>8 DEF Displayed, LatestOf
  <2>2. Min(es) \in es /\ \A y \in es : Min(es) <= y
    BY <1>1, <1>8, MinIs
  <2>3. Min(es) \in LatestByKey(es)
    BY <1>1, <2>2 DEF LatestByKey
  <2>4. CASE strategy = "average" /\ OfAdapters(es) # {}
    <3>1. DisplayIds(es) = OfAdapters(es)
      BY <1>8, <2>4 DEF DisplayIds
    <3>2. \A m \in OfAdapters(es) : ~Converts(valued[m])
      BY <1>3, <1>8, <2>4
    <3>3. QED BY <2>1, <2>3, <2>4, <3>1, <3>2
  <2>5. CASE ~(strategy = "average" /\ OfAdapters(es) # {})
    <3>1. DisplayIds(es) = {Min(es)}
      BY <1>2, <1>8, <2>5 DEF DisplayIds
    <3>2. QED BY <2>1, <2>3, <3>1
  <2>6. QED BY <2>4, <2>5
<1>9. QED BY <1>5, <1>6, <1>7, <1>8

LEMMA KeysAre ==
  ASSUME ReportsInv, NEW n \in DOMAIN valued
  PROVE  valued[n].key \in Keys /\ valued[n].key # "average" /\ valued[n].day \in Nat
<1>1. valued[n] \in Worths
  BY DEF ReportsInv
<1>2. QED BY <1>1, ReportsAssumption DEF Worths, Keys

LEMMA LatestIsOf == \A es : LatestByKey(es) \subseteq es /\ OfAdapters(es) \subseteq LatestByKey(es)
  BY DEF LatestByKey, OfAdapters

\* The four things the reports say of the choice.
ListsAsShown ==
  /\ \A n \in Displayed(DOMAIN valued).of \ ListedInTotals :
       strategy = "average" /\ \A m \in ListedInTotals : ~Converts(valued[m])
  /\ \A n \in ListedInTotals \ Displayed(DOMAIN valued).of : strategy = "average" /\ ~Converts(valued[n])

CountsOnce ==
  /\ valued # <<>> => Cardinality({k \in Keys \union {"average"} : CountedFor(k)}) = 1
  /\ \A k \in Keys : CountedFor(k) => \A n \in Displayed(DOMAIN valued).of : valued[n].key = k

ComparesThen ==
  /\ \A n \in Compared \union Displayed(Before).of : valued[n].day <= soldOn
  /\ Displayed(Before).as = "average" => Displayed(Before).of \subseteq Compared
  /\ soldOn >= today => Before = DOMAIN valued /\ Displayed(Before) = Displayed(DOMAIN valued)

LEMMA ListsHold == ReportsInv => ListsAsShown
<1> SUFFICES ASSUME ReportsInv PROVE ListsAsShown
  OBVIOUS
<1>1. PICK es \in SUBSET DOMAIN valued : es = DOMAIN valued
  OBVIOUS
<1>2. ListedInTotals = LatestByKey(es) \cap DisplayIds(es)
  BY <1>1 DEF ListedInTotals
<1>3. OfAdapters(es) \subseteq LatestByKey(es)
  BY LatestIsOf
<1>4. /\ \A n \in Displayed(es).of \ ListedInTotals : strategy = "average" /\ \A m \in ListedInTotals : ~Converts(valued[m])
      /\ \A n \in ListedInTotals \ Displayed(es).of : strategy = "average" /\ ~Converts(valued[n])
  BY <1>2, <1>3, DisplayedIs
<1>5. QED BY <1>1, <1>4 DEF ListsAsShown

LEMMA CountsHold == ReportsInv => CountsOnce
<1> SUFFICES ASSUME ReportsInv PROVE CountsOnce
  OBVIOUS
<1>1. PICK es \in SUBSET DOMAIN valued : es = DOMAIN valued
  OBVIOUS
<1>2. ASSUME valued # <<>>
      PROVE  \/ Displayed(es).as = "average"
             \/ \E n \in DOMAIN valued : Displayed(es).as = valued[n].key /\ Displayed(es).of = {n}
  <2>1. es # {}
    BY <1>1, <1>2 DEF ReportsInv
  <2>2. LatestByKey(es) \subseteq DOMAIN valued
    BY LatestIsOf
  <2>3. QED BY <2>1, <2>2, DisplayedIs
<1>3. ASSUME valued # <<>> PROVE Cardinality({k \in Keys \union {"average"} : CountedFor(k)}) = 1
  <2>1. PICK as : as = Displayed(es).as
    OBVIOUS
  <2>2. as \in Keys \union {"average"}
    BY <1>2, <1>3, <2>1, KeysAre
  <2>3. {k \in Keys \union {"average"} : CountedFor(k)} = {as}
    BY <1>1, <1>3, <2>1, <2>2 DEF CountedFor
  <2>4. QED BY <2>3, FS_Singleton
<1>4. ASSUME NEW k \in Keys, CountedFor(k), NEW n \in Displayed(es).of PROVE valued[n].key = k
  <2>1. valued # <<>> /\ Displayed(es).as = k
    BY <1>1, <1>4 DEF CountedFor
  <2>2. k # "average"
    BY ReportsAssumption DEF Keys
  <2>3. QED BY <1>2, <1>4, <2>1, <2>2
<1>5. QED BY <1>1, <1>3, <1>4 DEF CountsOnce

LEMMA ComparesHold == ReportsInv => ComparesThen
<1> SUFFICES ASSUME ReportsInv PROVE ComparesThen
  OBVIOUS
<1>1. Before \in SUBSET DOMAIN valued /\ \A n \in Before : valued[n].day <= soldOn
  BY DEF Before
<1>2. LatestByKey(Before) \subseteq Before /\ OfAdapters(Before) \subseteq LatestByKey(Before)
  BY LatestIsOf
<1>3. Compared = {n \in LatestByKey(Before) : Converts(valued[n])}
  BY DEF Compared
<1>4. Displayed(Before).of \subseteq Before
  BY <1>1, <1>2, DisplayedIs
<1>5. ASSUME Displayed(Before).as = "average" PROVE Displayed(Before).of \subseteq Compared
  <2>1. \A n \in LatestByKey(Before) : valued[n].key # "average"
    BY <1>1, <1>2, KeysAre
  <2>2. QED BY <1>1, <1>2, <1>3, <1>5, <2>1, DisplayedIs
<1>6. ASSUME soldOn >= today PROVE Before = DOMAIN valued
  <2>1. ASSUME NEW n \in DOMAIN valued PROVE valued[n].day <= soldOn
    BY <1>6, KeysAre DEF ReportsInv
  <2>2. QED BY <2>1 DEF Before
<1>7. QED BY <1>1, <1>2, <1>3, <1>4, <1>5, <1>6 DEF ComparesThen

\* The reports tell of the value that is shown, though two of them work out by
\* themselves what it is made of, for any number of estimates
\* (pricing.resolve_display_value, pricing_reports.py).
THEOREM ChoiceIsSame == ReportsSpec => []SameChoice
<1>1. ReportsInv => SameChoice
  BY ListsHold, CountsHold, ComparesHold DEF SameChoice, ListsAsShown, CountsOnce, ComparesThen
<1>2. QED BY <1>1, ReportsStart, ReportsStep, PTL DEF ReportsSpec

-----------------------------------------------------------------------------
(* Alerts: but for the conditions that went astray, the last alert of each *)
(* says what is recorded of it, or the one alert on its way will.          *)

Findings == Messages \union {"ok", "none"}
Tellings == [kind : {"failing", "recovered"}, times : Nat]
Watchings == [at : {"idle", "write", "forget", "tell"}, of : SUBSET Conditions,
              read : [Conditions -> Findings] \union [{} -> Findings], put : Findings]

AlertsTypeOK ==
  /\ conditions \in [Conditions -> Findings] /\ astray \subseteq Conditions
  /\ told \in [Conditions -> Tellings]
  /\ watch \in [Watchers -> Watchings]

\* Who is at a write has read all of the value.
HasRead(s) ==
  /\ s.at # "idle" => s.read \in [Conditions -> Findings]
  /\ s.at = "forget" => s.put = "none"

Agrees(c) ==
  /\ \A u, v \in Telling(c) : u = v
  /\ \A v \in Telling(c) : Verdict(watch[v].put) = Verdict(conditions[c]) /\ told[c].kind # Verdict(conditions[c])
  /\ Telling(c) = {} => told[c].kind = Verdict(conditions[c])

AlertsInv ==
  /\ AlertsTypeOK /\ \A w \in Watchers : HasRead(watch[w])
  /\ \A c \in Conditions \ astray : Agrees(c)

LEMMA IdleIs == Idle \in Watchings /\ Idle.at = "idle" /\ HasRead(Idle)
  BY DEF Idle, Watchings, Findings, HasRead

LEMMA VerdictIs == \A m : Verdict(m) \in {"failing", "recovered"}
  BY DEF Verdict

LEMMA AlertsStart == AlertsInit => AlertsInv
<1> SUFFICES ASSUME AlertsInit PROVE AlertsInv
  OBVIOUS
<1>1. AlertsTypeOK
  BY IdleIs DEF AlertsInit, AlertsTypeOK, NothingTold, Findings, Tellings
<1>2. \A w \in Watchers : watch[w] = Idle
  BY DEF AlertsInit
<1>3. \A c \in Conditions : told[c].kind = Verdict(conditions[c]) /\ Telling(c) = {}
  BY <1>2, IdleIs DEF AlertsInit, NothingTold, Verdict, Failing, Messages, Telling
<1>4. QED BY <1>1, <1>2, <1>3, IdleIs DEF AlertsInv, Agrees

\* Who has an alert on its way, after a watcher went on.
LEMMA TellingIs ==
  ASSUME AlertsInv, NEW w \in Watchers, NEW s \in Watchings, HasRead(s), watch' = [watch EXCEPT ![w] = s]
  PROVE  /\ watch' \in [Watchers -> Watchings] /\ \A v \in Watchers : HasRead(watch'[v])
         /\ watch'[w] = s /\ \A v \in Watchers : v # w => watch'[v] = watch[v]
         /\ \A c : ~(s.at = "tell" /\ s.of = {c}) => Telling(c)' = Telling(c) \ {w}
         /\ \A c : s.at = "tell" /\ s.of = {c} => Telling(c)' = Telling(c) \union {w}
<1>1. watch' \in [Watchers -> Watchings] /\ watch'[w] = s /\ \A v \in Watchers : v # w => watch'[v] = watch[v]
  BY DEF AlertsInv, AlertsTypeOK
<1>2. \A v \in Watchers : HasRead(watch'[v])
  BY <1>1 DEF AlertsInv
<1>3. QED BY <1>1, <1>2 DEF Telling

\* A condition agrees as before while neither its verdict nor its alerts move.
LEMMA AgreesStays ==
  ASSUME NEW c \in Conditions, Agrees(c), Telling(c)' = Telling(c), \A v \in Telling(c) : watch'[v] = watch[v],
         told'[c] = told[c], Verdict(conditions'[c]) = Verdict(conditions[c])
  PROVE  Agrees(c)'
  BY DEF Agrees

LEMMA LooksKeeps ==
  ASSUME AlertsInv, NEW w \in Watchers, NEW c \in Conditions, NEW at \in {"write", "forget"}, NEW m \in Findings,
         at = "forget" => m = "none", Looks(w, c, at, m)
  PROVE  AlertsInv'
<1>1. PICK s : s = [at |-> at, of |-> {c}, read |-> conditions, put |-> m]
  OBVIOUS
<1>2. s \in Watchings /\ HasRead(s) /\ s.at # "tell"
  BY <1>1 DEF Watchings, HasRead, AlertsInv, AlertsTypeOK
<1>3. watch' = [watch EXCEPT ![w] = s] /\ watch[w].at = "idle" /\ UNCHANGED <<conditions, told, astray>>
  BY <1>1 DEF Looks
<1>4. /\ watch' \in [Watchers -> Watchings] /\ \A v \in Watchers : HasRead(watch'[v])
      /\ \A v \in Watchers : v # w => watch'[v] = watch[v]
      /\ \A d : Telling(d)' = Telling(d) \ {w} /\ w \notin Telling(d)
  BY <1>2, <1>3, TellingIs DEF Telling
<1>5. ASSUME NEW d \in Conditions \ astray' PROVE Agrees(d)'
  <2>1. Agrees(d) /\ Telling(d)' = Telling(d)
    BY <1>3, <1>4, <1>5 DEF AlertsInv
  <2>2. \A v \in Telling(d) : watch'[v] = watch[v]
    BY <1>4 DEF Telling
  <2>3. QED BY <1>3, <2>1, <2>2, AgreesStays
<1>6. QED BY <1>3, <1>4, <1>5 DEF AlertsInv, AlertsTypeOK

\* Of what a write did not set back, the verdict is as it was read.
LEMMA WritesKeeps ==
  ASSUME AlertsInv, NEW w \in Watchers, NEW c \in Conditions, Writes(w, c)
  PROVE  AlertsInv'
<1>1. PICK s \in Watchings : s = watch[w] /\ s.at = "write" /\ s.of = {c}
                             /\ s.read \in [Conditions -> Findings] /\ s.put \in Findings
  BY DEF AlertsInv, AlertsTypeOK, Writes, Watchings, HasRead
<1>2. PICK next : next = IF Changes(s.read[c], s.put) THEN [s EXCEPT !.at = "tell"] ELSE Idle
  OBVIOUS
<1>3. /\ conditions' = [s.read EXCEPT ![c] = s.put] /\ told' = told
      /\ watch' = [watch EXCEPT ![w] = next]
      /\ astray' = astray \union SetBack(s) \union (IF Changes(s.read[c], s.put) /\ Telling(c) # {} THEN {c} ELSE {})
  BY <1>1, <1>2 DEF Writes, WritesBack
<1>4. /\ next \in Watchings /\ HasRead(next)
      /\ Changes(s.read[c], s.put) => next.at = "tell" /\ next.of = {c} /\ next.put = s.put
      /\ ~Changes(s.read[c], s.put) => next.at = "idle"
  BY <1>1, <1>2, IdleIs DEF Watchings, HasRead
<1>5. /\ watch' \in [Watchers -> Watchings] /\ \A v \in Watchers : HasRead(watch'[v])
      /\ watch'[w] = next /\ \A v \in Watchers : v # w => watch'[v] = watch[v]
      /\ \A d : ~(next.at = "tell" /\ next.of = {d}) => Telling(d)' = Telling(d) \ {w}
      /\ \A d : next.at = "tell" /\ next.of = {d} => Telling(d)' = Telling(d) \union {w}
  BY <1>3, <1>4, TellingIs
<1>6. \A d : w \notin Telling(d) /\ \A v \in Telling(d) : watch'[v] = watch[v]
  BY <1>1, <1>5 DEF Telling
<1>7. AlertsTypeOK'
  BY <1>1, <1>3, <1>5 DEF AlertsInv, AlertsTypeOK, SetBack
<1>8. ASSUME NEW d \in Conditions \ astray' PROVE Agrees(d)'
  <2>1. Agrees(d) /\ Verdict(s.read[d]) = Verdict(conditions[d])
    BY <1>3, <1>8 DEF AlertsInv, SetBack
  <2>2. CASE d # c
    <3>1. conditions'[d] = s.read[d]
      BY <1>1, <1>3, <2>2
    <3>2. ~(next.at = "tell" /\ next.of = {d})
      BY <1>4, <2>2
    <3>3. Telling(d)' = Telling(d)
      BY <1>5, <1>6, <3>2
    <3>4. QED BY <1>3, <1>6, <2>1, <3>1, <3>3, AgreesStays
  <2>3. CASE d = c /\ ~Changes(s.read[c], s.put)
    <3>1. conditions'[c] = s.put /\ Verdict(s.put) = Verdict(s.read[c])
      BY <1>1, <1>3, <2>3 DEF Changes
    <3>2. Telling(c)' = Telling(c)
      BY <1>4, <1>5, <1>6, <2>3
    <3>3. QED BY <1>3, <1>6, <2>1, <2>3, <3>1, <3>2, AgreesStays
  <2>4. CASE d = c /\ Changes(s.read[c], s.put)
    <3>1. conditions'[c] = s.put /\ Verdict(s.put) # Verdict(s.read[c])
      BY <1>1, <1>3, <2>4 DEF Changes
    <3>2. Telling(c) = {}
      BY <1>3, <1>8, <2>4
    <3>3. Telling(c)' = {w} /\ watch'[w].put = s.put
      BY <1>4, <1>5, <2>4, <3>2
    <3>4. told'[c].kind = Verdict(s.read[c])
      BY <1>3, <2>1, <2>4, <3>2 DEF Agrees
    <3>5. QED BY <2>4, <3>1, <3>3, <3>4 DEF Agrees
  <2>5. QED BY <2>2, <2>3, <2>4
<1>9. QED BY <1>5, <1>7, <1>8 DEF AlertsInv

LEMMA WritesForgottenKeeps ==
  ASSUME AlertsInv, NEW w \in Watchers, NEW c \in Conditions, WritesForgotten(w, c)
  PROVE  AlertsInv'
<1>1. PICK s \in Watchings : s = watch[w] /\ s.at = "forget" /\ s.put = "none"
                             /\ s.read \in [Conditions -> Findings]
  BY DEF AlertsInv, AlertsTypeOK, WritesForgotten, HasRead
<1>2. /\ conditions' = [s.read EXCEPT ![c] = "none"] /\ told' = [told EXCEPT ![c] = NothingTold]
      /\ watch' = [watch EXCEPT ![w] = Idle]
      /\ astray' = IF Telling(c) = {} THEN (astray \union SetBack(s)) \ {c} ELSE astray \union SetBack(s) \union {c}
  BY <1>1 DEF WritesForgotten, WritesBack
<1>3. /\ watch' \in [Watchers -> Watchings] /\ \A v \in Watchers : HasRead(watch'[v])
      /\ \A v \in Watchers : v # w => watch'[v] = watch[v]
      /\ \A d : Telling(d)' = Telling(d) \ {w}
  BY <1>2, TellingIs, IdleIs
<1>4. \A d : Telling(d)' = Telling(d) /\ \A v \in Telling(d) : watch'[v] = watch[v]
  BY <1>1, <1>3 DEF Telling
<1>5. NothingTold \in Tellings /\ NothingTold.kind = Verdict("none")
  BY DEF NothingTold, Tellings, Verdict, Failing, Messages
<1>6. AlertsTypeOK'
  BY <1>1, <1>2, <1>3, <1>5 DEF AlertsInv, AlertsTypeOK, SetBack, Findings
<1>7. ASSUME NEW d \in Conditions \ astray' PROVE Agrees(d)'
  <2>1. CASE d # c
    <3>1. Agrees(d) /\ Verdict(s.read[d]) = Verdict(conditions[d])
      BY <1>2, <1>7, <2>1 DEF AlertsInv, SetBack
    <3>2. conditions'[d] = s.read[d] /\ told'[d] = told[d]
      BY <1>1, <1>2, <2>1 DEF AlertsInv, AlertsTypeOK
    <3>3. QED BY <1>4, <3>1, <3>2, AgreesStays
  <2>2. CASE d = c
    <3>1. Telling(c)' = {}
      BY <1>2, <1>4, <1>7, <2>2
    <3>2. conditions'[c] = "none" /\ told'[c] = NothingTold
      BY <1>1, <1>2 DEF AlertsInv, AlertsTypeOK
    <3>3. QED BY <1>5, <2>2, <3>1, <3>2 DEF Agrees
  <2>3. QED BY <2>1, <2>2
<1>8. QED BY <1>3, <1>6, <1>7 DEF AlertsInv

\* An alert is of the verdict that is recorded, and told otherwise until now.
LEMMA TellsKeeps ==
  ASSUME AlertsInv, NEW w \in Watchers, NEW c \in Conditions, Tells(w, c)
  PROVE  AlertsInv' /\ (ToldAgain(c) => c \in astray) /\ \A d \in Conditions : d # c => told'[d] = told[d]
<1>1. PICK s \in Watchings : s = watch[w] /\ w \in Telling(c) /\ s.of = {c} /\ s.put \in Findings
  BY DEF AlertsInv, AlertsTypeOK, Tells, Telling, Watchings
<1>2. /\ told' = [told EXCEPT ![c].times = @ + 1, ![c].kind = Verdict(s.put)] /\ conditions' = conditions
      /\ watch' = [watch EXCEPT ![w] = Idle]
      /\ astray' = IF Telling(c) = {w} /\ Verdict(s.put) = Verdict(conditions[c]) THEN astray \ {c} ELSE astray
  BY <1>1 DEF Tells
<1>3. told' \in [Conditions -> Tellings] /\ told'[c].kind = Verdict(s.put)
      /\ \A d \in Conditions : d # c => told'[d] = told[d]
  <2>1. told[c] \in Tellings /\ told \in [Conditions -> Tellings]
    BY DEF AlertsInv, AlertsTypeOK
  <2>2. PICK k \in {"failing", "recovered"} : k = Verdict(s.put)
    BY VerdictIs
  <2>3. PICK n \in Nat : n = told[c].times + 1
    BY <2>1 DEF Tellings
  <2>4. told' = [told EXCEPT ![c].times = n, ![c].kind = k]
    BY <1>2, <2>2, <2>3
  <2>5. QED BY <2>1, <2>2, <2>4 DEF Tellings
<1>4. /\ watch' \in [Watchers -> Watchings] /\ \A v \in Watchers : HasRead(watch'[v])
      /\ \A v \in Watchers : v # w => watch'[v] = watch[v]
      /\ \A d : Telling(d)' = Telling(d) \ {w}
  BY <1>2, TellingIs, IdleIs
<1>5. AlertsTypeOK'
  BY <1>2, <1>3, <1>4 DEF AlertsInv, AlertsTypeOK
<1>6. c \notin astray => /\ Telling(c) = {w} /\ Verdict(s.put) = Verdict(conditions[c])
                         /\ told[c].kind # Verdict(s.put)
  BY <1>1 DEF AlertsInv, Agrees
<1>7. ASSUME NEW d \in Conditions \ astray' PROVE Agrees(d)'
  <2>1. CASE d # c
    <3>1. w \notin Telling(d)
      BY <1>1, <2>1 DEF Telling
    <3>2. Telling(d)' = Telling(d) /\ \A v \in Telling(d) : watch'[v] = watch[v]
      BY <1>4, <3>1 DEF Telling
    <3>3. Agrees(d)
      BY <1>2, <1>7, <2>1 DEF AlertsInv
    <3>4. QED BY <1>2, <1>3, <2>1, <3>2, <3>3, AgreesStays
  <2>2. CASE d = c
    <3>1. Telling(c) = {w} /\ Verdict(s.put) = Verdict(conditions[c])
      BY <1>2, <1>6, <1>7, <2>2
    <3>2. Telling(c)' = {}
      BY <1>4, <3>1
    <3>3. QED BY <1>2, <1>3, <2>2, <3>1, <3>2 DEF Agrees
  <2>3. QED BY <2>1, <2>2
<1>8. QED BY <1>3, <1>4, <1>5, <1>6, <1>7 DEF AlertsInv, ToldAgain

LEMMA StopsShortKeeps ==
  ASSUME AlertsInv, NEW w \in Watchers, StopsShort(w)
  PROVE  AlertsInv'
<1>1. watch' = [watch EXCEPT ![w] = Idle] /\ UNCHANGED <<conditions, told>>
      /\ astray' = astray \union {c \in watch[w].of : watch[w].at = "tell"}
  BY DEF StopsShort
<1>2. /\ watch' \in [Watchers -> Watchings] /\ \A v \in Watchers : HasRead(watch'[v])
      /\ \A v \in Watchers : v # w => watch'[v] = watch[v]
      /\ \A d : Telling(d)' = Telling(d) \ {w}
  BY <1>1, TellingIs, IdleIs
<1>3. watch[w].of \subseteq Conditions
  BY DEF AlertsInv, AlertsTypeOK, Watchings
<1>4. ASSUME NEW d \in Conditions \ astray' PROVE Agrees(d)'
  <2>1. w \notin Telling(d)
    BY <1>1, <1>4 DEF Telling
  <2>2. Telling(d)' = Telling(d) /\ \A v \in Telling(d) : watch'[v] = watch[v]
    BY <1>2, <2>1 DEF Telling
  <2>3. Agrees(d)
    BY <1>1, <1>4 DEF AlertsInv
  <2>4. QED BY <1>1, <2>2, <2>3, AgreesStays
<1>5. QED BY <1>1, <1>2, <1>3, <1>4 DEF AlertsInv, AlertsTypeOK

LEMMA AlertsStep == AlertsInv /\ [AlertsNext]_alerts => AlertsInv'
<1> SUFFICES ASSUME AlertsInv, [AlertsNext]_alerts PROVE AlertsInv'
  OBVIOUS
<1>1. CASE UNCHANGED alerts
  <2>1. UNCHANGED <<conditions, told, astray, watch>>
    BY <1>1 DEF alerts
  <2>2. \A d : Telling(d)' = Telling(d)
    BY <2>1 DEF Telling
  <2>3. \A d \in Conditions \ astray : Agrees(d)'
    BY <2>1, <2>2 DEF AlertsInv, Agrees
  <2>4. AlertsTypeOK' /\ \A w \in Watchers : HasRead(watch'[w])
    BY <2>1 DEF AlertsInv, AlertsTypeOK
  <2>5. QED BY <2>1, <2>3, <2>4 DEF AlertsInv
<1>2. ASSUME NEW w \in Watchers, NEW c \in Conditions, NEW m \in Messages \union {"ok"}, Hears(w, c, m) PROVE AlertsInv'
  BY <1>2, LooksKeeps DEF Hears, Findings
<1>3. ASSUME NEW w \in Watchers, NEW c \in Conditions, Forgets(w, c) PROVE AlertsInv'
  BY <1>3, LooksKeeps DEF Forgets, Findings
<1>4. QED BY <1>1, <1>2, <1>3, WritesKeeps, WritesForgottenKeeps, TellsKeeps, StopsShortKeeps DEF AlertsNext

\* A condition alerts as failing and as recovered in turn, for any number of
\* watchers and conditions and any stops, but for one that lost an alert, had
\* two on their way or was set back, and for that one until an alert says what
\* is recorded (alerts.fail, recover, forget).
THEOREM AlertsAreInTurn == AlertsSpec => InTurn
<1>1. ASSUME AlertsInv, AlertsNext, NEW c \in Conditions, ToldAgain(c)
      PROVE  c \in astray
  <2>1. told[c] \in Tellings /\ told'[c] # told[c] /\ told'[c] # NothingTold
    <3>1. told[c] \in Tellings
      BY <1>1 DEF AlertsInv, AlertsTypeOK
    <3>2. told[c].times \in Nat
      BY <3>1 DEF Tellings
    <3>3. QED BY <1>1, <3>1, <3>2 DEF NothingTold, ToldAgain
  <2>2. PICK w \in Watchers, d \in Conditions : Tells(w, d)
    <3>1. ASSUME NEW w, NEW d, NEW m, Hears(w, d, m) PROVE FALSE
      BY <2>1, <3>1 DEF Hears, Looks
    <3>2. ASSUME NEW w, NEW d, Forgets(w, d) PROVE FALSE
      BY <2>1, <3>2 DEF Forgets, Looks
    <3>3. ASSUME NEW w, NEW d, Writes(w, d) PROVE FALSE
      BY <2>1, <3>3 DEF Writes
    <3>4. ASSUME NEW w, NEW d \in Conditions, WritesForgotten(w, d) PROVE FALSE
      BY <1>1, <2>1, <3>4 DEF WritesForgotten, AlertsInv, AlertsTypeOK
    <3>5. ASSUME NEW w, StopsShort(w) PROVE FALSE
      BY <2>1, <3>5 DEF StopsShort
    <3>6. QED BY <1>1, <3>1, <3>2, <3>3, <3>4, <3>5 DEF AlertsNext
  <2>3. d = c
    BY <1>1, <2>1, <2>2, TellsKeeps
  <2>4. QED BY <1>1, <2>2, <2>3, TellsKeeps
<1>2. ASSUME AlertsInv, [AlertsNext]_alerts
      PROVE  [\A c \in Conditions : ToldAgain(c) => c \in astray]_alerts
  BY <1>1, <1>2
<1>3. QED BY <1>2, AlertsStart, AlertsStep, PTL DEF AlertsSpec, InTurn

-----------------------------------------------------------------------------
(* Caches: what an entry, a request and an answer have, they have of the   *)
(* hour they claim or of a later one.                                      *)

Said == [is : {"none", "kept", "failed"}, says : Nat, asOf : Nat]
CacheCalls == [at : {"rests", "asks", "stores", "flushed"}, begun : Nat, says : Nat, had : Said]

CachesTypeOK ==
  /\ hour \in Nat /\ changes \subseteq Nat /\ entry \in Said /\ served \in Said
  /\ call \in [Callers -> CacheCalls]

\* By each hour so far there is a last change.
LastChange == \A t \in 0 .. hour : \E h \in {0} \union changes : h <= t /\ \A c \in changes : c <= t => c <= h

Honest(e) == e.is = "kept" => e.asOf <= hour /\ Saying(e.asOf) <= e.says
HonestCall(r) ==
  /\ r.begun <= hour /\ Honest(r.had)
  /\ r.at \in {"stores", "flushed"} => Saying(r.begun) <= r.says

CachesInv ==
  /\ CachesTypeOK /\ LastChange /\ \A c \in changes : c <= hour
  /\ Honest(entry) /\ Honest(served) /\ \A c \in Callers : HonestCall(call[c])

-----------------------------------------------------------------------------
\* What is said never returns to what was said.
LEMMA SayingIs ==
  ASSUME CachesTypeOK, LastChange, NEW t \in 0 .. hour
  PROVE  /\ Saying(t) \in Nat /\ Saying(t) <= t
         /\ \A c \in changes : c <= t => c <= Saying(t)
         /\ Saying(t) \in {0} \union changes
<1>1. PICK h \in {0} \union changes : h <= t /\ \A c \in changes : c <= t => c <= h
  BY DEF LastChange
<1>2. PICK S : S = {0} \union {c \in changes : c <= t}
  OBVIOUS
<1>3. h \in S /\ (\A y \in S : h >= y) /\ S \subseteq Nat
  <2>1. S \subseteq Nat /\ h \in Nat /\ changes \subseteq Nat
    <3>1. changes \subseteq Nat
      BY DEF CachesTypeOK
    <3>2. S \subseteq {0} \union changes
      BY <1>2
    <3>3. h \in Nat
      BY <3>1
    <3>4. S \subseteq Nat
      BY <3>1, <3>2
    <3>5. QED BY <3>1, <3>3, <3>4
  <2>2. h \in S
    BY <1>1, <1>2
  <2>3. ASSUME NEW y \in S PROVE h >= y
    <3>1. y = 0 \/ (y \in changes /\ y <= t)
      BY <1>2
    <3>2. y <= h
      BY <1>1, <2>1, <3>1
    <3>3. QED BY <2>1, <3>2
  <2>4. QED BY <2>1, <2>2, <2>3
<1>4. Max(S) \in S /\ \A y \in S : Max(S) >= y
  BY <1>3 DEF Max
<1>5. Saying(t) = Max(S)
  BY <1>2 DEF Saying
<1>6. QED BY <1>2, <1>3, <1>4, <1>5 DEF CachesTypeOK

LEMMA SayingGrows ==
  ASSUME CachesTypeOK, LastChange, NEW t \in 0 .. hour, NEW u \in 0 .. hour, t <= u
  PROVE  Saying(t) <= Saying(u)
<1>1. Saying(t) \in Nat /\ Saying(u) \in Nat /\ Saying(t) <= u /\ Saying(t) \in {0} \union changes
  BY SayingIs DEF CachesTypeOK
<1>2. \A c \in changes : c <= u => c <= Saying(u)
  BY SayingIs
<1>3. QED BY <1>1, <1>2

LEMMA SayingStays ==
  ASSUME CachesTypeOK, \A c \in changes' : c \in changes \/ c = hour + 1, changes \subseteq changes', NEW t \in 0 .. hour
  PROVE  Saying(t)' = Saying(t)
<1>1. \A c \in changes' : c <= t => c \in changes
  BY DEF CachesTypeOK
<1>2. {0} \union {c \in changes' : c <= t} = {0} \union {c \in changes : c <= t}
  BY <1>1
<1>3. QED BY <1>2 DEF Saying

\* While the hour and the changes stand, honest is as honest was.
LEMMA HonestStays ==
  ASSUME CachesTypeOK, NEW e \in Said, Honest(e),
         \A c \in changes' : c \in changes \/ c = hour + 1, changes \subseteq changes', hour' \in {hour, hour + 1}
  PROVE  Honest(e)'
<1>1. CASE e.is = "kept"
  <2>1. e.asOf \in 0 .. hour /\ e.asOf <= hour' /\ Saying(e.asOf) <= e.says
    BY <1>1 DEF Honest, Said, CachesTypeOK
  <2>2. Saying(e.asOf)' = Saying(e.asOf)
    BY <2>1, SayingStays
  <2>3. QED BY <2>1, <2>2 DEF Honest
<1>2. CASE e.is # "kept"
  BY <1>2 DEF Honest
<1>3. QED BY <1>1, <1>2

LEMMA HonestCallStays ==
  ASSUME CachesTypeOK, NEW r \in CacheCalls, HonestCall(r),
         \A c \in changes' : c \in changes \/ c = hour + 1, changes \subseteq changes', hour' \in {hour, hour + 1}
  PROVE  HonestCall(r)'
<1>1. r.had \in Said /\ r.begun \in 0 .. hour /\ r.begun <= hour'
  BY DEF CacheCalls, HonestCall, CachesTypeOK
<1>2. Honest(r.had)'
  BY <1>1, HonestStays DEF HonestCall
<1>3. Saying(r.begun)' = Saying(r.begun)
  BY <1>1, SayingStays
<1>4. QED BY <1>1, <1>2, <1>3 DEF HonestCall

LEMMA CachesStart == CachesInit => CachesInv
<1> SUFFICES ASSUME CachesInit PROVE CachesInv
  OBVIOUS
<1>1. NoEntry \in Said /\ NoEntry.is # "kept"
  BY DEF NoEntry, Said
<1>2. NoCall \in CacheCalls /\ NoCall.begun = 0 /\ NoCall.had = NoEntry /\ NoCall.at = "rests"
  BY <1>1 DEF NoCall, CacheCalls
<1>3. CachesTypeOK
  BY <1>1, <1>2 DEF CachesInit, CachesTypeOK
<1>4. LastChange /\ \A c \in changes : c <= hour
  BY DEF CachesInit, LastChange
<1>5. Honest(NoEntry) /\ HonestCall(NoCall)
  BY <1>1, <1>2 DEF Honest, HonestCall, CachesInit
<1>6. QED BY <1>3, <1>4, <1>5 DEF CachesInv, CachesInit

\* A request's step, at one hour: it leaves the others alone.
LEMMA CallKeeps ==
  ASSUME CachesInv, UNCHANGED <<hour, changes>>, NEW c \in Callers, NEW r \in CacheCalls, HonestCall(r),
         call' = [call EXCEPT ![c] = r],
         NEW e \in Said, Honest(e), entry' = e, NEW s \in Said, Honest(s), served' = s
  PROVE  CachesInv'
<1>1. CachesTypeOK' /\ LastChange' /\ \A d \in changes' : d <= hour'
  BY DEF CachesInv, CachesTypeOK, LastChange
<1>2. /\ CachesTypeOK /\ \A d \in changes' : d \in changes \/ d = hour + 1
      /\ changes \subseteq changes' /\ hour' \in {hour, hour + 1}
  BY DEF CachesInv
<1>3. Honest(e)' /\ Honest(s)'
  BY <1>2, HonestStays
<1>4. Honest(entry)' /\ Honest(served)'
  BY <1>3 DEF Honest
<1>5. ASSUME NEW d \in Callers PROVE HonestCall(call[d])'
  <2>1. PICK w \in CacheCalls : w = call'[d] /\ HonestCall(w)
    BY DEF CachesInv, CachesTypeOK
  <2>2. HonestCall(w)'
    BY <1>2, <2>1, HonestCallStays
  <2>3. QED BY <2>1, <2>2 DEF HonestCall, Honest
<1>6. QED BY <1>1, <1>4, <1>5 DEF CachesInv

LEMMA CallIs ==
  ASSUME CachesInv, NEW c \in Callers
  PROVE  /\ call[c] \in CacheCalls /\ call[c].begun \in Nat /\ call[c].says \in Nat /\ call[c].had \in Said
         /\ HonestCall(call[c]) /\ Honest(call[c].had) /\ hour \in Nat
         /\ NoCall \in CacheCalls /\ HonestCall(NoCall)
         /\ entry \in Said /\ Honest(entry) /\ served \in Said /\ Honest(served)
<1>1. call[c] \in CacheCalls
  BY DEF CachesInv, CachesTypeOK
<1>2. NoEntry \in Said /\ NoEntry.is # "kept"
  BY DEF NoEntry, Said
<1>3. NoCall \in CacheCalls /\ HonestCall(NoCall)
  BY <1>2 DEF NoCall, CacheCalls, HonestCall, Honest, CachesInv, CachesTypeOK
<1>4. QED BY <1>1, <1>3 DEF CachesInv, CachesTypeOK, CacheCalls, HonestCall

\* What a request was told, it may keep and answer.
LEMMA ToldIs ==
  ASSUME CachesInv, NEW c \in Callers, call[c].at \in {"stores", "flushed"}
  PROVE  Told(c) \in Said /\ Honest(Told(c))
<1>1. Told(c).is = "kept" /\ Told(c).says = call[c].says /\ Told(c).asOf = call[c].begun /\ Told(c) \in Said
  BY CallIs DEF Told, Said
<1>2. QED BY <1>1, CallIs DEF Honest, HonestCall

LEMMA ConsultsKeeps ==
  ASSUME CachesInv, NEW c \in Callers, NEW fresh \in BOOLEAN, Consults(c, fresh)
  PROVE  CachesInv'
<1>1. CASE UNCHANGED call
  BY <1>1, CallIs, CallKeeps DEF Consults, Serves, CachesInv, CachesTypeOK
<1>2. CASE ~UNCHANGED call
  <2>1. PICK r : r = [at |-> "asks", begun |-> hour, says |-> 0, had |-> entry]
    OBVIOUS
  <2>2. call' = [call EXCEPT ![c] = r] /\ UNCHANGED <<hour, changes, entry, served>>
    BY <1>2, <2>1 DEF Consults
  <2>3. r \in CacheCalls
    BY <2>1, CallIs DEF CacheCalls
  <2>4. HonestCall(r)
    BY <2>1, CallIs DEF HonestCall
  <2>5. QED BY <2>2, <2>3, <2>4, CallIs, CallKeeps
<1>3. QED BY <1>1, <1>2

LEMMA PeeksKeeps ==
  ASSUME CachesInv, Peeks
  PROVE  CachesInv'
<1>1. UNCHANGED <<hour, changes, entry, call>> /\ served' = entry
  BY DEF Peeks, Serves
<1>2. Honest(served)' /\ Honest(entry)' /\ \A c \in Callers : HonestCall(call[c])'
  BY <1>1 DEF CachesInv, Honest, HonestCall, Saying
<1>3. QED BY <1>1, <1>2 DEF CachesInv, CachesTypeOK, LastChange

LEMMA RepliesKeeps ==
  ASSUME CachesInv, NEW c \in Callers, Replies(c)
  PROVE  CachesInv'
<1>1. CachesTypeOK /\ LastChange /\ hour \in 0 .. hour /\ call[c].begun \in 0 .. hour
  BY CallIs DEF CachesInv, HonestCall
<1>2. Saying(hour) \in Nat /\ Saying(call[c].begun) <= Saying(hour)
  BY <1>1, SayingIs, SayingGrows, CallIs DEF HonestCall
<1>3. PICK says \in Nat : says = Saying(hour)
  BY <1>2
<1>4. PICK r : r = [call[c] EXCEPT !.at = "stores", !.says = says]
  OBVIOUS
<1>5. /\ r \in CacheCalls /\ r.begun = call[c].begun /\ r.had = call[c].had /\ r.says = says
  BY <1>3, <1>4, CallIs DEF CacheCalls
<1>6. HonestCall(r)
  BY <1>2, <1>3, <1>5, CallIs DEF HonestCall
<1>7. call' = [call EXCEPT ![c] = r]
  BY <1>3, <1>4, CallIs DEF Replies, CachesInv, CachesTypeOK
<1>8. QED BY <1>5, <1>6, <1>7, CallIs, CallKeeps DEF Replies

LEMMA FailsKeeps ==
  ASSUME CachesInv, NEW c \in Callers, RequestFails(c) \/ NotThere(c)
  PROVE  CachesInv'
<1>1. call' = [call EXCEPT ![c] = NoCall] /\ UNCHANGED <<hour, changes>>
  BY DEF RequestFails, NotThere, Ends
<1>2. served' \in {served, call[c].had}
  BY DEF RequestFails, NotThere, Serves
<1>3. PICK f : f = [is |-> "failed", says |-> 0, asOf |-> call[c].begun]
  OBVIOUS
<1>4. f \in Said /\ Honest(f)
  BY <1>3, CallIs DEF Said, Honest
<1>5. entry' \in {entry, f}
  BY <1>3 DEF RequestFails, NotThere
<1>6. QED BY <1>1, <1>2, <1>4, <1>5, CallIs, CallKeeps

LEMMA CacheKeeps ==
  ASSUME CachesInv, NEW c \in Callers, Keeps(c)
  PROVE  CachesInv'
<1>1. UNCHANGED <<hour, changes>> /\ call[c].at = "stores" /\ served' \in {served, Told(c)} /\ entry' \in {entry, Told(c)}
  BY DEF Keeps, Serves
<1>2. Told(c) \in Said /\ Honest(Told(c))
  BY <1>1, ToldIs
<1>3. CASE call' = [call EXCEPT ![c] = NoCall]
  BY <1>1, <1>2, <1>3, CallIs, CallKeeps
<1>4. CASE call' = [call EXCEPT ![c].at = "flushed"]
  <2>1. PICK r : r = [call[c] EXCEPT !.at = "flushed"]
    OBVIOUS
  <2>2. r \in CacheCalls /\ r.begun = call[c].begun /\ r.had = call[c].had /\ r.says = call[c].says
    BY <2>1, CallIs DEF CacheCalls
  <2>3. HonestCall(r)
    BY <1>1, <2>2, CallIs DEF HonestCall
  <2>4. call' = [call EXCEPT ![c] = r]
    BY <1>4, <2>1
  <2>5. QED BY <1>1, <1>2, <2>2, <2>3, <2>4, CallIs, CallKeeps
<1>5. QED BY <1>3, <1>4 DEF Keeps, Ends

LEMMA SettlesKeeps ==
  ASSUME CachesInv, NEW c \in Callers, NEW commits \in BOOLEAN, Settles(c, commits)
  PROVE  CachesInv'
<1>1. /\ UNCHANGED <<hour, changes>> /\ call[c].at = "flushed" /\ served' = served /\ entry' \in {entry, Told(c)}
      /\ call' = [call EXCEPT ![c] = NoCall]
  BY DEF Settles, Ends
<1>2. Told(c) \in Said /\ Honest(Told(c))
  BY <1>1, ToldIs
<1>3. QED BY <1>1, <1>2, CallIs, CallKeeps

LEMMA HourKeeps ==
  ASSUME CachesInv, HourPasses
  PROVE  CachesInv'
<1>1. /\ CachesTypeOK /\ hour \in Nat /\ \A d \in changes' : d \in changes \/ d = hour + 1
      /\ changes \subseteq changes' /\ hour' = hour + 1 /\ hour' \in {hour, hour + 1} /\ UNCHANGED <<entry, call, served>>
  BY DEF HourPasses, CachesInv, CachesTypeOK
<1>2. CachesTypeOK' /\ \A c \in changes' : c \in Nat /\ c <= hour'
  BY <1>1 DEF CachesInv, CachesTypeOK
<1>3. LastChange'
  <2> SUFFICES ASSUME NEW t \in 0 .. hour'
               PROVE  \E h \in {0} \union changes' : h <= t /\ \A c \in changes' : c <= t => c <= h
    BY DEF LastChange
  <2>1. CASE t <= hour
    <3>1. PICK h \in {0} \union changes : h <= t /\ \A c \in changes : c <= t => c <= h
      BY <1>1, <2>1 DEF CachesInv, LastChange
    <3>2. \A c \in changes' : c <= t => c <= h
      BY <1>1, <2>1, <3>1
    <3>3. QED BY <1>1, <3>1, <3>2
  <2>2. CASE t = hour + 1 /\ hour + 1 \in changes'
    BY <1>1, <1>2, <2>2
  <2>3. CASE t = hour + 1 /\ hour + 1 \notin changes'
    <3>1. PICK h \in {0} \union changes : h <= hour /\ \A c \in changes : c <= hour => c <= h
      BY <1>1 DEF CachesInv, LastChange
    <3>2. h \in Nat /\ h <= t
      BY <1>1, <2>3, <3>1 DEF CachesTypeOK
    <3>3. \A c \in changes' : c <= h
      BY <1>1, <2>3, <3>1 DEF CachesInv
    <3>4. QED BY <1>1, <3>1, <3>2, <3>3
  <2>4. QED BY <1>1, <2>1, <2>2, <2>3
<1>4. ASSUME NEW e \in {entry, served} PROVE Honest(e)'
  BY <1>1, <1>4, HonestStays DEF CachesInv, CachesTypeOK
<1>5. Honest(entry)' /\ Honest(served)'
  <2>1. ASSUME NEW e, e \in {entry, served} PROVE Honest(e)'
    BY <2>1, <1>4
  <2>2. QED BY <1>1, <2>1 DEF Honest
<1>6. ASSUME NEW c \in Callers PROVE HonestCall(call[c])'
  <2>1. PICK r \in CacheCalls : r = call[c] /\ HonestCall(r)
    BY CallIs
  <2>2. HonestCall(r)'
    BY <1>1, <2>1, HonestCallStays
  <2>3. QED BY <1>1, <2>1, <2>2 DEF HonestCall, Honest
<1>7. QED BY <1>2, <1>3, <1>5, <1>6 DEF CachesInv

LEMMA CachesStep == CachesInv /\ [CachesNext]_caches => CachesInv'
<1> SUFFICES ASSUME CachesInv, [CachesNext]_caches PROVE CachesInv'
  OBVIOUS
<1>1. CASE UNCHANGED caches
  <2>1. UNCHANGED <<hour, changes, entry, call, served>>
    BY <1>1 DEF caches
  <2>2. Honest(served)' /\ Honest(entry)' /\ \A c \in Callers : HonestCall(call[c])'
    BY <2>1 DEF CachesInv, Honest, HonestCall, Saying
  <2>3. QED BY <2>1, <2>2 DEF CachesInv, CachesTypeOK, LastChange
<1>2. QED BY <1>1, ConsultsKeeps, SettlesKeeps, RepliesKeeps, FailsKeeps, CacheKeeps, PeeksKeeps, HourKeeps DEF CachesNext

\* An answer and what is kept are at least as new as the hour they claim,
\* however requests overlap and fail (services/pricing.py).
THEOREM AnswersAreAsOf == CachesSpec => []AsOf
<1>1. CachesInv => AsOf
  <2> SUFFICES ASSUME CachesInv PROVE AsOf
    OBVIOUS
  <2>1. ASSUME NEW e \in Said, Honest(e), e.is = "kept" PROVE e.says >= Saying(e.asOf)
    <3>1. e.asOf \in 0 .. hour /\ Saying(e.asOf) <= e.says
      BY <2>1 DEF Honest, Said, CachesInv, CachesTypeOK
    <3>2. Saying(e.asOf) \in Nat
      BY <3>1, SayingIs DEF CachesInv
    <3>3. QED BY <2>1, <3>1, <3>2 DEF Said
  <2>2. QED BY <2>1 DEF CachesInv, CachesTypeOK, AsOf
<1>2. QED BY <1>1, CachesStart, CachesStep, PTL DEF CachesSpec

-----------------------------------------------------------------------------
(* Records: what an open transaction is to delete is old, or has as many    *)
(* newer rows of its kind as the cap keeps, whichever others commit before. *)

Events == [id : Nat, kind : EventKinds, at : Nat]

\* Every row a transaction has seen: a later one is of no earlier day.
Seen == {r \in Events : r \in rows \/ \E w \in Writers : r \in tx[w].adds \union tx[w].drops}

RecordsTypeOK ==
  /\ ids \in Nat /\ day \in Nat /\ rows \subseteq Events /\ IsFiniteSet(rows)
  /\ tx \in [Writers -> [adds : SUBSET Events, drops : SUBSET Events]]
  /\ \A w \in Writers : IsFiniteSet(tx[w].adds)

DaysInOrder ==
  /\ \A r \in Seen : r.id <= ids /\ r.at <= day
  /\ \A r, s \in Seen : r.id < s.id => r.at <= s.at

FilledIds(log, r) == Cardinality(Newer(log, r)) >= Cap(r.kind)

RecordsInv ==
  /\ RecordsTypeOK /\ DaysInOrder
  /\ \A w \in Writers : \A r \in tx[w].drops : Old(r) \/ FilledIds(rows \union tx[w].adds, r)

-----------------------------------------------------------------------------
LEMMA CapType == \A k : Cap(k) \in Nat
  BY RecordsAssumption DEF Cap

LEMMA NewerFinite ==
  ASSUME NEW log, IsFiniteSet(log), NEW r
  PROVE  IsFiniteSet(Newer(log, r)) /\ Cardinality(Newer(log, r)) \in Nat
<1>1. Newer(log, r) \subseteq log
  BY DEF Newer
<1>2. QED BY <1>1, FS_Subset, FS_CardinalityType

\* A row has its cap filled when one of its kind has it by fewer rows.
LEMMA FillsBy ==
  ASSUME NEW log, IsFiniteSet(log), NEW less, NEW s, NEW r, Newer(less, s) \subseteq Newer(log, r), r.kind = s.kind,
         FilledIds(less, s)
  PROVE  FilledIds(log, r)
<1>1. IsFiniteSet(Newer(log, r))
  BY NewerFinite
<1>2. /\ Cardinality(Newer(less, s)) <= Cardinality(Newer(log, r))
      /\ Cardinality(Newer(less, s)) \in Nat /\ Cardinality(Newer(log, r)) \in Nat
  BY <1>1, FS_Subset, FS_CardinalityType
<1>3. QED BY <1>2, CapType DEF FilledIds

LEMMA LogFinite ==
  ASSUME RecordsTypeOK, NEW w \in Writers
  PROVE  IsFiniteSet(rows \union tx[w].adds) /\ rows \union tx[w].adds \subseteq Events
         /\ rows \union tx[w].adds \subseteq Seen /\ tx[w].drops \subseteq Seen /\ tx[w].drops \subseteq Events
<1>1. tx[w] \in [adds : SUBSET Events, drops : SUBSET Events] /\ IsFiniteSet(tx[w].adds) /\ IsFiniteSet(rows)
  BY DEF RecordsTypeOK
<1>2. IsFiniteSet(rows \union tx[w].adds)
  BY <1>1, FS_Union
<1>3. QED BY <1>1, <1>2 DEF RecordsTypeOK, Seen

\* A row as old as one that is old.
LEMMA OldToo ==
  ASSUME RecordsInv, NEW r \in Seen, NEW x \in Seen, r \in Events, x \in Events, r.kind = x.kind, r.id <= x.id, Old(x)
  PROVE  Old(r) \/ r.id = x.id
<1>1. r.id \in Nat /\ x.id \in Nat /\ r.at \in Nat /\ x.at \in Nat /\ day \in Nat /\ Keep \in Nat
  BY RecordsAssumption DEF Events, RecordsInv, RecordsTypeOK
<1>2. CASE r.id < x.id
  <2>1. r.at <= x.at
    BY <1>2 DEF RecordsInv, DaysInOrder
  <2>2. QED BY <1>1, <2>1 DEF Old
<1>3. QED BY <1>1, <1>2

\* When a transaction is committed, what it deletes still has its cap filled:
\* the newest of what goes is older than rows that stay.
LEMMA CommitFills ==
  ASSUME RecordsInv, NEW w \in Writers, NEW r \in tx[w].drops, ~Old(r)
  PROVE  FilledIds((rows \union tx[w].adds) \ tx[w].drops, r)
<1>1. PICK log \in SUBSET Events : log = rows \union tx[w].adds /\ IsFiniteSet(log) /\ log \subseteq Seen
  BY LogFinite DEF RecordsInv
<1>2. PICK going \in SUBSET Events : going = tx[w].drops /\ going \subseteq Seen
  BY LogFinite DEF RecordsInv
<1>3. PICK S : S = {ids - x.id : x \in {y \in going : y.kind = r.kind /\ ~Old(y)}}
  OBVIOUS
<1>4. S \in SUBSET Nat /\ S # {}
  <2>1. \A x \in going : x.id \in Nat /\ x.id <= ids /\ ids \in Nat
    BY <1>2 DEF RecordsInv, DaysInOrder, RecordsTypeOK, Events
  <2>2. \A x \in going : ids - x.id \in Nat
    BY <2>1
  <2>3. S \subseteq Nat
    BY <1>3, <2>2
  <2>4. ids - r.id \in S
    BY <1>2, <1>3
  <2>5. QED BY <2>3, <2>4
<1>5. PICK x \in going : /\ x.kind = r.kind /\ ~Old(x)
                         /\ \A y \in going : y.kind = r.kind /\ ~Old(y) => y.id <= x.id
  <2>1. PICK n \in S : \A m \in S : n <= m
    BY <1>4, Least
  <2>2. PICK x \in going : x.kind = r.kind /\ ~Old(x) /\ n = ids - x.id
    BY <1>3, <2>1
  <2>3. ASSUME NEW y \in going, y.kind = r.kind, ~Old(y) PROVE y.id <= x.id
    <3>1. ids - y.id \in S
      BY <1>3, <2>3
    <3>2. ids - x.id <= ids - y.id
      BY <2>1, <2>2, <3>1
    <3>3. y.id \in Nat /\ x.id \in Nat /\ ids \in Nat
      BY <1>2, <2>3, <2>2 DEF Events, RecordsInv, RecordsTypeOK
    <3>4. QED BY <3>2, <3>3
  <2>4. QED BY <2>2, <2>3
<1>6. FilledIds(log, x)
  BY <1>1, <1>2, <1>5 DEF RecordsInv
<1>7. ASSUME NEW y \in Newer(log, x) PROVE y \notin going
  <2>1. y \in log /\ y.kind = x.kind /\ y.id > x.id
    BY DEF Newer
  <2>2. SUFFICES ASSUME y \in going PROVE FALSE
    OBVIOUS
  <2>3. y.id \in Nat /\ x.id \in Nat
    BY <1>2, <2>2 DEF Events
  <2>4. Old(y)
    BY <1>5, <2>1, <2>2, <2>3
  <2>5. Old(x) \/ x.id = y.id
    BY <1>2, <2>1, <2>2, <2>3, <2>4, OldToo
  <2>6. QED BY <1>5, <2>1, <2>3, <2>5
<1>8. Newer(log, x) \subseteq Newer(log \ going, r)
  <2>1. r.id <= x.id /\ r.id \in Nat /\ x.id \in Nat
    BY <1>2, <1>5 DEF Events
  <2>2. \A y \in log : y.id \in Nat
    BY <1>1 DEF Events
  <2>3. QED BY <1>5, <1>7, <2>1, <2>2 DEF Newer
<1>9. IsFiniteSet(log \ going)
  BY <1>1, FS_Subset
<1>10. QED BY <1>1, <1>2, <1>5, <1>6, <1>8, <1>9, FillsBy

\* A row one transaction is to delete, once another was committed.
LEMMA OtherFills ==
  ASSUME RecordsInv, NEW w \in Writers, NEW v \in Writers, NEW r \in tx[v].drops, ~Old(r)
  PROVE  FilledIds(((rows \union tx[w].adds) \ tx[w].drops) \union tx[v].adds, r)
<1>1. PICK after : after = ((rows \union tx[w].adds) \ tx[w].drops) \union tx[v].adds
  OBVIOUS
<1>2. IsFiniteSet(after) /\ after \subseteq Events /\ rows \subseteq Events
  <2>1. IsFiniteSet(rows \union tx[w].adds) /\ IsFiniteSet(rows \union tx[v].adds)
    BY LogFinite DEF RecordsInv
  <2>2. IsFiniteSet((rows \union tx[w].adds) \union (rows \union tx[v].adds))
    BY <2>1, FS_Union
  <2>3. after \subseteq (rows \union tx[w].adds) \union (rows \union tx[v].adds)
    BY <1>1
  <2>4. QED BY <2>2, <2>3, FS_Subset, LogFinite DEF RecordsInv
<1>3. FilledIds(rows \union tx[v].adds, r) /\ r \in Seen /\ r \in Events
  BY LogFinite DEF RecordsInv
<1>4. CASE \E x \in tx[w].drops : x.kind = r.kind /\ x.id > r.id
  <2>1. PICK x \in tx[w].drops : x.kind = r.kind /\ x.id > r.id
    BY <1>4
  <2>2. x \in Seen /\ x \in Events /\ x.id \in Nat /\ r.id \in Nat
    BY <1>3, LogFinite DEF RecordsInv, Events
  <2>3. ~Old(x)
    BY <1>3, <2>1, <2>2, OldToo
  <2>4. FilledIds((rows \union tx[w].adds) \ tx[w].drops, x)
    BY <2>3, CommitFills
  <2>5. \A y \in after : y.id \in Nat
    BY <1>2 DEF Events
  <2>6. Newer((rows \union tx[w].adds) \ tx[w].drops, x) \subseteq Newer(after, r)
    BY <1>1, <2>1, <2>2, <2>5 DEF Newer
  <2>7. QED BY <1>1, <1>2, <2>1, <2>4, <2>6, FillsBy
<1>5. CASE ~\E x \in tx[w].drops : x.kind = r.kind /\ x.id > r.id
  <2>1. Newer(rows \union tx[v].adds, r) \subseteq Newer(after, r)
    BY <1>1, <1>5 DEF Newer
  <2>2. QED BY <1>1, <1>2, <1>3, <2>1, FillsBy
<1>6. QED BY <1>4, <1>5

-----------------------------------------------------------------------------
LEMMA RecordsStart == RecordsInit => RecordsInv
<1> SUFFICES ASSUME RecordsInit PROVE RecordsInv
  OBVIOUS
<1>1. /\ rows = {} /\ ids = 0 /\ day = 0 /\ \A w \in Writers : tx[w].adds = {} /\ tx[w].drops = {}
      /\ tx \in [Writers -> [adds : SUBSET Events, drops : SUBSET Events]]
  BY DEF RecordsInit, NoTx
<1>2. Seen = {} /\ IsFiniteSet({})
  BY <1>1, FS_EmptySet DEF Seen
<1>3. QED BY <1>1, <1>2 DEF RecordsInv, RecordsTypeOK, DaysInOrder

LEMMA TrimmedFills ==
  ASSUME NEW log, IsFiniteSet(log), NEW kind, NEW r \in Trimmed(log, kind)
  PROVE  r \in log /\ (Old(r) \/ FilledIds(log, r))
<1>1. Aged(log, kind) \subseteq log /\ \A x \in Aged(log, kind) : Old(x)
  BY DEF Aged
<1>2. CASE r \in Aged(log, kind)
  BY <1>1, <1>2
<1>3. CASE r \in Beyond(log \ Aged(log, kind), kind)
  <2>1. r \in log /\ FilledIds(log \ Aged(log, kind), r)
    BY <1>3 DEF Beyond, FilledIds
  <2>2. Newer(log \ Aged(log, kind), r) \subseteq Newer(log, r)
    BY DEF Newer
  <2>3. QED BY <2>1, <2>2, FillsBy
<1>4. QED BY <1>2, <1>3 DEF Trimmed

\* A transaction ends: there is less to see.
LEMMA EndKeeps ==
  ASSUME RecordsInv, NEW w \in Writers, Commit(w) \/ Rollback(w)
  PROVE  RecordsInv'
<1>1. /\ tx' = [tx EXCEPT ![w] = NoTx] /\ ids' = ids /\ day' = day
      /\ rows' = rows \/ rows' = (rows \union tx[w].adds) \ tx[w].drops
  BY DEF Commit, Rollback
<1>2. NoTx.adds = {} /\ NoTx.drops = {} /\ NoTx \in [adds : SUBSET Events, drops : SUBSET Events] /\ IsFiniteSet({})
  BY FS_EmptySet DEF NoTx
<1>3. /\ tx'[w].adds = {} /\ tx'[w].drops = {} /\ \A v \in Writers : v # w => tx'[v] = tx[v]
      /\ tx' \in [Writers -> [adds : SUBSET Events, drops : SUBSET Events]]
  BY <1>1, <1>2 DEF RecordsInv, RecordsTypeOK
<1>4. rows' \subseteq rows \union tx[w].adds /\ rows' \subseteq Events /\ IsFiniteSet(rows')
  <2>1. rows' \subseteq rows \union tx[w].adds
    BY <1>1
  <2>2. QED BY <2>1, LogFinite, FS_Subset DEF RecordsInv
<1>5. RecordsTypeOK'
  BY <1>1, <1>2, <1>3, <1>4 DEF RecordsInv, RecordsTypeOK
<1>6. Seen' \subseteq Seen
  BY <1>3, <1>4 DEF Seen
<1>7. DaysInOrder'
  BY <1>1, <1>6 DEF RecordsInv, DaysInOrder
<1>8. ASSUME NEW v \in Writers, NEW r \in tx'[v].drops PROVE Old(r)' \/ FilledIds(rows' \union tx'[v].adds, r)
  <2>1. v # w /\ tx'[v] = tx[v] /\ r \in tx[v].drops
    BY <1>3, <1>8
  <2>2. CASE Old(r)
    BY <1>1, <2>2 DEF Old
  <2>3. CASE ~Old(r)
    BY <1>1, <2>1, <2>3, OtherFills DEF RecordsInv
  <2>4. QED BY <2>2, <2>3
<1>9. QED BY <1>5, <1>7, <1>8 DEF RecordsInv, FilledIds

LEMMA RecordKeeps ==
  ASSUME RecordsInv, NEW w \in Writers, NEW kind \in EventKinds, RecordEvent(w, kind)
  PROVE  RecordsInv'
<1>1. PICK row : row = [id |-> ids + 1, kind |-> kind, at |-> day]
  OBVIOUS
<1>2. row \in Events /\ row.id = ids + 1 /\ row.at = day /\ ids \in Nat /\ day \in Nat
  BY <1>1 DEF Events, RecordsInv, RecordsTypeOK
<1>3. PICK drops : drops = Trimmed(rows \union {row}, kind)
  OBVIOUS
<1>4. PICK t : t = [adds |-> {row}, drops |-> drops]
  OBVIOUS
<1>5. tx' = [tx EXCEPT ![w] = t] /\ rows' = rows /\ day' = day /\ ids' = ids + 1
  BY <1>1, <1>3, <1>4 DEF RecordEvent
<1>6. IsFiniteSet(rows \union {row}) /\ IsFiniteSet({row}) /\ rows \union {row} \subseteq Events
  BY <1>2, FS_Singleton, FS_Union DEF RecordsInv, RecordsTypeOK
<1>7. \A r \in drops : r \in rows \union {row} /\ (Old(r) \/ FilledIds(rows \union {row}, r))
  BY <1>3, <1>6, TrimmedFills
<1>8. t \in [adds : SUBSET Events, drops : SUBSET Events] /\ t.adds = {row} /\ t.drops = drops
  BY <1>2, <1>4, <1>6, <1>7
<1>9. /\ tx' \in [Writers -> [adds : SUBSET Events, drops : SUBSET Events]] /\ tx'[w] = t
      /\ \A v \in Writers : v # w => tx'[v] = tx[v]
  BY <1>5, <1>8 DEF RecordsInv, RecordsTypeOK
<1>10. \A v \in Writers : IsFiniteSet(tx'[v].adds)
  BY <1>6, <1>8, <1>9 DEF RecordsInv, RecordsTypeOK
<1>11. RecordsTypeOK'
  BY <1>2, <1>5, <1>9, <1>10 DEF RecordsInv, RecordsTypeOK
<1>12. Seen' \subseteq Seen \union {row}
  BY <1>5, <1>7, <1>8, <1>9 DEF Seen
<1>13. \A r \in Seen : r.id \in Nat /\ r.at \in Nat /\ r.id <= ids /\ r.at <= day
  <2>1. ASSUME NEW r \in Seen PROVE r \in Events
    BY DEF Seen
  <2>2. QED BY <2>1 DEF RecordsInv, DaysInOrder, Events
<1>14. DaysInOrder'
  <2>1. \A r \in Seen' : r.id <= ids + 1 /\ r.at <= day
    BY <1>2, <1>12, <1>13
  <2>2. ASSUME NEW r \in Seen', NEW s \in Seen', r.id < s.id PROVE r.at <= s.at
    <3>1. r # row
      BY <1>2, <1>12, <1>13, <2>2
    <3>2. CASE s = row
      BY <1>2, <1>12, <1>13, <3>1, <3>2
    <3>3. CASE s # row
      BY <1>12, <2>2, <3>1, <3>3 DEF RecordsInv, DaysInOrder
    <3>4. QED BY <3>2, <3>3
  <2>3. QED BY <1>5, <2>1, <2>2 DEF DaysInOrder
<1>15. ASSUME NEW v \in Writers, NEW r \in tx'[v].drops PROVE Old(r)' \/ FilledIds(rows' \union tx'[v].adds, r)
  <2>1. CASE v = w
    BY <1>5, <1>7, <1>8, <1>9, <1>15, <2>1 DEF Old
  <2>2. CASE v # w
    BY <1>5, <1>9, <1>15, <2>2 DEF Old, RecordsInv
  <2>3. QED BY <2>1, <2>2
<1>16. QED BY <1>11, <1>14, <1>15 DEF RecordsInv, FilledIds

LEMMA PruneKeeps ==
  ASSUME RecordsInv, NEW w \in Writers, Prune(w)
  PROVE  RecordsInv'
<1>1. PICK drops : drops = Trimmed(rows, "other")
  OBVIOUS
<1>2. IsFiniteSet(rows) /\ rows \subseteq Events
  BY DEF RecordsInv, RecordsTypeOK
<1>3. \A r \in drops : r \in rows /\ (Old(r) \/ FilledIds(rows, r))
  BY <1>1, <1>2, TrimmedFills
<1>4. PICK t : t = [NoTx EXCEPT !.drops = drops]
  OBVIOUS
<1>5. t.adds = {} /\ t.drops = drops /\ t \in [adds : SUBSET Events, drops : SUBSET Events]
  BY <1>2, <1>3, <1>4 DEF NoTx
<1>6. tx' = [tx EXCEPT ![w] = t] /\ UNCHANGED <<rows, ids, day>>
  BY <1>1, <1>4 DEF Prune
<1>7. /\ tx' \in [Writers -> [adds : SUBSET Events, drops : SUBSET Events]] /\ tx'[w] = t
      /\ \A v \in Writers : v # w => tx'[v] = tx[v]
  BY <1>5, <1>6 DEF RecordsInv, RecordsTypeOK
<1>8. \A v \in Writers : IsFiniteSet(tx'[v].adds)
  BY <1>5, <1>7, FS_EmptySet DEF RecordsInv, RecordsTypeOK
<1>9. RecordsTypeOK'
  BY <1>6, <1>7, <1>8 DEF RecordsInv, RecordsTypeOK
<1>10. Seen' \subseteq Seen
  BY <1>3, <1>5, <1>6, <1>7 DEF Seen
<1>11. DaysInOrder'
  BY <1>6, <1>10 DEF RecordsInv, DaysInOrder
<1>12. ASSUME NEW v \in Writers, NEW r \in tx'[v].drops PROVE Old(r)' \/ FilledIds(rows' \union tx'[v].adds, r)
  <2>1. CASE v = w
    <3>1. rows' \union tx'[v].adds = rows
      BY <1>5, <1>6, <1>7, <2>1
    <3>2. QED BY <1>3, <1>5, <1>6, <1>7, <1>12, <2>1, <3>1 DEF Old
  <2>2. CASE v # w
    BY <1>6, <1>7, <1>12, <2>2 DEF Old, RecordsInv
  <2>3. QED BY <2>1, <2>2
<1>13. QED BY <1>9, <1>11, <1>12 DEF RecordsInv, FilledIds

LEMMA NextDayKeeps ==
  ASSUME RecordsInv, NextDay
  PROVE  RecordsInv'
<1>1. UNCHANGED <<rows, ids, tx>> /\ day' = day + 1 /\ day \in Nat
  BY DEF NextDay, RecordsInv, RecordsTypeOK
<1>2. RecordsTypeOK' /\ Seen' = Seen
  BY <1>1 DEF RecordsInv, RecordsTypeOK, Seen
<1>3. \A r \in Seen : r.at \in Nat
  <2>1. ASSUME NEW r \in Seen PROVE r \in Events
    BY DEF Seen
  <2>2. QED BY <2>1 DEF Events
<1>4. DaysInOrder'
  BY <1>1, <1>2, <1>3 DEF RecordsInv, DaysInOrder
<1>5. ASSUME NEW v \in Writers, NEW r \in tx[v].drops, Old(r) PROVE Old(r)'
  <2>1. r.at \in Nat /\ Keep \in Nat
    BY <1>3, LogFinite, RecordsAssumption DEF RecordsInv
  <2>2. QED BY <1>1, <1>5, <2>1 DEF Old
<1>6. QED BY <1>1, <1>2, <1>4, <1>5 DEF RecordsInv, FilledIds

LEMMA RecordsStep == RecordsInv /\ [RecordsNext]_records => RecordsInv'
<1> SUFFICES ASSUME RecordsInv, [RecordsNext]_records PROVE RecordsInv'
  OBVIOUS
<1>1. CASE UNCHANGED records
  BY <1>1 DEF records, RecordsInv, RecordsTypeOK, DaysInOrder, Seen, FilledIds, Old
<1>2. QED BY <1>1, EndKeeps, RecordKeeps, PruneKeeps, NextDayKeeps DEF RecordsNext

\* A row is only ever deleted for its age or for newer rows of its own kind that
\* fill its cap, for any number of transactions, caps and days (audit._trim,
\* _enforce_caps).
THEOREM EvidenceIsKept == RecordsSpec => KeptEvidence
<1>1. ASSUME RecordsInv, [RecordsNext]_records, NEW r \in rows \ rows'
      PROVE  Old(r) \/ Cardinality(Newer(rows', r)) >= Cap(r.kind)
  <2>1. PICK w \in Writers : Commit(w)
    <3>1. ~UNCHANGED records
      BY <1>1 DEF records
    <3>2. QED BY <1>1, <3>1 DEF RecordsNext, Prune, Rollback, RecordEvent, NextDay
  <2>2. rows' = (rows \union tx[w].adds) \ tx[w].drops /\ r \in tx[w].drops
    BY <1>1, <2>1 DEF Commit
  <2>3. QED BY <1>1, <2>2, CommitFills DEF FilledIds
<1>2. RecordsInv /\ [RecordsNext]_records =>
        [\A r \in rows \ rows' : Old(r) \/ Cardinality(Newer(rows', r)) >= Cap(r.kind)]_records
  BY <1>1
<1>3. QED BY <1>2, RecordsStart, RecordsStep, PTL DEF RecordsSpec, KeptEvidence

-----------------------------------------------------------------------------
(* Records: how many rows there are.  A transaction keeps its cap of the    *)
(* rows it saw; besides these there are only rows of transactions that were *)
(* open then, each of which adds its own once.                              *)

UpTo(k, i) == {r \in rows : r.kind = k /\ r.id <= i}
Adding(k, i) == {w \in Writers : \E r \in tx[w].adds : r.kind = k /\ r.id <= i}
LeftBy(w, r) == (UpTo(r.kind, r.id) \union {r}) \ tx[w].drops
Few(S, T, k) == Cardinality(S) + Cardinality(T) < Cap(k) + Cardinality(Writers)

OwnIds ==
  /\ \A r, s \in rows : r.id = s.id => r = s
  /\ \A w \in Writers : \A r \in tx[w].adds :
       /\ \A s \in rows : s.id # r.id
       /\ \A v \in Writers : \A s \in tx[v].adds : s.id = r.id => v = w /\ s = r
  /\ \A w \in Writers : \A r, s \in tx[w].adds : r = s

Tallies ==
  /\ \A r \in rows : Few(UpTo(r.kind, r.id), Adding(r.kind, r.id), r.kind)
  /\ \A w \in Writers : \A r \in tx[w].adds : Few(LeftBy(w, r), Adding(r.kind, r.id) \ {w}, r.kind)

TallyInv == RecordsInv /\ OwnIds /\ Tallies

\* What one set loses to the other, or for good, is counted no more than once.
LEMMA Fewer ==
  ASSUME NEW S, NEW T, IsFiniteSet(S), IsFiniteSet(T), NEW U, NEW V, NEW a, NEW w,
         U \subseteq S \union {a}, V \subseteq T, U \subseteq S \/ (w \in T /\ w \notin V), NEW k, Few(S, T, k),
         Cardinality(Writers) \in Nat
  PROVE  Few(U, V, k)
<1>1. Cardinality(S) \in Nat /\ Cardinality(T) \in Nat /\ Cap(k) \in Nat
  BY FS_CardinalityType, CapType
<1>2. IsFiniteSet(V) /\ Cardinality(V) <= Cardinality(T) /\ Cardinality(V) \in Nat
  BY FS_Subset, FS_CardinalityType
<1>3. CASE U \subseteq S
  <2>1. Cardinality(U) <= Cardinality(S) /\ Cardinality(U) \in Nat
    BY <1>3, FS_Subset, FS_CardinalityType
  <2>2. QED BY <1>1, <1>2, <2>1 DEF Few
<1>4. CASE w \in T /\ w \notin V
  <2>0. IsFiniteSet(S \union {a}) /\ Cardinality(S \union {a}) = IF a \in S THEN Cardinality(S) ELSE Cardinality(S) + 1
    BY FS_AddElement
  <2>1. IsFiniteSet(S \union {a}) /\ Cardinality(S \union {a}) <= Cardinality(S) + 1
        /\ Cardinality(S \union {a}) \in Nat
    BY <1>1, <2>0
  <2>2. Cardinality(U) <= Cardinality(S \union {a}) /\ Cardinality(U) \in Nat
    BY <2>1, FS_Subset, FS_CardinalityType
  <2>3. IsFiniteSet(T \ {w}) /\ Cardinality(T \ {w}) = Cardinality(T) - 1
    BY <1>4, FS_RemoveElement
  <2>4. V \subseteq T \ {w}
    BY <1>4
  <2>5. Cardinality(V) <= Cardinality(T \ {w})
    BY <2>3, <2>4, FS_Subset
  <2>6. QED BY <1>1, <1>2, <2>1, <2>2, <2>3, <2>5 DEF Few
<1>5. QED BY <1>3, <1>4

LEMMA CountedFinite ==
  ASSUME RecordsTypeOK, IsFiniteSet(Writers), NEW k, NEW i, NEW r, NEW w
  PROVE  IsFiniteSet(UpTo(k, i)) /\ IsFiniteSet(Adding(k, i)) /\ IsFiniteSet(Adding(k, i) \ {w})
         /\ IsFiniteSet(LeftBy(w, r)) /\ Cardinality(Writers) \in Nat
<1>1. UpTo(k, i) \subseteq rows /\ Adding(k, i) \subseteq Writers /\ Adding(k, i) \ {w} \subseteq Writers
  BY DEF UpTo, Adding
<1>2. LeftBy(w, r) \subseteq rows \union {r}
  BY DEF LeftBy, UpTo
<1>3. IsFiniteSet(rows \union {r})
  BY FS_AddElement DEF RecordsTypeOK
<1>4. QED BY <1>1, <1>2, <1>3, FS_Subset, FS_CardinalityType DEF RecordsTypeOK

\* A transaction keeps no more of a kind than its cap, of what it sees.
LEMMA KeptIsFew ==
  ASSUME NEW log \in SUBSET Events, IsFiniteSet(log), \A r, s \in log : r.id = s.id => r = s,
         NEW k \in EventKinds, NEW K, K \subseteq {r \in log : r.kind = k} \ Trimmed(log, k)
  PROVE  Cardinality(K) <= Cap(k)
<1>1. IsFiniteSet(K) /\ Cardinality(K) \in Nat /\ Cap(k) \in Nat
  BY FS_Subset, FS_CardinalityType, CapType
<1>2. CASE K = {}
  BY <1>1, <1>2, FS_EmptySet
<1>3. CASE K # {}
  <2>1. PICK less : less = log \ Aged(log, k)
    OBVIOUS
  <2>2. less \subseteq log /\ IsFiniteSet(less)
    BY <2>1, FS_Subset
  <2>3. \A r \in K : r \in less /\ r.kind = k /\ r.id \in Nat /\ ~(Cardinality(Newer(less, r)) >= Cap(k))
    <3>1. \A r \in K : r \in log /\ r.kind = k /\ r \notin Trimmed(log, k)
      OBVIOUS
    <3>2. \A r \in K : r \in less /\ r \notin Beyond(less, k)
      BY <2>1, <3>1 DEF Trimmed
    <3>3. QED BY <3>1, <3>2 DEF Beyond, Events
  <2>4. PICK S : S = {r.id : r \in K}
    OBVIOUS
  <2>12. S \in SUBSET Nat /\ S # {}
    BY <1>3, <2>3, <2>4
  <2>5. PICK n \in S : \A m \in S : n <= m
    BY <2>12, Least
  <2>6. PICK r \in K : r.id = n
    BY <2>4, <2>5
  <2>7. \A s \in K : r.id <= s.id
    BY <2>4, <2>5, <2>6
  <2>8. K \ {r} \subseteq Newer(less, r)
    <3>1. ASSUME NEW s \in K \ {r} PROVE s \in less /\ s.kind = r.kind /\ s.id > r.id
      <4>1. s \in log /\ r \in log /\ s # r
        BY <2>2, <2>3
      <4>2. s.id # r.id /\ r.id <= s.id /\ s.id \in Nat /\ r.id \in Nat
        BY <2>3, <2>7, <4>1
      <4>3. QED BY <2>3, <4>2
    <3>2. QED BY <3>1 DEF Newer
  <2>9. IsFiniteSet(Newer(less, r)) /\ Cardinality(Newer(less, r)) \in Nat
    BY <2>2, NewerFinite
  <2>10. Cardinality(K \ {r}) = Cardinality(K) - 1 /\ Cardinality(K \ {r}) <= Cardinality(Newer(less, r))
    BY <1>1, <2>8, <2>9, FS_RemoveElement, FS_Subset
  <2>11. QED BY <1>1, <2>3, <2>9, <2>10
<1>4. QED BY <1>2, <1>3

LEMMA CountStart == RecordsInit => TallyInv
<1> SUFFICES ASSUME RecordsInit PROVE TallyInv
  OBVIOUS
<1>1. RecordsInv
  BY RecordsStart
<1>2. rows = {} /\ \A w \in Writers : tx[w].adds = {}
  BY DEF RecordsInit, NoTx
<1>3. QED BY <1>1, <1>2 DEF TallyInv, OwnIds, Tallies

\* A transaction ends: its row is one of the log's, or nowhere.
LEMMA EndCounts ==
  ASSUME TallyInv, IsFiniteSet(Writers), NEW w \in Writers, tx' = [tx EXCEPT ![w] = NoTx],
         rows' = (rows \union tx[w].adds) \ tx[w].drops \/ rows' = rows
  PROVE  OwnIds' /\ Tallies'
<1>1. RecordsTypeOK /\ OwnIds /\ Tallies
  BY DEF TallyInv, RecordsInv
<1>2. tx'[w].adds = {} /\ \A v \in Writers : v # w => tx'[v] = tx[v]
  BY <1>1 DEF RecordsTypeOK, NoTx
<1>3. rows' \subseteq rows \union tx[w].adds
  OBVIOUS
<1>4. OwnIds'
  <2>1. \A r, s \in rows' : r.id = s.id => r = s
    BY <1>1, <1>3 DEF OwnIds
  <2>2. ASSUME NEW v \in Writers, NEW r \in tx'[v].adds
        PROVE  v # w /\ r \in tx[v].adds /\ (\A s \in rows' : s.id # r.id)
               /\ \A u \in Writers : \A s \in tx'[u].adds : s.id = r.id => u = v /\ s = r
    <3>1. v # w /\ r \in tx[v].adds
      BY <1>2, <2>2
    <3>2. \A s \in rows' : s.id # r.id
      BY <1>1, <1>3, <3>1 DEF OwnIds
    <3>3. \A u \in Writers : \A s \in tx'[u].adds : s \in tx[u].adds
      BY <1>2
    <3>4. QED BY <1>1, <3>1, <3>2, <3>3 DEF OwnIds
  <2>3. \A v \in Writers : \A r, s \in tx'[v].adds : r = s
    BY <1>1, <1>2 DEF OwnIds
  <2>4. QED BY <2>1, <2>2, <2>3 DEF OwnIds
<1>5. PICK a : tx[w].adds \subseteq {a}
  BY <1>1 DEF OwnIds
<1>6. ASSUME NEW k, NEW i
      PROVE  /\ UpTo(k, i)' \subseteq UpTo(k, i) \union {a} /\ Adding(k, i)' \subseteq Adding(k, i) \ {w}
             /\ UpTo(k, i)' \subseteq UpTo(k, i) \/ w \in Adding(k, i)
  <2>1. UpTo(k, i)' \subseteq UpTo(k, i) \union {a}
    BY <1>3, <1>5 DEF UpTo
  <2>2. Adding(k, i)' \subseteq Adding(k, i) \ {w}
    BY <1>2 DEF Adding
  <2>3. CASE w \notin Adding(k, i)
    <3>1. \A r \in tx[w].adds : ~(r.kind = k /\ r.id <= i)
      BY <2>3 DEF Adding
    <3>2. UpTo(k, i)' \subseteq UpTo(k, i)
      BY <1>3, <3>1 DEF UpTo
    <3>3. QED BY <2>1, <2>2, <3>2
  <2>4. QED BY <2>1, <2>2, <2>3
<1>7. ASSUME NEW r \in rows' PROVE Few(UpTo(r.kind, r.id)', Adding(r.kind, r.id)', r.kind)
  <2>1. CASE r \in rows
    <3>1. Few(UpTo(r.kind, r.id), Adding(r.kind, r.id), r.kind)
      BY <1>1, <2>1 DEF Tallies
    <3>2. PICK S, T, U, V : /\ S = UpTo(r.kind, r.id) /\ T = Adding(r.kind, r.id)
                            /\ U = UpTo(r.kind, r.id)' /\ V = Adding(r.kind, r.id)'
      OBVIOUS
    <3>7. /\ UpTo(r.kind, r.id)' \subseteq UpTo(r.kind, r.id) \union {a}
          /\ Adding(r.kind, r.id)' \subseteq Adding(r.kind, r.id) \ {w}
          /\ UpTo(r.kind, r.id)' \subseteq UpTo(r.kind, r.id) \/ w \in Adding(r.kind, r.id)
      BY <1>6
    <3>3. U \subseteq S \union {a} /\ V \subseteq T /\ (U \subseteq S \/ (w \in T /\ w \notin V))
      BY <3>2, <3>7
    <3>4. IsFiniteSet(S) /\ IsFiniteSet(T) /\ Cardinality(Writers) \in Nat
      BY <1>1, <3>2, CountedFinite
    <3>8. Few(S, T, r.kind)
      BY <3>1, <3>2
    <3>5. Few(U, V, r.kind)
      BY <3>3, <3>4, <3>8, Fewer
    <3>6. QED BY <3>2, <3>5
  <2>2. CASE r \notin rows
    <3>1. r \in tx[w].adds /\ rows' = (rows \union tx[w].adds) \ tx[w].drops
      BY <1>3, <1>7, <2>2
    <3>2. Few(LeftBy(w, r), Adding(r.kind, r.id) \ {w}, r.kind)
      BY <1>1, <3>1 DEF Tallies
    <3>3. \A s \in tx[w].adds : s = r
      BY <1>1, <3>1 DEF OwnIds
    <3>4. UpTo(r.kind, r.id)' \subseteq LeftBy(w, r)
      BY <3>1, <3>3 DEF UpTo, LeftBy
    <3>5. PICK U, V : U = UpTo(r.kind, r.id)' /\ V = Adding(r.kind, r.id)'
      OBVIOUS
    <3>6. U \subseteq LeftBy(w, r) /\ U \subseteq LeftBy(w, r) \union {r} /\ V \subseteq Adding(r.kind, r.id) \ {w}
      BY <1>6, <3>4, <3>5
    <3>7. IsFiniteSet(LeftBy(w, r)) /\ IsFiniteSet(Adding(r.kind, r.id) \ {w}) /\ Cardinality(Writers) \in Nat
      BY <1>1, CountedFinite
    <3>8. Few(U, V, r.kind)
      BY <3>2, <3>6, <3>7, Fewer
    <3>9. QED BY <3>5, <3>8
  <2>3. QED BY <2>1, <2>2
<1>8. ASSUME NEW v \in Writers, NEW r \in tx'[v].adds
      PROVE  Few(LeftBy(v, r)', Adding(r.kind, r.id)' \ {v}, r.kind)
  <2>1. v # w /\ r \in tx[v].adds /\ tx'[v] = tx[v]
    BY <1>2, <1>8
  <2>2. Few(LeftBy(v, r), Adding(r.kind, r.id) \ {v}, r.kind)
    BY <1>1, <2>1 DEF Tallies
  <2>3. PICK U, V, P : P = UpTo(r.kind, r.id)' /\ U = LeftBy(v, r)' /\ V = Adding(r.kind, r.id)' \ {v}
    OBVIOUS
  <2>4. U = (P \union {r}) \ tx[v].drops
    BY <2>1, <2>3 DEF LeftBy
  <2>5. /\ P \subseteq UpTo(r.kind, r.id) \union {a} /\ V \subseteq Adding(r.kind, r.id) \ {v} /\ w \notin V
        /\ P \subseteq UpTo(r.kind, r.id) \/ w \in Adding(r.kind, r.id) \ {v}
    BY <1>6, <2>1, <2>3
  <2>6. /\ U \subseteq LeftBy(v, r) \union {a}
        /\ U \subseteq LeftBy(v, r) \/ w \in Adding(r.kind, r.id) \ {v}
    BY <2>4, <2>5 DEF LeftBy
  <2>7. IsFiniteSet(LeftBy(v, r)) /\ IsFiniteSet(Adding(r.kind, r.id) \ {v}) /\ Cardinality(Writers) \in Nat
    BY <1>1, CountedFinite
  <2>8. Few(U, V, r.kind)
    BY <2>2, <2>5, <2>6, <2>7, Fewer
  <2>9. QED BY <2>3, <2>8
<1>9. QED BY <1>4, <1>7, <1>8 DEF Tallies, Few

LEMMA RecordCounts ==
  ASSUME TallyInv, IsFiniteSet(Writers), NEW w \in Writers, NEW kind \in EventKinds, RecordEvent(w, kind)
  PROVE  OwnIds' /\ Tallies'
<1>1. RecordsTypeOK /\ DaysInOrder /\ OwnIds /\ Tallies
  BY DEF TallyInv, RecordsInv
<1>2. PICK row : row = [id |-> ids + 1, kind |-> kind, at |-> day]
  OBVIOUS
<1>3. row \in Events /\ row.id = ids + 1 /\ row.kind = kind /\ ids \in Nat
  BY <1>1, <1>2 DEF Events, RecordsTypeOK
<1>4. PICK drops : drops = Trimmed(rows \union {row}, kind)
  OBVIOUS
<1>5. PICK t : t = [adds |-> {row}, drops |-> drops]
  OBVIOUS
<1>6. tx' = [tx EXCEPT ![w] = t] /\ rows' = rows /\ t.adds = {row} /\ t.drops = drops /\ tx[w] = NoTx
  BY <1>2, <1>4, <1>5 DEF RecordEvent
<1>7. tx'[w] = t /\ (\A v \in Writers : v # w => tx'[v] = tx[v]) /\ tx[w].adds = {}
  BY <1>1, <1>6 DEF RecordsTypeOK, NoTx
<1>8. /\ \A r \in rows : r \in Events /\ r.id \in Nat /\ r.id <= ids
      /\ \A v \in Writers : \A r \in tx[v].adds : r \in Events /\ r.id \in Nat /\ r.id <= ids
  <2>1. ASSUME NEW r \in Seen PROVE r \in Events /\ r.id \in Nat /\ r.id <= ids
    BY <1>1 DEF Seen, Events, DaysInOrder
  <2>2. \A v \in Writers : tx[v].adds \subseteq Seen /\ rows \subseteq Seen
    BY <1>1, LogFinite
  <2>3. rows \subseteq Seen
    BY <2>2
  <2>4. QED BY <2>1, <2>2, <2>3
<1>9. OwnIds'
  <2>1. ASSUME NEW v \in Writers, NEW r \in tx'[v].adds
        PROVE  (v = w /\ r = row) \/ (v # w /\ r \in tx[v].adds /\ r.id # row.id)
    <3>1. CASE v = w
      BY <1>6, <1>7, <2>1, <3>1
    <3>2. CASE v # w
      <4>1. r \in tx[v].adds
        BY <1>7, <2>1, <3>2
      <4>2. QED BY <1>3, <1>8, <3>2, <4>1
    <3>3. QED BY <3>1, <3>2
  <2>2. \A s \in rows : s.id # row.id
    BY <1>3, <1>8
  <2>3. ASSUME NEW v \in Writers, NEW r \in tx'[v].adds, NEW u \in Writers, NEW s \in tx'[u].adds, s.id = r.id
        PROVE  u = v /\ s = r
    <3>1. CASE v = w
      BY <2>1, <2>3, <3>1
    <3>2. CASE v # w
      <4>1. u # w /\ s \in tx[u].adds /\ r \in tx[v].adds
        BY <2>1, <2>3, <3>2
      <4>2. QED BY <1>1, <2>3, <4>1 DEF OwnIds
    <3>3. QED BY <3>1, <3>2
  <2>4. ASSUME NEW v \in Writers, NEW r \in tx'[v].adds, NEW s \in rows PROVE s.id # r.id
    BY <1>1, <2>1, <2>2, <2>4 DEF OwnIds
  <2>5. \A v \in Writers : \A r, s \in tx'[v].adds : r = s
    BY <1>1, <2>1 DEF OwnIds
  <2>6. QED BY <1>1, <1>6, <2>3, <2>4, <2>5 DEF OwnIds
<1>10. ASSUME NEW k, NEW i \in Nat, i <= ids PROVE UpTo(k, i)' = UpTo(k, i) /\ Adding(k, i)' \subseteq Adding(k, i)
  <2>1. ~(row.id <= i)
    BY <1>3, <1>10
  <2>2. ASSUME NEW v \in Adding(k, i)' PROVE v \in Adding(k, i)
    <3>1. v \in Writers /\ \E r \in tx'[v].adds : r.kind = k /\ r.id <= i
      BY <2>2 DEF Adding
    <3>2. v # w
      BY <1>6, <1>7, <2>1, <3>1
    <3>3. QED BY <1>7, <3>1, <3>2 DEF Adding
  <2>3. QED BY <1>6, <2>2 DEF UpTo
<1>11. ASSUME NEW r \in rows PROVE Few(UpTo(r.kind, r.id)', Adding(r.kind, r.id)', r.kind)
  <2>1. Few(UpTo(r.kind, r.id), Adding(r.kind, r.id), r.kind)
    BY <1>1 DEF Tallies
  <2>2. PICK V : V = Adding(r.kind, r.id)'
    OBVIOUS
  <2>3. UpTo(r.kind, r.id)' = UpTo(r.kind, r.id) /\ V \subseteq Adding(r.kind, r.id)
    BY <1>8, <1>10, <2>2
  <2>4. IsFiniteSet(UpTo(r.kind, r.id)) /\ IsFiniteSet(Adding(r.kind, r.id)) /\ Cardinality(Writers) \in Nat
    BY <1>1, CountedFinite
  <2>5. Few(UpTo(r.kind, r.id), V, r.kind)
    BY <2>1, <2>3, <2>4, Fewer
  <2>6. QED BY <2>2, <2>3, <2>5
<1>12. ASSUME NEW v \in Writers, v # w, NEW r \in tx[v].adds
       PROVE  Few(LeftBy(v, r)', Adding(r.kind, r.id)' \ {v}, r.kind)
  <2>1. Few(LeftBy(v, r), Adding(r.kind, r.id) \ {v}, r.kind)
    BY <1>1 DEF Tallies
  <2>2. UpTo(r.kind, r.id)' = UpTo(r.kind, r.id) /\ Adding(r.kind, r.id)' \subseteq Adding(r.kind, r.id)
    BY <1>8, <1>10
  <2>3. LeftBy(v, r)' = LeftBy(v, r)
    BY <1>7, <1>12, <2>2 DEF LeftBy
  <2>4. PICK V : V = Adding(r.kind, r.id)' \ {v}
    OBVIOUS
  <2>5. V \subseteq Adding(r.kind, r.id) \ {v}
    BY <2>2, <2>4
  <2>6. IsFiniteSet(LeftBy(v, r)) /\ IsFiniteSet(Adding(r.kind, r.id) \ {v}) /\ Cardinality(Writers) \in Nat
    BY <1>1, CountedFinite
  <2>7. Few(LeftBy(v, r), V, r.kind)
    BY <2>1, <2>5, <2>6, Fewer
  <2>8. QED BY <2>3, <2>4, <2>7
<1>13. ASSUME NEW v \in Writers, v = w, NEW r \in tx'[v].adds
       PROVE  Few(LeftBy(v, r)', Adding(r.kind, r.id)' \ {v}, r.kind)
  <2>10. r = row /\ r.kind = kind /\ tx'[v].drops = drops
    BY <1>3, <1>6, <1>7, <1>13
  <2>1. PICK log : log = rows \union {row}
    OBVIOUS
  <2>2. log \in SUBSET Events /\ IsFiniteSet(log)
    BY <1>1, <1>3, <2>1, FS_AddElement DEF RecordsTypeOK
  <2>3. \A s, x \in log : s.id = x.id => s = x
    BY <1>1, <1>3, <1>8, <2>1 DEF OwnIds
  <2>4. LeftBy(v, r)' \subseteq {s \in log : s.kind = kind} \ Trimmed(log, kind)
    BY <1>3, <1>4, <1>6, <2>1, <2>10 DEF LeftBy, UpTo
  <2>5. Cardinality(LeftBy(v, r)') <= Cap(kind) /\ Cardinality(LeftBy(v, r)') \in Nat
    <3>1. IsFiniteSet(LeftBy(v, r)')
      BY <2>2, <2>4, FS_Subset
    <3>2. QED BY <2>2, <2>3, <2>4, <3>1, KeptIsFew, FS_CardinalityType
  <2>6. Adding(r.kind, r.id)' \ {v} \subseteq Writers \ {v}
    BY DEF Adding
  <2>7. Cardinality(Writers \ {v}) = Cardinality(Writers) - 1 /\ IsFiniteSet(Writers \ {v}) /\ Cardinality(Writers) \in Nat
    BY FS_RemoveElement, FS_CardinalityType
  <2>8. /\ Cardinality(Adding(r.kind, r.id)' \ {v}) <= Cardinality(Writers) - 1
        /\ Cardinality(Adding(r.kind, r.id)' \ {v}) \in Nat
    BY <2>6, <2>7, FS_Subset, FS_CardinalityType
  <2>9. QED BY <2>5, <2>7, <2>8, <2>10, CapType DEF Few
<1>14. ASSUME NEW v \in Writers, NEW r \in tx'[v].adds
       PROVE  Few(LeftBy(v, r)', Adding(r.kind, r.id)' \ {v}, r.kind)
  <2>1. CASE v = w
    BY <1>13, <1>14, <2>1
  <2>2. CASE v # w
    BY <1>7, <1>12, <1>14, <2>2
  <2>3. QED BY <2>1, <2>2
<1>15. QED BY <1>6, <1>9, <1>11, <1>14 DEF Tallies, Few

LEMMA PruneCounts ==
  ASSUME TallyInv, IsFiniteSet(Writers), NEW w \in Writers, Prune(w)
  PROVE  OwnIds' /\ Tallies'
<1>1. RecordsTypeOK /\ OwnIds /\ Tallies
  BY DEF TallyInv, RecordsInv
<1>2. PICK drops : drops = Trimmed(rows, "other")
  OBVIOUS
<1>9. PICK t : t = [NoTx EXCEPT !.drops = drops]
  OBVIOUS
<1>3. tx' = [tx EXCEPT ![w] = t] /\ rows' = rows /\ tx[w] = NoTx
  BY <1>2, <1>9 DEF Prune
<1>10. t.adds = {} /\ NoTx.adds = {}
  BY <1>9 DEF NoTx
<1>11. tx'[w] = t /\ \A v \in Writers : v # w => tx'[v] = tx[v]
  BY <1>1, <1>3 DEF RecordsTypeOK
<1>4. /\ \A v \in Writers : tx'[v].adds = tx[v].adds
      /\ tx[w].adds = {} /\ \A v \in Writers : v # w => tx'[v] = tx[v]
  BY <1>3, <1>10, <1>11
<1>5. OwnIds'
  BY <1>1, <1>3, <1>4 DEF OwnIds
<1>6. \A k, i : UpTo(k, i)' = UpTo(k, i) /\ Adding(k, i)' = Adding(k, i)
  BY <1>3, <1>4 DEF UpTo, Adding
<1>7. \A v \in Writers : \A r \in tx'[v].adds : v # w /\ r \in tx[v].adds /\ LeftBy(v, r)' = LeftBy(v, r)
  BY <1>4, <1>6 DEF LeftBy
<1>8. QED BY <1>1, <1>3, <1>5, <1>6, <1>7 DEF Tallies, Few

LEMMA CountStep ==
  ASSUME IsFiniteSet(Writers), TallyInv, [RecordsNext]_records
  PROVE  TallyInv'
<1>1. RecordsInv'
  BY RecordsStep DEF TallyInv
<1>2. CASE UNCHANGED <<rows, tx>>
  BY <1>1, <1>2 DEF TallyInv, OwnIds, Tallies, Few, UpTo, Adding, LeftBy
<1>3. CASE \E w \in Writers : Commit(w) \/ Rollback(w)
  BY <1>1, <1>3, EndCounts DEF Commit, Rollback, TallyInv
<1>4. CASE \E w \in Writers : Prune(w) \/ \E k \in EventKinds : RecordEvent(w, k)
  BY <1>1, <1>4, PruneCounts, RecordCounts DEF TallyInv
<1>5. QED BY <1>2, <1>3, <1>4 DEF RecordsNext, NextDay, records

\* The log stays within its caps, but for a row of each other transaction that
\* overlaps, for any number of them, caps and days (audit._trim,
\* _enforce_caps).
THEOREM LogIsBounded ==
  ASSUME IsFiniteSet(Writers), Writers # {}
  PROVE  RecordsSpec => []RowsBounded
<1>1. ASSUME TallyInv, NEW k \in EventKinds
      PROVE  Cardinality({r \in rows : r.kind = k}) < Cap(k) + Cardinality(Writers)
  <2>1. PICK K : K = {r \in rows : r.kind = k}
    OBVIOUS
  <2>2. RecordsTypeOK /\ Tallies /\ DaysInOrder /\ IsFiniteSet(rows) /\ K \subseteq rows
    BY <1>1, <2>1 DEF TallyInv, RecordsInv, RecordsTypeOK
  <2>3. Cardinality(Writers) \in Nat /\ Cardinality(Writers) # 0 /\ Cap(k) \in Nat
    BY FS_CardinalityType, FS_EmptySet, CapType
  <2>4. CASE K = {}
    <3>1. Cardinality(K) = 0
      BY <2>4, FS_EmptySet
    <3>2. QED BY <2>1, <2>3, <3>1
  <2>5. CASE K # {}
    <3>1. PICK S : S = {ids - r.id : r \in K}
      OBVIOUS
    <3>2. \A r \in K : r.id \in Nat /\ r.id <= ids /\ ids \in Nat
      BY <2>2 DEF RecordsTypeOK, DaysInOrder, Seen, Events
    <3>3. S \in SUBSET Nat /\ S # {}
      BY <2>5, <3>1, <3>2
    <3>4. PICK n \in S : \A m \in S : n <= m
      BY <3>3, Least
    <3>5. PICK r \in K : n = ids - r.id
      BY <3>1, <3>4
    <3>6. \A s \in K : s.id <= r.id
      <4>1. ASSUME NEW s \in K PROVE s.id <= r.id
        <5>1. ids - r.id <= ids - s.id
          BY <3>1, <3>4, <3>5
        <5>2. QED BY <3>2, <5>1
      <4>2. QED BY <4>1
    <3>7. r.kind = k /\ UpTo(r.kind, r.id) = K
      BY <2>1, <3>6 DEF UpTo
    <3>8. Few(K, Adding(k, r.id), k)
      BY <2>2, <3>7 DEF Tallies
    <3>9. Cardinality(K) \in Nat /\ Cardinality(Adding(k, r.id)) \in Nat
      BY <2>2, CountedFinite, FS_Subset, FS_CardinalityType
    <3>10. QED BY <2>1, <2>3, <3>8, <3>9 DEF Few
  <2>6. QED BY <2>4, <2>5
<1>2. TallyInv => RowsBounded
  BY <1>1 DEF RowsBounded
<1>3. TallyInv /\ [RecordsNext]_records => TallyInv'
  BY CountStep
<1>4. QED BY <1>2, <1>3, CountStart, PTL DEF RecordsSpec

-----------------------------------------------------------------------------
(* The providers.                                                          *)

Configurations == [is : {"none", "on", "off"}, issuer : Issuers \union {"-"}]
Requested == [at : {"rests", "adds", "repoints", "link"}, row : Rows \union {0}, issuer : Issuers \union {"-"},
             subject : Subjects \union {"-"}, late : BOOLEAN]

ProvidersTypeOK ==
  /\ configured \in [Rows -> Configurations] /\ requester \in [Requesters -> Requested]
  /\ crossed \subseteq Rows \union {0} /\ spent \subseteq Rows

\* What was read of the row a request is at still stands, or the request is late.
NewRow(q) ==
  requester[q].at = "adds" =>
    /\ requester[q].row \in Rows \ (Present \union spent)
    /\ \A p \in Requesters : requester[p].at = "adds" /\ requester[p].row = requester[q].row => p = q
NoneLinked(q) == requester[q].at = "repoints" => requester[q].late \/ LinkedThrough(requester[q].row) = {}
SameIssuer(q) ==
  requester[q].at = "link" =>
    /\ requester[q].row \in Present \union spent
    /\ requester[q].late \/ requester[q].row \notin Present \/ configured[requester[q].row].issuer = requester[q].issuer
Standing(q) == NewRow(q) /\ NoneLinked(q) /\ SameIssuer(q)
Stands == \A q \in Requesters : Standing(q)

\* A row that is gone has no identities.
Situated(i) == i.row \in Present /\ (i.row \in crossed \/ configured[i.row].issuer = i.issuer)
LinkedInPlace == \A i \in identities : Situated(i)

ProvidersInv == ProvidersTypeOK /\ Stands /\ LinkedInPlace

LEMMA ProvidersStart == ProvidersInit => ProvidersInv
  BY DEF ProvidersInit, ProvidersInv, ProvidersTypeOK, Configurations, Requested, NoProvider, NoRequest, Stands, Standing,
         NewRow, NoneLinked, SameIssuer, LinkedInPlace

\* A request goes on, or rests, and nothing else moves.
LEMMA RequestGoes ==
  ASSUME ProvidersInv, NEW q \in Requesters, NEW r \in Rows, NEW i \in Issuers,
         Counts(q, r, i) \/ LooksForLinks(q, r, i)
  PROVE  ProvidersInv'
<1> DEFINE at == IF Counts(q, r, i) THEN "adds" ELSE "repoints"
           next == [at |-> at, row |-> r, issuer |-> i, subject |-> "-", late |-> FALSE]
<1>1. /\ requester' = [requester EXCEPT ![q] = next] /\ UNCHANGED <<configured, spent, identities, crossed>>
      /\ at = "adds" => r \notin Present \union spent /\ \A p \in Requesters : requester[p].at = "adds" => requester[p].row # r
      /\ at = "repoints" => LinkedThrough(r) = {}
      /\ at \in {"adds", "repoints"}
  <2>1. CASE Counts(q, r, i)
    BY <2>1, Zenon DEF Counts, Goes
  <2>2. CASE ~Counts(q, r, i)
    BY <2>2, Zenon DEF LooksForLinks, Goes
  <2>3. QED BY <2>1, <2>2
<1>2. next \in Requested /\ next.at = at /\ next.row = r
  BY <1>1 DEF Requested
<1> HIDE DEF next, at
<1>3. \A p \in Requesters : requester'[p] = IF p = q THEN next ELSE requester[p]
  BY <1>1 DEF ProvidersInv, ProvidersTypeOK
<1>4. ProvidersTypeOK'
  BY <1>1, <1>2 DEF ProvidersInv, ProvidersTypeOK
<1>5. Present' = Present /\ \A x : LinkedThrough(x)' = LinkedThrough(x)
  BY <1>1 DEF Present, LinkedThrough
<1>6. ASSUME NEW p \in Requesters PROVE Standing(p)'
  <2>1. Standing(p) /\ \A x \in Requesters : NewRow(x)
    BY DEF ProvidersInv, Stands, Standing
  <2>2. NewRow(p)'
    <3>1. CASE p = q
      BY <1>1, <1>2, <1>3, <1>5, <3>1 DEF NewRow
    <3>2. CASE p # q
      BY <1>1, <1>2, <1>3, <1>5, <2>1, <3>2 DEF NewRow
    <3>3. QED BY <3>1, <3>2
  <2>3. NoneLinked(p)'
    <3>1. CASE p = q
      BY <1>1, <1>2, <1>3, <1>5, <3>1 DEF NoneLinked
    <3>2. CASE p # q
      BY <1>3, <1>5, <2>1, <3>2 DEF Standing, NoneLinked
    <3>3. QED BY <3>1, <3>2
  <2>4. SameIssuer(p)'
    BY <1>1, <1>2, <1>3, <1>5, <2>1 DEF Standing, SameIssuer
  <2>5. QED BY <2>2, <2>3, <2>4 DEF Standing
<1>7. LinkedInPlace'
  BY <1>1, <1>5 DEF ProvidersInv, LinkedInPlace, Situated
<1>8. QED BY <1>4, <1>6, <1>7 DEF ProvidersInv, Stands

LEMMA RequestVouches ==
  ASSUME ProvidersInv, NEW q \in Requesters, NEW r \in Rows, NEW s \in Subjects, Vouches(q, r, s)
  PROVE  ProvidersInv'
<1> DEFINE next == [at |-> "link", row |-> r, issuer |-> configured[r].issuer, subject |-> s, late |-> FALSE]
<1>1. requester' = [requester EXCEPT ![q] = next] /\ UNCHANGED <<configured, spent, identities, crossed>> /\ r \in Present
  BY DEF Vouches, Goes, Present
<1>2. next \in Requested /\ next.at = "link" /\ next.row = r /\ next.issuer = configured[r].issuer
  BY DEF Requested, ProvidersInv, ProvidersTypeOK, Configurations
<1> HIDE DEF next
<1>3. \A p \in Requesters : requester'[p] = IF p = q THEN next ELSE requester[p]
  BY <1>1 DEF ProvidersInv, ProvidersTypeOK
<1>4. ProvidersTypeOK'
  BY <1>1, <1>2 DEF ProvidersInv, ProvidersTypeOK
<1>5. Present' = Present /\ \A x : LinkedThrough(x)' = LinkedThrough(x)
  BY <1>1 DEF Present, LinkedThrough
<1>6. ASSUME NEW p \in Requesters PROVE Standing(p)'
  <2>1. Standing(p)
    BY DEF ProvidersInv, Stands
  <2>2. NewRow(p)' /\ NoneLinked(p)'
    BY <1>1, <1>2, <1>3, <1>5, <2>1 DEF Standing, NewRow, NoneLinked
  <2>3. SameIssuer(p)'
    BY <1>1, <1>2, <1>3, <1>5, <2>1 DEF Standing, SameIssuer
  <2>4. QED BY <2>2, <2>3 DEF Standing
<1>7. LinkedInPlace'
  BY <1>1, <1>5 DEF ProvidersInv, LinkedInPlace, Situated
<1>8. QED BY <1>4, <1>6, <1>7 DEF ProvidersInv, Stands

\* A request that rests leaves the others as they are.
LEMMA MovesOnly ==
  ASSUME ProvidersInv, NEW q \in Requesters, Rest(q)
  PROVE  /\ requester' \in [Requesters -> Requested] /\ requester'[q].at = "rests"
         /\ \A p \in Requesters : p # q => requester'[p] = requester[p]
<1>1. NoRequest \in Requested /\ NoRequest.at = "rests"
  BY DEF NoRequest, Requested
<1>2. QED BY <1>1 DEF ProvidersInv, ProvidersTypeOK, Rest

\* A request that wrote rests, and those at the other work on its row are late.
LEMMA WrittenTo ==
  ASSUME ProvidersInv, NEW q \in Requesters, NEW at \in {"repoints", "link"}, Writing(q, at)
  PROVE  /\ requester' \in [Requesters -> Requested] /\ requester'[q].at = "rests"
         /\ \A p \in Requesters : p # q =>
              /\ requester'[p].at = requester[p].at /\ requester'[p].row = requester[p].row
              /\ requester'[p].issuer = requester[p].issuer /\ (requester[p].late => requester'[p].late)
              /\ requester[p].at = at /\ requester[p].row = requester[q].row => requester'[p].late
         /\ crossed \subseteq crossed' /\ crossed' \subseteq crossed \union {requester[q].row}
         /\ requester[q].late => requester[q].row \in crossed'
<1>1. NoRequest \in Requested /\ NoRequest.at = "rests"
  BY DEF NoRequest, Requested
<1>2. ASSUME NEW c \in Requested
      PROVE  /\ [c EXCEPT !.late = TRUE] \in Requested /\ [c EXCEPT !.late = TRUE].at = c.at
             /\ [c EXCEPT !.late = TRUE].row = c.row /\ [c EXCEPT !.late = TRUE].issuer = c.issuer
             /\ [c EXCEPT !.late = TRUE].late = TRUE
  BY DEF Requested
<1>3. \A p \in Requesters : requester[p] \in Requested
  BY DEF ProvidersInv, ProvidersTypeOK
<1>4. \A p \in Requesters :
        requester'[p] = IF p = q THEN NoRequest
                        ELSE IF requester[p].at = at /\ requester[p].row = requester[q].row
                        THEN [requester[p] EXCEPT !.late = TRUE] ELSE requester[p]
  BY DEF Writing
<1>5. requester' \in [Requesters -> Requested]
  <2>1. \A p \in Requesters : requester'[p] \in Requested
    BY <1>1, <1>2, <1>3, <1>4
  <2>2. requester' = [p \in Requesters |-> requester'[p]]
    BY DEF Writing
  <2>3. QED BY <2>1, <2>2
<1>6. ASSUME NEW p \in Requesters, p # q
      PROVE  /\ requester'[p].at = requester[p].at /\ requester'[p].row = requester[p].row
             /\ requester'[p].issuer = requester[p].issuer /\ (requester[p].late => requester'[p].late)
             /\ requester[p].at = at /\ requester[p].row = requester[q].row => requester'[p].late
  <2>1. CASE requester[p].at = at /\ requester[p].row = requester[q].row
    <3>1. requester'[p] = [requester[p] EXCEPT !.late = TRUE]
      BY <1>4, <1>6, <2>1
    <3>2. QED BY <1>2, <1>3, <3>1
  <2>2. CASE ~(requester[p].at = at /\ requester[p].row = requester[q].row)
    BY <1>4, <1>6, <2>2
  <2>3. QED BY <2>1, <2>2
<1>7. /\ crossed \subseteq crossed' /\ crossed' \subseteq crossed \union {requester[q].row}
      /\ requester[q].late => requester[q].row \in crossed'
  BY DEF Writing
<1>8. QED BY <1>1, <1>4, <1>5, <1>6, <1>7

LEMMA RequestAdds ==
  ASSUME ProvidersInv, NEW q \in Requesters, NEW enabled \in BOOLEAN, AddsProvider(q, enabled)
  PROVE  ProvidersInv'
<1> DEFINE r == requester[q].row
<1>1. /\ Rest(q) /\ UNCHANGED <<spent, identities, crossed>> /\ requester[q].at = "adds"
      /\ \/ configured' = configured
         \/ configured' = [configured EXCEPT ![r] = [is |-> IF enabled THEN "on" ELSE "off", issuer |-> requester[q].issuer]]
  BY DEF AddsProvider
<1>2. r \in Rows \ (Present \union spent)
  BY <1>1 DEF ProvidersInv, Stands, Standing, NewRow
<1>3. configured' \in [Rows -> Configurations] /\ \A x \in Rows : x # r => configured'[x] = configured[x]
  <2>1. requester[q].issuer \in Issuers \union {"-"}
    BY DEF ProvidersInv, ProvidersTypeOK, Requested
  <2>2. [is |-> IF enabled THEN "on" ELSE "off", issuer |-> requester[q].issuer] \in Configurations
    BY <2>1 DEF Configurations
  <2>3. QED BY <1>1, <1>2, <2>2 DEF ProvidersInv, ProvidersTypeOK
<1> HIDE DEF r
<1>4. ProvidersTypeOK'
  BY <1>1, <1>3, MovesOnly DEF ProvidersInv, ProvidersTypeOK
<1>5. Present \subseteq Present' /\ Present' \subseteq Present \union {r} /\ \A x : LinkedThrough(x)' = LinkedThrough(x)
  BY <1>1, <1>2, <1>3 DEF Present, LinkedThrough
<1>6. ASSUME NEW p \in Requesters PROVE Standing(p)'
  <2>1. CASE p = q
    BY <1>1, <2>1, MovesOnly DEF Standing, NewRow, NoneLinked, SameIssuer
  <2>2. CASE p # q
    <3>1. requester'[p] = requester[p] /\ Standing(p) /\ NewRow(q)
      BY <1>1, <2>2, MovesOnly DEF ProvidersInv, Stands, Standing
    <3>2. NewRow(p)'
      <4>1. \A x \in Requesters : requester'[x].at = "adds" => requester[x] = requester'[x]
        BY <1>1, MovesOnly
      <4>2. requester[p].at = "adds" => requester[p].row # r
        BY <1>1, <2>2, <3>1 DEF Standing, NewRow, r
      <4>3. QED BY <1>1, <1>5, <3>1, <4>1, <4>2 DEF Standing, NewRow
    <3>3. NoneLinked(p)'
      BY <1>5, <3>1 DEF Standing, NoneLinked
    <3>4. SameIssuer(p)'
      <4>1. CASE requester[p].at = "link"
        <5>1. requester[p].row \in Present \union spent /\ requester[p].row # r
          BY <1>2, <3>1, <4>1 DEF Standing, SameIssuer
        <5>2. requester[p].row \in Rows => configured'[requester[p].row] = configured[requester[p].row]
          BY <1>3, <5>1
        <5>3. requester[p].row \in Rows
          BY <5>1 DEF Present, ProvidersInv, ProvidersTypeOK
        <5>4. QED BY <1>1, <1>5, <3>1, <4>1, <5>1, <5>2, <5>3 DEF Standing, SameIssuer
      <4>2. QED BY <3>1, <4>1 DEF SameIssuer
    <3>5. QED BY <3>2, <3>3, <3>4 DEF Standing
  <2>3. QED BY <2>1, <2>2
<1>7. LinkedInPlace'
  <2>1. ASSUME NEW i \in identities PROVE Situated(i)'
    <3>1. Situated(i) /\ i.row # r /\ i.row \in Rows
      BY <1>2 DEF ProvidersInv, LinkedInPlace, Situated, Present
    <3>2. QED BY <1>1, <1>3, <1>5, <3>1 DEF Situated
  <2>2. QED BY <1>1, <2>1 DEF LinkedInPlace
<1>8. QED BY <1>4, <1>6, <1>7 DEF ProvidersInv, Stands

\* A request that ends without writing.
LEMMA RequestRests ==
  ASSUME ProvidersInv, NEW q \in Requesters, Rest(q), UNCHANGED <<configured, spent, identities, crossed>>
  PROVE  ProvidersInv'
<1>1. ProvidersTypeOK'
  BY MovesOnly DEF ProvidersInv, ProvidersTypeOK
<1>2. Present' = Present /\ \A x : LinkedThrough(x)' = LinkedThrough(x)
  BY DEF Present, LinkedThrough
<1>3. ASSUME NEW p \in Requesters PROVE Standing(p)'
  <2>1. Standing(p) /\ (p = q => requester'[p].at = "rests") /\ (p # q => requester'[p] = requester[p])
    BY MovesOnly DEF ProvidersInv, Stands
  <2>2. \A x \in Requesters : requester'[x].at = "adds" => requester[x] = requester'[x]
    BY MovesOnly
  <2>3. NewRow(p)'
    BY <1>2, <2>1, <2>2 DEF Standing, NewRow
  <2>4. NoneLinked(p)' /\ SameIssuer(p)'
    BY <1>2, <2>1 DEF Standing, NoneLinked, SameIssuer
  <2>5. QED BY <2>3, <2>4 DEF Standing
<1>4. LinkedInPlace'
  BY <1>2 DEF ProvidersInv, LinkedInPlace, Situated
<1>5. QED BY <1>1, <1>3, <1>4 DEF ProvidersInv, Stands

LEMMA RequestRepoints ==
  ASSUME ProvidersInv, NEW q \in Requesters, Repoints(q)
  PROVE  ProvidersInv'
<1> DEFINE r == requester[q].row
<1>1. CASE r \notin Present \/ Taken(r, requester[q].issuer)
  BY <1>1, RequestRests DEF Repoints
<1>2. CASE ~(r \notin Present \/ Taken(r, requester[q].issuer))
  <2>1. /\ requester[q].at = "repoints" /\ r \in Present /\ UNCHANGED <<spent, identities>> /\ Writing(q, "link")
        /\ configured' = [configured EXCEPT ![r].issuer = requester[q].issuer]
    BY <1>2 DEF Repoints
  <2>2. r \in Rows /\ requester[q].issuer \in Issuers \union {"-"} /\ configured[r] \in Configurations
    BY <2>1 DEF Present, ProvidersInv, ProvidersTypeOK, Requested
  <2>3. [configured[r] EXCEPT !.issuer = requester[q].issuer] \in Configurations
        /\ [configured[r] EXCEPT !.issuer = requester[q].issuer].is = configured[r].is
    BY <2>2 DEF Configurations
  <2>4. /\ configured' \in [Rows -> Configurations] /\ configured'[r].is = configured[r].is
        /\ \A x \in Rows : x # r => configured'[x] = configured[x]
    BY <2>1, <2>2, <2>3 DEF ProvidersInv, ProvidersTypeOK
  <2>5. Present' = Present /\ \A x : LinkedThrough(x)' = LinkedThrough(x)
    BY <2>1, <2>4 DEF Present, LinkedThrough
  <2>6. requester[q].late \/ LinkedThrough(r) = {}
    BY <2>1 DEF ProvidersInv, Stands, Standing, NoneLinked
  <2> HIDE DEF r
  <2>7. ProvidersTypeOK'
    BY <2>1, <2>2, <2>4, WrittenTo DEF ProvidersInv, ProvidersTypeOK, r
  <2>8. ASSUME NEW p \in Requesters PROVE Standing(p)'
    <3>1. CASE p = q
      BY <2>1, <3>1, WrittenTo DEF Standing, NewRow, NoneLinked, SameIssuer
    <3>2. CASE p # q
      <4>1. /\ requester'[p].at = requester[p].at /\ requester'[p].row = requester[p].row
            /\ requester'[p].issuer = requester[p].issuer /\ (requester[p].late => requester'[p].late)
            /\ requester[p].at = "link" /\ requester[p].row = r => requester'[p].late
            /\ Standing(p)
        BY <2>1, <3>2, WrittenTo DEF ProvidersInv, Stands, r
      <4>2. \A x \in Requesters : requester'[x].at = "adds" => requester[x].at = "adds" /\ requester'[x].row = requester[x].row
        BY <2>1, WrittenTo
      <4>3. NewRow(p)'
        BY <2>1, <2>5, <4>1, <4>2 DEF Standing, NewRow
      <4>4. NoneLinked(p)'
        BY <2>5, <4>1 DEF Standing, NoneLinked
      <4>5. SameIssuer(p)'
        <5>1. requester[p].row \in Present => requester[p].row \in Rows
          BY DEF Present
        <5>2. QED BY <2>1, <2>4, <2>5, <4>1, <5>1 DEF Standing, SameIssuer
      <4>6. QED BY <4>3, <4>4, <4>5 DEF Standing
    <3>3. QED BY <3>1, <3>2
  <2>9. LinkedInPlace'
    <3>1. ASSUME NEW i \in identities PROVE Situated(i)'
      <4>1. Situated(i) /\ i.row \in Rows /\ crossed \subseteq crossed' /\ (requester[q].late => r \in crossed')
        BY <2>1, WrittenTo DEF ProvidersInv, LinkedInPlace, Situated, Present, r
      <4>2. i.row = r => r \in crossed'
        BY <2>6, <4>1 DEF LinkedThrough
      <4>3. QED BY <2>4, <2>5, <4>1, <4>2 DEF Situated
    <3>2. QED BY <2>1, <3>1 DEF LinkedInPlace
  <2>10. QED BY <2>7, <2>8, <2>9 DEF ProvidersInv, Stands
<1>3. QED BY <1>1, <1>2

LEMMA RequestLinks ==
  ASSUME ProvidersInv, NEW q \in Requesters, LinksIdentity(q)
  PROVE  ProvidersInv'
<1> DEFINE r == requester[q].row
<1>1. CASE r \notin Present \/ LinkedThrough(r) # {}
  BY <1>1, RequestRests DEF LinksIdentity
<1>2. CASE r \in Present /\ LinkedThrough(r) = {}
  <2>1. PICK new : new = [row |-> r, issuer |-> requester[q].issuer, subject |-> requester[q].subject]
    OBVIOUS
  <2>2. /\ requester[q].at = "link" /\ UNCHANGED <<configured, spent>> /\ Writing(q, "repoints")
        /\ identities' = identities \union {new} /\ new.row = r /\ new.issuer = requester[q].issuer
    BY <1>2, <2>1 DEF LinksIdentity
  <2>3. Present' = Present /\ r \in Rows
    BY <1>2, <2>2 DEF Present
  <2>4. \A x : x # r => LinkedThrough(x)' = LinkedThrough(x)
    BY <2>2 DEF LinkedThrough
  <2>5. requester[q].late \/ configured[r].issuer = requester[q].issuer
    BY <1>2, <2>2 DEF ProvidersInv, Stands, Standing, SameIssuer
  <2> HIDE DEF r
  <2>6. ProvidersTypeOK'
    BY <2>2, <2>3, WrittenTo DEF ProvidersInv, ProvidersTypeOK, r
  <2>7. ASSUME NEW p \in Requesters PROVE Standing(p)'
    <3>1. CASE p = q
      BY <2>2, <3>1, WrittenTo DEF Standing, NewRow, NoneLinked, SameIssuer
    <3>2. CASE p # q
      <4>1. /\ requester'[p].at = requester[p].at /\ requester'[p].row = requester[p].row
            /\ requester'[p].issuer = requester[p].issuer /\ (requester[p].late => requester'[p].late)
            /\ requester[p].at = "repoints" /\ requester[p].row = r => requester'[p].late
            /\ Standing(p)
        BY <2>2, <3>2, WrittenTo DEF ProvidersInv, Stands, r
      <4>2. \A x \in Requesters : requester'[x].at = "adds" => requester[x].at = "adds" /\ requester'[x].row = requester[x].row
        BY <2>2, WrittenTo
      <4>3. NewRow(p)'
        BY <2>2, <2>3, <4>1, <4>2 DEF Standing, NewRow
      <4>4. NoneLinked(p)'
        BY <2>4, <4>1 DEF Standing, NoneLinked
      <4>5. SameIssuer(p)'
        BY <2>2, <2>3, <4>1 DEF Standing, SameIssuer
      <4>6. QED BY <4>3, <4>4, <4>5 DEF Standing
    <3>3. QED BY <3>1, <3>2
  <2>8. LinkedInPlace'
    <3>1. crossed \subseteq crossed' /\ (requester[q].late => r \in crossed')
      BY <2>2, WrittenTo DEF r
    <3>2. Situated(new)'
      BY <1>2, <2>2, <2>3, <2>5, <3>1 DEF Situated, r
    <3>3. ASSUME NEW i \in identities PROVE Situated(i)'
      BY <2>2, <2>3, <3>1 DEF ProvidersInv, LinkedInPlace, Situated
    <3>4. QED BY <2>2, <3>2, <3>3 DEF LinkedInPlace
  <2>9. QED BY <2>6, <2>7, <2>8 DEF ProvidersInv, Stands
<1>3. QED BY <1>1, <1>2

LEMMA OwnerChanges ==
  ASSUME ProvidersInv,
         (\E r \in Rows : Toggles(r) \/ Removes(r)) \/ (\E i \in identities : Unlinks(i))
  PROVE  ProvidersInv'
<1>1. ASSUME NEW r \in Rows, Toggles(r) PROVE ProvidersInv'
  <2>1. configured[r] \in Configurations /\ configured[r].is # "none"
    BY <1>1 DEF Toggles, Present, ProvidersInv, ProvidersTypeOK
  <2>2. PICK c : c = [configured[r] EXCEPT !.is = IF @ = "on" THEN "off" ELSE "on"]
    OBVIOUS
  <2>3. c \in Configurations /\ c.issuer = configured[r].issuer /\ c.is # "none"
    BY <2>1, <2>2 DEF Configurations
  <2>4. configured' = [configured EXCEPT ![r] = c] /\ UNCHANGED <<spent, identities, requester, crossed>>
    BY <1>1, <2>2 DEF Toggles
  <2>5. /\ configured' \in [Rows -> Configurations]
        /\ \A x \in Rows : configured'[x].issuer = configured[x].issuer /\ (configured'[x].is = "none" <=> configured[x].is = "none")
    BY <2>1, <2>3, <2>4 DEF ProvidersInv, ProvidersTypeOK
  <2>6. Present' = Present /\ Present \subseteq Rows /\ \A x : LinkedThrough(x)' = LinkedThrough(x)
    BY <2>4, <2>5 DEF Present, LinkedThrough
  <2>7. ProvidersTypeOK'
    BY <2>4, <2>5 DEF ProvidersInv, ProvidersTypeOK
  <2>8. Stands'
    BY <2>4, <2>5, <2>6 DEF ProvidersInv, Stands, Standing, NewRow, NoneLinked, SameIssuer
  <2>9. LinkedInPlace'
    BY <2>4, <2>5, <2>6 DEF ProvidersInv, LinkedInPlace, Situated
  <2>10. QED BY <2>7, <2>8, <2>9 DEF ProvidersInv
<1>2. ASSUME NEW r \in Rows, Removes(r) PROVE ProvidersInv'
  <2>1. /\ r \in Present /\ configured' = [configured EXCEPT ![r] = NoProvider] /\ UNCHANGED <<requester, crossed>>
        /\ spent' = spent \union {r} /\ identities' = identities \ LinkedThrough(r)
    BY <1>2 DEF Removes
  <2>2. NoProvider \in Configurations /\ NoProvider.is = "none"
    BY DEF NoProvider, Configurations
  <2>3. configured' \in [Rows -> Configurations] /\ configured'[r].is = "none" /\ \A x \in Rows : x # r => configured'[x] = configured[x]
    BY <2>1, <2>2 DEF ProvidersInv, ProvidersTypeOK
  <2>4. Present' = Present \ {r} /\ Present \subseteq Rows /\ \A x : LinkedThrough(x)' \subseteq LinkedThrough(x)
    BY <2>1, <2>3 DEF Present, LinkedThrough
  <2>5. ProvidersTypeOK'
    BY <2>1, <2>3 DEF ProvidersInv, ProvidersTypeOK
  <2>6. ASSUME NEW p \in Requesters PROVE Standing(p)'
    <3>1. Standing(p)
      BY DEF ProvidersInv, Stands
    <3>2. NewRow(p)'
      BY <2>1, <2>4, <3>1 DEF Standing, NewRow
    <3>3. NoneLinked(p)'
      BY <2>1, <2>4, <3>1 DEF Standing, NoneLinked
    <3>4. SameIssuer(p)'
      BY <2>1, <2>3, <2>4, <3>1 DEF Standing, SameIssuer
    <3>5. QED BY <3>2, <3>3, <3>4 DEF Standing
  <2>7. LinkedInPlace'
    <3>1. ASSUME NEW i \in identities' PROVE Situated(i)'
      <4>1. Situated(i) /\ i.row # r
        BY <2>1, <3>1 DEF ProvidersInv, LinkedInPlace, LinkedThrough
      <4>2. QED BY <2>1, <2>3, <2>4, <4>1 DEF Situated
    <3>2. QED BY <3>1 DEF LinkedInPlace
  <2>8. QED BY <2>5, <2>6, <2>7 DEF ProvidersInv, Stands
<1>3. ASSUME NEW i \in identities, Unlinks(i) PROVE ProvidersInv'
  <2>1. identities' = identities \ {i} /\ UNCHANGED <<configured, spent, requester, crossed>>
    BY <1>3 DEF Unlinks
  <2>2. Present' = Present /\ \A x : LinkedThrough(x)' \subseteq LinkedThrough(x)
    BY <2>1 DEF Present, LinkedThrough
  <2>3. ProvidersTypeOK'
    BY <2>1 DEF ProvidersInv, ProvidersTypeOK
  <2>4. ASSUME NEW p \in Requesters PROVE Standing(p)'
    BY <2>1, <2>2 DEF ProvidersInv, Stands, Standing, NewRow, NoneLinked, SameIssuer
  <2>5. LinkedInPlace'
    BY <2>1, <2>2 DEF ProvidersInv, LinkedInPlace, Situated
  <2>6. QED BY <2>3, <2>4, <2>5 DEF ProvidersInv, Stands
<1>4. QED BY <1>1, <1>2, <1>3

\* An identity stays linked through a provider of the issuer that vouched for
\* it, for any providers and requests, but for the rows that a link and a
\* repointing, neither of which saw the other, both wrote to
\* (auth/config.update_provider, routers/sso._link).
THEOREM LinkedStaysAtIssuer == ProvidersSpec => []LinkedAtIssuer
<1>1. ProvidersInv => LinkedAtIssuer
  BY DEF ProvidersInv, LinkedInPlace, Situated, LinkedAtIssuer, AtIssuer
<1>2. ProvidersInv /\ [ProvidersNext]_providers => ProvidersInv'
  <2> SUFFICES ASSUME ProvidersInv, [ProvidersNext]_providers PROVE ProvidersInv'
    OBVIOUS
  <2>1. CASE UNCHANGED providers
    BY <2>1 DEF providers, ProvidersInv, ProvidersTypeOK, Stands, Standing, NewRow, NoneLinked, SameIssuer, Present,
                LinkedThrough, LinkedInPlace, Situated
  <2>2. CASE ProvidersNext
    BY <2>2, RequestGoes, RequestVouches, RequestAdds, RequestRepoints, RequestLinks, OwnerChanges DEF ProvidersNext
  <2>3. QED BY <2>1, <2>2
<1>3. QED BY <1>1, <1>2, ProvidersStart, PTL DEF ProvidersSpec

-----------------------------------------------------------------------------
(* How one estimate is made.                                               *)

Traits == {"mint", "replacement", "text"}
IssuesOf == [year : Nat, nd : BOOLEAN, named : BOOLEAN, agrees : SUBSET Traits]
Estimateds == [year : {0, 1}, nd : BOOLEAN, grade : Graded, cert : Certs, population : Certs]
Quotations == [at : {"asked", "lists", "tries", "done"}, known : Estimateds \union {<<>>}, wanted : Nat,
               cert : Certs, ranked : Seq(Nat), replies : Seq(SUBSET Nat), mismatch : BOOLEAN]

QuotesTypeOK ==
  /\ listing \in Seq(IssuesOf) /\ estimated \in Estimateds /\ quote \in Quotations
  /\ sold.late \in Nat /\ sold.old \in Nat /\ sold.undated \in Nat

\* Those tried are to be asked for, and all that are better come before.
InOrder(k, c) ==
  /\ c \in Seq(Nat)
  /\ \A t \in 1 .. Len(c) : c[t] \in Askable(k)
  /\ \A t \in 1 .. Len(c) : \A n \in Askable(k) :
       Better(k, n, c[t]) => \E s \in 1 .. (t - 1) : c[s] = n

\* While they are tried they are those of the piece as it was read, and the
\* last is not answered for yet.
QuoteIs ==
  /\ quote.at \in {"asked", "lists"} => quote.replies = <<>>
  /\ quote.at \in {"lists", "tries"} => quote.known \in Estimateds /\ quote.wanted \in Graded
  /\ quote.at = "tries" => /\ InOrder(quote.known, quote.ranked)
                           /\ quote.mismatch <=> GivesUpYear(quote.known)
                           /\ Len(quote.replies) < Len(quote.ranked)

QuotesInv == QuotesTypeOK /\ QuoteIs /\ BestPriced

LEMMA LesserIs ==
  ASSUME NEW a \in Nat, NEW b \in Nat
  PROVE  Min({a, b}) = IF a <= b THEN a ELSE b
<1>1. PICK m \in {a, b} : m = IF a <= b THEN a ELSE b
  OBVIOUS
<1>2. \A x \in {a, b} : m <= x
  BY <1>1
<1>3. \A y \in {a, b} : (\A x \in {a, b} : y <= x) => y = m
  BY <1>1, <1>2
<1>4. Min({a, b}) = CHOOSE x \in {a, b} : \A y \in {a, b} : x <= y
  BY DEF Min
<1>5. QED BY <1>1, <1>2, <1>3, <1>4

\* The likelier issue comes before the other.
LEMMA LikelierFirst ==
  ASSUME QuotesTypeOK, NEW k, NEW m \in DOMAIN listing, NEW n \in DOMAIN listing
  PROVE  Unlike(k, m) \in Nat /\ (Likelier(m, n) => Unlike(k, m) < Unlike(k, n))
<1>1. PICK M \in SUBSET Traits, N \in SUBSET Traits : M = listing[m].agrees /\ N = listing[n].agrees
  <2>1. listing[m] \in IssuesOf /\ listing[n] \in IssuesOf
    BY DEF QuotesTypeOK
  <2>2. QED BY <2>1 DEF IssuesOf
<1>2. PICK a \in {0, 1}, b \in {0, 1} :
        /\ a = IF listing[m].nd = k.nd THEN 0 ELSE 1
        /\ b = IF listing[n].nd = k.nd THEN 0 ELSE 1
  OBVIOUS
<1>3. Unlike(k, m) = 8 * (IF "mint" \in M THEN 0 ELSE 1) + 4 * (IF "replacement" \in M THEN 0 ELSE 1)
                     + 2 * (IF "text" \in M THEN 0 ELSE 1) + a
  BY <1>1, <1>2 DEF Unlike
<1>4. Unlike(k, n) = 8 * (IF "mint" \in N THEN 0 ELSE 1) + 4 * (IF "replacement" \in N THEN 0 ELSE 1)
                     + 2 * (IF "text" \in N THEN 0 ELSE 1) + b
  BY <1>1, <1>2 DEF Unlike
<1>5. ASSUME Likelier(m, n) PROVE Unlike(k, m) < Unlike(k, n)
  <2>1. PICK j \in 1 .. 3 :
          /\ Weightiest[j] \in M \ N
          /\ \A h \in 1 .. (j - 1) : Weightiest[h] \in M <=> Weightiest[h] \in N
    BY <1>1, <1>5 DEF Likelier, Weightiest
  <2>2. CASE j = 1
    <3>1. "mint" \in M /\ "mint" \notin N
      BY <2>1, <2>2 DEF Weightiest
    <3>2. QED BY <1>3, <1>4, <3>1
  <2>3. CASE j = 2
    <3>1. "replacement" \in M /\ "replacement" \notin N /\ ("mint" \in M <=> "mint" \in N)
      BY <2>1, <2>3 DEF Weightiest
    <3>2. QED BY <1>3, <1>4, <3>1
  <2>4. CASE j = 3
    <3>1. "text" \in M /\ "text" \notin N /\ ("mint" \in M <=> "mint" \in N)
          /\ ("replacement" \in M <=> "replacement" \in N)
      BY <2>1, <2>4 DEF Weightiest
    <3>2. QED BY <1>3, <1>4, <3>1
  <2>5. QED BY <2>2, <2>3, <2>4
<1>6. QED BY <1>3, <1>5

\* Every issue there is to ask for stands at its place, behind those better.
LEMMA AskedInOrder ==
  ASSUME QuotesTypeOK, NEW k, NEW S, S = Askable(k)
  PROVE  /\ IsFiniteSet(S) /\ Cardinality(S) \in Nat /\ S \subseteq DOMAIN listing /\ S \in SUBSET Nat
         /\ \A n \in S : Place(k, n) \in 1 .. Cardinality(S)
         /\ \A m, n \in S : Place(k, m) = Place(k, n) => m = n
         /\ \A m, n \in S : Better(k, m, n) => Place(k, m) < Place(k, n)
         /\ \A r \in 1 .. Cardinality(S) : \E n \in S : Place(k, n) = r
<1>1. PICK L \in Nat : L = Len(listing) /\ DOMAIN listing = 1 .. L
  BY DEF QuotesTypeOK
<1>2. S \subseteq 1 .. L
  <2>1. Pooled(k) \subseteq 1 .. L
    BY <1>1 DEF Pooled, OfYear, UndatedIssues
  <2>2. QED BY <2>1 DEF Askable
<1>3. IsFiniteSet(S)
  <2>1. IsFiniteSet(1 .. L)
    BY <1>1, FS_Interval
  <2>2. QED BY <1>2, <2>1, FS_Subset
<1>4. \A n \in S : Unlike(k, n) \in Nat /\ n \in Nat
  BY <1>1, <1>2, LikelierFirst
<1>5. PICK before : before = [n \in S |-> {m \in S : m = n \/ Better(k, m, n)}]
  OBVIOUS
<1>6. before \in [S -> SUBSET S] /\ \A m, n \in S : m \in before[n] <=> m = n \/ Better(k, m, n)
  BY <1>5
<1>7. ASSUME NEW m \in S, NEW n \in S, Better(k, m, n)
      PROVE  m # n /\ ~Better(k, n, m) /\ \A h \in S : Better(k, h, m) => Better(k, h, n)
  BY <1>4, <1>7 DEF Better
<1>8. ASSUME NEW m \in S, NEW n \in S, Better(k, m, n)
      PROVE  before[m] \subseteq before[n] /\ n \notin before[m]
  <2>1. n \notin before[m]
    BY <1>6, <1>7, <1>8
  <2>2. ASSUME NEW h \in before[m] PROVE h \in before[n]
    <3>1. h \in S
      BY <1>6
    <3>2. h = m \/ Better(k, h, m)
      BY <1>6, <3>1
    <3>3. QED BY <1>6, <1>7, <1>8, <3>1, <3>2
  <2>3. QED BY <2>1, <2>2
<1>9. \A m, n \in S : m # n => Better(k, m, n) \/ Better(k, n, m)
  BY <1>4 DEF Better
<1>10. Lined(S, before)
  BY <1>3, <1>6, <1>8, <1>9 DEF Lined
<1>11. Numbered(S, before)
  BY <1>10, PlacesAre
<1>12. \A n \in S : Place(k, n) = Cardinality(before[n])
  BY <1>5 DEF Place
<1>13. \A m, n \in S : Better(k, m, n) => m \in before[n] /\ m # n
  BY <1>6, <1>7
<1>14. S \subseteq DOMAIN listing /\ S \in SUBSET Nat
  BY <1>1, <1>2
<1>15. QED BY <1>3, <1>11, <1>12, <1>13, <1>14 DEF Numbered

LEMMA CandidatesAre ==
  ASSUME QuotesTypeOK, NEW k, NEW c, c = Candidates(k)
  PROVE  InOrder(k, c)
<1>1. PICK S : S = Askable(k)
  OBVIOUS
<1>2. PICK C \in Nat : /\ C = Cardinality(S) /\ S \in SUBSET Nat
                       /\ \A n \in S : Place(k, n) \in 1 .. C
                       /\ \A m, n \in S : Place(k, m) = Place(k, n) => m = n
                       /\ \A m, n \in S : Better(k, m, n) => Place(k, m) < Place(k, n)
                       /\ \A r \in 1 .. C : \E n \in S : Place(k, n) = r
  BY <1>1, AskedInOrder
<1>3. PICK M \in 0 .. C : M = Min({MaxCandidates, C})
  BY <1>2, LesserIs, QuotesAssumption
<1>4. c = [t \in 1 .. M |-> CHOOSE n \in S : Place(k, n) = t]
  BY <1>1, <1>2, <1>3 DEF Candidates
<1>5. ASSUME NEW t \in 1 .. M PROVE c[t] \in S /\ Place(k, c[t]) = t
  <2>1. \E n \in S : Place(k, n) = t
    BY <1>2, <1>3
  <2>2. QED BY <1>4, <2>1
<1>6. c \in Seq(Nat) /\ Len(c) = M
  <2>1. c \in [1 .. M -> Nat]
    BY <1>2, <1>4, <1>5
  <2>2. QED BY <1>4, <2>1
<1>7. ASSUME NEW t \in 1 .. M, NEW n \in S, Better(k, n, c[t])
      PROVE  \E s \in 1 .. (t - 1) : c[s] = n
  <2>1. PICK s : s = Place(k, n)
    OBVIOUS
  <2>2. s \in 1 .. C /\ s < t
    BY <1>2, <1>5, <1>7, <2>1
  <2>3. s \in 1 .. (t - 1) /\ s \in 1 .. M
    BY <1>3, <2>2
  <2>4. c[s] = n
    BY <1>2, <1>5, <2>1, <2>3
  <2>5. QED BY <2>3, <2>4
<1>8. QED BY <1>1, <1>5, <1>6, <1>7 DEF InOrder

\* The bucket used: no other is nearer, nor as near and lower.
LEMMA ResolvedIs ==
  ASSUME NEW priced \in SUBSET Graded, priced # {}, NEW wanted \in Graded, NEW r, r = Resolved(priced, wanted)
  PROVE  /\ r \in priced
         /\ \A h \in priced : Apart(r, wanted) < Apart(h, wanted)
                              \/ (Apart(r, wanted) = Apart(h, wanted) /\ r <= h)
<1>1. \A g \in Graded : g \in Nat
  BY QuotesAssumption DEF Graded
<1>2. PICK cost : cost = [g \in Graded |-> IF g < wanted THEN 2 * (wanted - g) ELSE 2 * (g - wanted) + 1]
  OBVIOUS
<1>3. \A g \in Graded : cost[g] \in Nat
  BY <1>1, <1>2
<1>4. PICK T : T = {cost[g] : g \in priced}
  OBVIOUS
<1>5. T \in SUBSET Nat /\ T # {}
  BY <1>3, <1>4
<1>6. PICK g \in priced : \A h \in priced : cost[g] <= cost[h]
  <2>1. PICK x \in T : \A y \in T : x <= y
    BY <1>5, Least
  <2>2. QED BY <1>4, <2>1
<1>7. ASSUME NEW h \in priced
      PROVE  Apart(g, wanted) < Apart(h, wanted) \/ (Apart(g, wanted) = Apart(h, wanted) /\ g <= h)
  <2>1. g \in Nat /\ h \in Nat /\ wanted \in Nat
    BY <1>1
  <2>2. cost[g] <= cost[h]
    BY <1>6
  <2>3. /\ cost[g] = IF g < wanted THEN 2 * (wanted - g) ELSE 2 * (g - wanted) + 1
        /\ cost[h] = IF h < wanted THEN 2 * (wanted - h) ELSE 2 * (h - wanted) + 1
    BY <1>2
  <2>4. QED BY <2>1, <2>2, <2>3 DEF Apart
<1>8. QED BY <1>7 DEF Resolved

\* The issues Numista lists stay while an estimate is made.
LEMMA SameIssues ==
  ASSUME listing' = listing, NEW k
  PROVE  /\ Askable(k)' = Askable(k) /\ (GivesUpYear(k)' <=> GivesUpYear(k))
         /\ \A m, n : Better(k, m, n)' <=> Better(k, m, n)
<1>1. \A n : Unlike(k, n)' = Unlike(k, n)
  BY DEF Unlike
<1>2. Pooled(k)' = Pooled(k) /\ OfYear(k)' = OfYear(k) /\ UndatedIssues' = UndatedIssues
  BY DEF Pooled, OfYear, UndatedIssues
<1>3. QED BY <1>1, <1>2 DEF Askable, GivesUpYear, Better

LEMMA InOrderStays ==
  ASSUME listing' = listing, NEW k, NEW c
  PROVE  InOrder(k, c)' <=> InOrder(k, c)
  BY SameIssues DEF InOrder

LEMMA BestStays ==
  ASSUME BestPriced, UNCHANGED <<quoted, listing, sold>>
  PROVE  BestPriced'
  BY DEF BestPriced, Likelier

LEMMA NoQuoteMade == NoQuote \in Quotations /\ [NoQuote EXCEPT !.at = "done"] \in Quotations
<1>1. <<>> \in Seq(Nat) /\ <<>> \in Seq(SUBSET Nat) /\ 0 \in Certs /\ <<>> \in Estimateds \union {<<>>}
  BY DEF Certs
<1>2. NoQuote \in Quotations
  BY <1>1 DEF NoQuote, Quotations
<1>3. QED BY <1>2 DEF Quotations

\* What came of it is recorded, and the source has nothing more to do.
LEMMA DoneIs ==
  ASSUME NEW outcome, EndsAs(outcome)
  PROVE  quote' \in Quotations /\ QuoteIs'
<1>1. quote' \in Quotations /\ quote'.at = "done"
  BY NoQuoteMade DEF EndsAs, NoQuote
<1>2. QED BY <1>1 DEF QuoteIs

LEMMA FruitlessKeeps ==
  ASSUME QuotesInv, NEW outcome, Fruitless(outcome)
  PROVE  QuotesInv'
  BY DoneIs, BestStays DEF QuotesInv, QuotesTypeOK, Fruitless

LEMMA MakesKeeps ==
  ASSUME QuotesInv, NEW e, Makes(e), estimated' \in Estimateds, BestPriced'
  PROVE  QuotesInv'
  BY DoneIs DEF QuotesInv, QuotesTypeOK, Makes

LEMMA StartsKeeps ==
  ASSUME QuotesInv, StartsQuote
  PROVE  QuotesInv'
<1>1. estimated \in Estimateds /\ estimated.grade \in Nat /\ estimated.grade \in Graded /\ estimated.cert \in Certs
  BY QuotesAssumption DEF QuotesInv, QuotesTypeOK, Estimateds, Graded
<1>2. PICK old : old = quote /\ old \in Quotations /\ old.at = "asked" /\ old.replies = <<>>
  BY DEF QuotesInv, QuotesTypeOK, QuoteIs, StartsQuote
<1>3. PICK new : new = [old EXCEPT !.at = "lists", !.known = estimated, !.wanted = estimated.grade,
                                   !.cert = estimated.cert]
  OBVIOUS
<1>4. /\ new \in Quotations /\ new.at = "lists" /\ new.known = estimated
      /\ new.wanted = estimated.grade /\ new.replies = <<>>
  BY <1>1, <1>2, <1>3 DEF Quotations
<1>5. quote' = new /\ UNCHANGED <<estimated, listing, sold, quoted>>
  BY <1>2, <1>3 DEF StartsQuote
<1>6. QuoteIs' /\ QuotesTypeOK'
  BY <1>1, <1>4, <1>5 DEF QuotesInv, QuotesTypeOK, QuoteIs
<1>7. QED BY <1>5, <1>6, BestStays DEF QuotesInv

\* The piece as it is known, before the request or after it.
LEMMA ListsKeeps ==
  ASSUME QuotesInv, NEW known \in ReadsAgain, ListsIssues(known)
  PROVE  QuotesInv'
<1>1. CASE Candidates(known) = <<>>
  BY <1>1, FruitlessKeeps DEF ListsIssues
<1>2. CASE Candidates(known) # <<>>
  <2>1. known \in Estimateds
    BY DEF QuotesInv, QuotesTypeOK, QuoteIs, ReadsAgain, ListsIssues
  <2>2. PICK c : c = Candidates(known) /\ InOrder(known, c)
    BY CandidatesAre DEF QuotesInv
  <2>3. PICK b \in BOOLEAN : b <=> GivesUpYear(known)
    OBVIOUS
  <2>4. PICK old : /\ old = quote /\ old \in Quotations /\ old.at = "lists" /\ old.replies = <<>>
                   /\ old.wanted \in Graded
    BY DEF QuotesInv, QuotesTypeOK, QuoteIs, ListsIssues
  <2>5. PICK new : new = [old EXCEPT !.at = "tries", !.known = known, !.ranked = c, !.mismatch = b]
    OBVIOUS
  <2>6. c \in Seq(Nat) /\ Len(c) > 0
    BY <1>2, <2>2 DEF InOrder
  <2>7. /\ new \in Quotations /\ new.at = "tries" /\ new.known = known /\ new.ranked = c
        /\ new.mismatch = b /\ new.replies = <<>> /\ new.wanted = old.wanted
    BY <2>1, <2>3, <2>4, <2>5, <2>6 DEF Quotations
  <2>8. GivesUpYear(known) = b
    BY <2>3 DEF GivesUpYear
  <2>9. quote' = new /\ UNCHANGED <<estimated, listing, sold, quoted>>
    BY <1>2, <2>2, <2>4, <2>5, <2>8 DEF ListsIssues
  <2>10. InOrder(known, c)' /\ (GivesUpYear(known)' <=> b)
    BY <2>2, <2>3, <2>9, InOrderStays, SameIssues
  <2>11. QuotesTypeOK'
    BY <2>7, <2>9 DEF QuotesInv, QuotesTypeOK
  <2>12. QuoteIs'
    BY <2>1, <2>4, <2>6, <2>7, <2>9, <2>10 DEF QuoteIs
  <2>13. QED BY <2>9, <2>11, <2>12, BestStays DEF QuotesInv
<1>3. QED BY <1>1, <1>2

\* The first candidate with a price: every likelier issue came before it.
LEMMA ChosenIsBest ==
  ASSUME QuotesInv, NEW k, NEW c, InOrder(k, c), NEW t \in 1 .. Len(c), NEW chosen, chosen = c[t],
         NEW n \in DOMAIN listing, listing[n].named, Likelier(n, chosen),
         listing[n].year = k.year
           \/ (listing[chosen].year # k.year /\ (listing[n].year = k.year \/ (k.nd /\ listing[n].nd)))
  PROVE  \E s \in 1 .. (t - 1) : c[s] = n
<1>1. chosen \in Askable(k)
  BY DEF InOrder
<1>2. chosen \in Pooled(k) /\ chosen \in DOMAIN listing
  BY <1>1 DEF Askable, Pooled, OfYear, UndatedIssues, QuotesInv, QuotesTypeOK
<1>3. n \in Pooled(k)
  <2>1. CASE listing[n].year = k.year
    BY <2>1 DEF Pooled, OfYear
  <2>2. CASE listing[n].year # k.year
    <3>1. OfYear(k) = {}
      BY <1>2, <2>2 DEF Pooled, OfYear
    <3>2. n \in UndatedIssues /\ k.nd
      BY <2>2 DEF UndatedIssues
    <3>3. QED BY <3>1, <3>2 DEF Pooled
  <2>3. QED BY <2>1, <2>2
<1>4. n \in Askable(k)
  BY <1>3 DEF Askable
<1>5. Better(k, n, chosen)
  BY <1>2, LikelierFirst DEF Better, QuotesInv
<1>6. QED BY <1>4, <1>5 DEF InOrder

\* Another year only for the one issue of its type.
LEMMA MismatchIs ==
  ASSUME QuotesInv, NEW k, NEW chosen \in Pooled(k)
  PROVE  /\ GivesUpYear(k) <=> ~(listing[chosen].year = k.year \/ (k.nd /\ listing[chosen].nd))
         /\ GivesUpYear(k) => Len(listing) = 1
<1>1. DOMAIN listing = 1 .. Len(listing)
  BY DEF QuotesInv, QuotesTypeOK
<1>2. CASE OfYear(k) # {}
  BY <1>2 DEF Pooled, GivesUpYear, OfYear
<1>3. CASE OfYear(k) = {} /\ k.nd /\ UndatedIssues # {}
  BY <1>3 DEF Pooled, GivesUpYear, UndatedIssues
<1>4. CASE OfYear(k) = {} /\ ~(k.nd /\ UndatedIssues # {})
  <2>1. Len(listing) = 1 /\ chosen = 1
    BY <1>4 DEF Pooled
  <2>2. listing[1].year # k.year /\ ~(k.nd /\ listing[1].nd)
    BY <1>1, <1>4, <2>1 DEF OfYear, UndatedIssues
  <2>3. GivesUpYear(k)
    BY <1>4 DEF GivesUpYear
  <2>4. QED BY <2>1, <2>2, <2>3
<1>5. QED BY <1>2, <1>3, <1>4

LEMMA TriesKeeps ==
  ASSUME QuotesInv, NEW priced \in SUBSET Graded, TriesIssue(priced)
  PROVE  QuotesInv'
<1>1. PICK q : /\ q = quote /\ q \in Quotations /\ q.at = "tries" /\ q.known \in Estimateds /\ q.wanted \in Graded
               /\ InOrder(q.known, q.ranked) /\ (q.mismatch <=> GivesUpYear(q.known))
               /\ Len(q.replies) < Len(q.ranked)
  BY DEF QuotesInv, QuotesTypeOK, QuoteIs, TriesIssue
<1>2. PICK t \in 1 .. Len(q.ranked) : t = Tried
  <2>1. q.replies \in Seq(SUBSET Nat) /\ q.ranked \in Seq(Nat)
    BY <1>1 DEF Quotations
  <2>2. QED BY <1>1, <2>1 DEF Tried
<1>3. CASE priced # {}
  <2>1. PICK chosen : chosen = q.ranked[t] /\ chosen \in Pooled(q.known)
    BY <1>1, <1>2 DEF InOrder, Askable
  <2>2. PICK r : /\ r = Resolved(priced, q.wanted) /\ r \in priced
                 /\ \A h \in priced : Apart(r, q.wanted) < Apart(h, q.wanted)
                                      \/ (Apart(r, q.wanted) = Apart(h, q.wanted) /\ r <= h)
    <3>1. PICK w \in Graded : w = q.wanted
      BY <1>1
    <3>2. PICK r : r = Resolved(priced, w)
      OBVIOUS
    <3>3. /\ r \in priced
          /\ \A h \in priced : Apart(r, w) < Apart(h, w) \/ (Apart(r, w) = Apart(h, w) /\ r <= h)
      BY <1>3, <3>2, ResolvedIs
    <3>4. QED BY <3>1, <3>2, <3>3
  <2>3. PICK asked : asked = {q.ranked[j] : j \in 1 .. (t - 1)}
    OBVIOUS
  <2>4. PICK e : e = [is |-> "numista", of |-> q.known, issue |-> chosen, tried |-> asked, priced |-> priced,
                      wanted |-> q.wanted, used |-> r, mismatch |-> q.mismatch]
    OBVIOUS
  <2>5. Makes(e) /\ UNCHANGED <<estimated, listing, sold>> /\ quoted' = e
    BY <1>1, <1>2, <1>3, <2>1, <2>2, <2>3, <2>4 DEF TriesIssue, Makes
  <2>6. /\ e.is = "numista" /\ e.of = q.known /\ e.issue = chosen /\ e.tried = asked /\ e.priced = priced
        /\ e.wanted = q.wanted /\ e.used = r /\ e.mismatch = q.mismatch
    BY <2>4
  <2>7. ASSUME NEW n \in DOMAIN listing, listing[n].named, Likelier(n, chosen),
               listing[n].year = q.known.year
                 \/ (listing[chosen].year # q.known.year
                     /\ (listing[n].year = q.known.year \/ (q.known.nd /\ listing[n].nd)))
        PROVE  n \in asked
    <3>1. PICK s \in 1 .. (t - 1) : q.ranked[s] = n
      BY <1>1, <2>1, <2>7, ChosenIsBest
    <3>2. QED BY <2>3, <3>1
  <2>8. /\ q.mismatch <=> ~(listing[chosen].year = q.known.year \/ (q.known.nd /\ listing[chosen].nd))
        /\ q.mismatch => Len(listing) = 1
    BY <1>1, <2>1, MismatchIs
  <2>9. ASSUME NEW g \in priced
        PROVE  /\ Apart(g, q.wanted) >= Apart(r, q.wanted)
               /\ r > q.wanted => g >= r \/ Apart(g, q.wanted) > Apart(r, q.wanted)
    <3>1. r \in priced /\ (\/ Apart(r, q.wanted) < Apart(g, q.wanted)
                           \/ (Apart(r, q.wanted) = Apart(g, q.wanted) /\ r <= g))
      BY <2>2
    <3>2. r \in Nat /\ g \in Nat /\ q.wanted \in Nat
      BY <1>1, <3>1, QuotesAssumption DEF Graded
    <3>3. Apart(r, q.wanted) \in Nat /\ Apart(g, q.wanted) \in Nat
      BY <3>2 DEF Apart
    <3>4. QED BY <3>1, <3>2, <3>3
  <2>10. BestPriced'
    BY <2>5, <2>6, <2>7, <2>8, <2>9 DEF BestPriced, Likelier
  <2>11. QED BY <2>5, <2>10, MakesKeeps DEF QuotesInv, QuotesTypeOK
<1>4. CASE priced = {} /\ t = Len(q.ranked)
  BY <1>1, <1>2, <1>4, FruitlessKeeps DEF TriesIssue
<1>5. CASE priced = {} /\ t # Len(q.ranked)
  <2>1. PICK new : new = [q EXCEPT !.replies = Append(q.replies, priced)]
    OBVIOUS
  <2>2. q.replies \in Seq(SUBSET Nat) /\ q.ranked \in Seq(Nat) /\ t = Len(q.replies) + 1
    BY <1>1, <1>2 DEF Quotations, Tried
  <2>3. Append(q.replies, priced) \in Seq(SUBSET Nat) /\ Len(Append(q.replies, priced)) = t
    BY <1>5, <2>2
  <2>4. /\ new \in Quotations /\ new.at = "tries" /\ new.known = q.known /\ new.wanted = q.wanted
        /\ new.ranked = q.ranked /\ new.mismatch = q.mismatch /\ Len(new.replies) = t
    BY <1>1, <2>1, <2>3 DEF Quotations
  <2>5. quote' = new /\ UNCHANGED <<estimated, listing, sold, quoted>>
    BY <1>1, <1>2, <1>5, <2>1 DEF TriesIssue
  <2>6. t < Len(q.ranked)
    BY <1>5, <2>2
  <2>7. InOrder(q.known, q.ranked)' /\ (GivesUpYear(q.known)' <=> q.mismatch)
    BY <1>1, <2>5, InOrderStays, SameIssues
  <2>8. QuotesTypeOK'
    BY <2>4, <2>5 DEF QuotesInv, QuotesTypeOK
  <2>9. QuoteIs'
    BY <1>1, <2>4, <2>5, <2>6, <2>7 DEF QuoteIs
  <2>10. QED BY <2>5, <2>8, <2>9, BestStays DEF QuotesInv
<1>6. QED BY <1>3, <1>4, <1>5

\* Sales of another age stand in only where those of late are too few.
LEMMA SalesAre ==
  ASSUME QuotesTypeOK
  PROVE  /\ LateLots = (IF sold.late <= SalesWindow THEN sold.late ELSE SalesWindow)
         /\ LateLots \in Nat /\ LateLots <= SalesWindow /\ OtherLots \in Nat /\ OtherLots <= SalesWindow
         /\ LateLots = 0 => sold.late = 0
<1>1. LateLots = (IF sold.late <= SalesWindow THEN sold.late ELSE SalesWindow)
  BY LesserIs, QuotesAssumption DEF LateLots, QuotesTypeOK
<1>2. PICK room \in Nat : room = SalesWindow - LateLots /\ room <= SalesWindow
  BY <1>1, QuotesAssumption DEF QuotesTypeOK
<1>3. PICK old \in Nat : old = Min({sold.old, room}) /\ old <= room
  BY LesserIs DEF QuotesTypeOK
<1>4. PICK rest \in Nat : rest = room - old
  BY <1>3
<1>5. PICK undated \in Nat : undated = Min({sold.undated, rest}) /\ undated <= rest
  BY LesserIs DEF QuotesTypeOK
<1>6. OtherLots = old + undated
  BY <1>2, <1>3, <1>4, <1>5 DEF OtherLots
<1>7. OtherLots \in Nat /\ OtherLots <= SalesWindow
  BY <1>2, <1>3, <1>4, <1>5, <1>6, QuotesAssumption
<1>8. QED BY <1>1, <1>7, QuotesAssumption DEF QuotesTypeOK

LEMMA PcgsKeeps ==
  ASSUME QuotesInv, NEW population \in BOOLEAN, PcgsAnswers(population)
  PROVE  QuotesInv'
<1>1. CASE Basis = "none"
  BY <1>1, FruitlessKeeps DEF PcgsAnswers
<1>2. CASE Basis # "none"
  <2>1. PICK lots : lots = IF Basis = "apr" THEN LateLots ELSE IF Basis = "guide" THEN 0 ELSE OtherLots
    OBVIOUS
  <2>2. PICK e : e = [is |-> "pcgs", basis |-> Basis, lots |-> lots]
    OBVIOUS
  <2>3. Makes(e) /\ sold' = sold /\ quoted' = e
    BY <1>2, <2>1, <2>2 DEF PcgsAnswers, Makes
  <2>4. lots <= SalesWindow
    BY <2>1, SalesAre, QuotesAssumption DEF QuotesInv
  <2>5. /\ Basis # "apr" => sold.late = 0
        /\ Basis = "apr_old" => ~sold.guide
    <3>1. /\ Basis # "apr" => ~(LateLots > 0)
          /\ Basis = "apr_old" => ~sold.guide
      BY DEF Basis
    <3>2. QED BY <3>1, SalesAre DEF QuotesInv
  <2>6. BestPriced'
    BY <2>2, <2>3, <2>4, <2>5 DEF BestPriced
  <2>7. estimated' \in Estimateds
    <3>1. quote.cert \in Certs /\ estimated \in Estimateds
      BY DEF QuotesInv, QuotesTypeOK, Quotations
    <3>2. estimated' = IF population THEN [estimated EXCEPT !.population = quote.cert] ELSE estimated
      BY <1>2 DEF PcgsAnswers
    <3>3. QED BY <3>1, <3>2 DEF Estimateds
  <2>8. QED BY <2>3, <2>6, <2>7, MakesKeeps
<1>3. QED BY <1>1, <1>2

LEMMA ComparesKeeps ==
  ASSUME QuotesInv, NEW converted, Compares(converted)
  PROVE  QuotesInv'
<1>1. CASE converted = 0
  BY <1>1, FruitlessKeeps DEF Compares
<1>2. CASE converted # 0
  <2>1. PICK basis : basis = IF Widened THEN "older" ELSE "late"
    OBVIOUS
  <2>2. PICK e : e = [is |-> "comps", basis |-> basis, lots |-> converted]
    OBVIOUS
  <2>3. Makes(e) /\ UNCHANGED <<estimated, sold>> /\ quoted' = e
    BY <1>2, <2>1, <2>2 DEF Compares, Makes
  <2>4. basis = "older" => sold.late < MinRecent
    BY <2>1 DEF Widened
  <2>5. BestPriced'
    BY <2>2, <2>3, <2>4 DEF BestPriced
  <2>6. QED BY <2>3, <2>5, MakesKeeps DEF QuotesInv, QuotesTypeOK
<1>3. QED BY <1>1, <1>2

\* The piece is edited beside the requests; what was read of it stays read.
LEMMA RevisesKeeps ==
  ASSUME QuotesInv, NEW to \in Revised, Revises(to)
  PROVE  QuotesInv'
<1>1. to \in Estimateds
  <2>1. PICK k : k = estimated /\ k \in Estimateds
    BY DEF QuotesInv, QuotesTypeOK
  <2>2. \/ \E c \in Certs : to = [k EXCEPT !.cert = c]
        \/ \E y \in {0, 1} : to = [k EXCEPT !.year = y]
        \/ \E b \in BOOLEAN : to = [k EXCEPT !.nd = b]
        \/ \E g \in Graded : to = [k EXCEPT !.grade = g]
    <3>1. 1 - k.year \in {0, 1} /\ (~k.nd) \in BOOLEAN
      BY <2>1 DEF Estimateds
    <3>2. QED BY <2>1, <3>1 DEF Revised
  <2>3. QED BY <2>1, <2>2 DEF Estimateds
<1>2. UNCHANGED <<listing, sold, quote, quoted>> /\ estimated' = to
  BY DEF Revises
<1>3. QuotesTypeOK'
  BY <1>1, <1>2 DEF QuotesInv, QuotesTypeOK
<1>4. QuoteIs'
  BY <1>2, InOrderStays, SameIssues DEF QuotesInv, QuoteIs
<1>5. QED BY <1>2, <1>3, <1>4, BestStays DEF QuotesInv

LEMMA QuotesStart == QuotesInit => QuotesInv
<1>1. SUFFICES ASSUME QuotesInit PROVE QuotesInv
  OBVIOUS
<1>2. estimated \in Estimateds
  <2>1. 0 \in Certs
    BY DEF Certs
  <2>2. QED BY <1>1, <2>1 DEF QuotesInit, Estimateds
<1>3. listing \in Seq(IssuesOf)
  <2>1. CASE quoteFrom # "numista"
    BY <1>1, <2>1 DEF QuotesInit
  <2>2. CASE quoteFrom = "numista"
    <3>1. listing \in UNION {[1 .. m -> IssueKinds] : m \in 0 .. MaxIssues}
      BY <1>1, <2>2 DEF QuotesInit, SeqOf
    <3>2. PICK m \in 0 .. MaxIssues : listing \in [1 .. m -> IssueKinds]
      BY <3>1, Zenon
    <3>3. m \in Nat /\ IssueKinds \subseteq IssuesOf
      BY QuotesAssumption DEF IssuesOf, Traits
    <3>4. listing \in [1 .. m -> IssuesOf]
      BY <3>2, <3>3
    <3>5. QED BY <3>3, <3>4
  <2>3. QED BY <2>1, <2>2
<1>4. sold.late \in Nat /\ sold.old \in Nat /\ sold.undated \in Nat
  <2>1. CASE quoteFrom = "numista"
    BY <1>1, <2>1 DEF QuotesInit, NoSales
  <2>2. CASE quoteFrom # "numista"
    <3>1. PICK others : others = IF quoteFrom = "pcgs" THEN 0 .. MaxSold ELSE {0}
      OBVIOUS
    <3>2. sold \in [late : 0 .. MaxSold, old : 0 .. MaxSold, guide : BOOLEAN, undated : others]
      BY <1>1, <2>2, <3>1 DEF QuotesInit
    <3>3. sold.late \in 0 .. MaxSold /\ sold.old \in 0 .. MaxSold /\ sold.undated \in others
      BY <3>2
    <3>4. MaxSold \in Nat
      BY QuotesAssumption
    <3>5. sold.undated \in Nat
      <4>1. CASE quoteFrom = "pcgs"
        BY <3>1, <3>3, <3>4, <4>1
      <4>2. CASE quoteFrom # "pcgs"
        BY <3>1, <3>3, <4>2
      <4>3. QED BY <4>1, <4>2
    <3>6. QED BY <3>3, <3>4, <3>5
  <2>3. QED BY <2>1, <2>2
<1>5. quote \in Quotations /\ quote.at = "asked" /\ quote.replies = <<>>
  BY <1>1, NoQuoteMade DEF QuotesInit, NoQuote
<1>6. BestPriced
  BY <1>1 DEF QuotesInit, NoEstimateYet, BestPriced
<1>7. QED BY <1>2, <1>3, <1>4, <1>5, <1>6 DEF QuotesInv, QuotesTypeOK, QuoteIs

LEMMA QuotesStep ==
  ASSUME QuotesInv, [QuotesNext]_quotes
  PROVE  QuotesInv'
<1>1. CASE LacksForNumista \/ LacksForPcgs \/ LacksSales \/ Unavailable \/ NoSuch
  BY <1>1, FruitlessKeeps DEF LacksForNumista, LacksForPcgs, LacksSales, Unavailable, NoSuch
<1>2. CASE UNCHANGED quotes
  <2>1. UNCHANGED <<listing, estimated, quote, sold, quoted>>
    BY <1>2 DEF quotes
  <2>2. QuotesTypeOK' /\ QuoteIs'
    BY <2>1, InOrderStays, SameIssues DEF QuotesInv, QuotesTypeOK, QuoteIs
  <2>3. QED BY <2>1, <2>2, BestStays DEF QuotesInv
<1>3. ASSUME NEW n, Compares(n) PROVE QuotesInv'
  BY <1>3, ComparesKeeps
<1>4. QED BY <1>1, <1>2, <1>3, StartsKeeps, ListsKeeps, TriesKeeps, PcgsKeeps, RevisesKeeps DEF QuotesNext

\* An estimate rests on the best there was, whatever the issues, prices, sales
\* and edits: every likelier issue was asked for and had no price, no priced
\* bucket is nearer, and another year or older sales stand in only where there
\* is nothing else (numista.numista_estimate, pcgs_estimate, comps_estimate).
THEOREM EstimatesAreBest == QuotesSpec => []BestPriced
<1>1. QuotesInv => BestPriced
  BY DEF QuotesInv
<1>2. QED BY <1>1, QuotesStart, QuotesStep, PTL DEF QuotesSpec

-----------------------------------------------------------------------------
(* The layout of the dashboard.                                            *)

\* A layout is as PUT answered it, under a release that had all of it.
LayoutsInv ==
  /\ release \in [WidgetTypes -> Offers] /\ answer.under \in [WidgetTypes -> Offers]
  /\ layout \in Seq(Widgets) /\ answer.said = layout
  /\ Len(layout) <= MaxWidgets
  /\ \A m, n \in DOMAIN layout : layout[m].id = layout[n].id => m = n
  /\ \A n \in DOMAIN layout : layout[n].option \in answer.under[layout[n].type].choices

LEMMA OfferIs ==
  ASSUME NEW o \in Offers
  PROVE  /\ o.choices \subseteq OptionValues /\ Missing \notin o.choices
         /\ o.choices # {} => o.default \in o.choices
  BY LayoutsAssumption DEF Offers, Missing

\* Of the known widgets each has its place among them.
LEMMA NthStayingIs ==
  ASSUME layout \in Seq(Widgets)
  PROVE  /\ Cardinality(Staying) \in Nat /\ Cardinality(Staying) <= Len(layout)
         /\ \A n \in 1 .. Cardinality(Staying) : NthStaying(n) \in Staying
         /\ \A m, n \in 1 .. Cardinality(Staying) : NthStaying(m) = NthStaying(n) => m = n
         /\ Staying = DOMAIN layout => /\ Cardinality(Staying) = Len(layout)
                                       /\ \A n \in 1 .. Len(layout) : NthStaying(n) = n
<1>1. PICK L \in Nat : L = Len(layout) /\ DOMAIN layout = 1 .. L
  OBVIOUS
<1>2. PICK S \in SUBSET (1 .. L) : S = Staying
  BY <1>1 DEF Staying
<1>3. PICK before : before = [m \in S |-> {k \in S : k <= m}]
  OBVIOUS
<1>4. PICK C \in Nat : C = Cardinality(S) /\ C <= L /\ Numbered(S, before)
  BY <1>3, NthIs
<1>5. \A n : NthStaying(n) = CHOOSE m \in S : Cardinality({k \in S : k <= m}) = n
  BY <1>2 DEF NthStaying
<1>6. \A m \in S : before[m] = {k \in S : k <= m}
  BY <1>3
<1>7. ASSUME NEW n \in 1 .. C
      PROVE  NthStaying(n) \in S /\ Cardinality(before[NthStaying(n)]) = n
  <2>1. \E m \in S : Cardinality({k \in S : k <= m}) = n
    BY <1>4, <1>6 DEF Numbered
  <2>2. NthStaying(n) \in S /\ Cardinality({k \in S : k <= NthStaying(n)}) = n
    BY <1>5, <2>1
  <2>3. QED BY <1>6, <2>2
<1>8. ASSUME S = 1 .. L
      PROVE  C = L /\ \A n \in 1 .. L : NthStaying(n) = n
  <2>1. C = L
    BY <1>4, <1>8, FS_Interval
  <2>2. ASSUME NEW n \in 1 .. L PROVE NthStaying(n) = n
    <3>1. before[n] = 1 .. n
      <4>1. before[n] = {k \in 1 .. L : k <= n}
        BY <1>6, <1>8
      <4>2. {k \in 1 .. L : k <= n} = 1 .. n
        OBVIOUS
      <4>3. QED BY <4>1, <4>2
    <3>2. Cardinality(1 .. n) = n
      BY FS_Interval
    <3>3. n \in S /\ NthStaying(n) \in S /\ Cardinality(before[NthStaying(n)]) = Cardinality(before[n])
      BY <1>7, <1>8, <2>1, <3>1, <3>2
    <3>4. QED BY <1>4, <3>3 DEF Numbered
  <2>3. QED BY <2>1, <2>2
<1>9. QED BY <1>1, <1>2, <1>4, <1>7, <1>8

LEMMA LayoutsStart == LayoutsInit => LayoutsInv
  BY LayoutsAssumption DEF LayoutsInit, LayoutsInv, NothingSaved

\* What PUT stores has no option missing.
LEMMA CompletedIs ==
  ASSUME release \in [WidgetTypes -> Offers], NEW w \in Widgets, Right(w)
  PROVE  /\ Completed(w) \in Widgets /\ Completed(w).id = w.id /\ Completed(w).type = w.type
         /\ Completed(w).option \in release[w.type].choices
<1>1. PICK o \in Offers : o = release[w.type]
  BY DEF Widgets
<1>2. /\ o.choices \subseteq OptionValues /\ Missing \notin o.choices /\ o.default \in o.choices
      /\ w.option \in o.choices \union {Missing}
  BY <1>1, OfferIs DEF Right, Has
<1>3. CASE w.option = Missing
  BY <1>1, <1>2, <1>3 DEF Completed, Widgets
<1>4. CASE w.option # Missing
  BY <1>1, <1>2, <1>4 DEF Completed
<1>5. QED BY <1>3, <1>4

\* What is read of a stored widget can be stored as it stands.
LEMMA NormalizedIs ==
  ASSUME release \in [WidgetTypes -> Offers], NEW w \in Widgets, Has(w.type), w.option # Missing
  PROVE  /\ Normalized(w) \in Widgets /\ Normalized(w).id = w.id /\ Normalized(w).type = w.type
         /\ Normalized(w).option \in release[w.type].choices /\ Right(Normalized(w))
         /\ Completed(Normalized(w)) = Normalized(w)
         /\ Right(w) => Normalized(w) = w
<1>1. PICK o \in Offers : o = release[w.type]
  BY DEF Widgets
<1>2. /\ o.choices \subseteq OptionValues /\ Missing \notin o.choices /\ o.default \in o.choices
  BY <1>1, OfferIs DEF Has
<1>3. PICK v : v = Normalized(w)
  OBVIOUS
<1>4. v \in Widgets /\ v.id = w.id /\ v.type = w.type /\ v.option \in o.choices /\ (Right(w) => v = w)
  <2>1. CASE Right(w)
    BY <1>1, <1>2, <1>3, <2>1 DEF Normalized, Completed, Right
  <2>2. CASE ~Right(w)
    BY <1>1, <1>2, <1>3, <2>2 DEF Normalized, Widgets
  <2>3. QED BY <2>1, <2>2
<1>5. Right(v) /\ Completed(v) = v
  BY <1>1, <1>2, <1>4 DEF Right, Has, Completed
<1>6. QED BY <1>1, <1>3, <1>4, <1>5

LEMMA PutKeeps ==
  ASSUME LayoutsInv, NEW ws \in BoundedSeq(Widgets, MaxWidgets), PutLayout(ws)
  PROVE  LayoutsInv'
<1>1. ws \in Seq(Widgets) /\ Len(ws) <= MaxWidgets
  BY LayoutsAssumption DEF BoundedSeq, SeqOf
<1>2. PICK new : new = [n \in DOMAIN ws |-> Completed(ws[n])]
  OBVIOUS
<1>3. layout' = new /\ answer' = [said |-> new, under |-> release] /\ release' = release
  BY <1>2 DEF PutLayout
<1>4. ASSUME NEW n \in DOMAIN ws
      PROVE  /\ new[n] \in Widgets /\ new[n].id = ws[n].id
             /\ new[n].option \in release[new[n].type].choices
  BY <1>1, <1>2, CompletedIs DEF PutLayout, Accepted, LayoutsInv
<1>5. new \in Seq(Widgets) /\ DOMAIN new = DOMAIN ws /\ Len(new) = Len(ws)
  <2>1. PICK L \in Nat : L = Len(ws) /\ DOMAIN ws = 1 .. L
    BY <1>1
  <2>2. new \in [1 .. L -> Widgets]
    BY <1>2, <1>4, <2>1
  <2>3. QED BY <2>1, <2>2
<1>6. \A m, n \in DOMAIN new : new[m].id = new[n].id => m = n
  BY <1>4, <1>5 DEF PutLayout, Accepted
<1>7. QED BY <1>1, <1>3, <1>4, <1>5, <1>6 DEF LayoutsInv

LEMMA LayoutsStep == LayoutsInv /\ [LayoutsNext]_layouts => LayoutsInv'
<1> SUFFICES ASSUME LayoutsInv, [LayoutsNext]_layouts PROVE LayoutsInv'
  OBVIOUS
<1>1. CASE ResetLayout
  BY <1>1, LayoutsAssumption DEF ResetLayout, LayoutsInv, NothingSaved
<1>2. CASE NewRelease
  BY <1>2 DEF NewRelease, LayoutsInv
<1>3. CASE UNCHANGED layouts
  BY <1>3 DEF layouts, LayoutsInv
<1>4. QED BY <1>1, <1>2, <1>3, PutKeeps DEF LayoutsNext

LEMMA StoredGoesBack == LayoutsInv => PutBack
<1> SUFFICES ASSUME LayoutsInv PROVE PutBack
  OBVIOUS
<1>1. PICK C \in Nat : C = Cardinality(Staying) /\ C <= Len(layout)
  BY NthStayingIs DEF LayoutsInv
<1>2. DOMAIN Got = 1 .. C /\ Len(Got) = C /\ \A n \in 1 .. C : Got[n] = Normalized(layout[NthStaying(n)])
  BY <1>1 DEF Got
<1>3. ASSUME NEW m \in DOMAIN layout
      PROVE  layout[m] \in Widgets /\ layout[m].option # Missing
  <2>1. layout[m] \in Widgets
    BY <1>3 DEF LayoutsInv
  <2>2. answer.under[layout[m].type] \in Offers
    BY <2>1 DEF LayoutsInv, Widgets
  <2>3. QED BY <2>1, <2>2, OfferIs DEF LayoutsInv
<1>4. ASSUME NEW n \in 1 .. C
      PROVE  /\ NthStaying(n) \in DOMAIN layout /\ Got[n].id = layout[NthStaying(n)].id
             /\ Right(Got[n]) /\ Completed(Got[n]) = Got[n]
             /\ Right(layout[NthStaying(n)]) => Got[n] = layout[NthStaying(n)]
  <2>1. NthStaying(n) \in DOMAIN layout /\ Has(layout[NthStaying(n)].type)
    BY <1>1, NthStayingIs DEF LayoutsInv, Staying
  <2>2. QED BY <1>2, <1>3, <2>1, NormalizedIs DEF LayoutsInv
<1>5. \A m, n \in 1 .. C : Got[m].id = Got[n].id => m = n
  BY <1>1, <1>4, NthStayingIs DEF LayoutsInv
<1>6. Accepted(Got)
  BY <1>1, <1>2, <1>4, <1>5, LayoutsAssumption DEF LayoutsInv, Accepted
<1>7. ASSUME release = answer.under PROVE Got = layout
  <2>1. \A m \in DOMAIN layout : Right(layout[m])
    BY <1>7 DEF LayoutsInv, Right, Has
  <2>2. Staying = DOMAIN layout
    BY <2>1 DEF Staying, Right
  <2>3. PICK L \in Nat : L = Len(layout) /\ DOMAIN layout = 1 .. L
    BY DEF LayoutsInv
  <2>4. C = L /\ \A n \in 1 .. L : NthStaying(n) = n
    BY <1>1, <2>2, <2>3, NthStayingIs DEF LayoutsInv
  <2>5. \A n \in 1 .. L : Got[n] = layout[n]
    BY <1>4, <2>1, <2>4
  <2>6. Got = [n \in 1 .. L |-> Got[n]]
    BY <1>1, <2>4 DEF Got
  <2>7. layout = [n \in 1 .. L |-> layout[n]]
    BY <2>3 DEF LayoutsInv
  <2>8. QED BY <2>5, <2>6, <2>7
<1>8. QED BY <1>2, <1>4, <1>6, <1>7 DEF PutBack, LayoutsInv

\* What GET answers, PUT takes, and under the release it was stored in it is what
\* PUT answered, for any releases in any order, any widgets and any limit
\* (dashboard.normalize_for_read, validate_widgets).
THEOREM LayoutsGoBack == LayoutsSpec => []PutBack
  BY LayoutsStart, LayoutsStep, StoredGoesBack, PTL DEF LayoutsSpec

-----------------------------------------------------------------------------
(* The services together.                                                  *)

\* Whatever else Services lets happen, a part takes its own steps only.
LEMMA PartsKeepTheirSpecs ==
  Spec => /\ ArchivesSpec /\ KeyFileSpec /\ SecretsSpec
          /\ PricesSpec /\ ReportsSpec /\ AlertsSpec /\ CachesSpec /\ RecordsSpec
          /\ ProvidersSpec /\ LayoutsSpec /\ QuotesSpec
<1>1. Init => /\ ArchivesInit /\ KeyFileInit /\ SecretsInit
              /\ PricesInit /\ ReportsInit /\ AlertsInit /\ CachesInit /\ RecordsInit
              /\ ProvidersInit /\ LayoutsInit /\ QuotesInit
  BY DEF Init
<1>2. [Next]_services => [ArchivesNext]_archives
  BY DEF Next, services
<1>3. [Next]_services => [KeyFileNext]_keyfile
  BY DEF Next, services
<1>4. [Next]_services => [SecretsNext]_secrets
  BY DEF Next, services
<1>5. [Next]_services => [PricesNext]_prices
  BY DEF Next, services
<1>6. [Next]_services => [ReportsNext]_reports
  BY DEF Next, services
<1>7. [Next]_services => [AlertsNext]_alerts
  BY DEF Next, services
<1>8. [Next]_services => [CachesNext]_caches
  BY DEF Next, services
<1>9. [Next]_services => [RecordsNext]_records
  BY DEF Next, services
<1>10. [Next]_services => [ProvidersNext]_providers
  BY DEF Next, services
<1>11. [Next]_services => [LayoutsNext]_layouts
  BY DEF Next, services
<1>12. [Next]_services => [QuotesNext]_quotes
  BY DEF Next, services
<1>13. QED BY <1>1, <1>2, <1>3, <1>4, <1>5, <1>6, <1>7, <1>8, <1>9, <1>10, <1>11, <1>12, PTL
       DEF Spec, ArchivesSpec, KeyFileSpec, SecretsSpec, PricesSpec, ReportsSpec, AlertsSpec, CachesSpec,
           RecordsSpec, ProvidersSpec, LayoutsSpec, QuotesSpec

\* What is proved of each holds of the services together: restores load what
\* was asked for, an archive key stays but for what a rotation met, a piece has
\* one value on every page, an estimate rests on the best there was, no answer
\* is older than it says, an identity stays linked at the issuer that vouched, a
\* layout is taken back as it was given, and what must stay or come in turn
\* does: numbers typed, the audit log, alerts.  (The secrets' two theorems have
\* assumptions of their own.)
THEOREM ServicesAreKept ==
  Spec => /\ [](/\ AskedFor /\ PlainAtWork /\ KeyKept /\ SameChoice /\ AsOf /\ PutBack
                /\ BestPriced /\ LinkedAtIssuer)
          /\ NotBuried /\ InTurn /\ KeptEvidence
  BY PartsKeepTheirSpecs, LoadedWasAskedFor, StagingIsAtWork, KeysAreKept, NumbersAreNotBuried,
     ChoiceIsSame, EstimatesAreBest, AlertsAreInTurn, AnswersAreAsOf, EvidenceIsKept, LinkedStaysAtIssuer,
     LayoutsGoBack, PTL
=============================================================================
