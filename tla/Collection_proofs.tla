-------------------------- MODULE Collection_proofs --------------------------
(***************************************************************************)
(* The parts of Collection, for any pieces, files, requests and bounds,    *)
(* each by an invariant of its own that its steps preserve: an import      *)
(* makes one item of a row and leaves none out, and what is derived of a   *)
(* piece stays in step with it, and its photos in order, but for requests  *)
(* that overlapped; a photo's row names a file that is there.              *)
(***************************************************************************)
EXTENDS Collection, FiniteSetTheorems, TLAPS

-----------------------------------------------------------------------------
(* Imports: what is kept has a key that a file of its source has had, at    *)
(* most one item of each, and what an import went past has its item here,   *)
(* or was reported or purged meanwhile.                                     *)

FileRows == {<<>>} \union RowSeqs
Imps == [at : {"idle", "rows", "photos"}, rows : FileRows, from : SUBSET Uploads, row : Nat,
         already : SUBSET (1 .. MaxRows), failed : SUBSET (1 .. MaxRows), purged : SUBSET Keys, open : BOOLEAN]

ImportsTypeOK ==
  /\ source \in Sources /\ own \subseteq Contents /\ staged \in [Uploads -> FileRows]
  /\ kept \in [Keys -> Nat] /\ import \in [Importers -> Imps] /\ imports \in Nat
  /\ most \in [Contents -> Nat]

\* How many keys of a content there can be.
Most(c) == IF source = "spreadsheet" THEN most[c] ELSE 1

KeptIsKnown ==
  \A k \in Keys : kept[k] = 0 \/ (kept[k] = 1 /\ k[2] <= Most(k[1]) /\ k[1] \notin own)

WithinMost(rows) == \A c \in Contents : Count(rows, c) <= most[c]

\* A row's item is here, or was purged.
Arrived(s, n) == kept[KeyOf(s.rows, n)] > 0 \/ s.rows[n] \in own \/ KeyOf(s.rows, n) \in s.purged

ImportIs(s) ==
  s.at # "idle" =>
    /\ WithinMost(s.rows)
    /\ \A n \in DOMAIN s.rows : s.rows[n] \in own => n \in s.already
    /\ \A n \in DOMAIN s.rows : n \in s.already => Arrived(s, n)
    /\ \A n \in DOMAIN s.rows : n < s.row => Arrived(s, n) \/ n \in s.failed

ImportsInv ==
  /\ ImportsTypeOK /\ KeptIsKnown
  /\ \A u \in Uploads : WithinMost(staged[u])
  /\ \A w \in Importers : ImportIs(import[w])

-----------------------------------------------------------------------------
LEMMA RowsAre ==
  ASSUME NEW rows \in FileRows
  PROVE  /\ DOMAIN rows \subseteq 1 .. MaxRows /\ IsFiniteSet(DOMAIN rows)
         /\ \A n \in DOMAIN rows : rows[n] \in Contents /\ 1 .. n \subseteq DOMAIN rows
         /\ Len(rows) \in Nat /\ DOMAIN rows = 1 .. Len(rows)
<1>1. CASE rows = <<>>
  BY <1>1, FS_EmptySet
<1>2. CASE rows \in RowSeqs
  <2>1. PICK S \in {[1 .. n -> Contents] : n \in 1 .. MaxRows} : rows \in S
    BY <1>2 DEF RowSeqs
  <2>2. PICK n \in 1 .. MaxRows : S = [1 .. n -> Contents]
    BY <2>1
  <2>3. rows \in [1 .. n -> Contents] /\ DOMAIN rows = 1 .. n
    BY <2>1, <2>2
  <2>4. n \in Nat /\ IsFiniteSet(1 .. n)
    BY <2>2, FS_Interval, ImportsAssumption
  <2>5. rows \in Seq(Contents) /\ Len(rows) = n
    BY <2>3, <2>4
  <2>6. QED BY <2>2, <2>3, <2>4, <2>5, ImportsAssumption
<1>3. QED BY <1>1, <1>2 DEF FileRows

LEMMA CountIs ==
  ASSUME NEW rows \in FileRows, NEW c
  PROVE  Count(rows, c) \in Nat
<1>1. {m \in DOMAIN rows : rows[m] = c} \subseteq DOMAIN rows /\ IsFiniteSet(DOMAIN rows)
  BY RowsAre
<1>2. QED BY <1>1, FS_Subset, FS_CardinalityType DEF Count

LEMMA OrdinalIs ==
  ASSUME NEW rows \in FileRows, NEW n \in DOMAIN rows
  PROVE  /\ Ordinal(rows, n) \in 1 .. MaxRows /\ Ordinal(rows, n) <= Count(rows, rows[n])
<1>1. PICK S : S = {m \in 1 .. n : rows[m] = rows[n]}
  OBVIOUS
<1>2. PICK T : T = {m \in DOMAIN rows : rows[m] = rows[n]}
  OBVIOUS
<1>3. n \in 1 .. MaxRows /\ 1 .. n \subseteq DOMAIN rows /\ IsFiniteSet(DOMAIN rows) /\ MaxRows \in Nat
  BY RowsAre, ImportsAssumption
<1>4. n \in Nat /\ n <= MaxRows /\ n \in S /\ S \subseteq T /\ S \subseteq 1 .. n
  BY <1>1, <1>2, <1>3
<1>5. IsFiniteSet(1 .. n) /\ Cardinality(1 .. n) = n
  BY <1>3, <1>4, FS_Interval
<1>6. IsFiniteSet(T) /\ IsFiniteSet(S) /\ Cardinality(S) <= Cardinality(T) /\ Cardinality(S) <= n
  BY <1>2, <1>3, <1>4, <1>5, FS_Subset
<1>7. Cardinality(S) \in Nat /\ Cardinality(S) # 0
  BY <1>4, <1>6, FS_CardinalityType, FS_EmptySet
<1>8. QED BY <1>1, <1>2, <1>3, <1>4, <1>6, <1>7 DEF Ordinal, Count

LEMMA KeyIs ==
  ASSUME NEW rows \in FileRows, NEW n \in DOMAIN rows, WithinMost(rows), most \in [Contents -> Nat]
  PROVE  /\ KeyOf(rows, n) \in Keys /\ KeyOf(rows, n)[1] = rows[n] /\ KeyOf(rows, n)[2] <= Most(rows[n])
<1>1. rows[n] \in Contents /\ n \in 1 .. MaxRows
  BY RowsAre
<1>2. 1 \in 1 .. MaxRows
  BY <1>1, ImportsAssumption
<1>3. PICK o : o = IF source = "spreadsheet" THEN Ordinal(rows, n) ELSE 1
  OBVIOUS
<1>4. o \in 1 .. MaxRows /\ o <= Most(rows[n])
  <2>1. Ordinal(rows, n) <= most[rows[n]]
    BY <1>1, OrdinalIs, CountIs, ImportsAssumption DEF WithinMost
  <2>2. QED BY <1>2, <1>3, <2>1, OrdinalIs DEF Most
<1>5. KeyOf(rows, n) = <<rows[n], o>>
  BY <1>3 DEF KeyOf
<1>6. QED BY <1>1, <1>4, <1>5 DEF Keys

LEMMA ImpIs ==
  ASSUME ImportsInv, NEW w \in Importers
  PROVE  /\ import[w] \in Imps /\ ImportIs(import[w]) /\ import[w].rows \in FileRows /\ import[w].row \in Nat
         /\ import[w].at \in {"idle", "rows", "photos"} /\ import[w].purged \subseteq Keys
<1>1. import[w] \in Imps /\ ImportIs(import[w])
  BY DEF ImportsInv, ImportsTypeOK
<1>2. QED BY <1>1 DEF Imps

LEMMA RestIs == Rest \in Imps /\ Rest.at = "idle" /\ Rest.row = 0
<1>1. <<>> \in FileRows
  BY DEF FileRows
<1>2. QED BY <1>1 DEF Rest, Imps

LEMMA ImportsStart == ImportsInit => ImportsInv
<1> SUFFICES ASSUME ImportsInit PROVE ImportsInv
  OBVIOUS
<1>1. ImportsTypeOK
  <2>1. own \subseteq Contents
    BY DEF ImportsInit
  <2>2. QED BY <2>1, RestIs DEF ImportsInit, ImportsTypeOK, FileRows, NoFile
<1>2. KeptIsKnown
  BY DEF ImportsInit, KeptIsKnown
<1>3. WithinMost(<<>>)
  <2>1. \A c : {m \in DOMAIN <<>> : <<>>[m] = c} = {}
    OBVIOUS
  <2>2. QED BY <2>1, FS_EmptySet DEF WithinMost, Count, ImportsInit
<1>4. \A u \in Uploads : staged[u] = <<>>
  BY DEF ImportsInit, NoFile
<1>5. \A w \in Importers : import[w] = Rest
  BY DEF ImportsInit
<1>6. QED BY <1>1, <1>2, <1>3, <1>4, <1>5, RestIs DEF ImportsInv, ImportIs

\* What an import knows, while what arrived stays known.
LEMMA ImportStays ==
  ASSUME ImportsTypeOK, NEW s, NEW t, t.rows = s.rows, t.already = s.already, t.failed = s.failed, t.row = s.row,
         t.at # "idle" => s.at # "idle", s.rows \in FileRows, ImportIs(s), own' \subseteq own,
         \A c \in Contents : most'[c] \in Nat /\ most[c] <= most'[c],
         t.at # "idle" => \A n \in DOMAIN s.rows : Arrived(s, n) => Arrived(t, n)'
  PROVE  ImportIs(t)'
<1>1. ASSUME t.at # "idle" PROVE WithinMost(t.rows)'
  <2>1. \A c \in Contents : Count(s.rows, c) <= most[c] /\ Count(s.rows, c) \in Nat /\ most[c] \in Nat
    BY <1>1, CountIs DEF ImportIs, WithinMost, ImportsTypeOK
  <2>2. QED BY <2>1 DEF WithinMost
<1>2. QED BY <1>1 DEF ImportIs

\* A step of one import, of which the others see that an item is kept.
LEMMA ImportMoves ==
  ASSUME ImportsInv, NEW w \in Importers, NEW s \in Imps, import' = [import EXCEPT ![w] = s], ImportIs(s)',
         UNCHANGED <<source, staged, own, most>>, KeptIsKnown', kept' \in [Keys -> Nat], imports' \in Nat,
         \A k \in Keys : kept[k] > 0 => kept'[k] > 0
  PROVE  ImportsInv'
<1>1. /\ import' \in [Importers -> Imps] /\ import'[w] = s
      /\ \A v \in Importers : v # w => import'[v] = import[v]
  BY DEF ImportsInv, ImportsTypeOK
<1>2. ImportsTypeOK'
  BY <1>1 DEF ImportsInv, ImportsTypeOK
<1>3. ASSUME NEW v \in Importers PROVE ImportIs(import[v])'
  <2>1. CASE v = w
    BY <1>1, <2>1
  <2>2. CASE v # w
    <3>1. PICK t : t = import[v]
      OBVIOUS
    <3>2. import'[v] = t /\ ImportIs(t) /\ t.rows \in FileRows
      BY <1>1, <2>2, <3>1, ImpIs
    <3>3. ASSUME t.at # "idle", NEW n \in DOMAIN t.rows, Arrived(t, n) PROVE Arrived(t, n)'
      <4>1. KeyOf(t.rows, n) \in Keys
        BY <3>2, <3>3, KeyIs DEF ImportsInv, ImportsTypeOK, ImportIs
      <4>2. KeyOf(t.rows, n)' = KeyOf(t.rows, n)
        BY DEF KeyOf
      <4>3. QED BY <3>3, <4>1, <4>2 DEF Arrived
    <3>4. \A c \in Contents : most'[c] \in Nat /\ most[c] <= most'[c]
      BY DEF ImportsInv, ImportsTypeOK
    <3>5. ImportIs(t)'
      BY <3>2, <3>3, <3>4, ImportStays DEF ImportsInv
    <3>6. QED BY <3>1, <3>2, <3>5
  <2>3. QED BY <2>1, <2>2
<1>4. QED BY <1>2, <1>3 DEF ImportsInv, WithinMost

LEMMA EndsImportKeeps ==
  ASSUME ImportsInv, NEW w \in Importers, import' = [import EXCEPT ![w] = Rest],
         UNCHANGED <<source, staged, kept, own, imports, most>>
  PROVE  ImportsInv'
<1>1. ImportIs(Rest)'
  BY RestIs DEF ImportIs
<1>2. KeptIsKnown' /\ kept' \in [Keys -> Nat] /\ imports' \in Nat
  BY DEF ImportsInv, ImportsTypeOK, KeptIsKnown, Most
<1>3. QED BY <1>1, <1>2, RestIs, ImportMoves

LEMMA PrepareKeeps ==
  ASSUME ImportsInv, NEW w \in Importers, NEW u \in Uploads, Prepare(w, u)
  PROVE  ImportsInv'
<1>1. PICK rows : rows = staged[u]
  OBVIOUS
<1>2. PICK s : s = [Rest EXCEPT !.at = "rows", !.rows = staged[u], !.from = {u}, !.row = 1, !.already = Already(staged[u])]
  OBVIOUS
<1>3. rows \in FileRows /\ WithinMost(rows) /\ Already(rows) \subseteq DOMAIN rows
  BY <1>1 DEF ImportsInv, ImportsTypeOK, Already
<1>4. Already(rows) \subseteq 1 .. MaxRows
  BY <1>3, RowsAre
<1>5. s \in Imps /\ s.rows = rows /\ s.row = 1 /\ s.already = Already(rows)
  BY <1>1, <1>2, <1>3, <1>4, RestIs DEF Rest, Imps
<1>6. import' = [import EXCEPT ![w] = s] /\ UNCHANGED <<source, staged, kept, own, most>> /\ imports' = imports + 1
  BY <1>2 DEF Prepare
<1>7. \A n \in DOMAIN rows : ~(n < 1)
  BY <1>3, RowsAre, ImportsAssumption
<1>8. ImportIs(s)
  BY <1>3, <1>5, <1>7 DEF ImportIs, Arrived, Already
<1>9. ImportIs(s)'
  BY <1>6, <1>8 DEF ImportIs, WithinMost, Arrived, KeyOf
<1>10. KeptIsKnown' /\ kept' \in [Keys -> Nat] /\ imports' \in Nat
  BY <1>6 DEF ImportsInv, ImportsTypeOK, KeptIsKnown, Most
<1>11. QED BY <1>5, <1>6, <1>9, <1>10, ImportMoves

\* An import goes past a row, or to the photos of one and back.
LEMMA PastKeeps ==
  ASSUME ImportsInv, NEW w \in Importers, NEW s \in Imps, import' = [import EXCEPT ![w] = s],
         import[w].at # "idle", s.rows = import[w].rows, s.already = import[w].already, s.purged = import[w].purged,
         import[w].failed \subseteq s.failed,
         s.row = import[w].row \/ (s.row = import[w].row + 1 /\ (import[w].row \in DOMAIN s.rows =>
                                     import[w].row \in s.already \/ import[w].row \in s.failed)),
         UNCHANGED <<source, staged, kept, own, imports, most>>
  PROVE  ImportsInv'
<1>1. ImportIs(import[w]) /\ import[w].row \in Nat /\ s.rows \in FileRows
  BY ImpIs
<1>2. \A n \in DOMAIN s.rows : n \in Nat
  BY <1>1, RowsAre, ImportsAssumption
<1>3. \A n : Arrived(s, n) <=> Arrived(import[w], n)
  BY DEF Arrived
<1>4. ImportIs(s)
  BY <1>1, <1>2, <1>3 DEF ImportIs
<1>5. ImportIs(s)'
  BY <1>4 DEF ImportIs, WithinMost, Arrived, KeyOf
<1>6. KeptIsKnown' /\ kept' \in [Keys -> Nat] /\ imports' \in Nat
  BY DEF ImportsInv, ImportsTypeOK, KeptIsKnown, Most
<1>7. QED BY <1>5, <1>6, ImportMoves

LEMMA SkipKeeps ==
  ASSUME ImportsInv, NEW w \in Importers, Skip(w)
  PROVE  ImportsInv'
<1>1. PICK s : s = [import[w] EXCEPT !.row = @ + 1]
  OBVIOUS
<1>2. /\ s \in Imps /\ s.rows = import[w].rows /\ s.already = import[w].already /\ s.purged = import[w].purged
      /\ s.failed = import[w].failed /\ s.row = import[w].row + 1
  BY <1>1, ImpIs DEF Imps
<1>3. import' = [import EXCEPT ![w] = s]
  BY <1>1 DEF Skip
<1>4. QED BY <1>2, <1>3, PastKeeps DEF Skip, Row

LEMMA RowFailsKeeps ==
  ASSUME ImportsInv, NEW w \in Importers, RowFails(w)
  PROVE  ImportsInv'
<1>1. PICK s : s = [import[w] EXCEPT !.row = @ + 1, !.failed = @ \union {import[w].row}]
  OBVIOUS
<1>2. import[w].row \in 1 .. MaxRows
  BY ImpIs, RowsAre DEF RowFails, NewRow, Row
<1>3. /\ s \in Imps /\ s.rows = import[w].rows /\ s.already = import[w].already /\ s.purged = import[w].purged
      /\ s.failed = import[w].failed \union {import[w].row} /\ s.row = import[w].row + 1
  <2>1. PICK failed \in SUBSET (1 .. MaxRows) : failed = import[w].failed \union {import[w].row}
    BY <1>2, ImpIs DEF Imps
  <2>2. PICK next \in Nat : next = import[w].row + 1
    BY ImpIs
  <2>3. s = [import[w] EXCEPT !.row = next, !.failed = failed]
    BY <1>1, <2>1, <2>2
  <2>4. QED BY <2>1, <2>2, <2>3, ImpIs DEF Imps
<1>4. import' = [import EXCEPT ![w] = s]
  BY <1>1 DEF RowFails
<1>5. QED BY <1>3, <1>4, PastKeeps DEF RowFails, NewRow, Row

LEMMA PhotosKeeps ==
  ASSUME ImportsInv, NEW w \in Importers, Photos(w) \/ NoPhotos(w)
  PROVE  ImportsInv'
<1>1. PICK s : import' = [import EXCEPT ![w] = s] /\
        (s = [import[w] EXCEPT !.at = "rows", !.open = TRUE] \/ s = [import[w] EXCEPT !.at = "rows"])
  BY DEF Photos, NoPhotos
<1>2. /\ s \in Imps /\ s.rows = import[w].rows /\ s.already = import[w].already /\ s.purged = import[w].purged
      /\ s.failed = import[w].failed /\ s.row = import[w].row
  BY <1>1, ImpIs DEF Imps
<1>3. QED BY <1>1, <1>2, PastKeeps DEF Photos, NoPhotos

\* An item is made of a row: the only one of its key, and of none here.
LEMMA InsertKeeps ==
  ASSUME ImportsInv, NEW w \in Importers, Insert(w)
  PROVE  ImportsInv'
<1>1. PICK s : s = [import[w] EXCEPT !.at = IF source = "opennumismat" THEN "photos" ELSE "rows", !.row = @ + 1]
  OBVIOUS
<1>2. PICK rows : rows = import[w].rows
  OBVIOUS
<1>3. PICK n : n = import[w].row
  OBVIOUS
<1>4. PICK k : k = KeyOf(rows, n)
  OBVIOUS
<1>5. n \in DOMAIN rows /\ import[w].at = "rows" /\ n \notin import[w].already /\ kept[k] = 0
      /\ rows \in FileRows /\ n \in Nat /\ ImportIs(import[w])
  <2>1. ~(kept[k] > 0)
    BY <1>2, <1>3, <1>4 DEF Insert, Taken, Here
  <2>2. n \in DOMAIN rows /\ import[w].at = "rows" /\ n \notin import[w].already /\ rows \in FileRows /\ n \in Nat
        /\ ImportIs(import[w])
    BY <1>2, <1>3, ImpIs DEF Insert, NewRow, Row
  <2>3. WithinMost(rows)
    BY <1>2, <2>2 DEF ImportIs
  <2>4. k \in Keys
    BY <1>4, <2>2, <2>3, KeyIs DEF ImportsInv, ImportsTypeOK
  <2>5. QED BY <2>1, <2>2, <2>4 DEF ImportsInv, ImportsTypeOK
<1>6. WithinMost(rows) /\ rows[n] \notin own
  BY <1>2, <1>3, <1>5 DEF ImportIs
<1>7. k \in Keys /\ k[1] = rows[n] /\ k[2] <= Most(k[1])
  BY <1>4, <1>5, <1>6, KeyIs DEF ImportsInv, ImportsTypeOK
<1>8. kept' = [kept EXCEPT ![k] = @ + 1] /\ import' = [import EXCEPT ![w] = s]
      /\ UNCHANGED <<source, staged, own, imports, most>>
  BY <1>1, <1>2, <1>3, <1>4 DEF Insert, Here
<1>9. /\ kept' \in [Keys -> Nat] /\ kept'[k] = 1 /\ \A j \in Keys : j # k => kept'[j] = kept[j]
      /\ \A j \in Keys : kept[j] > 0 => kept'[j] > 0
  <2>1. kept \in [Keys -> Nat]
    BY DEF ImportsInv, ImportsTypeOK
  <2>2. kept' \in [Keys -> Nat] /\ kept'[k] = 1 /\ \A j \in Keys : j # k => kept'[j] = kept[j]
    BY <1>5, <1>7, <1>8, <2>1
  <2>3. QED BY <1>5, <2>2
<1>10. KeptIsKnown'
  BY <1>6, <1>7, <1>8, <1>9 DEF ImportsInv, KeptIsKnown, Most
<1>11. /\ s \in Imps /\ s.rows = rows /\ s.row = n + 1 /\ s.already = import[w].already /\ s.failed = import[w].failed
       /\ s.purged = import[w].purged
  <2>1. PICK next \in Nat : next = import[w].row + 1
    BY ImpIs
  <2>2. PICK at \in {"rows", "photos"} : at = IF source = "opennumismat" THEN "photos" ELSE "rows"
    OBVIOUS
  <2>3. s = [import[w] EXCEPT !.at = at, !.row = next]
    BY <1>1, <2>1, <2>2
  <2>4. QED BY <1>2, <1>3, <2>1, <2>2, <2>3, ImpIs DEF Imps
<1>12. ImportIs(s)'
  <2>1. ASSUME NEW m \in DOMAIN rows, Arrived(import[w], m) \/ m = n PROVE Arrived(s, m)'
    <3>1. KeyOf(rows, m) \in Keys /\ KeyOf(rows, m)' = KeyOf(rows, m)
      BY <1>5, <1>6, <1>8, KeyIs DEF ImportsInv, ImportsTypeOK, KeyOf
    <3>2. CASE m = n
      BY <1>4, <1>9, <1>11, <3>1, <3>2 DEF Arrived
    <3>3. CASE Arrived(import[w], m)
      BY <1>2, <1>8, <1>9, <1>11, <3>1, <3>3 DEF Arrived
    <3>4. QED BY <2>1, <3>2, <3>3
  <2>2. \A m \in DOMAIN rows : m \in Nat
    BY <1>5, RowsAre, ImportsAssumption
  <2>3. WithinMost(rows)'
    BY <1>6, <1>8 DEF WithinMost
  <2>4. \A m \in DOMAIN rows : m < n + 1 => m < n \/ m = n
    BY <1>5, <2>2
  <2>5. QED BY <1>2, <1>3, <1>5, <1>8, <1>11, <2>1, <2>3, <2>4 DEF ImportIs
<1>13. imports' \in Nat
  BY <1>8 DEF ImportsInv, ImportsTypeOK
<1>14. QED BY <1>8, <1>9, <1>10, <1>11, <1>12, <1>13, ImportMoves

\* A file is staged: it may have more of a content than any before it.
LEMMA StageKeeps ==
  ASSUME ImportsInv, NEW u \in Uploads, Stage(u)
  PROVE  ImportsInv'
<1>1. PICK rows \in RowSeqs :
        /\ staged' = [staged EXCEPT ![u] = rows]
        /\ most' = [c \in Contents |-> IF most[c] < Count(rows, c) THEN Count(rows, c) ELSE most[c]]
  BY DEF Stage
<1>2. rows \in FileRows /\ UNCHANGED <<source, kept, own, import, imports>>
  BY DEF FileRows, Stage
<1>3. most \in [Contents -> Nat] /\ \A c \in Contents : Count(rows, c) \in Nat
  BY <1>2, CountIs DEF ImportsInv, ImportsTypeOK
<1>4. /\ most' \in [Contents -> Nat]
      /\ \A c \in Contents : most[c] <= most'[c] /\ Count(rows, c) <= most'[c]
  BY <1>1, <1>3
<1>5. ImportsTypeOK'
  BY <1>1, <1>2, <1>4 DEF ImportsInv, ImportsTypeOK
<1>6. KeptIsKnown'
  <2>1. \A k \in Keys : k[1] \in Contents /\ k[2] \in Nat
    BY ImportsAssumption DEF Keys
  <2>2. \A c \in Contents : Most(c) \in Nat /\ Most(c)' \in Nat /\ Most(c) <= Most(c)'
    BY <1>2, <1>3, <1>4 DEF Most
  <2>3. ASSUME NEW k \in Keys, kept[k] # 0 PROVE k[2] <= Most(k[1])'
    BY <2>1, <2>2, <2>3 DEF ImportsInv, KeptIsKnown
  <2>4. QED BY <1>2, <2>3 DEF ImportsInv, KeptIsKnown
<1>7. ASSUME NEW v \in Uploads PROVE WithinMost(staged[v])'
  <2>1. CASE v = u
    BY <1>1, <1>4, <2>1 DEF ImportsInv, ImportsTypeOK, WithinMost
  <2>2. CASE v # u
    <3>1. staged'[v] = staged[v] /\ staged[v] \in FileRows /\ WithinMost(staged[v])
      BY <1>1, <2>2 DEF ImportsInv, ImportsTypeOK
    <3>2. \A c \in Contents : Count(staged[v], c) \in Nat
      BY <3>1, CountIs
    <3>3. QED BY <1>3, <1>4, <3>1, <3>2 DEF WithinMost
  <2>3. QED BY <2>1, <2>2
<1>8. ASSUME NEW w \in Importers PROVE ImportIs(import[w])'
  <2>1. PICK t : t = import[w]
    OBVIOUS
  <2>2. import'[w] = t /\ ImportIs(t) /\ t.rows \in FileRows
    BY <1>2, <2>1, ImpIs
  <2>3. \A n : Arrived(t, n)' <=> Arrived(t, n)
    BY <1>2 DEF Arrived, KeyOf
  <2>4. ImportIs(t)'
    BY <1>2, <1>4, <2>2, <2>3, ImportStays DEF ImportsInv
  <2>5. QED BY <2>1, <2>2, <2>4
<1>9. QED BY <1>5, <1>6, <1>7, <1>8 DEF ImportsInv

LEMMA DiscardKeeps ==
  ASSUME ImportsInv, NEW u \in Uploads, Discard(u)
  PROVE  ImportsInv'
<1>1. staged' = [staged EXCEPT ![u] = <<>>] /\ UNCHANGED <<source, kept, own, import, imports, most>>
  BY DEF Discard, NoFile
<1>2. ImportsTypeOK' /\ KeptIsKnown'
  BY <1>1 DEF ImportsInv, ImportsTypeOK, FileRows, KeptIsKnown, Most
<1>3. ASSUME NEW c \in Contents PROVE Count(<<>>, c) = 0 /\ most[c] \in Nat
  <2>1. {m \in DOMAIN <<>> : <<>>[m] = c} = {}
    OBVIOUS
  <2>2. QED BY <2>1, FS_EmptySet DEF Count, ImportsInv, ImportsTypeOK
<1>4. \A v \in Uploads : WithinMost(staged[v])'
  BY <1>1, <1>3 DEF ImportsInv, ImportsTypeOK, WithinMost
<1>5. \A w \in Importers : ImportIs(import[w])'
  BY <1>1 DEF ImportsInv, ImportIs, WithinMost, Arrived, KeyOf
<1>6. QED BY <1>2, <1>4, <1>5 DEF ImportsInv

-----------------------------------------------------------------------------
\* A purge is seen by every import at work.
LEMMA PurgesKeep ==
  ASSUME ImportsInv, NEW ks \in SUBSET Keys, Purged(ks), own' \subseteq own, kept' \in [Keys -> Nat],
         \A k \in Keys : kept'[k] <= kept[k] /\ (kept'[k] < kept[k] => k \in ks),
         \A k \in Keys : k[1] \in own \ own' => k \in ks,
         UNCHANGED <<source, staged, imports, most>>
  PROVE  ImportsInv'
<1>1. ASSUME NEW w \in Importers
      PROVE  /\ import'[w] \in Imps /\ import'[w].rows = import[w].rows /\ import'[w].already = import[w].already
             /\ import'[w].failed = import[w].failed /\ import'[w].row = import[w].row /\ import'[w].at = import[w].at
             /\ import'[w].at # "idle" => import'[w].purged = import[w].purged \union ks
  <2>1. CASE import[w].at = "idle"
    BY <2>1, ImpIs DEF Purged
  <2>2. CASE import[w].at # "idle"
    <3>1. PICK s : s = [import[w] EXCEPT !.purged = @ \union ks]
      OBVIOUS
    <3>2. import'[w] = s
      BY <2>2, <3>1 DEF Purged
    <3>3. QED BY <3>1, <3>2, ImpIs DEF Imps
  <2>3. QED BY <2>1, <2>2
<1>2. import' \in [Importers -> Imps]
  <2>1. import' = [w \in Importers |-> import'[w]]
    BY DEF Purged
  <2>2. QED BY <1>1, <2>1
<1>3. ImportsTypeOK'
  BY <1>2 DEF ImportsInv, ImportsTypeOK
<1>4. KeptIsKnown'
  BY DEF ImportsInv, ImportsTypeOK, KeptIsKnown, Most
<1>5. ASSUME NEW w \in Importers PROVE ImportIs(import[w])'
  <2>1. PICK s : s = import[w]
    OBVIOUS
  <2>2. PICK t : t = import'[w]
    OBVIOUS
  <2>3. ImportIs(s) /\ s.rows \in FileRows
    BY <2>1, ImpIs
  <2>4. ASSUME t.at # "idle", NEW n \in DOMAIN s.rows, Arrived(s, n) PROVE Arrived(t, n)'
    <3>1. PICK k : k = KeyOf(s.rows, n)
      OBVIOUS
    <3>2. k \in Keys /\ k[1] = s.rows[n] /\ KeyOf(t.rows, n)' = k
      <4>1. WithinMost(s.rows)
        BY <1>1, <2>1, <2>2, <2>3, <2>4 DEF ImportIs
      <4>2. t.rows = s.rows
        BY <1>1, <2>1, <2>2
      <4>3. k \in Keys /\ k[1] = s.rows[n]
        BY <2>3, <3>1, <4>1, KeyIs DEF ImportsInv, ImportsTypeOK
      <4>4. QED BY <3>1, <4>2, <4>3 DEF KeyOf
    <3>3. t.rows = s.rows /\ t.purged = s.purged \union ks
      BY <1>1, <2>1, <2>2, <2>4
    <3>4. CASE k \in ks
      BY <3>2, <3>3, <3>4 DEF Arrived
    <3>5. CASE k \notin ks
      <4>1. kept'[k] = kept[k] /\ (k[1] \in own => k[1] \in own')
        BY <3>2, <3>5 DEF ImportsInv, ImportsTypeOK
      <4>2. QED BY <2>4, <3>1, <3>2, <3>3, <4>1 DEF Arrived
    <3>6. QED BY <3>4, <3>5
  <2>5. \A c \in Contents : most'[c] \in Nat /\ most[c] <= most'[c]
    BY DEF ImportsInv, ImportsTypeOK
  <2>6. ImportIs(t)'
    <3>1. /\ t.rows = s.rows /\ t.already = s.already /\ t.failed = s.failed /\ t.row = s.row
          /\ t.at # "idle" => s.at # "idle"
      BY <1>1, <2>1, <2>2
    <3>2. QED BY <2>3, <2>4, <2>5, <3>1, ImportStays DEF ImportsInv
  <2>7. QED BY <2>2, <2>6
<1>6. QED BY <1>3, <1>4, <1>5 DEF ImportsInv, WithinMost

LEMMA PurgeImportedKeeps ==
  ASSUME ImportsInv, NEW k \in Keys, PurgeImported(k)
  PROVE  ImportsInv'
<1>1. kept \in [Keys -> Nat] /\ kept[k] > 0 /\ kept' = [kept EXCEPT ![k] = @ - 1]
  BY DEF ImportsInv, ImportsTypeOK, PurgeImported
<1>2. kept' \in [Keys -> Nat] /\ \A j \in Keys : kept'[j] <= kept[j] /\ (kept'[j] < kept[j] => j \in {k})
  BY <1>1
<1>3. QED BY <1>2, PurgesKeep DEF PurgeImported

LEMMA PurgeOwnKeeps ==
  ASSUME ImportsInv, NEW c \in Contents, PurgeOwn(c)
  PROVE  ImportsInv'
<1>1. PICK ks : ks = {k \in Keys : k[1] = c}
  OBVIOUS
<1>2. Purged(ks) /\ own' = own \ {c} /\ UNCHANGED <<source, staged, kept, imports, most>>
  BY <1>1 DEF PurgeOwn
<1>3. kept' \in [Keys -> Nat] /\ \A j \in Keys : kept'[j] <= kept[j] /\ (kept'[j] < kept[j] => j \in ks)
  BY <1>2 DEF ImportsInv, ImportsTypeOK
<1>4. QED BY <1>1, <1>2, <1>3, PurgesKeep

LEMMA ImportsStep == ImportsInv /\ [ImportsNext]_importing => ImportsInv'
<1> SUFFICES ASSUME ImportsInv, [ImportsNext]_importing PROVE ImportsInv'
  OBVIOUS
<1>1. CASE UNCHANGED importing
  BY <1>1 DEF importing, ImportsInv, ImportsTypeOK, KeptIsKnown, Most, WithinMost, ImportIs, Arrived, KeyOf
<1>2. ASSUME NEW u \in Uploads, Stage(u) \/ Discard(u) \/ \E w \in Importers : Prepare(w, u) PROVE ImportsInv'
  BY <1>2, StageKeeps, DiscardKeeps, PrepareKeeps
<1>3. ASSUME NEW w \in Importers,
             Skip(w) \/ RowFails(w) \/ Insert(w) \/ Photos(w) \/ NoPhotos(w) \/ BreaksOff(w) \/ Finish(w)
      PROVE  ImportsInv'
  BY <1>3, SkipKeeps, RowFailsKeeps, InsertKeeps, PhotosKeeps, EndsImportKeeps DEF BreaksOff, Finish
<1>4. QED BY <1>1, <1>2, <1>3, PurgeImportedKeeps, PurgeOwnKeeps DEF ImportsNext

THEOREM ImportsInvHolds == ImportsSpec => []ImportsInv
BY ImportsStart, ImportsStep, PTL DEF ImportsSpec

\* What can be told apart by a number up to n is no more than n.
LEMMA NumberedIs ==
  ASSUME NEW n \in Nat, NEW S, NEW f \in [S -> 1 .. n], \A a, b \in S : f[a] = f[b] => a = b
  PROVE  IsFiniteSet(S) /\ Cardinality(S) <= n
<1>1. PICK I : I = 1 .. n
  OBVIOUS
<1>2. IsFiniteSet(I) /\ Cardinality(I) = n
  BY <1>1, FS_Interval
<1>3. f \in Injection(S, I)
  BY <1>1 DEF Injection, IsInjective
<1>4. QED BY <1>2, <1>3, FS_Injection

\* "Re-importing never duplicates" (importing.py:10).
THEOREM NothingIsImportedTwice == ImportsSpec => []ImportedOnce
<1>1. ImportsInv => ImportedOnce
  <2> SUFFICES ASSUME ImportsInv, NEW c \in Contents
               PROVE  IF c \in own THEN ItemsOf(c) = 0 ELSE ItemsOf(c) <= Most(c)
    BY DEF ImportedOnce, Most
  <2>1. PICK S : S = {i \in Keys \X (1 .. MaxImports * MaxRows) : i[1][1] = c /\ i[2] <= kept[i[1]]}
    OBVIOUS
  <2>2. MaxImports * MaxRows \in Nat
    BY ImportsAssumption
  <2>3. ASSUME NEW i \in S PROVE c \notin own /\ i[1][2] \in 1 .. Most(c) /\ i = <<<<c, i[1][2]>>, 1>>
    <3>1. PICK k \in Keys, m \in 1 .. MaxImports * MaxRows : i = <<k, m>> /\ k[1] = c /\ m <= kept[k]
      BY <2>1, <2>3
    <3>2. kept[k] \in Nat /\ kept[k] # 0
      BY <2>2, <3>1 DEF ImportsInv, ImportsTypeOK
    <3>3. kept[k] = 1 /\ k[2] <= Most(c) /\ c \notin own
      BY <3>1, <3>2 DEF ImportsInv, KeptIsKnown
    <3>4. k = <<c, k[2]>> /\ k[2] \in 1 .. MaxRows
      BY <3>1 DEF Keys
    <3>5. m = 1
      BY <2>2, <3>1, <3>3
    <3>6. Most(c) \in Nat
      BY DEF Most, ImportsInv, ImportsTypeOK
    <3>7. QED BY <3>1, <3>3, <3>4, <3>5, <3>6, ImportsAssumption
  <2>4. CASE c \in own
    <3>1. S = {}
      BY <2>3, <2>4
    <3>2. QED BY <2>1, <2>4, <3>1, FS_EmptySet DEF ItemsOf
  <2>5. CASE c \notin own
    <3>1. PICK n \in Nat : n = Most(c)
      BY DEF Most, ImportsInv, ImportsTypeOK
    <3>2. PICK f : f = [i \in S |-> i[1][2]]
      OBVIOUS
    <3>3. f \in [S -> 1 .. n]
      BY <2>3, <3>1, <3>2
    <3>4. ASSUME NEW i \in S, NEW j \in S, f[i] = f[j] PROVE i = j
      <4>1. i[1][2] = j[1][2] /\ i = <<<<c, i[1][2]>>, 1>> /\ j = <<<<c, j[1][2]>>, 1>>
        BY <2>3, <3>2, <3>4
      <4>2. QED BY <4>1
    <3>5. Cardinality(S) <= n
      BY <3>3, <3>4, NumberedIs
    <3>6. QED BY <2>1, <2>5, <3>1, <3>5 DEF ItemsOf
  <2>6. QED BY <2>4, <2>5
<1>2. QED BY <1>1, ImportsInvHolds, PTL

\* No row is left out of an import that comes to its end (importing.run).
THEOREM NoRowIsLeftOut == ImportsSpec => NothingLeftOut
<1>1. ASSUME ImportsInv, NEW w \in Importers, Finish(w), NEW n \in DOMAIN import[w].rows
      PROVE  LET k == KeyOf(import[w].rows, n) IN
             kept[k] > 0 \/ k[1] \in own \/ n \in import[w].failed \/ k \in import[w].purged
  <2>1. ImportIs(import[w]) /\ import[w].rows \in FileRows /\ import[w].row \in Nat /\ import[w].at = "rows"
    BY <1>1, ImpIs DEF Finish
  <2>2. n < import[w].row
    BY <1>1, <2>1, RowsAre, ImportsAssumption DEF Finish
  <2>3. KeyOf(import[w].rows, n)[1] = import[w].rows[n]
    BY DEF KeyOf
  <2>4. QED BY <1>1, <2>1, <2>2, <2>3 DEF ImportIs, Arrived
<1>2. ImportsInv /\ [ImportsNext]_importing =>
        [\A w \in Importers : Finish(w) =>
           \A n \in DOMAIN import[w].rows :
             LET k == KeyOf(import[w].rows, n) IN
             kept[k] > 0 \/ k[1] \in own \/ n \in import[w].failed \/ k \in import[w].purged]_importing
  BY <1>1
<1>3. QED BY <1>2, ImportsInvHolds, PTL DEF ImportsSpec, NothingLeftOut

-----------------------------------------------------------------------------
(* Items: a request that is not behind on a piece has read it as it is, and *)
(* a spot price and where it is from are always written together.           *)

YesNo == {"no", "yes"}
Spots == {"no", "typed", "found"}
Origins == {"none", "manual", "auto"}
Traits == {"radar", "star"}
ItemRows == [bullion : YesNo, year : YesNo, nd : YesNo, fancy : YesNo, star : YesNo, spot : Spots,
             traits : SUBSET Traits, by : Origins]
SpotIs(r) == /\ r.spot = "no" <=> r.by = "none"
             /\ r.spot = "typed" <=> r.by = "manual"
SoundRows == {r \in ItemRows : SpotIs(r)}

SeenMaps == UNION {[S -> SoundRows] : S \in SUBSET Pieces}
NoPut == [f \in {} |-> "no"]
Edits == [at : {"idle", "commit", "look"}, seen : SeenMaps, put : Payloads \union {NoPut},
          todo : SUBSET Pieces, found : SUBSET Pieces, late : SUBSET Pieces]
EditIs(s) ==
  /\ DOMAIN s.seen \union s.todo \union s.found \subseteq here /\ s.todo \intersect s.found = {}
  /\ s.at = "look" => DOMAIN s.seen = {}

UpToDate(s) ==
  /\ \A p \in DOMAIN s.seen \ s.late : s.seen[p] = row[p]
  /\ \A p \in (s.todo \union s.found) \ s.late : row[p].spot = "no"

ItemsInv ==
  /\ here \subseteq Pieces /\ row \in [Pieces -> SoundRows]
  /\ edit \in [Editors -> Edits] /\ asked \in Nat
  /\ \A e \in Editors : EditIs(edit[e]) /\ UpToDate(edit[e])

-----------------------------------------------------------------------------
LEMMA PayloadIs ==
  ASSUME NEW p \in Payloads
  PROVE  /\ DOMAIN p \subseteq Fields
         /\ \A f \in DOMAIN p : p[f] \in Values(f)
<1>1. PICK S \in {T \in SUBSET Fields : Cardinality(T) \in 1 .. MaxFields} : p \in Partial(S)
  BY DEF Payloads
<1>2. p \in [S -> {"no", "yes", "typed"}] /\ \A f \in S : p[f] \in Values(f)
  BY <1>1 DEF Partial
<1>3. QED BY <1>1, <1>2

LEMMA MergedIs ==
  ASSUME NEW r \in ItemRows, NEW p, DOMAIN p \subseteq Fields, \A f \in DOMAIN p : p[f] \in Values(f)
  PROVE  /\ Merged(r, p) \in ItemRows /\ Merged(r, p).traits = r.traits /\ Merged(r, p).by = r.by
         /\ \A f \in Fields : Merged(r, p)[f] = IF f \in DOMAIN p THEN p[f] ELSE r[f]
         /\ Merged(r, p).spot \in {r.spot, "no", "typed"}
<1>1. DOMAIN r = Fields \union {"traits", "by"}
  BY DEF ItemRows, Fields
<1>2. PICK m : m = Merged(r, p)
  OBVIOUS
<1>3. m = [f \in Fields \union {"traits", "by"} |-> IF f \in DOMAIN p THEN p[f] ELSE r[f]]
  BY <1>1, <1>2 DEF Merged
<1>4. m["traits"] = r["traits"] /\ m["by"] = r["by"]
  BY <1>3 DEF Fields
<1>5. \A f \in Fields : m[f] = IF f \in DOMAIN p THEN p[f] ELSE r[f]
  BY <1>3
<1>6. m["bullion"] \in YesNo /\ m["year"] \in YesNo /\ m["nd"] \in YesNo /\ m["fancy"] \in YesNo /\ m["star"] \in YesNo
  BY <1>5 DEF Fields, Values, ItemRows, YesNo
<1>7. m["spot"] \in {r.spot, "no", "typed"}
  BY <1>5 DEF Fields, Values
<1>8. m \in ItemRows
  BY <1>3, <1>4, <1>6, <1>7 DEF Fields, ItemRows, Spots
<1>9. QED BY <1>2, <1>4, <1>5, <1>7, <1>8

LEMMA PutIs ==
  ASSUME NEW p \in Payloads \union {NoPut}
  PROVE  DOMAIN p \subseteq Fields /\ \A f \in DOMAIN p : p[f] \in Values(f)
<1>1. CASE p = NoPut
  BY <1>1 DEF NoPut
<1>2. QED BY <1>1, PayloadIs

LEMMA StoredIs ==
  ASSUME NEW r \in ItemRows
  PROVE  StoredTraits(r) \subseteq Traits
  BY DEF StoredTraits, Traits

\* What a request makes of a row is in step when the row was.
LEMMA EditedIs ==
  ASSUME NEW r \in SoundRows, NEW p \in Payloads \union {NoPut}
  PROVE  /\ Edited(r, p) \in SoundRows
         /\ InStep(r) => InStep(Edited(r, p))
         /\ Edited(r, p).by = "auto" => r.by = "auto"
<1>1. r \in ItemRows /\ SpotIs(r) /\ DOMAIN p \subseteq Fields /\ \A f \in DOMAIN p : p[f] \in Values(f)
  BY PutIs DEF SoundRows
<1>2. PICK m : m = Merged(r, p)
  OBVIOUS
<1>3. PICK touched : touched = {f \in DOMAIN p : p[f] # r[f]}
  OBVIOUS
<1>4. /\ m \in ItemRows /\ m.traits = r.traits /\ m.by = r.by
      /\ \A f \in Fields : m[f] = IF f \in DOMAIN p THEN p[f] ELSE r[f]
      /\ m.spot \in {r.spot, "no", "typed"}
  BY <1>1, <1>2, MergedIs
<1>5. \A f \in Fields : f \notin touched => m[f] = r[f]
  BY <1>3, <1>4
<1>6. PICK traits : traits = IF m.bullion = "yes" \/ touched \cap {"bullion", "fancy", "star"} # {}
                               THEN StoredTraits(m) ELSE m.traits
  OBVIOUS
<1>7. PICK by : by = IF "spot" \notin touched THEN m.by ELSE IF m.spot = "no" THEN "none" ELSE "manual"
  OBVIOUS
<1>8. PICK e : e = [m EXCEPT !.traits = traits, !.by = by]
  OBVIOUS
<1>9. Edited(r, p) = e
  BY <1>2, <1>3, <1>6, <1>7, <1>8 DEF Edited, SyncDerived
<1>10. traits \in SUBSET Traits
  BY <1>4, <1>6, StoredIs DEF ItemRows
<1>11. by \in Origins
  BY <1>4, <1>7 DEF ItemRows, Origins
<1>12. /\ e \in ItemRows /\ e.traits = traits /\ e.by = by /\ e.spot = m.spot /\ e.bullion = m.bullion
       /\ e.fancy = m.fancy /\ e.star = m.star
  BY <1>4, <1>8, <1>10, <1>11 DEF ItemRows
<1>13. "spot" \in touched => m.spot \in {"no", "typed"}
  BY <1>1, <1>3, <1>4 DEF Values, Fields
<1>14. "spot" \notin touched => m.spot = r.spot
  BY <1>5 DEF Fields
<1>15. SpotIs(e) /\ (e.by = "auto" => r.by = "auto")
  BY <1>1, <1>4, <1>7, <1>12, <1>13, <1>14 DEF SpotIs
<1>16. StoredTraits(e) = StoredTraits(m)
  BY <1>12 DEF StoredTraits
<1>17. ASSUME InStep(r) PROVE e.traits = StoredTraits(e)
  <2>1. CASE m.bullion = "yes" \/ touched \cap {"bullion", "fancy", "star"} # {}
    BY <1>6, <1>12, <1>16, <2>1
  <2>2. CASE ~(m.bullion = "yes" \/ touched \cap {"bullion", "fancy", "star"} # {})
    <3>1. m.bullion = r.bullion /\ m.fancy = r.fancy /\ m.star = r.star
      BY <1>5, <2>2 DEF Fields
    <3>2. StoredTraits(m) = StoredTraits(r)
      BY <3>1 DEF StoredTraits
    <3>3. QED BY <1>4, <1>6, <1>12, <1>16, <1>17, <2>2, <3>2 DEF InStep
  <2>3. QED BY <2>1, <2>2
<1>18. e.by = "none" <=> e.spot = "no"
  BY <1>15 DEF SpotIs
<1>19. QED BY <1>9, <1>12, <1>15, <1>17, <1>18 DEF SoundRows, InStep

\* The columns that changed are written; over the row that was read, the new one.
LEMMA WrittenIs ==
  ASSUME NEW now \in SoundRows, NEW seen \in SoundRows, NEW new \in SoundRows
  PROVE  /\ Written(now, seen, new) \in SoundRows /\ (now = seen => Written(now, seen, new) = new)
         /\ Written(now, seen, new).by \in {now.by, new.by}
         /\ (new.by = seen.by => Written(now, seen, new).by = now.by)
<1>1. /\ now \in ItemRows /\ seen \in ItemRows /\ new \in ItemRows /\ SpotIs(now) /\ SpotIs(seen) /\ SpotIs(new)
  BY DEF SoundRows
<1>2. PICK w : w = Written(now, seen, new)
  OBVIOUS
<1>3. DOMAIN now = Fields \union {"traits", "by"}
  BY <1>1 DEF ItemRows, Fields
<1>4. w = [f \in Fields \union {"traits", "by"} |-> IF new[f] # seen[f] THEN new[f] ELSE now[f]]
  BY <1>2, <1>3 DEF Written
<1>5. \A f \in Fields \union {"traits", "by"} : w[f] = IF new[f] # seen[f] THEN new[f] ELSE now[f]
  BY <1>4
<1>6. w["bullion"] \in YesNo /\ w["year"] \in YesNo /\ w["nd"] \in YesNo /\ w["fancy"] \in YesNo /\ w["star"] \in YesNo
  BY <1>1, <1>5 DEF Fields, ItemRows
<1>7. w["spot"] \in Spots /\ w["traits"] \in SUBSET Traits /\ w["by"] \in Origins
  BY <1>1, <1>5 DEF Fields, ItemRows
<1>8. w \in ItemRows
  BY <1>4, <1>6, <1>7 DEF Fields, ItemRows
<1>9. new.spot # seen.spot <=> new.by # seen.by
  BY <1>1 DEF SpotIs, ItemRows, Spots, Origins
<1>10. (w.spot = new.spot /\ w.by = new.by) \/ (w.spot = now.spot /\ w.by = now.by)
  BY <1>5, <1>9 DEF Fields
<1>11. SpotIs(w)
  BY <1>1, <1>10 DEF SpotIs
<1>12. now = seen => w = new
  <2>1. DOMAIN new = Fields \union {"traits", "by"}
    BY <1>1 DEF ItemRows, Fields
  <2>2. new = [f \in Fields \union {"traits", "by"} |-> new[f]]
    BY <1>1, <2>1 DEF ItemRows
  <2>3. now = seen => \A f \in Fields \union {"traits", "by"} : w[f] = new[f]
    BY <1>5
  <2>4. QED BY <1>4, <2>2, <2>3
<1>13. w.by = IF new.by # seen.by THEN new.by ELSE now.by
  BY <1>5
<1>14. QED BY <1>2, <1>8, <1>11, <1>12, <1>13 DEF SoundRows

-----------------------------------------------------------------------------
LEMMA EditIsTyped ==
  ASSUME ItemsInv, NEW e \in Editors
  PROVE  /\ edit[e] \in Edits /\ EditIs(edit[e]) /\ UpToDate(edit[e]) /\ edit[e].put \in Payloads \union {NoPut}
         /\ edit[e].todo \subseteq Pieces /\ edit[e].found \subseteq Pieces /\ edit[e].late \subseteq Pieces
         /\ DOMAIN edit[e].seen \subseteq Pieces /\ \A p \in DOMAIN edit[e].seen : edit[e].seen[p] \in SoundRows
<1>1. edit[e] \in Edits /\ EditIs(edit[e]) /\ UpToDate(edit[e])
  BY DEF ItemsInv
<1>2. PICK S \in SUBSET Pieces : edit[e].seen \in [S -> SoundRows]
  BY <1>1 DEF Edits, SeenMaps
<1>3. QED BY <1>1, <1>2 DEF Edits

LEMMA BlankIs == Blank \in SoundRows /\ InStep(Blank)
<1>1. Blank \in ItemRows /\ SpotIs(Blank)
  BY DEF Blank, ItemRows, SpotIs, YesNo, Spots, Origins, Traits
<1>2. StoredTraits(Blank) = {}
  BY DEF Blank, StoredTraits
<1>3. QED BY <1>1, <1>2 DEF SoundRows, InStep, Blank

LEMMA RestingIs ==
  /\ Resting \in Edits /\ Resting.at = "idle" /\ DOMAIN Resting.seen = {} /\ Resting.todo = {} /\ Resting.found = {} /\ Resting.late = {}
<1>1. NoSeen \in [{} -> SoundRows] /\ DOMAIN NoSeen = {}
  BY DEF NoSeen
<1>2. NoSeen \in SeenMaps
  BY <1>1 DEF SeenMaps
<1>3. QED BY <1>1, <1>2 DEF Resting, Edits, NoPut

LEMMA ItemsStart == ItemsInit => ItemsInv
<1> SUFFICES ASSUME ItemsInit PROVE ItemsInv
  OBVIOUS
<1>1. here = {} /\ row \in [Pieces -> SoundRows] /\ edit \in [Editors -> Edits] /\ asked \in Nat
  BY BlankIs, RestingIs DEF ItemsInit
<1>2. \A e \in Editors : edit[e] = Resting
  BY DEF ItemsInit
<1>3. QED BY <1>1, <1>2, RestingIs DEF ItemsInv, EditIs, UpToDate

\* A request begins with rows as they are.
LEMMA BeginsKeeps ==
  ASSUME ItemsInv, NEW e \in Editors, NEW s \in Edits, Begins(e, s), EditIs(s), UpToDate(s)
  PROVE  ItemsInv'
<1>1. /\ edit' \in [Editors -> Edits] /\ edit'[e] = s /\ \A d \in Editors : d # e => edit'[d] = edit[d]
      /\ asked' \in Nat /\ UNCHANGED <<here, row>>
  BY DEF ItemsInv, Begins
<1>2. ASSUME NEW d \in Editors PROVE EditIs(edit[d])' /\ UpToDate(edit[d])'
  <2>1. PICK t : t = edit'[d]
    OBVIOUS
  <2>2. EditIs(t) /\ UpToDate(t)
    BY <1>1, <2>1 DEF ItemsInv
  <2>3. EditIs(t)' /\ UpToDate(t)'
    BY <1>1, <2>2 DEF EditIs, UpToDate
  <2>4. QED BY <2>1, <2>3
<1>3. QED BY <1>1, <1>2 DEF ItemsInv

LEMMA UpdateKeeps ==
  ASSUME ItemsInv, NEW e \in Editors, NEW p \in Pieces, NEW put \in Payloads, Update(e, p, put)
  PROVE  ItemsInv'
<1>1. PICK s : s = [Resting EXCEPT !.at = "commit", !.seen = [q \in {p} |-> row[p]], !.put = put]
  OBVIOUS
<1>2. PICK seen : seen = [q \in {p} |-> row[p]]
  OBVIOUS
<1>3. row[p] \in SoundRows /\ p \in here /\ Begins(e, s)
  BY <1>1 DEF ItemsInv, Update
<1>4. seen \in [{p} -> SoundRows] /\ {p} \in SUBSET Pieces
  BY <1>2, <1>3
<1>5. seen \in SeenMaps
  BY <1>4 DEF SeenMaps
<1>6. s \in Edits /\ s.at = "commit" /\ s.seen = seen /\ s.todo = {} /\ s.found = {} /\ s.late = {}
  BY <1>1, <1>2, <1>5, RestingIs DEF Edits, Resting
<1>7. EditIs(s) /\ UpToDate(s)
  BY <1>2, <1>3, <1>6 DEF EditIs, UpToDate
<1>8. QED BY <1>3, <1>6, <1>7, BeginsKeeps

LEMMA BulkKeeps ==
  ASSUME ItemsInv, NEW e \in Editors, NEW S \in SUBSET Pieces, NEW put \in Payloads, BulkUpdate(e, S, put)
  PROVE  ItemsInv'
<1>1. PICK s : s = [Resting EXCEPT !.at = "commit", !.seen = [q \in S |-> row[q]], !.put = put]
  OBVIOUS
<1>2. PICK seen : seen = [q \in S |-> row[q]]
  OBVIOUS
<1>3. S \subseteq here /\ Begins(e, s)
  BY <1>1 DEF BulkUpdate
<1>4. seen \in [S -> SoundRows] /\ DOMAIN seen = S /\ \A q \in S : seen[q] = row[q]
  BY <1>2 DEF ItemsInv
<1>5. seen \in SeenMaps
  BY <1>4 DEF SeenMaps
<1>6. s \in Edits /\ s.at = "commit" /\ s.seen = seen /\ s.todo = {} /\ s.found = {} /\ s.late = {}
  BY <1>1, <1>2, <1>5, RestingIs DEF Edits, Resting
<1>7. EditIs(s) /\ UpToDate(s)
  BY <1>3, <1>4, <1>6 DEF EditIs, UpToDate
<1>8. QED BY <1>3, <1>6, <1>7, BeginsKeeps

LEMMA BackfillKeeps ==
  ASSUME ItemsInv, NEW e \in Editors, NEW S \in SUBSET Pieces, Backfill(e, S)
  PROVE  ItemsInv'
<1>1. PICK s : s = [Resting EXCEPT !.at = "look", !.todo = S]
  OBVIOUS
<1>2. \A p \in S : p \in here /\ row[p].spot = "no"
  BY DEF Backfill, NeedsSpot
<1>3. Begins(e, s)
  BY <1>1 DEF Backfill
<1>4. s \in Edits /\ DOMAIN s.seen = {} /\ s.todo = S /\ s.found = {} /\ s.late = {}
  BY <1>1, RestingIs DEF Edits, Resting
<1>5. EditIs(s) /\ UpToDate(s)
  BY <1>2, <1>4 DEF EditIs, UpToDate
<1>6. QED BY <1>3, <1>4, <1>5, BeginsKeeps

-----------------------------------------------------------------------------
\* A new piece has a sound row, in step unless it was cloned from one that is not.
LEMMA NewKeeps ==
  ASSUME ItemsInv, NEW p \in Pieces, p \notin here, NEW r \in SoundRows, here' = here \union {p},
         row' = [row EXCEPT ![p] = r], UNCHANGED <<edit, asked>>
  PROVE  ItemsInv'
<1>1. row' \in [Pieces -> SoundRows] /\ \A q \in here : row'[q] = row[q]
  BY DEF ItemsInv
<1>2. ASSUME NEW e \in Editors PROVE EditIs(edit[e])' /\ UpToDate(edit[e])'
  <2>1. EditIs(edit[e]) /\ UpToDate(edit[e])
    BY DEF ItemsInv
  <2>2. QED BY <1>1, <2>1 DEF EditIs, UpToDate
<1>3. QED BY <1>1, <1>2 DEF ItemsInv

LEMMA CreateIs ==
  ASSUME ItemsInv, NEW p \in Pieces, Create(p)
  PROVE  \E r \in SoundRows : row' = [row EXCEPT ![p] = r] /\ InStep(r)
<1>1. PICK put \in Payloads :
        row' = [row EXCEPT ![p] =
          [Merged(Blank, put) EXCEPT !.traits = StoredTraits(Merged(Blank, put)),
                                     !.by = IF Merged(Blank, put).spot = "no" THEN "none" ELSE "manual"]]
  BY DEF Create
<1>2. PICK m : m = Merged(Blank, put)
  OBVIOUS
<1>3. Blank \in ItemRows /\ Blank.spot = "no"
  BY BlankIs DEF SoundRows, Blank
<1>4. m \in ItemRows /\ m.spot \in {"no", "typed"}
  BY <1>2, <1>3, PayloadIs, MergedIs
<1>5. PICK by \in {"none", "manual"} : by = IF m.spot = "no" THEN "none" ELSE "manual"
  OBVIOUS
<1>6. PICK r : r = [m EXCEPT !.traits = StoredTraits(m), !.by = by]
  OBVIOUS
<1>7. row' = [row EXCEPT ![p] = r]
  BY <1>1, <1>2, <1>5, <1>6
<1>8. StoredTraits(m) \in SUBSET Traits
  BY <1>4, StoredIs
<1>9. /\ r \in ItemRows /\ r.traits = StoredTraits(m) /\ r.by = by /\ r.spot = m.spot /\ r.bullion = m.bullion
      /\ r.fancy = m.fancy /\ r.star = m.star
  BY <1>4, <1>5, <1>6, <1>8 DEF ItemRows, Origins
<1>10. StoredTraits(r) = StoredTraits(m)
  BY <1>9 DEF StoredTraits
<1>11. r \in SoundRows /\ InStep(r)
  BY <1>4, <1>5, <1>9, <1>10 DEF SoundRows, SpotIs, InStep
<1>12. QED BY <1>7, <1>11

LEMMA CreateKeeps ==
  ASSUME ItemsInv, NEW p \in Pieces, Create(p)
  PROVE  ItemsInv'
<1>1. PICK r \in SoundRows : row' = [row EXCEPT ![p] = r]
  BY CreateIs
<1>2. QED BY <1>1, NewKeeps DEF Create

LEMMA CloneKeeps ==
  ASSUME ItemsInv, NEW p \in Pieces, NEW q \in Pieces, Clone(p, q)
  PROVE  ItemsInv'
<1>1. row[q] \in SoundRows
  BY DEF ItemsInv
<1>2. QED BY <1>1, NewKeeps DEF Clone

-----------------------------------------------------------------------------
\* A commit to the rows of S, of which the others that have read one know.
LEMMA CommitsKeeps ==
  ASSUME ItemsInv, NEW e \in Editors, NEW S \in SUBSET Pieces, NEW next \in Edits, Commits(e, S, next), EditIs(next),
         row' \in [Pieces -> SoundRows], \A p \in Pieces \ S : row'[p] = row[p], UpToDate(next)',
         UNCHANGED <<here, asked>>
  PROVE  ItemsInv' /\ edit'[e] = next
<1>1. ASSUME NEW d \in Editors, d # e
      PROVE  \E t \in Edits : /\ edit'[d] = t /\ t.at = edit[d].at /\ t.seen = edit[d].seen /\ t.todo = edit[d].todo
                              /\ t.found = edit[d].found
                              /\ t.late = edit[d].late
                                   \union (S \cap (DOMAIN edit[d].seen \union edit[d].todo \union edit[d].found))
  <2>1. PICK late : late = edit[d].late
                             \union (S \cap (DOMAIN edit[d].seen \union edit[d].todo \union edit[d].found))
    OBVIOUS
  <2>2. late \in SUBSET Pieces
    BY <2>1, EditIsTyped
  <2>3. PICK t : t = [edit[d] EXCEPT !.late = late]
    OBVIOUS
  <2>4. edit'[d] = t
    BY <1>1, <2>1, <2>3 DEF Commits
  <2>5. t \in Edits /\ t.at = edit[d].at /\ t.seen = edit[d].seen /\ t.todo = edit[d].todo /\ t.found = edit[d].found
        /\ t.late = late
    BY <2>2, <2>3, EditIsTyped DEF Edits
  <2>6. QED BY <2>1, <2>4, <2>5
<1>2. edit'[e] = next
  BY DEF Commits
<1>3. edit' \in [Editors -> Edits]
  <2>1. edit' = [d \in Editors |-> edit'[d]]
    BY DEF Commits
  <2>2. \A d \in Editors : edit'[d] \in Edits
    BY <1>1, <1>2
  <2>3. QED BY <2>1, <2>2
<1>4. ASSUME NEW d \in Editors PROVE EditIs(edit[d])' /\ UpToDate(edit[d])'
  <2>1. CASE d = e
    BY <1>2, <2>1 DEF EditIs
  <2>2. CASE d # e
    <3>1. PICK t \in Edits : /\ edit'[d] = t /\ t.at = edit[d].at /\ t.seen = edit[d].seen /\ t.todo = edit[d].todo
                             /\ t.found = edit[d].found
                             /\ t.late = edit[d].late
                                   \union (S \cap (DOMAIN edit[d].seen \union edit[d].todo \union edit[d].found))
      BY <1>1, <2>2
    <3>2. EditIs(edit[d]) /\ UpToDate(edit[d])
      BY EditIsTyped
    <3>3. EditIs(t)'
      BY <3>1, <3>2 DEF EditIs
    <3>4. \A p \in (DOMAIN t.seen \union t.todo \union t.found) \ t.late : p \in Pieces \ S /\ p \notin edit[d].late
      BY <3>1, EditIsTyped
    <3>5. UpToDate(t)'
      BY <3>1, <3>2, <3>4 DEF UpToDate
    <3>6. QED BY <3>1, <3>3, <3>5
  <2>3. QED BY <2>1, <2>2
<1>5. QED BY <1>2, <1>3, <1>4 DEF ItemsInv

LEMMA RestingDone == EditIs(Resting) /\ UpToDate(Resting)'
  BY RestingIs DEF EditIs, UpToDate

\* What an edit makes of the rows, of those it is not behind on in step.
LEMMA CommitIs ==
  ASSUME ItemsInv, NEW e \in Editors, CommitEdit(e)
  PROVE  /\ row' \in [Pieces -> SoundRows] /\ \A p \in Pieces \ DOMAIN edit[e].seen : row'[p] = row[p]
         /\ \A p \in DOMAIN edit[e].seen \ edit[e].late : InStep(row[p]) => InStep(row'[p])
         /\ \A p \in Pieces : row'[p].by = "auto" => row[p].by = "auto" \/ p \in edit[e].late
<1>1. PICK seen : seen = edit[e].seen
  OBVIOUS
<1>2. PICK put \in Payloads \union {NoPut} : put = edit[e].put
  BY EditIsTyped
<1>3. row' = [p \in Pieces |-> IF p \in DOMAIN seen THEN Written(row[p], seen[p], Edited(seen[p], put)) ELSE row[p]]
  BY <1>1, <1>2 DEF CommitEdit
<1>4. DOMAIN seen \subseteq Pieces /\ \A p \in DOMAIN seen : seen[p] \in SoundRows /\ row[p] \in SoundRows
  BY <1>1, EditIsTyped DEF ItemsInv
<1>5. ASSUME NEW p \in DOMAIN seen
      PROVE  /\ row'[p] \in SoundRows /\ (row[p] = seen[p] => row'[p] = Edited(seen[p], put))
             /\ (Edited(seen[p], put).by = "auto" => seen[p].by = "auto")
             /\ row'[p].by \in {row[p].by, Edited(seen[p], put).by}
             /\ (Edited(seen[p], put).by = seen[p].by => row'[p].by = row[p].by)
  <2>1. PICK new : new = Edited(seen[p], put)
    OBVIOUS
  <2>4. new \in SoundRows /\ (new.by = "auto" => seen[p].by = "auto")
    BY <1>4, <2>1, EditedIs
  <2>2. row'[p] = Written(row[p], seen[p], new)
    BY <1>3, <1>4, <2>1
  <2>3. QED BY <1>4, <2>1, <2>2, <2>4, WrittenIs
<1>6. row' \in [Pieces -> SoundRows]
  <2>1. \A p \in Pieces : row'[p] \in SoundRows
    BY <1>3, <1>5 DEF ItemsInv
  <2>2. row' = [p \in Pieces |-> row'[p]]
    BY <1>3
  <2>3. QED BY <2>1, <2>2
<1>7. ASSUME NEW p \in DOMAIN seen \ edit[e].late, InStep(row[p]) PROVE InStep(row'[p])
  <2>1. seen[p] = row[p]
    BY <1>1, EditIsTyped DEF UpToDate
  <2>2. QED BY <1>4, <1>5, <1>7, <2>1, EditedIs
<1>8. ASSUME NEW p \in Pieces, row'[p].by = "auto" PROVE row[p].by = "auto"
  <2>1. CASE p \in DOMAIN seen
    BY <1>5, <1>8, <2>1
  <2>2. CASE p \notin DOMAIN seen
    BY <1>3, <1>8, <2>2
  <2>3. QED BY <2>1, <2>2
<1>9. QED BY <1>1, <1>3, <1>6, <1>7, <1>8

LEMMA CommitEditKeeps ==
  ASSUME ItemsInv, NEW e \in Editors, CommitEdit(e)
  PROVE  ItemsInv' /\ edit'[e] = Resting
<1>1. DOMAIN edit[e].seen \in SUBSET Pieces
  BY EditIsTyped
<1>2. Commits(e, DOMAIN edit[e].seen, Resting) /\ UNCHANGED <<here, asked>>
  BY DEF CommitEdit
<1>3. QED BY <1>1, <1>2, CommitIs, CommitsKeeps, RestingDone, RestingIs

-----------------------------------------------------------------------------
LEMMA FilledIs ==
  ASSUME ItemsInv, NEW S \in SUBSET Pieces, row' = Filled(S)
  PROVE  /\ row' \in [Pieces -> SoundRows] /\ \A p \in Pieces \ S : row'[p] = row[p]
         /\ \A p \in S : InStep(row[p]) => InStep(row'[p])
<1>1. ASSUME NEW p \in S PROVE row'[p] \in SoundRows /\ (InStep(row[p]) => InStep(row'[p]))
  <2>1. PICK r \in SoundRows : r = row[p]
    BY DEF ItemsInv
  <2>2. r \in ItemRows
    BY DEF SoundRows
  <2>3. PICK f : f = [r EXCEPT !.spot = "found", !.by = "auto"]
    OBVIOUS
  <2>4. row'[p] = f
    BY <2>1, <2>3 DEF Filled
  <2>5. /\ f \in ItemRows /\ f.spot = "found" /\ f.by = "auto" /\ f.traits = r.traits /\ f.bullion = r.bullion
        /\ f.fancy = r.fancy /\ f.star = r.star
    BY <2>2, <2>3 DEF ItemRows, Spots, Origins
  <2>6. StoredTraits(f) = StoredTraits(r)
    BY <2>5 DEF StoredTraits
  <2>7. QED BY <2>1, <2>4, <2>5, <2>6 DEF SoundRows, SpotIs, InStep
<1>2. \A p \in Pieces \ S : row'[p] = row[p] /\ row[p] \in SoundRows
  BY DEF Filled, ItemsInv
<1>3. row' = [p \in Pieces |-> row'[p]]
  BY DEF Filled
<1>4. row' \in [Pieces -> SoundRows]
  BY <1>1, <1>2, <1>3
<1>5. QED BY <1>1, <1>2, <1>4

\* What a look-up writes: some of what it had found.
LEMMA LookUpIs ==
  ASSUME ItemsInv, NEW e \in Editors, NEW p \in Pieces, LookUp(e, p)
  PROVE  \E flushed \in SUBSET edit[e].found : row' = Filled(flushed) /\ ItemsInv' /\ edit'[e] # edit[e]
<1>1. PICK fetched \in BOOLEAN, found \in BOOLEAN :
        LET flushed == IF fetched THEN edit[e].found ELSE {} IN
        /\ row' = Filled(flushed)
        /\ Commits(e, flushed, [edit[e] EXCEPT !.todo = @ \ {p},
                                  !.found = (@ \ flushed) \union (IF found THEN {p} ELSE {})])
  BY DEF LookUp
<1>2. PICK flushed \in SUBSET edit[e].found : flushed = IF fetched THEN edit[e].found ELSE {}
  OBVIOUS
<1>3. PICK more \in SUBSET {p} : more = IF found THEN {p} ELSE {}
  OBVIOUS
<1>4. PICK next : next = [edit[e] EXCEPT !.todo = @ \ {p}, !.found = (@ \ flushed) \union more]
  OBVIOUS
<1>5. row' = Filled(flushed) /\ Commits(e, flushed, next)
  BY <1>1, <1>2, <1>3, <1>4
<1>6. /\ next \in Edits /\ next.at = edit[e].at /\ next.seen = edit[e].seen /\ next.late = edit[e].late
      /\ next.todo = edit[e].todo \ {p} /\ next.found = (edit[e].found \ flushed) \union more
  BY <1>4, EditIsTyped DEF Edits
<1>7. EditIs(edit[e]) /\ UpToDate(edit[e]) /\ p \in edit[e].todo /\ DOMAIN edit[e].seen = {} /\ flushed \in SUBSET Pieces
  BY <1>2, EditIsTyped DEF LookUp, EditIs
<1>8. EditIs(next)
  BY <1>6, <1>7 DEF EditIs
<1>9. row' \in [Pieces -> SoundRows] /\ \A q \in Pieces \ flushed : row'[q] = row[q]
  BY <1>5, <1>7, FilledIs
<1>10. UpToDate(next)'
  <2>1. \A q \in (next.todo \union next.found) \ next.late : q \in Pieces \ flushed /\ row[q].spot = "no"
    BY <1>6, <1>7, EditIsTyped DEF EditIs, UpToDate
  <2>2. QED BY <1>6, <1>7, <1>9, <2>1 DEF UpToDate
<1>11. ItemsInv' /\ edit'[e] = next
  BY <1>5, <1>6, <1>7, <1>8, <1>9, <1>10, CommitsKeeps DEF LookUp
<1>12. QED BY <1>5, <1>6, <1>7, <1>11

LEMMA EndBackfillKeeps ==
  ASSUME ItemsInv, NEW e \in Editors, EndBackfill(e)
  PROVE  ItemsInv' /\ edit'[e] = Resting
<1>1. edit[e].found \in SUBSET Pieces
  BY EditIsTyped
<1>2. QED BY <1>1, FilledIs, CommitsKeeps, RestingDone, RestingIs DEF EndBackfill

LEMMA ItemsStep == ItemsInv /\ [ItemsNext]_items => ItemsInv'
<1> SUFFICES ASSUME ItemsInv, [ItemsNext]_items PROVE ItemsInv'
  OBVIOUS
<1>1. CASE UNCHANGED items
  BY <1>1 DEF items, ItemsInv, EditIs, UpToDate
<1>2. ASSUME NEW p \in Pieces, Create(p) \/ \E q \in Pieces : Clone(p, q) PROVE ItemsInv'
  BY <1>2, CreateKeeps, CloneKeeps
<1>3. ASSUME NEW e \in Editors,
             \/ \E put \in Payloads : \/ \E p \in Pieces : Update(e, p, put)
                                      \/ \E S \in SUBSET Pieces : BulkUpdate(e, S, put)
             \/ \E S \in SUBSET Pieces : Backfill(e, S)
             \/ \E p \in Pieces : LookUp(e, p)
             \/ CommitEdit(e) \/ EndBackfill(e)
      PROVE  ItemsInv'
  <2>1. CASE \E put \in Payloads : \/ \E p \in Pieces : Update(e, p, put)
                                   \/ \E S \in SUBSET Pieces : BulkUpdate(e, S, put)
    BY <2>1, UpdateKeeps, BulkKeeps
  <2>2. CASE \/ \E S \in SUBSET Pieces : Backfill(e, S)
             \/ \E p \in Pieces : LookUp(e, p)
    BY <2>2, BackfillKeeps, LookUpIs
  <2>3. CASE CommitEdit(e) \/ EndBackfill(e)
    BY <2>3, CommitEditKeeps, EndBackfillKeeps
  <2>4. QED BY <1>3, <2>1, <2>2, <2>3
<1>4. QED BY <1>1, <1>2, <1>3 DEF ItemsNext

THEOREM ItemsInvHolds == ItemsSpec => []ItemsInv
BY ItemsStart, ItemsStep, PTL DEF ItemsSpec

\* A step changes rows of pieces there are by a request's commit only.
LEMMA RowsMoveByCommits ==
  ASSUME ItemsInv, ItemsNext, NEW p \in here, row'[p] # row[p]
  PROVE  \E e \in Editors : CommitEdit(e) \/ (\E q \in Pieces : LookUp(e, q)) \/ EndBackfill(e)
<1>1. ASSUME NEW q \in Pieces, Create(q) \/ \E o \in Pieces : Clone(q, o) PROVE FALSE
  <2>1. q # p /\ \E r : row' = [row EXCEPT ![q] = r]
    BY <1>1 DEF Create, Clone
  <2>2. QED BY <2>1 DEF ItemsInv
<1>2. ASSUME NEW e \in Editors,
             \/ \E put \in Payloads : \/ \E q \in Pieces : Update(e, q, put)
                                      \/ \E S \in SUBSET Pieces : BulkUpdate(e, S, put)
             \/ \E S \in SUBSET Pieces : Backfill(e, S)
      PROVE  FALSE
  BY <1>2 DEF Update, BulkUpdate, Backfill, Begins
<1>3. QED BY <1>1, <1>2 DEF ItemsNext

\* Of a request that writes to a piece it is not behind on: what it makes of a
\* row in step is in step, and a typed price stays.
LEMMA NotBehind ==
  ASSUME ItemsInv, NEW e \in Editors, CommitEdit(e) \/ (\E q \in Pieces : LookUp(e, q)) \/ EndBackfill(e),
         NEW p \in here, ~Behind(p)
  PROVE  /\ InStep(row[p]) => InStep(row'[p])
         /\ row[p].by = "manual" => row'[p].by # "auto"
<1>1. p \in Pieces /\ row[p] \in SoundRows
  BY DEF ItemsInv
<1>2. ASSUME edit'[e] # edit[e] PROVE p \notin edit[e].late
  BY <1>2 DEF Behind
<1>3. CASE CommitEdit(e)
  <2>1. edit[e].at = "commit" /\ edit'[e] = Resting
    BY <1>3, CommitEditKeeps DEF CommitEdit
  <2>2. p \notin edit[e].late
    BY <1>2, <2>1, RestingIs
  <2>3. QED BY <1>1, <1>3, <2>2, CommitIs
<1>4. ASSUME NEW S \in SUBSET edit[e].found, row' = Filled(S), p \notin edit[e].late
      PROVE  /\ InStep(row[p]) => InStep(row'[p])
             /\ row[p].by = "manual" => row'[p].by # "auto"
  <2>1. S \in SUBSET Pieces
    BY EditIsTyped
  <2>2. p \in S => row[p].by # "manual"
    BY <1>1, <1>4, EditIsTyped DEF UpToDate, SoundRows, SpotIs
  <2>3. p \notin S => row'[p] = row[p]
    BY <1>1, <1>4, <2>1, FilledIs
  <2>4. p \in S => (InStep(row[p]) => InStep(row'[p]))
    BY <1>4, <2>1, FilledIs
  <2>5. QED BY <2>2, <2>3, <2>4
<1>5. CASE \E q \in Pieces : LookUp(e, q)
  <2>1. PICK S \in SUBSET edit[e].found : row' = Filled(S) /\ edit'[e] # edit[e]
    BY <1>5, LookUpIs
  <2>2. QED BY <1>2, <1>4, <2>1
<1>6. CASE EndBackfill(e)
  <2>1. edit[e].at = "look" /\ edit'[e] = Resting /\ row' = Filled(edit[e].found)
    BY <1>6, EndBackfillKeeps DEF EndBackfill
  <2>2. p \notin edit[e].late
    BY <1>2, <2>1, RestingIs
  <2>3. QED BY <1>4, <2>1, <2>2
<1>7. QED BY <1>3, <1>5, <1>6

\* "kept in step with the serial number by the server" (models/item.py:160), but
\* for requests that overlapped on the piece.
THEOREM DerivedStaysInStep == ItemsSpec => DerivedInStep
<1>1. ASSUME ItemsInv, ItemsNext, NEW p \in here, InStep(row[p]), ~InStep(row'[p]) PROVE Behind(p)
  <2>1. PICK e \in Editors : CommitEdit(e) \/ (\E q \in Pieces : LookUp(e, q)) \/ EndBackfill(e)
    BY <1>1, RowsMoveByCommits
  <2>2. QED BY <1>1, <2>1, NotBehind
<1>2. ASSUME ItemsInv, ItemsNext, NEW p \in here' \ here
      PROVE  InStep(row'[p]) \/ \E q \in here : row'[p] = row[q]
  <2>1. ASSUME NEW o \in Pieces, Create(o) PROVE InStep(row'[p])
    <3>1. p = o
      BY <1>2, <2>1 DEF Create
    <3>2. PICK r \in SoundRows : row' = [row EXCEPT ![o] = r] /\ InStep(r)
      BY <1>2, <2>1, CreateIs
    <3>3. row'[p] = r
      BY <1>2, <3>1, <3>2 DEF ItemsInv
    <3>4. QED BY <3>2, <3>3
  <2>2. ASSUME NEW o \in Pieces, NEW q \in Pieces, Clone(o, q) PROVE \E d \in here : row'[p] = row[d]
    BY <1>2, <2>2 DEF Clone, ItemsInv
  <2>3. ASSUME NEW e \in Editors,
               \/ \E put \in Payloads : \/ \E q \in Pieces : Update(e, q, put)
                                        \/ \E S \in SUBSET Pieces : BulkUpdate(e, S, put)
               \/ \E S \in SUBSET Pieces : Backfill(e, S)
               \/ \E q \in Pieces : LookUp(e, q)
               \/ CommitEdit(e) \/ EndBackfill(e)
        PROVE  here' = here
    BY <2>3 DEF Update, BulkUpdate, Backfill, Begins, LookUp, CommitEdit, EndBackfill
  <2>4. QED BY <1>2, <2>1, <2>2, <2>3 DEF ItemsNext
<1>3. ItemsInv /\ [ItemsNext]_items =>
        [/\ \A p \in here : InStep(row[p]) /\ ~InStep(row'[p]) => Behind(p)
         /\ \A p \in here' \ here : InStep(row'[p]) \/ \E q \in here : row'[p] = row[q]]_items
  BY <1>1, <1>2
<1>4. QED BY <1>3, ItemsInvHolds, PTL DEF ItemsSpec, DerivedInStep

\* "A value typed in by hand is never touched" (services/stack.py:369), but by a
\* look-up that had listed the piece before.
THEOREM TypedIsKept == ItemsSpec => HandKept
<1>1. ASSUME ItemsInv, ItemsNext, NEW p \in here, row[p].by = "manual", row'[p].by = "auto" PROVE Behind(p)
  <2>1. PICK e \in Editors : CommitEdit(e) \/ (\E q \in Pieces : LookUp(e, q)) \/ EndBackfill(e)
    BY <1>1, RowsMoveByCommits
  <2>2. QED BY <1>1, <2>1, NotBehind
<1>2. ItemsInv /\ [ItemsNext]_items =>
        [\A p \in here : row[p].by = "manual" /\ row'[p].by = "auto" => Behind(p)]_items
  BY <1>1
<1>3. QED BY <1>2, ItemsInvHolds, PTL DEF ItemsSpec, HandKept

-----------------------------------------------------------------------------
(* Photos: a request nobody overtook has read the rows as they are, and     *)
(* what it makes of rows in order is in order.                              *)

PhotoRows == [primary : BOOLEAN, position : Nat, key : PhotoIds \X Nat]
SomeRows == UNION {[S -> PhotoRows] : S \in SUBSET PhotoIds}
Shots == [at : {"idle", "write", "add", "swap", "drop", "save", "unlink", "flush", "remove"},
          of : SUBSET PhotoIds, seen : SomeRows, put : SomeRows, late : BOOLEAN]

\* One of these photos is primary, and their positions have no gap.
Primaries(S, rows) == {p \in S : rows[p].primary}
Positions(S, rows) == {rows[p].position : p \in S}
InLine(S, rows) ==
  /\ S # {} => \E p \in S : Primaries(S, rows) = {p}
  /\ Positions(S, rows) = 0 .. Cardinality(S) - 1

Uploading(s) == s.at = "add" \/ (s.at = "write" /\ s.seen = Nothing)
Replacing(s) == s.at = "swap" \/ (s.at = "write" /\ s.seen # Nothing)

SeenOne(s, p, rows) == s.of = {p} /\ DOMAIN s.seen = {p} /\ s.seen[p] = rows[p]

\* What a request knows of the rows as they are.
Current(s, held, rows) ==
  /\ Uploading(s) =>
       \E p \in PhotoIds \ held : /\ s.of = {p} /\ DOMAIN s.put = {p} /\ s.put[p].position = Cardinality(held)
                                  /\ s.put[p].primary <=> held = {}
  /\ Replacing(s) =>
       \E p \in held : /\ SeenOne(s, p, rows) /\ DOMAIN s.put = {p}
                       /\ s.put[p].primary = rows[p].primary /\ s.put[p].position = rows[p].position
  /\ s.at \in {"unlink", "flush"} => \E p \in held : SeenOne(s, p, rows)
  /\ s.at = "save" => /\ DOMAIN s.seen = held /\ DOMAIN s.put = held
                      /\ \A q \in held : s.seen[q] = rows[q]
                      /\ InLine(held, rows) => InLine(held, s.put)
  /\ s.at = "remove" =>
       \E p \in held : /\ s.of = {p} /\ DOMAIN s.seen = held \ {p} /\ DOMAIN s.put = held \ {p}
                       /\ \A q \in held \ {p} : s.seen[q] = rows[q]
                       /\ InLine(held, rows) => InLine(held \ {p}, s.put)

PhotosTypeOK ==
  /\ shown \in SUBSET PhotoIds /\ IsFiniteSet(shown) /\ shots \in Nat
  /\ photo \in [PhotoIds -> PhotoRows] /\ shot \in [Viewers -> Shots]

ShotIs(s) == IsFiniteSet(s.of) /\ (s.at \in {"write", "add"} => s.of \subseteq DOMAIN s.put)

PhotosInv ==
  /\ PhotosTypeOK
  /\ \A v \in Viewers : ShotIs(shot[v]) /\ (shot[v].late \/ Current(shot[v], shown, photo))

-----------------------------------------------------------------------------
LEMMA SomeRowsAre ==
  ASSUME NEW f
  PROVE  f \in SomeRows <=> /\ DOMAIN f \subseteq PhotoIds /\ f = [p \in DOMAIN f |-> f[p]]
                            /\ \A p \in DOMAIN f : f[p] \in PhotoRows
<1>1. ASSUME f \in SomeRows
      PROVE  DOMAIN f \subseteq PhotoIds /\ f = [p \in DOMAIN f |-> f[p]] /\ \A p \in DOMAIN f : f[p] \in PhotoRows
  <2>1. PICK S \in SUBSET PhotoIds : f \in [S -> PhotoRows]
    BY <1>1 DEF SomeRows
  <2>2. QED BY <2>1
<1>2. ASSUME DOMAIN f \subseteq PhotoIds, f = [p \in DOMAIN f |-> f[p]], \A p \in DOMAIN f : f[p] \in PhotoRows
      PROVE  f \in SomeRows
  <2>1. PICK S \in SUBSET PhotoIds : S = DOMAIN f
    BY <1>2
  <2>2. f \in [S -> PhotoRows]
    BY <1>2, <2>1
  <2>3. QED BY <2>1, <2>2 DEF SomeRows
<1>3. QED BY <1>1, <1>2

\* The order of the rows as the property has it.
LEMMA InOrderIs ==
  ASSUME NEW S, NEW f, IsFiniteSet(S)
  PROVE  InOrder([p \in S |-> f[p]]) <=> InLine(S, f)
<1>1. PICK r : r = [p \in S |-> f[p]]
  OBVIOUS
<1>2. DOMAIN r = S /\ \A p \in S : r[p] = f[p]
  BY <1>1
<1>3. {p \in DOMAIN r : r[p].primary} = Primaries(S, f)
  BY <1>2 DEF Primaries
<1>4. {r[p].position : p \in DOMAIN r} = Positions(S, f)
  BY <1>2 DEF Positions
<1>5. IsFiniteSet(Primaries(S, f))
  BY FS_Subset DEF Primaries
<1>6. Cardinality(Primaries(S, f)) = 1 <=> \E p : Primaries(S, f) = {p}
  BY <1>5, FS_Singleton
<1>7. (\E p : Primaries(S, f) = {p}) <=> \E p \in S : Primaries(S, f) = {p}
  BY DEF Primaries
<1>8. InOrder(r) <=> /\ S # {} => Cardinality(Primaries(S, f)) = 1
                     /\ Positions(S, f) = 0 .. Cardinality(S) - 1
  BY <1>2, <1>3, <1>4 DEF InOrder
<1>9. QED BY <1>1, <1>6, <1>7, <1>8 DEF InLine

\* An order rests on the positions and on which row is primary.
LEMMA SameLine ==
  ASSUME NEW S, NEW f, NEW g,
         \A p \in S : (g[p].primary <=> f[p].primary) /\ g[p].position = f[p].position
  PROVE  InLine(S, f) <=> InLine(S, g)
<1>1. Primaries(S, f) = Primaries(S, g)
  BY DEF Primaries
<1>2. Positions(S, f) = Positions(S, g)
  BY DEF Positions
<1>3. QED BY <1>1, <1>2 DEF InLine

\* An upload goes to the end.
LEMMA AddedInLine ==
  ASSUME NEW S, IsFiniteSet(S), NEW p, p \notin S, NEW f, NEW g, InLine(S, f),
         \A q \in S : g[q] = f[q], g[p].position = Cardinality(S), g[p].primary <=> S = {}
  PROVE  InLine(S \union {p}, g)
<1>1. PICK n \in Nat : n = Cardinality(S) /\ Cardinality(S \union {p}) = n + 1
  BY FS_CardinalityType, FS_AddElement
<1>2. Positions(S \union {p}, g) = Positions(S, f) \union {n}
  BY <1>1 DEF Positions
<1>3. Positions(S \union {p}, g) = 0 .. (n + 1) - 1
  <2>1. Positions(S, f) = 0 .. n - 1
    BY <1>1 DEF InLine
  <2>2. (0 .. n - 1) \union {n} = 0 .. (n + 1) - 1
    BY <1>1
  <2>3. QED BY <1>2, <2>1, <2>2
<1>4. \E q \in S \union {p} : Primaries(S \union {p}, g) = {q}
  <2>1. CASE S = {}
    BY <2>1 DEF Primaries
  <2>2. CASE S # {}
    <3>1. PICK q \in S : Primaries(S, f) = {q}
      BY <2>2 DEF InLine
    <3>2. Primaries(S \union {p}, g) = Primaries(S, f)
      BY <2>2 DEF Primaries
    <3>3. QED BY <3>1, <3>2
  <2>3. QED BY <2>1, <2>2
<1>5. QED BY <1>1, <1>3, <1>4 DEF InLine

LEMMA PrimaryInLine ==
  ASSUME NEW S, NEW p \in S, NEW f, NEW g, InLine(S, f),
         \A q \in S : (g[q].primary <=> q = p) /\ g[q].position = f[q].position
  PROVE  InLine(S, g)
<1>1. Primaries(S, g) = {p}
  BY DEF Primaries
<1>2. Positions(S, f) = Positions(S, g)
  BY DEF Positions
<1>3. QED BY <1>1, <1>2 DEF InLine

LEMMA ReorderedInLine ==
  ASSUME NEW S, IsFiniteSet(S), NEW order \in SetToSeqs(S), ToSet(order) = S, NEW f, NEW g, InLine(S, f),
         \A q \in S : /\ g[q].primary <=> f[q].primary
                      /\ g[q].position = (CHOOSE k \in DOMAIN order : order[k] = q) - 1
  PROVE  InLine(S, g)
<1>1. PICK n \in Nat : n = Cardinality(S)
  BY FS_CardinalityType
<1>2. /\ order \in [1 .. n -> S] /\ DOMAIN order = 1 .. n
      /\ \A i, j \in 1 .. n : i # j => order[i] # order[j]
      /\ \A q \in S : \E k \in 1 .. n : order[k] = q
  BY <1>1 DEF SetToSeqs, ToSet
<1>3. \A k \in 1 .. n : (CHOOSE j \in DOMAIN order : order[j] = order[k]) = k
  BY <1>2
<1>4. ASSUME NEW k \in 1 .. n PROVE order[k] \in S /\ g[order[k]].position = k - 1
  <2>1. PICK q \in S : q = order[k]
    BY <1>2
  <2>2. (CHOOSE j \in DOMAIN order : order[j] = q) = k
    BY <1>3, <2>1
  <2>3. QED BY <2>1, <2>2
<1>5. Positions(S, g) = 0 .. n - 1
  <2>1. ASSUME NEW q \in S PROVE g[q].position \in 0 .. n - 1
    BY <1>1, <1>2, <1>4
  <2>2. ASSUME NEW i \in 0 .. n - 1 PROVE \E q \in S : g[q].position = i
    <3>1. i + 1 \in 1 .. n /\ (i + 1) - 1 = i
      BY <1>1
    <3>2. QED BY <1>4, <3>1
  <2>3. QED BY <2>1, <2>2 DEF Positions
<1>6. Primaries(S, g) = Primaries(S, f)
  BY DEF Primaries
<1>7. QED BY <1>1, <1>5, <1>6 DEF InLine

\* Rows that each have a place of their own.
Seated(S, place) ==
  /\ IsFiniteSet(S) /\ place \in [S -> 0 .. Cardinality(S) - 1]
  /\ \A p, q \in S : p # q => place[p] # place[q]

LEMMA PlacesTakeAll ==
  ASSUME NEW S, NEW place, Seated(S, place)
  PROVE  \A i \in 0 .. Cardinality(S) - 1 : \E q \in S : place[q] = i
<1> USE DEF Seated
<1>1. PICK n \in Nat : n = Cardinality(S)
  BY FS_CardinalityType
<1>2. SUFFICES ASSUME NEW i \in 0 .. n - 1, \A q \in S : place[q] # i PROVE FALSE
  BY <1>1
<1>3. PICK I : I = 0 .. n - 1
  OBVIOUS
<1>4. IsFiniteSet(I) /\ Cardinality(I) = n
  BY <1>1, <1>3, FS_Interval
<1>5. PICK T : T = I \ {i} /\ IsFiniteSet(T) /\ Cardinality(T) = n - 1
  <2>1. i \in I
    BY <1>3
  <2>2. QED BY <1>4, <2>1, FS_RemoveElement
<1>6. place \in [S -> T] /\ Cardinality(T) < Cardinality(S)
  BY <1>1, <1>2, <1>3, <1>5
<1>7. QED BY <1>5, <1>6, FS_PigeonHole

\* What is left of rows in order is closed up, and has a primary one.
ClosesUp(S, f, heir, place, g) ==
  \A q \in S : g[q].position = place[q] /\ (g[q].primary <=> f[q].primary \/ (heir /\ place[q] = 0))

LEMMA ClosedInLine ==
  ASSUME NEW S, NEW p \in S, NEW f, InLine(S, f), NEW L, L = S \ {p},
         NEW place, Seated(L, place), NEW g, ClosesUp(L, f, f[p].primary, place, g)
  PROVE  InLine(L, g)
<1>1. PICK n \in Nat : n = Cardinality(L)
  BY FS_CardinalityType DEF Seated
<1>2. \A i \in 0 .. n - 1 : \E q \in L : place[q] = i
  BY <1>1, PlacesTakeAll
<1>3. \A q \in L : place[q] \in 0 .. n - 1 /\ g[q].position = place[q]
  BY <1>1 DEF Seated, ClosesUp
<1>4. Positions(L, g) = 0 .. n - 1
  BY <1>2, <1>3 DEF Positions
<1>5. ASSUME L # {} PROVE \E q \in L : Primaries(L, g) = {q}
  <2>1. 0 \in 0 .. n - 1
    BY <1>1, <1>5, FS_EmptySet DEF Seated
  <2>2. PICK first \in L : place[first] = 0 /\ \A q \in L : place[q] = 0 => q = first
    BY <1>2, <2>1 DEF Seated
  <2>3. PICK was \in S : Primaries(S, f) = {was}
    BY DEF InLine
  <2>4. CASE was = p
    <3>1. f[p].primary /\ \A q \in L : ~f[q].primary
      BY <2>3, <2>4 DEF Primaries
    <3>2. \A q \in L : g[q].primary <=> q = first
      BY <2>2, <3>1 DEF ClosesUp
    <3>3. QED BY <2>2, <3>2 DEF Primaries
  <2>5. CASE was # p
    <3>1. ~f[p].primary
      BY <2>3, <2>5 DEF Primaries
    <3>2. \A q \in L : g[q].primary <=> f[q].primary
      BY <3>1 DEF ClosesUp
    <3>3. Primaries(L, g) = {was}
      BY <2>3, <2>5, <3>2 DEF Primaries
    <3>4. QED BY <2>3, <2>5, <3>3
  <2>6. QED BY <2>4, <2>5
<1>6. QED BY <1>1, <1>4, <1>5 DEF InLine

\* A commit of what was read as it is puts what was made of it.
LEMMA StoredRowIs ==
  ASSUME NEW now \in PhotoRows, NEW new \in PhotoRows, NEW seen
  PROVE  Stored(now, seen, new) \in PhotoRows /\ (seen = now => Stored(now, seen, new) = new)
<1>1. PICK r : r = Stored(now, seen, new)
  OBVIOUS
<1>2. DOMAIN now = {"primary", "position", "key"}
  BY DEF PhotoRows
<1>3. r = [c \in {"primary", "position", "key"} |-> IF new[c] # seen[c] THEN new[c] ELSE now[c]]
  BY <1>1, <1>2 DEF Stored
<1>4. r["primary"] \in BOOLEAN /\ r["position"] \in Nat /\ r["key"] \in PhotoIds \X Nat
  BY <1>3 DEF PhotoRows
<1>5. r = [primary |-> r["primary"], position |-> r["position"], key |-> r["key"]]
  BY <1>3
<1>6. r \in PhotoRows
  BY <1>4, <1>5 DEF PhotoRows
<1>7. ASSUME seen = now PROVE r = new
  <2>1. r["primary"] = new["primary"] /\ r["position"] = new["position"] /\ r["key"] = new["key"]
    BY <1>3, <1>7
  <2>2. new = [primary |-> new["primary"], position |-> new["position"], key |-> new["key"]]
    BY DEF PhotoRows
  <2>3. QED BY <1>5, <2>1, <2>2
<1>8. QED BY <1>1, <1>6, <1>7
-----------------------------------------------------------------------------
\* A request takes a step of its own.
LEMMA RequestKeeps ==
  ASSUME PhotosInv, shown' = shown, photo' = photo, shots' \in Nat, NEW v \in Viewers,
         NEW r \in Shots, ShotIs(r), r.late \/ Current(r, shown, photo), shot' = [shot EXCEPT ![v] = r]
  PROVE  PhotosInv'
<1>1. PhotosTypeOK'
  BY DEF PhotosInv, PhotosTypeOK
<1>2. ASSUME NEW w \in Viewers
      PROVE  ShotIs(shot'[w]) /\ (shot'[w].late \/ Current(shot'[w], shown, photo))
  BY DEF PhotosInv, PhotosTypeOK
<1>3. QED BY <1>1, <1>2 DEF PhotosInv

LEMMA AtIs ==
  ASSUME NEW at \in {"idle", "write", "save", "unlink"}, NEW of \in SUBSET PhotoIds, IsFiniteSet(of),
         NEW seen \in SomeRows, NEW put \in SomeRows, at = "write" => of \subseteq DOMAIN put
  PROVE  Asking(at, of, seen, put) \in Shots /\ ShotIs(Asking(at, of, seen, put))
  BY DEF Asking, Shots, ShotIs

LEMMA NothingIs == Nothing \in SomeRows
<1>1. DOMAIN Nothing = {} /\ Nothing = [p \in DOMAIN Nothing |-> Nothing[p]]
  BY DEF Nothing
<1>2. QED BY <1>1, SomeRowsAre

LEMMA QuietIs ==
  /\ Quiet \in Shots /\ ShotIs(Quiet) /\ Quiet.at = "idle"
  /\ \A held, rows : Current(Quiet, held, rows)
<1>1. Quiet \in Shots /\ ShotIs(Quiet)
  <2>1. IsFiniteSet({})
    BY FS_EmptySet
  <2>2. QED BY <2>1, NothingIs DEF Quiet, Asking, Shots, ShotIs
<1>2. Quiet.at = "idle"
  BY DEF Quiet, Asking
<1>3. QED BY <1>1, <1>2 DEF Current, Uploading, Replacing

LEMMA BreaksKeeps ==
  ASSUME PhotosInv, NEW v \in Viewers, Breaks(v), shown' = shown, photo' = photo, shots' = shots
  PROVE  PhotosInv'
<1>1. PICK r \in Shots : r = Quiet
  BY QuietIs
<1>2. QED BY <1>1, QuietIs, RequestKeeps DEF Breaks, PhotosInv, PhotosTypeOK

\* A request commits: what the others have read is no longer what is there.
LEMMA CommitKeeps ==
  ASSUME PhotosInv, NEW v \in Viewers, NEW next \in Shots, ShotIs(next), Overtakes(v, next),
         next.late \/ Current(next, shown', photo'),
         shown' \in SUBSET PhotoIds, IsFiniteSet(shown'), photo' \in [PhotoIds -> PhotoRows], shots' = shots
  PROVE  PhotosInv' /\ shot'[v] = next
<1>1. shot'[v] = next
  BY DEF Overtakes
<1>2. ASSUME NEW w \in Viewers
      PROVE  /\ shot'[w] \in Shots /\ ShotIs(shot'[w])
             /\ shot'[w].late \/ Current(shot'[w], shown', photo')
  <2>1. CASE w = v
    BY <1>1, <2>1
  <2>2. CASE w # v
    <3>1. PICK s \in Shots : s = shot[w] /\ ShotIs(s)
      BY DEF PhotosInv, PhotosTypeOK
    <3>2. PICK t : t = [s EXCEPT !.late = s.at # "idle"]
      OBVIOUS
    <3>3. shot'[w] = t
      BY <2>2, <3>1, <3>2 DEF Overtakes
    <3>4. t \in Shots /\ t.at = s.at /\ t.of = s.of /\ t.put = s.put /\ (t.late <=> s.at # "idle")
      BY <3>1, <3>2 DEF Shots
    <3>5. ShotIs(t) /\ (t.late \/ Current(t, shown', photo'))
      BY <3>1, <3>4 DEF ShotIs, Current, Uploading, Replacing
    <3>6. QED BY <3>3, <3>4, <3>5
  <2>3. QED BY <2>1, <2>2
<1>3. shot' \in [Viewers -> Shots]
  BY <1>2 DEF Overtakes
<1>4. QED BY <1>1, <1>2, <1>3 DEF PhotosInv, PhotosTypeOK

-----------------------------------------------------------------------------
(* What is asked.                                                          *)

LEMMA OneIs ==
  ASSUME PhotosInv, NEW p \in shown
  PROVE  One(p) \in SomeRows /\ One(p) # Nothing /\ DOMAIN One(p) = {p} /\ One(p)[p] = photo[p]
<1>1. DOMAIN One(p) = {p} /\ One(p) = [q \in {p} |-> One(p)[q]] /\ \A q \in {p} : One(p)[q] = photo[p]
  BY DEF One
<1>2. photo[p] \in PhotoRows /\ {p} \subseteq PhotoIds
  BY DEF PhotosInv, PhotosTypeOK
<1>3. One(p) \in SomeRows
  BY <1>1, <1>2, SomeRowsAre
<1>4. DOMAIN Nothing = {}
  BY DEF Nothing
<1>5. QED BY <1>1, <1>3, <1>4

LEMMA ReadIs ==
  ASSUME PhotosInv
  PROVE  Read \in SomeRows /\ DOMAIN Read = shown /\ \A p \in shown : Read[p] = photo[p]
<1>1. DOMAIN Read = shown /\ Read = [q \in shown |-> Read[q]] /\ \A q \in shown : Read[q] = photo[q]
  BY DEF Read
<1>2. \A q \in shown : photo[q] \in PhotoRows
  BY DEF PhotosInv, PhotosTypeOK
<1>3. shown \subseteq PhotoIds
  BY DEF PhotosInv, PhotosTypeOK
<1>4. Read \in SomeRows
  BY <1>1, <1>2, <1>3, SomeRowsAre
<1>5. QED BY <1>1, <1>4

LEMMA UploadKeeps ==
  ASSUME PhotosInv, NEW v \in Viewers, NEW p \in PhotoIds, Upload(v, p)
  PROVE  PhotosInv'
<1>1. PICK n \in Nat : n = Cardinality(shown) /\ (n = 0 <=> shown = {})
  BY FS_CardinalityType, FS_EmptySet DEF PhotosInv, PhotosTypeOK
<1>2. PICK x \in PhotoRows : /\ x = [primary |-> n = 0, position |-> n, key |-> Key(p, 0)]
                             /\ (x.primary <=> n = 0) /\ x.position = n
  <2>1. PICK x : x = [primary |-> n = 0, position |-> n, key |-> Key(p, 0)]
    OBVIOUS
  <2>2. (n = 0) \in BOOLEAN /\ Key(p, 0) \in PhotoIds \X Nat
    BY DEF Key
  <2>3. x \in PhotoRows
    BY <2>1, <2>2, Zenon DEF PhotoRows
  <2>4. x.primary = (n = 0) /\ x.position = n
    BY <2>1, Zenon
  <2>5. QED BY <2>1, <2>3, <2>4
<1>3. PICK put : put = [q \in {p} |-> x]
  OBVIOUS
<1>4. DOMAIN put = {p} /\ put[p] = x /\ put \in SomeRows
  <2>1. DOMAIN put = {p} /\ put = [q \in {p} |-> put[q]] /\ put[p] = x
    BY <1>3
  <2>2. QED BY <2>1, SomeRowsAre
<1>5. PICK r : r = Asking("write", {p}, Nothing, put)
  OBVIOUS
<1>6. r \in Shots /\ ShotIs(r)
  <2>1. IsFiniteSet({p})
    BY FS_Singleton
  <2>2. QED BY <1>4, <1>5, <2>1, NothingIs, AtIs
<1>7. /\ shot' = [shot EXCEPT ![v] = r] /\ shots' = shots + 1 /\ shown' = shown /\ photo' = photo
      /\ p \notin shown
  BY <1>1, <1>2, <1>3, <1>5 DEF Upload, Asks
<1>8. r.at = "write" /\ r.of = {p} /\ r.seen = Nothing /\ r.put = put
  BY <1>5 DEF Asking
<1>9. put[p].position = n /\ (put[p].primary <=> n = 0)
  BY <1>2, <1>4
<1>10. Current(r, shown, photo)
  BY <1>1, <1>4, <1>7, <1>8, <1>9 DEF Current, Uploading, Replacing
<1>11. shots' \in Nat
  BY <1>7 DEF PhotosInv, PhotosTypeOK
<1>12. QED BY <1>6, <1>7, <1>10, <1>11, RequestKeeps

LEMMA ReplaceKeeps ==
  ASSUME PhotosInv, NEW v \in Viewers, NEW p \in PhotoIds, Replace(v, p)
  PROVE  PhotosInv'
<1>1. p \in shown /\ shots \in Nat /\ photo[p] \in PhotoRows
  BY DEF Replace, PhotosInv, PhotosTypeOK
<1>2. PICK seen \in SomeRows : seen = One(p) /\ seen # Nothing /\ DOMAIN seen = {p} /\ seen[p] = photo[p]
  BY <1>1, OneIs
<1>3. PICK key \in PhotoIds \X Nat : key = FreshStem(p)
  <2>1. PICK m \in Nat : m = shots + 1
    BY <1>1
  <2>2. <<p, m>> \in PhotoIds \X Nat
    OBVIOUS
  <2>3. QED BY <2>1, <2>2 DEF FreshStem, Key
<1>4. PICK put : put = [seen EXCEPT ![p].key = key]
  OBVIOUS
<1>5. seen = [q \in {p} |-> photo[p]]
  BY <1>2 DEF One
<1>6. /\ DOMAIN put = {p} /\ put = [q \in {p} |-> put[q]] /\ put[p] \in PhotoRows
      /\ put[p].primary = photo[p].primary /\ put[p].position = photo[p].position
  BY <1>1, <1>3, <1>4, <1>5 DEF PhotoRows
<1>7. put \in SomeRows
  BY <1>6, SomeRowsAre
<1>8. PICK r : r = Asking("write", {p}, seen, put)
  OBVIOUS
<1>9. r \in Shots /\ ShotIs(r)
  <2>1. IsFiniteSet({p})
    BY FS_Singleton
  <2>2. QED BY <1>2, <1>6, <1>7, <1>8, <2>1, AtIs
<1>10. shot' = [shot EXCEPT ![v] = r] /\ shots' = shots + 1 /\ shown' = shown /\ photo' = photo
  BY <1>2, <1>3, <1>4, <1>8 DEF Replace, Asks
<1>11. r.at = "write" /\ r.of = {p} /\ r.seen = seen /\ r.put = put
  BY <1>8 DEF Asking
<1>12. Current(r, shown, photo)
  BY <1>1, <1>2, <1>6, <1>11 DEF Current, Uploading, Replacing, SeenOne
<1>13. shots' \in Nat
  BY <1>1, <1>10
<1>14. QED BY <1>9, <1>10, <1>12, <1>13, RequestKeeps

\* The rows read, and what is made of each.
LEMMA SaveAsked ==
  ASSUME PhotosInv, NEW v \in Viewers, NEW put, DOMAIN put = shown, put = [p \in shown |-> put[p]],
         \A p \in shown : put[p] \in PhotoRows, InLine(shown, photo) => InLine(shown, put),
         shot' = [shot EXCEPT ![v] = Asking("save", {}, Read, put)], shots' = shots + 1, shown' = shown, photo' = photo
  PROVE  PhotosInv'
<1>1. shown \subseteq PhotoIds /\ shots' \in Nat
  BY DEF PhotosInv, PhotosTypeOK
<1>2. put \in SomeRows
  BY <1>1, SomeRowsAre
<1>3. PICK seen \in SomeRows : seen = Read /\ DOMAIN seen = shown /\ \A p \in shown : seen[p] = photo[p]
  BY ReadIs
<1>4. PICK r : r = Asking("save", {}, seen, put)
  OBVIOUS
<1>5. r \in Shots /\ ShotIs(r)
  <2>1. IsFiniteSet({})
    BY FS_EmptySet
  <2>2. QED BY <1>2, <1>4, <2>1, AtIs
<1>6. r.at = "save" /\ r.seen = seen /\ r.put = put
  BY <1>4 DEF Asking
<1>7. Current(r, shown, photo)
  BY <1>3, <1>6 DEF Current, Uploading, Replacing
<1>8. QED BY <1>1, <1>3, <1>4, <1>5, <1>7, RequestKeeps

LEMMA ReorderKeeps ==
  ASSUME PhotosInv, NEW v \in Viewers, NEW order \in SetToSeqs(shown), Reorder(v, order)
  PROVE  PhotosInv'
<1>1. PICK place : place = [p \in shown |-> (CHOOSE k \in DOMAIN order : order[k] = p) - 1]
  OBVIOUS
<1>2. PICK put : put = [p \in shown |-> [photo[p] EXCEPT !.position =
                          (CHOOSE k \in DOMAIN order : order[k] = p) - 1]]
  OBVIOUS
<1>3. ASSUME NEW p \in shown
      PROVE  (CHOOSE k \in DOMAIN order : order[k] = p) - 1 \in Nat
  <2>1. \E k \in DOMAIN order : order[k] = p
    BY DEF Reorder, ToSet
  <2>2. DOMAIN order = 1 .. Cardinality(shown)
    BY DEF SetToSeqs
  <2>3. Cardinality(shown) \in Nat
    BY FS_CardinalityType DEF PhotosInv, PhotosTypeOK
  <2>4. PICK k : k = CHOOSE j \in DOMAIN order : order[j] = p
    OBVIOUS
  <2>5. k \in 1 .. Cardinality(shown)
    BY <2>1, <2>2, <2>4
  <2>6. QED BY <2>3, <2>4, <2>5
<1>4. ASSUME NEW p \in shown
      PROVE  /\ put[p] \in PhotoRows /\ (put[p].primary <=> photo[p].primary)
             /\ put[p].position = (CHOOSE k \in DOMAIN order : order[k] = p) - 1
  <2>1. photo[p] \in PhotoRows
    BY DEF PhotosInv, PhotosTypeOK
  <2>2. PICK n \in Nat : n = (CHOOSE k \in DOMAIN order : order[k] = p) - 1
    BY <1>3
  <2>3. put[p] = [photo[p] EXCEPT !.position = n]
    BY <1>2, <2>2
  <2>4. QED BY <2>1, <2>2, <2>3 DEF PhotoRows
<1>5. DOMAIN put = shown /\ put = [p \in shown |-> put[p]]
  BY <1>2
<1>6. IsFiniteSet(shown) /\ ToSet(order) = shown
  BY DEF PhotosInv, PhotosTypeOK, Reorder
<1>7. ASSUME InLine(shown, photo) PROVE InLine(shown, put)
  <2>1. \A p \in shown : /\ put[p].primary <=> photo[p].primary
                         /\ put[p].position = (CHOOSE k \in DOMAIN order : order[k] = p) - 1
    BY <1>4
  <2>2. QED BY <1>6, <1>7, <2>1, ReorderedInLine
<1>8. /\ shot' = [shot EXCEPT ![v] = Asking("save", {}, Read, put)] /\ shots' = shots + 1
      /\ shown' = shown /\ photo' = photo
  BY <1>2 DEF Reorder, Asks
<1>9. QED BY <1>4, <1>5, <1>7, <1>8, SaveAsked

LEMMA MakePrimaryKeeps ==
  ASSUME PhotosInv, NEW v \in Viewers, NEW p \in PhotoIds, MakePrimary(v, p)
  PROVE  PhotosInv'
<1>1. PICK put : put = [q \in shown |-> [photo[q] EXCEPT !.primary = q = p]]
  OBVIOUS
<1>2. DOMAIN put = shown /\ put = [q \in shown |-> put[q]]
  BY <1>1
<1>3. ASSUME NEW q \in shown
      PROVE  put[q] \in PhotoRows /\ (put[q].primary <=> q = p) /\ put[q].position = photo[q].position
  <2>1. photo[q] \in PhotoRows
    BY DEF PhotosInv, PhotosTypeOK
  <2>2. PICK b \in BOOLEAN : b = (q = p)
    OBVIOUS
  <2>3. put[q] = [photo[q] EXCEPT !.primary = b]
    BY <1>1, <2>2
  <2>4. put[q] \in PhotoRows /\ put[q].primary = b /\ put[q].position = photo[q].position
    BY <2>1, <2>3 DEF PhotoRows
  <2>5. QED BY <2>2, <2>4
<1>4. p \in shown
  BY DEF MakePrimary
<1>5. InLine(shown, photo) => InLine(shown, put)
  BY <1>3, <1>4, PrimaryInLine
<1>6. /\ shot' = [shot EXCEPT ![v] = Asking("save", {}, Read, put)] /\ shots' = shots + 1
      /\ shown' = shown /\ photo' = photo
  BY <1>1 DEF MakePrimary, Asks
<1>7. QED BY <1>2, <1>3, <1>5, <1>6, SaveAsked

LEMMA DeleteKeeps ==
  ASSUME PhotosInv, NEW v \in Viewers, NEW p \in PhotoIds, Delete(v, p)
  PROVE  PhotosInv'
<1>1. p \in shown
  BY DEF Delete
<1>2. PICK seen \in SomeRows : seen = One(p) /\ DOMAIN seen = {p} /\ seen[p] = photo[p]
  BY <1>1, OneIs
<1>3. PICK r : r = Asking("unlink", {p}, seen, Nothing)
  OBVIOUS
<1>4. r \in Shots /\ ShotIs(r)
  <2>1. IsFiniteSet({p})
    BY FS_Singleton
  <2>2. QED BY <1>2, <1>3, <2>1, NothingIs, AtIs
<1>5. r.at = "unlink" /\ r.of = {p} /\ r.seen = seen
  BY <1>3 DEF Asking
<1>6. Current(r, shown, photo)
  BY <1>1, <1>2, <1>5 DEF Current, Uploading, Replacing, SeenOne
<1>7. shot' = [shot EXCEPT ![v] = r] /\ shots' = shots + 1 /\ shown' = shown /\ photo' = photo
  BY <1>2, <1>3 DEF Delete, Asks
<1>8. shots' \in Nat
  BY <1>7 DEF PhotosInv, PhotosTypeOK
<1>9. QED BY <1>4, <1>6, <1>7, <1>8, RequestKeeps

-----------------------------------------------------------------------------
(* What is done before a commit.                                           *)

LEMMA MovesKeeps ==
  ASSUME PhotosInv, NEW v \in Viewers, NEW to \in {"add", "swap", "flush"}, Moves(v, to),
         shown' = shown, photo' = photo, shots' = shots,
         to = "add" => Uploading(shot[v]) /\ ShotIs(shot[v]) /\ shot[v].at = "write",
         to = "swap" => Replacing(shot[v]), to = "flush" => shot[v].at = "unlink"
  PROVE  PhotosInv'
<1>1. PICK s \in Shots : s = shot[v] /\ ShotIs(s) /\ (s.late \/ Current(s, shown, photo))
  BY DEF PhotosInv, PhotosTypeOK
<1>2. PICK r : r = [s EXCEPT !.at = to]
  OBVIOUS
<1>3. r \in Shots /\ r.at = to /\ r.of = s.of /\ r.seen = s.seen /\ r.put = s.put /\ r.late = s.late
  BY <1>1, <1>2 DEF Shots
<1>4. ShotIs(r)
  BY <1>1, <1>3 DEF ShotIs
<1>5. ASSUME Current(s, shown, photo) PROVE Current(r, shown, photo)
  <2>1. CASE to = "add"
    BY <1>1, <1>3, <1>5, <2>1 DEF Current, Uploading, Replacing
  <2>2. CASE to = "swap"
    BY <1>1, <1>3, <1>5, <2>2 DEF Current, Uploading, Replacing, SeenOne
  <2>3. CASE to = "flush"
    BY <1>1, <1>3, <1>5, <2>3 DEF Current, Uploading, Replacing, SeenOne
  <2>4. QED BY <2>1, <2>2, <2>3
<1>6. shot' = [shot EXCEPT ![v] = r]
  <2>1. shot' = [shot EXCEPT ![v] = [shot[v] EXCEPT !.at = to]]
    BY DEF Moves
  <2>2. QED BY <1>1, <1>2, <2>1
<1>7. shots' \in Nat
  BY DEF PhotosInv, PhotosTypeOK
<1>8. QED BY <1>1, <1>3, <1>4, <1>5, <1>6, <1>7, RequestKeeps

LEMMA WriteFileKeeps ==
  ASSUME PhotosInv, NEW v \in Viewers, WriteFile(v)
  PROVE  PhotosInv'
<1>1. shown' = shown /\ photo' = photo /\ shots' = shots /\ shot[v].at = "write" /\ ShotIs(shot[v])
  BY DEF WriteFile, PhotosInv
<1>2. CASE Breaks(v)
  BY <1>1, <1>2, BreaksKeeps
<1>3. CASE Moves(v, "add") /\ shot[v].seen = Nothing
  BY <1>1, <1>3, MovesKeeps DEF Uploading
<1>4. CASE Moves(v, "swap") /\ shot[v].seen # Nothing
  BY <1>1, <1>4, MovesKeeps DEF Replacing
<1>5. QED BY <1>2, <1>3, <1>4 DEF WriteFile

LEMMA FlushKeeps ==
  ASSUME PhotosInv, NEW v \in Viewers, Flush(v)
  PROVE  PhotosInv'
<1>1. shown' = shown /\ photo' = photo /\ shots' = shots
  BY DEF Flush
<1>2. PhotosInv'
  <2>1. PICK s \in Shots : s = shot[v] /\ ShotIs(s) /\ (s.late \/ Current(s, shown, photo)) /\ s.at = "flush"
    BY DEF PhotosInv, PhotosTypeOK, Flush
  <2>2. PICK L \in SUBSET shown : L = shown \ s.of
    OBVIOUS
  <2>3. PICK left : left = [q \in L |-> photo[q]]
    OBVIOUS
  <2>4. PICK heir \in BOOLEAN : heir = \E p \in s.of : s.seen[p].primary
    OBVIOUS
  <2>5. PICK place \in Places(left) :
          shot' = [shot EXCEPT ![v] = [@ EXCEPT !.at = "remove", !.seen = left, !.put = Closed(left, place, heir)]]
    BY <2>1, <2>2, <2>3, <2>4 DEF Flush
  <2>6. PICK put : put = Closed(left, place, heir)
    OBVIOUS
  <2>7. PICK r : r = [s EXCEPT !.at = "remove", !.seen = left, !.put = put]
    OBVIOUS
  <2>8. shot' = [shot EXCEPT ![v] = r]
    BY <2>1, <2>5, <2>6, <2>7
  <2>9. DOMAIN left = L /\ left = [q \in L |-> left[q]] /\ \A q \in L : left[q] = photo[q] /\ photo[q] \in PhotoRows
    BY <2>3 DEF PhotosInv, PhotosTypeOK
  <2>10. Seated(L, place)
    <3>1. IsFiniteSet(L)
      BY FS_Subset DEF PhotosInv, PhotosTypeOK
    <3>2. QED BY <2>5, <2>9, <3>1 DEF Places, Seated
  <2>11. \A q \in L : place[q] \in Nat
    <3>1. Cardinality(L) \in Nat
      BY <2>10, FS_CardinalityType DEF Seated
    <3>2. QED BY <2>10, <3>1 DEF Seated
  <2>12. DOMAIN put = L /\ put = [q \in L |-> put[q]]
    BY <2>6, <2>9 DEF Closed
  <2>13. ASSUME NEW q \in L
         PROVE  /\ put[q] \in PhotoRows /\ put[q].position = place[q]
                /\ put[q].primary <=> photo[q].primary \/ (heir /\ place[q] = 0)
    <3>1. PICK x \in PhotoRows : x = photo[q] /\ x = left[q]
      BY <2>9
    <3>2. PICK b \in BOOLEAN : b = (x.primary \/ (heir /\ place[q] = 0))
      OBVIOUS
    <3>3. PICK n \in Nat : n = place[q]
      BY <2>11
    <3>4. put[q] = [x EXCEPT !.position = n, !.primary = b]
      BY <2>6, <2>9, <3>1, <3>2, <3>3 DEF Closed
    <3>5. put[q] \in PhotoRows /\ put[q].position = n /\ put[q].primary = b
      BY <3>4 DEF PhotoRows
    <3>6. QED BY <3>1, <3>2, <3>3, <3>5
  <2>14. left \in SomeRows /\ put \in SomeRows
    <3>1. L \subseteq PhotoIds
      BY DEF PhotosInv, PhotosTypeOK
    <3>2. QED BY <2>9, <2>12, <2>13, <3>1, SomeRowsAre
  <2>15. r \in Shots /\ r.at = "remove" /\ r.of = s.of /\ r.seen = left /\ r.put = put /\ r.late = s.late
    BY <2>1, <2>7, <2>14 DEF Shots
  <2>16. ShotIs(r)
    BY <2>1, <2>15 DEF ShotIs
  <2>17. ASSUME Current(s, shown, photo) PROVE Current(r, shown, photo)
    <3>1. PICK p \in shown : SeenOne(s, p, photo)
      BY <2>1, <2>17 DEF Current
    <3>2. s.of = {p} /\ s.seen[p] = photo[p] /\ photo[p] \in PhotoRows
      BY <3>1 DEF SeenOne, PhotosInv, PhotosTypeOK
    <3>3. heir <=> photo[p].primary
      BY <2>4, <3>2
    <3>4. L = shown \ {p}
      BY <2>2, <3>2
    <3>5. ASSUME InLine(shown, photo) PROVE InLine(L, put)
      <4>1. ClosesUp(L, photo, photo[p].primary, place, put)
        BY <2>13, <3>3 DEF ClosesUp
      <4>2. QED BY <2>10, <3>4, <3>5, <4>1, ClosedInLine
    <3>6. QED BY <2>9, <2>12, <2>15, <3>2, <3>4, <3>5 DEF Current, Uploading, Replacing
  <2>18. shots' \in Nat
    BY <1>1 DEF PhotosInv, PhotosTypeOK
  <2>19. QED BY <1>1, <2>1, <2>8, <2>15, <2>16, <2>17, <2>18, RequestKeeps
<1>3. QED BY <1>2

-----------------------------------------------------------------------------
(* The commits.                                                            *)

\* A commit leaves the rows in order, but for one of a request that was overtaken.
Saves(v) ==
  /\ PhotosInv' /\ shot'[v] # shot[v]
  /\ shot[v].late \/ (InLine(shown, photo) => InLine(shown', photo'))

LEMMA AddRowCommits ==
  ASSUME PhotosInv, NEW v \in Viewers, AddRow(v)
  PROVE  Saves(v)
<1>1. PICK s \in Shots : s = shot[v] /\ ShotIs(s) /\ (s.late \/ Current(s, shown, photo)) /\ s.at = "add"
  BY DEF PhotosInv, PhotosTypeOK, AddRow
<1>2. s.of \in SUBSET PhotoIds /\ IsFiniteSet(s.of) /\ s.of \subseteq DOMAIN s.put /\ s.put \in SomeRows
  BY <1>1 DEF ShotIs, Shots
<1>3. /\ shown' = shown \union s.of /\ shots' = shots /\ Overtakes(v, Quiet)
      /\ photo' = [p \in PhotoIds |-> IF p \in s.of THEN s.put[p] ELSE photo[p]]
  BY <1>1 DEF AddRow
<1>4. photo' \in [PhotoIds -> PhotoRows]
  BY <1>2, <1>3, SomeRowsAre DEF PhotosInv, PhotosTypeOK
<1>5. shown' \in SUBSET PhotoIds /\ IsFiniteSet(shown')
  BY <1>2, <1>3, FS_Union DEF PhotosInv, PhotosTypeOK
<1>6. PhotosInv' /\ shot'[v] = Quiet
  <2>1. PICK q \in Shots : q = Quiet
    BY QuietIs
  <2>2. QED BY <1>3, <1>4, <1>5, <2>1, QuietIs, CommitKeeps
<1>7. ASSUME ~s.late, InLine(shown, photo) PROVE InLine(shown', photo')
  <2>1. PICK p \in PhotoIds \ shown : /\ s.of = {p} /\ s.put[p].position = Cardinality(shown)
                                      /\ s.put[p].primary <=> shown = {}
    BY <1>1, <1>7 DEF Current, Uploading
  <2>2. /\ \A q \in shown : photo'[q] = photo[q]
        /\ photo'[p] = s.put[p]
    BY <1>3, <2>1 DEF PhotosInv, PhotosTypeOK
  <2>3. IsFiniteSet(shown) /\ shown' = shown \union {p}
    BY <1>3, <2>1 DEF PhotosInv, PhotosTypeOK
  <2>4. photo'[p].position = Cardinality(shown) /\ (photo'[p].primary <=> shown = {})
    BY <2>1, <2>2
  <2>5. PICK g : g = photo'
    OBVIOUS
  <2>6. InLine(shown \union {p}, g)
    BY <1>7, <2>1, <2>2, <2>3, <2>4, <2>5, AddedInLine
  <2>7. QED BY <2>3, <2>5, <2>6
<1>8. QED BY <1>1, <1>6, <1>7, QuietIs DEF Saves

\* What a request saves of rows it read as they are is what it made of them.
LEMMA SaveIs ==
  ASSUME PhotosInv, NEW s \in Shots, Save(s)
  PROVE  /\ photo' \in [PhotoIds -> PhotoRows]
         /\ (/\ DOMAIN s.seen = DOMAIN s.put /\ \A p \in DOMAIN s.put : s.seen[p] = photo[p])
              => \A p \in PhotoIds : photo'[p] = IF p \in DOMAIN s.put THEN s.put[p] ELSE photo[p]
<1>1. s.put \in SomeRows
  BY DEF Shots
<1>2. \A p \in DOMAIN s.put : s.put[p] \in PhotoRows
  BY <1>1, SomeRowsAre
<1>3. ASSUME NEW p \in PhotoIds PROVE photo[p] \in PhotoRows
  BY DEF PhotosInv, PhotosTypeOK
<1>4. ASSUME NEW p \in PhotoIds
      PROVE  photo'[p] = IF p \in Changed(s) THEN Stored(photo[p], s.seen[p], s.put[p]) ELSE photo[p]
  BY DEF Save
<1>5. ASSUME NEW p \in PhotoIds PROVE photo'[p] \in PhotoRows
  <2>1. CASE p \in Changed(s)
    <3>1. s.put[p] \in PhotoRows
      BY <1>2, <2>1 DEF Changed
    <3>2. QED BY <1>3, <1>4, <2>1, <3>1, StoredRowIs
  <2>2. QED BY <1>3, <1>4, <2>1
<1>6. photo' \in [PhotoIds -> PhotoRows]
  BY <1>5 DEF Save
<1>7. ASSUME DOMAIN s.seen = DOMAIN s.put, \A p \in DOMAIN s.put : s.seen[p] = photo[p], NEW p \in PhotoIds
      PROVE  photo'[p] = IF p \in DOMAIN s.put THEN s.put[p] ELSE photo[p]
  <2>1. CASE p \in Changed(s)
    <3>1. p \in DOMAIN s.put /\ s.put[p] \in PhotoRows /\ s.seen[p] = photo[p]
      BY <1>2, <1>7, <2>1 DEF Changed
    <3>2. QED BY <1>3, <1>4, <2>1, <3>1, StoredRowIs
  <2>2. CASE p \notin Changed(s)
    BY <1>4, <1>7, <2>2 DEF Changed
  <2>3. QED BY <2>1, <2>2
<1>8. QED BY <1>6, <1>7

LEMMA SwapRowCommits ==
  ASSUME PhotosInv, NEW v \in Viewers, SwapRow(v), shot[v].of \subseteq shown
  PROVE  Saves(v)
<1>1. PICK s \in Shots : s = shot[v] /\ ShotIs(s) /\ (s.late \/ Current(s, shown, photo)) /\ s.at = "swap"
  BY DEF PhotosInv, PhotosTypeOK, SwapRow
<1>2. PICK next : next = [s EXCEPT !.at = "drop"]
  OBVIOUS
<1>3. next \in Shots /\ next.at = "drop" /\ next.of = s.of /\ ShotIs(next)
  BY <1>1, <1>2 DEF Shots, ShotIs
<1>4. Save(s) /\ Overtakes(v, next) /\ shown' = shown /\ shots' = shots
  BY <1>1, <1>2 DEF SwapRow
<1>5. photo' \in [PhotoIds -> PhotoRows]
  BY <1>4, SaveIs
<1>6. Current(next, shown', photo')
  BY <1>3 DEF Current, Uploading, Replacing
<1>7. PhotosInv' /\ shot'[v] = next
  <2>1. shown' \in SUBSET PhotoIds /\ IsFiniteSet(shown')
    BY <1>4 DEF PhotosInv, PhotosTypeOK
  <2>2. QED BY <1>3, <1>4, <1>5, <1>6, <2>1, CommitKeeps
<1>8. ASSUME ~s.late, InLine(shown, photo) PROVE InLine(shown', photo')
  <2>1. PICK p \in shown : /\ SeenOne(s, p, photo) /\ DOMAIN s.put = {p}
                           /\ s.put[p].primary = photo[p].primary /\ s.put[p].position = photo[p].position
    BY <1>1, <1>8 DEF Current, Replacing
  <2>2. \A q \in PhotoIds : photo'[q] = IF q = p THEN s.put[p] ELSE photo[q]
    BY <1>4, <2>1, SaveIs DEF SeenOne
  <2>3. PICK g : g = photo'
    OBVIOUS
  <2>4. \A q \in shown : (g[q].primary <=> photo[q].primary) /\ g[q].position = photo[q].position
    BY <2>1, <2>2, <2>3 DEF PhotosInv, PhotosTypeOK
  <2>5. InLine(shown, g)
    BY <1>8, <2>4, SameLine
  <2>6. QED BY <1>4, <2>3, <2>5
<1>9. QED BY <1>1, <1>3, <1>7, <1>8 DEF Saves

LEMMA SaveRowsCommits ==
  ASSUME PhotosInv, NEW v \in Viewers, SaveRows(v), Changed(shot[v]) \subseteq shown
  PROVE  Saves(v)
<1>1. PICK s \in Shots : s = shot[v] /\ (s.late \/ Current(s, shown, photo)) /\ s.at = "save"
  BY DEF PhotosInv, PhotosTypeOK, SaveRows
<1>2. Save(s) /\ Overtakes(v, Quiet) /\ shown' = shown /\ shots' = shots
  BY <1>1 DEF SaveRows
<1>3. photo' \in [PhotoIds -> PhotoRows]
  BY <1>2, SaveIs
<1>4. PhotosInv' /\ shot'[v] = Quiet
  <2>1. shown' \in SUBSET PhotoIds /\ IsFiniteSet(shown')
    BY <1>2 DEF PhotosInv, PhotosTypeOK
  <2>2. PICK q \in Shots : q = Quiet
    BY QuietIs
  <2>3. QED BY <1>2, <1>3, <2>1, <2>2, QuietIs, CommitKeeps
<1>5. ASSUME ~s.late, InLine(shown, photo) PROVE InLine(shown', photo')
  <2>1. /\ DOMAIN s.seen = shown /\ DOMAIN s.put = shown /\ \A q \in shown : s.seen[q] = photo[q]
        /\ InLine(shown, s.put)
    BY <1>1, <1>5 DEF Current
  <2>2. \A q \in PhotoIds : photo'[q] = IF q \in shown THEN s.put[q] ELSE photo[q]
    BY <1>2, <2>1, SaveIs
  <2>3. PICK g : g = photo'
    OBVIOUS
  <2>4. \A q \in shown : g[q] = s.put[q]
    BY <2>2, <2>3 DEF PhotosInv, PhotosTypeOK
  <2>5. PICK f : f = s.put
    OBVIOUS
  <2>6. \A q \in shown : (g[q].primary <=> f[q].primary) /\ g[q].position = f[q].position
    BY <2>4, <2>5
  <2>7. InLine(shown, g)
    BY <2>1, <2>5, <2>6, SameLine
  <2>8. QED BY <1>2, <2>3, <2>7
<1>6. QED BY <1>1, <1>4, <1>5, QuietIs DEF Saves

LEMMA RemoveRowCommits ==
  ASSUME PhotosInv, NEW v \in Viewers, RemoveRow(v), Changed(shot[v]) \subseteq shown
  PROVE  Saves(v)
<1>1. PICK s \in Shots : s = shot[v] /\ (s.late \/ Current(s, shown, photo)) /\ s.at = "remove"
  BY DEF PhotosInv, PhotosTypeOK, RemoveRow
<1>2. Save(s) /\ Overtakes(v, Quiet) /\ shown' = shown \ s.of /\ shots' = shots
  BY <1>1 DEF RemoveRow
<1>3. photo' \in [PhotoIds -> PhotoRows]
  BY <1>2, SaveIs
<1>4. PhotosInv' /\ shot'[v] = Quiet
  <2>1. shown' \in SUBSET PhotoIds /\ IsFiniteSet(shown')
    BY <1>2, FS_Subset DEF PhotosInv, PhotosTypeOK
  <2>2. PICK q \in Shots : q = Quiet
    BY QuietIs
  <2>3. QED BY <1>2, <1>3, <2>1, <2>2, QuietIs, CommitKeeps
<1>5. ASSUME ~s.late, InLine(shown, photo) PROVE InLine(shown', photo')
  <2>1. PICK p \in shown : /\ s.of = {p} /\ DOMAIN s.seen = shown \ {p} /\ DOMAIN s.put = shown \ {p}
                           /\ \A q \in shown \ {p} : s.seen[q] = photo[q]
                           /\ InLine(shown \ {p}, s.put)
    BY <1>1, <1>5 DEF Current
  <2>2. PICK L : L = shown \ {p}
    OBVIOUS
  <2>3. \A q \in PhotoIds : photo'[q] = IF q \in L THEN s.put[q] ELSE photo[q]
    BY <1>2, <2>1, <2>2, SaveIs
  <2>4. PICK g : g = photo'
    OBVIOUS
  <2>5. PICK f : f = s.put
    OBVIOUS
  <2>6. \A q \in L : (g[q].primary <=> f[q].primary) /\ g[q].position = f[q].position
    BY <2>2, <2>3, <2>4, <2>5 DEF PhotosInv, PhotosTypeOK
  <2>7. InLine(L, g)
    BY <2>1, <2>2, <2>5, <2>6, SameLine
  <2>8. shown' = L
    BY <1>2, <2>1, <2>2
  <2>9. QED BY <2>4, <2>7, <2>8
<1>6. QED BY <1>1, <1>4, <1>5, QuietIs DEF Saves

-----------------------------------------------------------------------------
LEMMA PhotosStart == PhotosInit => PhotosInv
<1> SUFFICES ASSUME PhotosInit PROVE PhotosInv
  OBVIOUS
<1>1. \A p \in PhotoIds : Row0(p) \in PhotoRows
  <2>1. ASSUME NEW p \in PhotoIds PROVE Row0(p) \in PhotoRows
    <3>1. <<p, 0>> \in PhotoIds \X Nat
      OBVIOUS
    <3>2. QED BY <3>1 DEF Row0, Key, PhotoRows
  <2>2. QED BY <2>1
<1>2. PhotosTypeOK
  BY <1>1, QuietIs, FS_EmptySet DEF PhotosInit, PhotosTypeOK
<1>3. ASSUME NEW v \in Viewers PROVE shot[v] = Quiet
  BY DEF PhotosInit
<1>4. QED BY <1>2, <1>3, QuietIs DEF PhotosInv

\* A step keeps the rows as they are, or is a commit.
LEMMA PhotosMove ==
  ASSUME PhotosInv, PhotosNext
  PROVE  (PhotosInv' /\ shown' = shown /\ photo' = photo) \/ \E v \in Viewers : Saves(v)
<1>1. PICK v \in Viewers :
        \/ \E p \in PhotoIds : Upload(v, p) \/ Replace(v, p) \/ MakePrimary(v, p) \/ Delete(v, p)
        \/ \E order \in SetToSeqs(shown) : Reorder(v, order)
        \/ WriteFile(v) \/ AddRow(v) \/ SwapRow(v) \/ DropOld(v) \/ SaveRows(v)
        \/ Unlink(v) \/ Flush(v) \/ RemoveRow(v) \/ CutOff(v)
  BY DEF PhotosNext
<1>2. ASSUME NEW p \in PhotoIds, Upload(v, p) \/ Replace(v, p) \/ MakePrimary(v, p) \/ Delete(v, p)
      PROVE  PhotosInv' /\ shown' = shown /\ photo' = photo
  <2>1. shown' = shown /\ photo' = photo
    BY <1>2 DEF Upload, Replace, MakePrimary, Delete
  <2>2. QED BY <1>2, <2>1, UploadKeeps, ReplaceKeeps, MakePrimaryKeeps, DeleteKeeps
<1>3. ASSUME NEW order \in SetToSeqs(shown), Reorder(v, order)
      PROVE  PhotosInv' /\ shown' = shown /\ photo' = photo
  BY <1>3, ReorderKeeps DEF Reorder
<1>4. CASE WriteFile(v)
  BY <1>4, WriteFileKeeps DEF WriteFile
<1>5. CASE DropOld(v)
  BY <1>5, BreaksKeeps DEF DropOld
<1>6. CASE Unlink(v)
  BY <1>6, MovesKeeps DEF Unlink
<1>7. CASE Flush(v)
  BY <1>7, FlushKeeps DEF Flush
<1>8. CASE CutOff(v)
  BY <1>8, BreaksKeeps DEF CutOff
<1>9. CASE AddRow(v)
  BY <1>9, AddRowCommits
<1>10. CASE SwapRow(v)
  BY <1>10, SwapRowCommits, BreaksKeeps DEF SwapRow
<1>11. CASE SaveRows(v)
  BY <1>11, SaveRowsCommits, BreaksKeeps DEF SaveRows
<1>12. CASE RemoveRow(v)
  BY <1>12, RemoveRowCommits, BreaksKeeps DEF RemoveRow
<1>13. QED BY <1>1, <1>2, <1>3, <1>4, <1>5, <1>6, <1>7, <1>8, <1>9, <1>10, <1>11, <1>12

LEMMA PhotosStep == PhotosInv /\ [PhotosNext]_photos => PhotosInv'
<1> SUFFICES ASSUME PhotosInv, [PhotosNext]_photos PROVE PhotosInv'
  OBVIOUS
<1>1. CASE UNCHANGED photos
  BY <1>1 DEF photos, PhotosInv, PhotosTypeOK
<1>2. QED BY <1>1, PhotosMove DEF Saves

\* For any photos, requests and orders: one primary photo and positions without
\* a gap are lost only to a request that had read rows another changed since
\* (routers/photos.py).
THEOREM PrimaryStays == PhotosSpec => PrimaryKept
<1>1. ASSUME PhotosInv, PhotosNext, InOrder(Read), ~InOrder(Read')
      PROVE  \E v \in Viewers : shot[v].late /\ shot'[v] # shot[v]
  <2>1. InOrder(Read) <=> InLine(shown, photo)
    <3>1. IsFiniteSet(shown)
      BY <1>1 DEF PhotosInv, PhotosTypeOK
    <3>2. InOrder([p \in shown |-> photo[p]]) <=> InLine(shown, photo)
      BY <3>1, InOrderIs
    <3>3. QED BY <3>2 DEF Read
  <2>2. ASSUME PhotosInv' PROVE InOrder(Read') <=> InLine(shown', photo')
    BY <2>2, InOrderIs DEF PhotosInv, PhotosTypeOK, Read
  <2>3. PhotosInv'
    BY <1>1, PhotosMove DEF Saves
  <2>4. QED BY <1>1, <2>1, <2>2, <2>3, PhotosMove DEF Saves
<1>2. PhotosInv /\ [PhotosNext]_photos =>
        [InOrder(Read) /\ ~InOrder(Read') => \E v \in Viewers : shot[v].late /\ shot'[v] # shot[v]]_photos
  BY <1>1
<1>3. QED BY <1>2, PhotosStart, PhotosStep, PTL DEF PhotosSpec, PrimaryKept

-----------------------------------------------------------------------------
(* Photos: the row of a photo names a file that is there.                   *)

Stem(p, n) == {p} \X (0 .. n)

\* What a request does to the files, given the photos that have had a row.
Sound(s, had, rows, pics, n) ==
  /\ Uploading(s) => \A p \in s.of : p \notin had /\ s.put[p].key = Key(p, 0)
  /\ Uploading(s) \/ s.of \subseteq had
  /\ Replacing(s) \/ s.at \in {"drop", "unlink"} => s.of \subseteq DOMAIN s.seen
  /\ Replacing(s) =>
       \E p \in PhotoIds : s.of = {p} /\ DOMAIN s.put = {p} /\ s.put[p].key \in Stem(p, n) \ {rows[p].key}
  /\ s.at \in {"swap", "add"} => \A p \in s.of : s.put[p].key \in pics
  /\ s.at \in {"save", "remove"} => \A p \in DOMAIN s.put : p \in DOMAIN s.seen /\ s.put[p].key = s.seen[p].key
  /\ s.at \in {"unlink", "flush"} => \E p \in PhotoIds : s.of = {p}
  /\ s.at = "drop" => \A p \in s.of : s.seen[p].key # rows[p].key
  /\ \A p \in DOMAIN s.seen : s.seen[p].key \in Stem(p, n)

\* The name a request has for a new file is no other's.
OwnName(s, t) == Replacing(s) => \A p \in s.of \intersect DOMAIN t.seen : t.seen[p].key # s.put[p].key
NamesApart(s, t) ==
  /\ Replacing(s) /\ Replacing(t) => \A p \in s.of \intersect t.of : s.put[p].key # t.put[p].key
  /\ Uploading(s) /\ Uploading(t) => s.of \intersect t.of = {}
OwnNames == \A v, w \in Viewers : OwnName(shot[v], shot[w]) /\ (v # w => NamesApart(shot[v], shot[w]))

Sounds == \A v \in Viewers : Sound(shot[v], shown \union gone, photo, disk, shots)
Stems == \A p \in PhotoIds : photo[p].key \in Stem(p, shots)

PictureInv == Stems /\ Sounds /\ OwnNames /\ RowHasImage

\* A request that only goes on, or ends.
Within(t, s) ==
  /\ Replacing(t) => Replacing(s) /\ t.of = s.of /\ t.put = s.put
  /\ Uploading(t) => Uploading(s) /\ t.of = s.of
  /\ \A p \in DOMAIN t.seen : p \in DOMAIN s.seen /\ t.seen[p] = s.seen[p]

\* One that was overtaken, or not.
Like(t, s) == t.at = s.at /\ t.of = s.of /\ t.seen = s.seen /\ t.put = s.put

LEMMA LikeIsWithin ==
  ASSUME NEW s, NEW t, Like(t, s)
  PROVE  Within(t, s) /\ \A had, rows, pics, n : Sound(t, had, rows, pics, n) <=> Sound(s, had, rows, pics, n)
  BY DEF Like, Within, Sound, Uploading, Replacing

LEMMA QuietIsSound ==
  /\ \A s : Within(Quiet, s)
  /\ \A had, rows, pics, n : Sound(Quiet, had, rows, pics, n)
<1>1. Quiet.at = "idle" /\ Quiet.of = {} /\ DOMAIN Quiet.seen = {}
  BY DEF Quiet, Asking, Nothing
<1>2. QED BY <1>1 DEF Within, Sound, Uploading, Replacing

LEMMA NamesStay ==
  ASSUME OwnNames, \A w \in Viewers : Within(shot'[w], shot[w])
  PROVE  OwnNames'
<1> SUFFICES ASSUME NEW v \in Viewers, NEW w \in Viewers
             PROVE  OwnName(shot'[v], shot'[w]) /\ (v # w => NamesApart(shot'[v], shot'[w]))
  BY DEF OwnNames
<1>1. Within(shot'[v], shot[v]) /\ Within(shot'[w], shot[w]) /\ OwnName(shot[v], shot[w])
      /\ (v # w => NamesApart(shot[v], shot[w]))
  BY DEF OwnNames
<1>2. OwnName(shot'[v], shot'[w])
  BY <1>1 DEF OwnName, Within
<1>3. v # w => NamesApart(shot'[v], shot'[w])
  BY <1>1 DEF NamesApart, Within
<1>4. QED BY <1>2, <1>3

\* Names of files are of one photo each.
LEMMA StemIs ==
  ASSUME NEW p, NEW q, NEW m \in Nat, NEW n \in Nat, NEW k \in Stem(p, m)
  PROVE  /\ m <= n => k \in Stem(p, n)
         /\ k \in Stem(q, n) => p = q
         /\ k # Key(p, m + 1)
         /\ Key(p, m + 1) \in Stem(p, m + 1)
         /\ Key(p, 0) \in Stem(p, n)
  BY DEF Stem, Key

-----------------------------------------------------------------------------
\* A request is begun.
LEMMA AskIsSound ==
  ASSUME PhotosInv, PictureInv, NEW v \in Viewers, NEW r, Asks(v, r), UNCHANGED <<shown, gone, photo, disk, torn>>,
         Sound(r, shown \union gone, photo, disk, shots + 1), OwnName(r, r),
         \A w \in Viewers \ {v} : /\ OwnName(r, shot[w]) /\ OwnName(shot[w], r)
                                  /\ NamesApart(r, shot[w]) /\ NamesApart(shot[w], r)
  PROVE  PictureInv'
<1>1. shots \in Nat /\ shots' = shots + 1 /\ shot[v].at = "idle"
      /\ shot'[v] = r /\ \A w \in Viewers \ {v} : shot'[w] = shot[w]
  BY DEF Asks, PhotosInv, PhotosTypeOK
<1>2. \A p : Stem(p, shots) \subseteq Stem(p, shots + 1)
  BY <1>1 DEF Stem
<1>3. Stems'
  BY <1>1, <1>2 DEF PictureInv, Stems
<1>4. ASSUME NEW w \in Viewers PROVE Sound(shot'[w], shown \union gone, photo, disk, shots + 1)
  <2>1. CASE w = v
    BY <1>1, <2>1
  <2>2. CASE w # v
    BY <1>1, <1>2, <2>2 DEF PictureInv, Sounds, Sound
  <2>3. QED BY <2>1, <2>2
<1>5. Sounds'
  BY <1>1, <1>4 DEF Sounds
<1>6. OwnNames'
  BY <1>1 DEF PictureInv, OwnNames
<1>7. RowHasImage'
  BY <1>1 DEF PictureInv, RowHasImage
<1>8. QED BY <1>3, <1>5, <1>6, <1>7 DEF PictureInv

\* Requests go on, and files come and go; the rows stay as they are.
LEMMA FilesAreSound ==
  ASSUME PhotosInv, PictureInv, NEW v \in Viewers, NEW r, shot' = [shot EXCEPT ![v] = r],
         UNCHANGED <<shown, gone, photo, shots>>, torn \subseteq torn', OwnNames',
         Sound(r, shown \union gone, photo, disk', shots),
         \A w \in Viewers \ {v} : shot[w].at \in {"swap", "add"} => \A p \in shot[w].of : shot[w].put[p].key \in disk',
         \A p \in shown : photo[p].key \in disk \/ p \in torn \/ (shot[v].at \in {"flush", "remove"} /\ p \in shot[v].of) =>
                          photo[p].key \in disk' \/ p \in torn' \/ (r.at \in {"flush", "remove"} /\ p \in r.of)
  PROVE  PictureInv'
<1>1. shot'[v] = r /\ \A w \in Viewers \ {v} : shot'[w] = shot[w]
  BY DEF PhotosInv, PhotosTypeOK
<1>2. Stems'
  BY DEF PictureInv, Stems
<1>3. ASSUME NEW w \in Viewers PROVE Sound(shot'[w], shown \union gone, photo, disk', shots)
  <2>1. CASE w = v
    BY <1>1, <2>1
  <2>2. CASE w # v
    BY <1>1, <2>2 DEF PictureInv, Sounds, Sound
  <2>3. QED BY <2>1, <2>2
<1>4. Sounds'
  BY <1>3 DEF Sounds
<1>5. RowHasImage'
  <2>1. SUFFICES ASSUME NEW p \in shown, photo[p].key \notin disk', p \notin torn'
                 PROVE  \E w \in Viewers : shot'[w].at \in {"flush", "remove"} /\ p \in shot'[w].of
    BY DEF RowHasImage
  <2>2. CASE photo[p].key \in disk \/ p \in torn
    BY <1>1, <2>1, <2>2
  <2>3. CASE ~(photo[p].key \in disk \/ p \in torn)
    <3>1. PICK w \in Viewers : shot[w].at \in {"flush", "remove"} /\ p \in shot[w].of
      BY <2>3 DEF PictureInv, RowHasImage
    <3>2. CASE w = v
      BY <1>1, <2>1, <3>1, <3>2
    <3>3. CASE w # v
      BY <1>1, <3>1, <3>3
    <3>4. QED BY <3>2, <3>3
  <2>4. QED BY <2>2, <2>3
<1>6. QED BY <1>2, <1>4, <1>5 DEF PictureInv

LEMMA AtHas ==
  ASSUME NEW at, NEW of, NEW seen, NEW put
  PROVE  /\ Asking(at, of, seen, put).at = at /\ Asking(at, of, seen, put).of = of
         /\ Asking(at, of, seen, put).seen = seen /\ Asking(at, of, seen, put).put = put
  BY DEF Asking

LEMMA UploadIsSound ==
  ASSUME PhotosInv, PictureInv, NEW v \in Viewers, NEW p \in PhotoIds, Upload(v, p)
  PROVE  PictureInv'
<1>1. PICK put : /\ Asks(v, Asking("write", {p}, Nothing, put)) /\ put[p].key = Key(p, 0)
                 /\ UNCHANGED <<shown, gone, photo, disk, torn>>
                 /\ p \notin shown \union gone /\ \A w \in Viewers : p \notin shot[w].of
  <2> DEFINE n == Cardinality(shown)
             put == [q \in {p} |-> [primary |-> n = 0, position |-> n, key |-> Key(p, 0)]]
  <2>1. put[p].key = Key(p, 0)
    OBVIOUS
  <2>2. QED BY <2>1 DEF Upload
<1>2. PICK r : r = Asking("write", {p}, Nothing, put)
  OBVIOUS
<1>3. r.at = "write" /\ r.of = {p} /\ r.seen = Nothing /\ r.put = put /\ DOMAIN r.seen = {}
  BY <1>2, AtHas DEF Nothing
<1>4. Uploading(r) /\ ~Replacing(r)
  BY <1>3 DEF Uploading, Replacing
<1>5. Sound(r, shown \union gone, photo, disk, shots + 1)
  BY <1>1, <1>3, <1>4 DEF Sound
<1>6. OwnName(r, r) /\ \A w \in Viewers : OwnName(r, shot[w]) /\ OwnName(shot[w], r)
  BY <1>3, <1>4 DEF OwnName
<1>7. \A w \in Viewers : NamesApart(r, shot[w]) /\ NamesApart(shot[w], r)
  BY <1>1, <1>3, <1>4 DEF NamesApart
<1>8. QED BY <1>1, <1>2, <1>5, <1>6, <1>7, AskIsSound

\* What is read is named as the rows are, and is nobody's new file.
LEMMA ReadIsNamed ==
  ASSUME PhotosInv, PictureInv, NEW r, \A p \in DOMAIN r.seen : p \in shown /\ r.seen[p] = photo[p], NEW w \in Viewers
  PROVE  OwnName(shot[w], r) /\ \A p \in DOMAIN r.seen : r.seen[p].key \in Stem(p, shots + 1)
<1>1. OwnName(shot[w], r)
  BY DEF OwnName, PictureInv, Sounds, Sound
<1>2. ASSUME NEW p \in DOMAIN r.seen PROVE r.seen[p].key \in Stem(p, shots + 1)
  <2>1. photo[p].key \in Stem(p, shots) /\ shots \in Nat
    BY DEF PhotosInv, PhotosTypeOK, PictureInv, Stems
  <2>2. QED BY <2>1 DEF Stem
<1>3. QED BY <1>1, <1>2

LEMMA ReplaceIsSound ==
  ASSUME PhotosInv, PictureInv, NEW v \in Viewers, NEW p \in PhotoIds, Replace(v, p)
  PROVE  PictureInv'
<1>1. p \in shown /\ shots \in Nat
  BY DEF Replace, PhotosInv, PhotosTypeOK
<1>2. PICK seen : seen = One(p) /\ seen # Nothing /\ DOMAIN seen = {p} /\ seen[p] = photo[p] /\ photo[p] \in PhotoRows
  BY <1>1, OneIs DEF PhotosInv, PhotosTypeOK
<1>3. PICK k : k = Key(p, shots + 1)
  OBVIOUS
<1>4. PICK put : put = [seen EXCEPT ![p].key = k]
  OBVIOUS
<1>5. DOMAIN put = {p} /\ put[p].key = k
  BY <1>2, <1>4 DEF PhotoRows
<1>6. PICK r : r = Asking("write", {p}, seen, put)
  OBVIOUS
<1>7. r.at = "write" /\ r.of = {p} /\ r.seen = seen /\ r.put = put
  BY <1>6, AtHas
<1>8. Asks(v, r) /\ UNCHANGED <<shown, gone, photo, disk, torn>>
  BY <1>2, <1>3, <1>4, <1>6 DEF Replace, FreshStem
<1>9. Replacing(r) /\ ~Uploading(r)
  BY <1>2, <1>7 DEF Uploading, Replacing
<1>10. k \in Stem(p, shots + 1) /\ \A m \in Stem(p, shots) : m # k
  BY <1>1, <1>3, StemIs DEF Stem, Key
<1>11. photo[p].key \in Stem(p, shots)
  BY DEF PictureInv, Stems
<1>12. \A q \in DOMAIN r.seen : q \in shown /\ r.seen[q] = photo[q]
  BY <1>1, <1>2, <1>7
<1>13. \A q \in DOMAIN r.seen : r.seen[q].key \in Stem(q, shots + 1)
  BY <1>12, ReadIsNamed
<1>14. Sound(r, shown \union gone, photo, disk, shots + 1)
  BY <1>1, <1>2, <1>5, <1>7, <1>9, <1>10, <1>11, <1>13 DEF Sound
<1>15. OwnName(r, r)
  BY <1>2, <1>5, <1>7, <1>10, <1>11 DEF OwnName
<1>16. ASSUME NEW w \in Viewers \ {v}
       PROVE  OwnName(r, shot[w]) /\ OwnName(shot[w], r) /\ NamesApart(r, shot[w]) /\ NamesApart(shot[w], r)
  <2>1. Sound(shot[w], shown \union gone, photo, disk, shots)
    BY DEF PictureInv, Sounds
  <2>2. OwnName(r, shot[w])
    BY <1>5, <1>7, <1>10, <2>1 DEF OwnName, Sound
  <2>3. OwnName(shot[w], r)
    BY <1>12, ReadIsNamed
  <2>4. NamesApart(r, shot[w]) /\ NamesApart(shot[w], r)
    BY <1>5, <1>7, <1>9, <1>10, <2>1 DEF NamesApart, Sound
  <2>5. QED BY <2>2, <2>3, <2>4
<1>17. QED BY <1>8, <1>14, <1>15, <1>16, AskIsSound

\* A request for rows leaves the names of their files.
LEMMA RowsAreSound ==
  ASSUME PhotosInv, PictureInv, NEW v \in Viewers, NEW r, Asks(v, r), UNCHANGED <<shown, gone, photo, disk, torn>>,
         r.at \in {"save", "unlink"}, r.of \subseteq shown, r.at = "unlink" => r.of \subseteq DOMAIN r.seen /\ \E p \in PhotoIds : r.of = {p},
         \A p \in DOMAIN r.seen : p \in shown /\ r.seen[p] = photo[p],
         r.at = "save" => \A p \in DOMAIN r.put : p \in DOMAIN r.seen /\ r.put[p].key = r.seen[p].key
  PROVE  PictureInv'
<1>1. ~Uploading(r) /\ ~Replacing(r)
  BY DEF Uploading, Replacing
<1>2. Sound(r, shown \union gone, photo, disk, shots + 1)
  BY <1>1, ReadIsNamed DEF Sound
<1>3. OwnName(r, r) /\ \A w \in Viewers : OwnName(r, shot[w])
  BY <1>1 DEF OwnName
<1>4. \A w \in Viewers : NamesApart(r, shot[w]) /\ NamesApart(shot[w], r)
  BY <1>1 DEF NamesApart
<1>5. \A w \in Viewers : OwnName(shot[w], r)
  BY ReadIsNamed
<1>6. QED BY <1>2, <1>3, <1>4, <1>5, AskIsSound

LEMMA RequestIsSound ==
  ASSUME PhotosInv, PictureInv, NEW v \in Viewers, NEW p,
         MakePrimary(v, p) \/ Delete(v, p) \/ \E order \in SetToSeqs(shown) : Reorder(v, order)
  PROVE  PictureInv'
<1>1. UNCHANGED <<shown, gone, photo, disk, torn>>
  BY DEF MakePrimary, Delete, Reorder
<1>2. PICK read : read = Read /\ DOMAIN read = shown /\ \A q \in shown : read[q] = photo[q] /\ photo[q] \in PhotoRows
  BY ReadIs DEF PhotosInv, PhotosTypeOK
<1>3. ASSUME NEW put, DOMAIN put = shown, \A q \in shown : put[q].key = photo[q].key, Asks(v, Asking("save", {}, read, put))
      PROVE  PictureInv'
  <2>1. PICK r : r = Asking("save", {}, read, put)
    OBVIOUS
  <2>2. r.at = "save" /\ r.of = {} /\ r.seen = read /\ r.put = put
    BY <2>1, AtHas
  <2>3. QED BY <1>1, <1>2, <1>3, <2>1, <2>2, RowsAreSound
<1>4. CASE MakePrimary(v, p)
  <2> DEFINE put == [q \in shown |-> [photo[q] EXCEPT !.primary = q = p]]
  <2>1. DOMAIN put = shown /\ \A q \in shown : put[q].key = photo[q].key
    BY <1>2 DEF PhotoRows
  <2>2. Asks(v, Asking("save", {}, read, put))
    BY <1>2, <1>4 DEF MakePrimary
  <2> HIDE DEF put
  <2>3. QED BY <1>3, <2>1, <2>2
<1>5. ASSUME NEW order \in SetToSeqs(shown), Reorder(v, order) PROVE PictureInv'
  <2> DEFINE put == [q \in shown |-> [photo[q] EXCEPT !.position = (CHOOSE k \in DOMAIN order : order[k] = q) - 1]]
  <2>1. DOMAIN put = shown /\ \A q \in shown : put[q].key = photo[q].key
    BY <1>2 DEF PhotoRows
  <2>2. Asks(v, Asking("save", {}, read, put))
    BY <1>2, <1>5 DEF Reorder
  <2> HIDE DEF put
  <2>3. QED BY <1>3, <2>1, <2>2
<1>6. CASE Delete(v, p)
  <2>1. p \in shown /\ p \in PhotoIds
    BY <1>6 DEF Delete, PhotosInv, PhotosTypeOK
  <2>2. PICK seen : seen = One(p) /\ DOMAIN seen = {p} /\ seen[p] = photo[p]
    BY <2>1, OneIs
  <2>3. PICK r : r = Asking("unlink", {p}, seen, Nothing)
    OBVIOUS
  <2>4. r.at = "unlink" /\ r.of = {p} /\ r.seen = seen
    BY <2>3, AtHas
  <2>5. Asks(v, r)
    BY <1>6, <2>2, <2>3 DEF Delete
  <2>6. QED BY <1>1, <2>1, <2>2, <2>4, <2>5, RowsAreSound
<1>7. QED BY <1>4, <1>5, <1>6

\* One request goes on or ends.
LEMMA NamesGoOn ==
  ASSUME PhotosInv, PictureInv, NEW v \in Viewers, NEW r, shot' = [shot EXCEPT ![v] = r], Within(r, shot[v])
  PROVE  OwnNames'
<1>1. \A w \in Viewers : Within(shot'[w], shot[w])
  BY DEF Within, PhotosInv, PhotosTypeOK
<1>2. QED BY <1>1, NamesStay DEF PictureInv

\* A request breaks off.
LEMMA BreaksIsSound ==
  ASSUME PhotosInv, PictureInv, NEW v \in Viewers, Breaks(v), UNCHANGED <<shown, gone, photo, shots>>,
         torn \subseteq torn', disk' \subseteq disk,
         \A w \in Viewers \ {v} : shot[w].at \in {"swap", "add"} => \A p \in shot[w].of : shot[w].put[p].key \in disk',
         \A p \in shown : photo[p].key \in disk => photo[p].key \in disk',
         shot[v].at \in {"flush", "remove"} => \A p \in shown \intersect shot[v].of : p \in torn'
  PROVE  PictureInv'
<1>1. PICK r : r = Quiet
  OBVIOUS
<1>2. shot' = [shot EXCEPT ![v] = r] /\ Within(r, shot[v]) /\ Sound(r, shown \union gone, photo, disk', shots)
  BY <1>1, QuietIsSound DEF Breaks
<1>3. OwnNames'
  BY <1>2, NamesGoOn
<1>4. QED BY <1>2, <1>3, FilesAreSound

\* A request moves on.
LEMMA MovesTo ==
  ASSUME PhotosInv, NEW v \in Viewers, NEW to, Moves(v, to)
  PROVE  \E r : /\ shot' = [shot EXCEPT ![v] = r] /\ r.at = to
                /\ r.of = shot[v].of /\ r.seen = shot[v].seen /\ r.put = shot[v].put
<1>1. PICK s \in Shots : s = shot[v]
  BY DEF PhotosInv, PhotosTypeOK
<1>2. PICK r : r = [s EXCEPT !.at = to]
  OBVIOUS
<1>3. r.at = to /\ r.of = s.of /\ r.seen = s.seen /\ r.put = s.put
  BY <1>1, <1>2 DEF Shots
<1>4. QED BY <1>1, <1>2, <1>3 DEF Moves

\* The files of a row that a request has read are no request's new ones.
LEMMA NewFilesStay ==
  ASSUME PhotosInv, PictureInv, NEW v \in Viewers, NEW w \in Viewers, shot[v].at \in {"drop", "unlink"},
         shot[w].at \in {"swap", "add"}, NEW p \in shot[w].of
  PROVE  shot[w].put[p].key \notin Files(shot[v])
<1>1. Sound(shot[v], shown \union gone, photo, disk, shots) /\ Sound(shot[w], shown \union gone, photo, disk, shots)
      /\ OwnName(shot[w], shot[v]) /\ shots \in Nat
  BY DEF PictureInv, Sounds, OwnNames, PhotosInv, PhotosTypeOK
<1>2. SUFFICES ASSUME NEW q \in shot[v].of, shot[v].seen[q].key = shot[w].put[p].key PROVE FALSE
  BY DEF Files
<1>3. q \in DOMAIN shot[v].seen /\ q \in shown \union gone /\ shot[v].seen[q].key \in Stem(q, shots)
  BY <1>1, <1>2 DEF Sound, Uploading
<1>4. CASE shot[w].at = "swap"
  <2>1. Replacing(shot[w]) /\ shot[w].put[p].key \in Stem(p, shots)
    BY <1>1, <1>4 DEF Replacing, Sound
  <2>2. p = q
    BY <1>1, <1>2, <1>3, <2>1, StemIs
  <2>3. QED BY <1>1, <1>2, <1>3, <2>1, <2>2 DEF OwnName
<1>5. CASE shot[w].at = "add"
  <2>1. p \notin shown \union gone /\ shot[w].put[p].key = Key(p, 0)
    BY <1>1, <1>5 DEF Uploading, Sound
  <2>2. Key(p, 0) \in Stem(p, shots)
    BY <1>1 DEF Stem, Key
  <2>3. p = q
    BY <1>1, <1>2, <1>3, <2>1, <2>2, StemIs
  <2>4. QED BY <1>3, <2>1, <2>3
<1>6. QED BY <1>4, <1>5

\* The row they are deleted of is the one that names them.
LEMMA OthersFilesStay ==
  ASSUME PhotosInv, PictureInv, NEW v \in Viewers, shot[v].at \in {"drop", "unlink"}, NEW p \in shown,
         photo[p].key \in Files(shot[v])
  PROVE  shot[v].at = "unlink" /\ p \in shot[v].of
<1>1. Sound(shot[v], shown \union gone, photo, disk, shots) /\ shots \in Nat /\ photo[p].key \in Stem(p, shots)
  BY DEF PictureInv, Sounds, Stems, PhotosInv, PhotosTypeOK
<1>2. PICK q \in shot[v].of : shot[v].seen[q].key = photo[p].key
  BY DEF Files
<1>3. shot[v].seen[q].key \in Stem(q, shots)
  BY <1>1, <1>2 DEF Sound
<1>4. p = q
  BY <1>1, <1>2, <1>3, StemIs
<1>5. QED BY <1>1, <1>2, <1>4 DEF Sound

LEMMA WriteFileIsSound ==
  ASSUME PhotosInv, PictureInv, NEW v \in Viewers, WriteFile(v)
  PROVE  PictureInv'
<1>1. shot[v].at = "write" /\ UNCHANGED <<shown, gone, photo, shots, torn>>
  BY DEF WriteFile
<1>2. Sound(shot[v], shown \union gone, photo, disk, shots)
  BY DEF PictureInv, Sounds
<1>3. \A w \in Viewers : shot[w].at \in {"swap", "add"} => \A p \in shot[w].of : shot[w].put[p].key \in disk
  BY DEF PictureInv, Sounds, Sound
<1>4. CASE Breaks(v) /\ disk' = disk
  BY <1>1, <1>3, <1>4, BreaksIsSound
<1>5. ASSUME NEW to, Moves(v, to), to = IF shot[v].seen = Nothing THEN "add" ELSE "swap",
             disk' = disk \union {shot[v].put[p].key : p \in shot[v].of}
      PROVE  PictureInv'
  <2>1. PICK r : /\ shot' = [shot EXCEPT ![v] = r] /\ r.at = to
                 /\ r.of = shot[v].of /\ r.seen = shot[v].seen /\ r.put = shot[v].put
    BY <1>5, MovesTo
  <2>2. (Uploading(r) <=> Uploading(shot[v])) /\ (Replacing(r) <=> Replacing(shot[v]))
    BY <1>1, <1>5, <2>1 DEF Uploading, Replacing
  <2>3. Within(r, shot[v])
    BY <2>1, <2>2 DEF Within
  <2>4. Sound(r, shown \union gone, photo, disk', shots)
    BY <1>1, <1>2, <1>5, <2>1, <2>2 DEF Sound
  <2>5. OwnNames'
    BY <2>1, <2>3, NamesGoOn
  <2>6. QED BY <1>1, <1>3, <1>5, <2>1, <2>4, <2>5, FilesAreSound
<1>6. QED BY <1>4, <1>5 DEF WriteFile

LEMMA DropOldIsSound ==
  ASSUME PhotosInv, PictureInv, NEW v \in Viewers, DropOld(v)
  PROVE  PictureInv'
<1>1. /\ shot[v].at = "drop" /\ UNCHANGED <<shown, gone, photo, shots, torn>>
      /\ disk' = disk \ Files(shot[v]) /\ Breaks(v)
  BY DEF DropOld
<1>2. \A w \in Viewers : shot[w].at \in {"swap", "add"} => \A p \in shot[w].of : shot[w].put[p].key \in disk
  BY DEF PictureInv, Sounds, Sound
<1>3. \A w \in Viewers : shot[w].at \in {"swap", "add"} => \A p \in shot[w].of : shot[w].put[p].key \in disk'
  BY <1>1, <1>2, NewFilesStay
<1>4. \A p \in shown : photo[p].key \in disk => photo[p].key \in disk'
  BY <1>1, OthersFilesStay
<1>5. QED BY <1>1, <1>3, <1>4, BreaksIsSound

LEMMA UnlinkIsSound ==
  ASSUME PhotosInv, PictureInv, NEW v \in Viewers, Unlink(v)
  PROVE  PictureInv'
<1>1. /\ shot[v].at = "unlink" /\ UNCHANGED <<shown, gone, photo, shots, torn>>
      /\ disk' = disk \ Files(shot[v]) /\ Moves(v, "flush")
  BY DEF Unlink
<1>2. \A w \in Viewers : shot[w].at \in {"swap", "add"} => \A p \in shot[w].of : shot[w].put[p].key \in disk
  BY DEF PictureInv, Sounds, Sound
<1>3. \A w \in Viewers : shot[w].at \in {"swap", "add"} => \A p \in shot[w].of : shot[w].put[p].key \in disk'
  BY <1>1, <1>2, NewFilesStay
<1>4. PICK r : /\ shot' = [shot EXCEPT ![v] = r] /\ r.at = "flush"
               /\ r.of = shot[v].of /\ r.seen = shot[v].seen /\ r.put = shot[v].put
  BY <1>1, MovesTo
<1>5. Sound(shot[v], shown \union gone, photo, disk, shots)
  BY DEF PictureInv, Sounds
<1>6. Within(r, shot[v]) /\ Sound(r, shown \union gone, photo, disk', shots)
  BY <1>1, <1>4, <1>5 DEF Within, Sound, Uploading, Replacing
<1>7. OwnNames'
  BY <1>4, <1>6, NamesGoOn
<1>8. \A p \in shown : photo[p].key \in disk => photo[p].key \in disk' \/ p \in r.of
  BY <1>1, <1>4, OthersFilesStay
<1>9. QED BY <1>1, <1>3, <1>4, <1>6, <1>7, <1>8, FilesAreSound

LEMMA CutOffIsSound ==
  ASSUME PhotosInv, PictureInv, NEW v \in Viewers, CutOff(v)
  PROVE  PictureInv'
<1>1. Breaks(v) /\ UNCHANGED <<shown, gone, photo, disk, shots>> /\ torn \subseteq torn'
      /\ (shot[v].at \in {"flush", "remove"} => shot[v].of \subseteq torn')
  BY DEF CutOff
<1>2. \A w \in Viewers : shot[w].at \in {"swap", "add"} => \A p \in shot[w].of : shot[w].put[p].key \in disk
  BY DEF PictureInv, Sounds, Sound
<1>3. QED BY <1>1, <1>2, BreaksIsSound

\* The rows that are left keep their files.
LEMMA ClosedKeepsNames ==
  ASSUME NEW L, NEW rows, NEW place, NEW heir \in BOOLEAN, DOMAIN rows = L, NEW q \in L, rows[q] \in PhotoRows,
         place[q] \in Nat
  PROVE  DOMAIN Closed(rows, place, heir) = L /\ Closed(rows, place, heir)[q].key = rows[q].key
<1>1. PICK x \in PhotoRows : x = rows[q]
  OBVIOUS
<1>2. PICK b \in BOOLEAN : b = (x.primary \/ (heir /\ place[q] = 0))
  OBVIOUS
<1>3. PICK n \in Nat : n = place[q]
  OBVIOUS
<1>4. Closed(rows, place, heir)[q] = [x EXCEPT !.position = n, !.primary = b] /\ DOMAIN Closed(rows, place, heir) = L
  BY <1>1, <1>2, <1>3 DEF Closed
<1>5. [x EXCEPT !.position = n, !.primary = b].key = x.key
  BY <1>1 DEF PhotoRows
<1>6. QED BY <1>1, <1>4, <1>5

LEMMA FlushIsSound ==
  ASSUME PhotosInv, PictureInv, NEW v \in Viewers, Flush(v)
  PROVE  PictureInv'
<1>1. shot[v].at = "flush" /\ UNCHANGED <<shown, gone, photo, disk, shots, torn>>
  BY DEF Flush
<1>2. \A w \in Viewers : shot[w].at \in {"swap", "add"} => \A p \in shot[w].of : shot[w].put[p].key \in disk
  BY DEF PictureInv, Sounds, Sound
<1>3. Sound(shot[v], shown \union gone, photo, disk, shots)
  BY DEF PictureInv, Sounds
<1>4. PictureInv'
  <2>1. PICK s \in Shots : s = shot[v] /\ s.at = "flush"
    BY <1>1 DEF PhotosInv, PhotosTypeOK
  <2>2. PICK L \in SUBSET shown : L = shown \ s.of
    OBVIOUS
  <2>3. PICK left : left = [q \in L |-> photo[q]]
    OBVIOUS
  <2>4. PICK heir \in BOOLEAN : heir = \E p \in s.of : s.seen[p].primary
    OBVIOUS
  <2>5. PICK place \in Places(left) :
          shot' = [shot EXCEPT ![v] = [@ EXCEPT !.at = "remove", !.seen = left, !.put = Closed(left, place, heir)]]
    BY <2>1, <2>2, <2>3, <2>4 DEF Flush
  <2>6. PICK put : put = Closed(left, place, heir)
    OBVIOUS
  <2>7. PICK r : r = [s EXCEPT !.at = "remove", !.seen = left, !.put = put]
    OBVIOUS
  <2>8. shot' = [shot EXCEPT ![v] = r]
    BY <2>1, <2>5, <2>6, <2>7
  <2>9. r.at = "remove" /\ r.of = s.of /\ r.seen = left /\ r.put = put
    BY <2>1, <2>7 DEF Shots
  <2>10. DOMAIN left = L /\ \A q \in L : left[q] = photo[q] /\ photo[q] \in PhotoRows
    BY <2>3 DEF PhotosInv, PhotosTypeOK
  <2>11. \A q \in L : place[q] \in Nat
    <3>1. Cardinality(L) \in Nat
      BY FS_Subset, FS_CardinalityType DEF PhotosInv, PhotosTypeOK
    <3>2. QED BY <2>5, <2>10, <3>1 DEF Places
  <2>12. DOMAIN put = L /\ \A q \in L : put[q].key = left[q].key
    <3>1. DOMAIN put = L
      BY <2>6, <2>10 DEF Closed
    <3>2. QED BY <2>6, <2>10, <2>11, <3>1, ClosedKeepsNames
  <2>13. ~Uploading(r) /\ ~Replacing(r)
    BY <2>9 DEF Uploading, Replacing
  <2>14. \A q \in DOMAIN r.seen : q \in shown /\ r.seen[q] = photo[q]
    BY <2>2, <2>9, <2>10
  <2>15. Sound(r, shown \union gone, photo, disk, shots)
    <3>1. \A q \in L : left[q].key \in Stem(q, shots)
      BY <2>10 DEF PictureInv, Stems, PhotosInv, PhotosTypeOK
    <3>2. r.of \subseteq shown \union gone
      <4>1. ~Uploading(shot[v])
        BY <1>1 DEF Uploading
      <4>2. QED BY <1>3, <2>1, <2>9, <4>1 DEF Sound
    <3>3. QED BY <2>9, <2>10, <2>12, <2>13, <3>1, <3>2 DEF Sound
  <2>16. OwnNames'
    <3>1. \A w \in Viewers : shot'[w] = IF w = v THEN r ELSE shot[w]
      BY <2>8 DEF PhotosInv, PhotosTypeOK
    <3>2. \A w \in Viewers : OwnName(shot[w], r)
      BY <2>14, ReadIsNamed
    <3>3. OwnName(r, r) /\ \A w \in Viewers : OwnName(r, shot[w]) /\ NamesApart(r, shot[w]) /\ NamesApart(shot[w], r)
      BY <2>13 DEF OwnName, NamesApart
    <3>4. QED BY <3>1, <3>2, <3>3 DEF OwnNames, PictureInv
  <2>17. QED BY <1>1, <1>2, <2>1, <2>8, <2>9, <2>15, <2>16, FilesAreSound
<1>5. QED BY <1>4

-----------------------------------------------------------------------------
\* A commit, as the others see it.
LEMMA OvertakesIs ==
  ASSUME PhotosInv, NEW v \in Viewers, NEW next, Overtakes(v, next)
  PROVE  shot'[v] = next /\ \A w \in Viewers \ {v} : Like(shot'[w], shot[w])
<1>1. shot'[v] = next
  BY DEF Overtakes
<1>2. ASSUME NEW w \in Viewers \ {v} PROVE Like(shot'[w], shot[w])
  <2>1. PICK s \in Shots : s = shot[w]
    BY DEF PhotosInv, PhotosTypeOK
  <2>2. shot'[w] = [s EXCEPT !.late = s.at # "idle"]
    BY <2>1 DEF Overtakes
  <2>3. QED BY <2>1, <2>2 DEF Like, Shots
<1>3. QED BY <1>1, <1>2

LEMMA CommitIsSound ==
  ASSUME PhotosInv, PictureInv, NEW v \in Viewers, NEW next, Overtakes(v, next), UNCHANGED <<disk, shots, torn>>,
         Within(next, shot[v]), Sound(next, shown' \union gone', photo', disk, shots),
         \A w \in Viewers \ {v} : Sound(shot[w], shown' \union gone', photo', disk, shots),
         Stems', shot[v].at \in {"flush", "remove"} => shot[v].of \intersect shown' = {},
         \A p \in shown' : photo'[p].key \in disk \/ (p \in shown /\ photo'[p].key = photo[p].key)
  PROVE  PictureInv'
<1>1. shot'[v] = next /\ \A w \in Viewers \ {v} : Like(shot'[w], shot[w])
  BY OvertakesIs
<1>2. ASSUME NEW w \in Viewers PROVE Within(shot'[w], shot[w]) /\ Sound(shot'[w], shown' \union gone', photo', disk, shots)
  <2>1. CASE w = v
    BY <1>1, <2>1
  <2>2. CASE w # v
    BY <1>1, <2>2, LikeIsWithin
  <2>3. QED BY <2>1, <2>2
<1>3. Sounds'
  BY <1>2 DEF Sounds
<1>4. OwnNames'
  BY <1>2, NamesStay DEF PictureInv
<1>5. RowHasImage'
  <2>1. SUFFICES ASSUME NEW p \in shown', photo'[p].key \notin disk, p \notin torn
                 PROVE  \E w \in Viewers : shot'[w].at \in {"flush", "remove"} /\ p \in shot'[w].of
    BY DEF RowHasImage
  <2>2. PICK w \in Viewers : shot[w].at \in {"flush", "remove"} /\ p \in shot[w].of
    BY <2>1 DEF PictureInv, RowHasImage
  <2>3. w # v
    BY <2>1, <2>2
  <2>4. QED BY <1>1, <2>2, <2>3 DEF Like
<1>6. QED BY <1>3, <1>4, <1>5 DEF PictureInv

LEMMA AddRowIsSound ==
  ASSUME PhotosInv, PictureInv, NEW v \in Viewers, AddRow(v)
  PROVE  PictureInv'
<1>1. /\ shot[v].at = "add" /\ shown' = shown \union shot[v].of
      /\ \A p \in PhotoIds : photo'[p] = IF p \in shot[v].of THEN shot[v].put[p] ELSE photo[p]
      /\ Overtakes(v, Quiet) /\ UNCHANGED <<gone, disk, shots, torn>>
  BY DEF AddRow
<1>2. Uploading(shot[v]) /\ shots \in Nat /\ shown \subseteq PhotoIds /\ shot[v].of \subseteq PhotoIds
  BY <1>1 DEF Uploading, PhotosInv, PhotosTypeOK, Shots
<1>3. \A p \in shot[v].of : p \notin shown \union gone /\ shot[v].put[p].key = Key(p, 0) /\ shot[v].put[p].key \in disk
  BY <1>1, <1>2 DEF PictureInv, Sounds, Sound
<1>4. ASSUME NEW w \in Viewers \ {v} PROVE Sound(shot[w], shown' \union gone', photo', disk, shots)
  <2>1. Sound(shot[w], shown \union gone, photo, disk, shots) /\ NamesApart(shot[v], shot[w])
    BY DEF PictureInv, Sounds, OwnNames
  <2>2. ASSUME NEW p \in shot[w].of PROVE p \notin shot[v].of
    <3>1. CASE Uploading(shot[w])
      BY <1>2, <2>1, <2>2, <3>1 DEF NamesApart
    <3>2. CASE ~Uploading(shot[w])
      BY <1>3, <2>1, <2>2, <3>2 DEF Sound
    <3>3. QED BY <3>1, <3>2
  <2>3. shot[w].of \subseteq PhotoIds
    BY DEF PhotosInv, PhotosTypeOK, Shots
  <2>4. \A p \in shot[w].of : photo'[p] = photo[p]
    BY <1>1, <2>2, <2>3
  <2>5. Uploading(shot[w]) => \A p \in shot[w].of : p \notin shown' \union gone' /\ shot[w].put[p].key = Key(p, 0)
    BY <1>1, <2>1, <2>2 DEF Sound
  <2>6. Uploading(shot[w]) \/ shot[w].of \subseteq shown' \union gone'
    BY <1>1, <2>1 DEF Sound
  <2>7. Replacing(shot[w]) => \E p \in PhotoIds : shot[w].of = {p} /\ DOMAIN shot[w].put = {p}
                                                  /\ shot[w].put[p].key \in Stem(p, shots) \ {photo'[p].key}
    BY <2>1, <2>4 DEF Sound
  <2>8. shot[w].at = "drop" => \A p \in shot[w].of : shot[w].seen[p].key # photo'[p].key
    BY <2>1, <2>4 DEF Sound
  <2>9. QED BY <2>1, <2>5, <2>6, <2>7, <2>8 DEF Sound
<1>5. Stems'
  <2>1. \A p \in PhotoIds : photo'[p].key \in Stem(p, shots)
    BY <1>1, <1>2, <1>3, StemIs DEF PictureInv, Stems, Stem, Key
  <2>2. QED BY <1>1, <2>1 DEF Stems
<1>6. \A p \in shown' : photo'[p].key \in disk \/ (p \in shown /\ photo'[p].key = photo[p].key)
  BY <1>1, <1>2, <1>3
<1>7. QED BY <1>1, <1>4, <1>5, <1>6, QuietIsSound, CommitIsSound

\* The name a save leaves a row with.
LEMMA SavedName ==
  ASSUME PhotosInv, NEW s, Save(s), NEW p \in PhotoIds
  PROVE  photo'[p].key = IF p \in DOMAIN s.put /\ s.put[p].key # s.seen[p].key THEN s.put[p].key ELSE photo[p].key
<1>1. PICK now \in PhotoRows : now = photo[p]
  BY DEF PhotosInv, PhotosTypeOK
<1>2. photo'[p] = IF p \in Changed(s) THEN Stored(now, s.seen[p], s.put[p]) ELSE now
  BY <1>1 DEF Save
<1>3. ASSUME NEW seen, NEW new PROVE Stored(now, seen, new).key = IF new.key # seen.key THEN new.key ELSE now.key
  <2>1. "key" \in DOMAIN now
    BY DEF PhotoRows
  <2>2. QED BY <2>1 DEF Stored
<1>4. PICK seen : seen = s.seen[p]
  OBVIOUS
<1>5. PICK new : new = s.put[p]
  OBVIOUS
<1>6. p \in Changed(s) <=> p \in DOMAIN s.put /\ new # seen
  BY <1>4, <1>5 DEF Changed
<1>7. Stored(now, seen, new).key = IF new.key # seen.key THEN new.key ELSE now.key
  BY <1>3
<1>8. CASE p \in Changed(s)
  BY <1>1, <1>2, <1>4, <1>5, <1>6, <1>7, <1>8
<1>9. CASE p \notin Changed(s)
  <2>1. ~(p \in DOMAIN s.put /\ new.key # seen.key)
    BY <1>6, <1>9
  <2>2. QED BY <1>1, <1>2, <1>4, <1>5, <1>9, <2>1
<1>10. QED BY <1>8, <1>9

LEMMA SwapRowIsSound ==
  ASSUME PhotosInv, PictureInv, NEW v \in Viewers, SwapRow(v)
  PROVE  PictureInv'
<1>1. shot[v].at = "swap" /\ UNCHANGED <<shown, gone, disk, shots, torn>>
  BY DEF SwapRow
<1>2. Replacing(shot[v]) /\ Sound(shot[v], shown \union gone, photo, disk, shots) /\ OwnName(shot[v], shot[v])
  BY <1>1 DEF Replacing, PictureInv, Sounds, OwnNames
<1>3. CASE Breaks(v) /\ UNCHANGED photo
  <2>1. \A w \in Viewers : shot[w].at \in {"swap", "add"} => \A p \in shot[w].of : shot[w].put[p].key \in disk
    BY DEF PictureInv, Sounds, Sound
  <2>2. QED BY <1>1, <1>3, <2>1, BreaksIsSound
<1>4. CASE shot[v].of \subseteq shown
  <2>1. Save(shot[v]) /\ Overtakes(v, [shot[v] EXCEPT !.at = "drop"])
    BY <1>4 DEF SwapRow
  <2>2. PICK p \in PhotoIds : /\ shot[v].of = {p} /\ DOMAIN shot[v].put = {p}
                              /\ shot[v].put[p].key \in Stem(p, shots) \ {photo[p].key}
    BY <1>2 DEF Sound
  <2>3. PICK k : k = shot[v].put[p].key
    OBVIOUS
  <2>4. p \in DOMAIN shot[v].seen /\ shot[v].seen[p].key # k /\ k \in disk /\ k \in Stem(p, shots) /\ p \in shown
    BY <1>1, <1>2, <1>4, <2>2, <2>3 DEF Sound, OwnName
  <2>5. photo'[p].key = k /\ \A q \in PhotoIds \ {p} : photo'[q].key = photo[q].key
    BY <2>1, <2>2, <2>3, <2>4, SavedName
  <2>6. PICK r : r = [shot[v] EXCEPT !.at = "drop"]
    OBVIOUS
  <2>7. r.at = "drop" /\ r.of = {p} /\ r.seen = shot[v].seen
    <3>1. PICK s \in Shots : s = shot[v]
      BY DEF PhotosInv, PhotosTypeOK
    <3>2. QED BY <2>2, <2>6, <3>1 DEF Shots
  <2>8. ~Uploading(r) /\ ~Replacing(r)
    BY <2>7 DEF Uploading, Replacing
  <2>9. Within(r, shot[v])
    BY <2>7, <2>8 DEF Within
  <2>10. Sound(r, shown' \union gone', photo', disk, shots)
    BY <1>1, <1>2, <2>4, <2>5, <2>7, <2>8 DEF Sound
  <2>11. ASSUME NEW w \in Viewers \ {v} PROVE Sound(shot[w], shown' \union gone', photo', disk, shots)
    <3>1. Sound(shot[w], shown \union gone, photo, disk, shots) /\ OwnName(shot[v], shot[w])
          /\ NamesApart(shot[v], shot[w]) /\ shot[w].of \subseteq PhotoIds
      BY DEF PictureInv, Sounds, OwnNames, PhotosInv, PhotosTypeOK, Shots
    <3>2. Replacing(shot[w]) => \E q \in PhotoIds : shot[w].of = {q} /\ DOMAIN shot[w].put = {q}
                                                    /\ shot[w].put[q].key \in Stem(q, shots) \ {photo'[q].key}
      <4>1. SUFFICES ASSUME Replacing(shot[w])
                     PROVE  \E q \in PhotoIds : shot[w].of = {q} /\ DOMAIN shot[w].put = {q}
                                                /\ shot[w].put[q].key \in Stem(q, shots) \ {photo'[q].key}
        OBVIOUS
      <4>2. PICK q \in PhotoIds : shot[w].of = {q} /\ DOMAIN shot[w].put = {q}
                                  /\ shot[w].put[q].key \in Stem(q, shots) \ {photo[q].key}
        BY <3>1, <4>1 DEF Sound
      <4>3. CASE q = p
        <5>1. shot[w].put[p].key # k
          BY <1>2, <2>2, <2>3, <3>1, <4>1, <4>2, <4>3 DEF NamesApart
        <5>2. QED BY <2>5, <4>2, <4>3, <5>1
      <4>4. CASE q # p
        BY <2>5, <4>2, <4>4
      <4>5. QED BY <4>3, <4>4
    <3>3. shot[w].at = "drop" => \A q \in shot[w].of : shot[w].seen[q].key # photo'[q].key
      <4>1. SUFFICES ASSUME shot[w].at = "drop", NEW q \in shot[w].of
                     PROVE  shot[w].seen[q].key # photo'[q].key
        OBVIOUS
      <4>2. q \in PhotoIds /\ q \in DOMAIN shot[w].seen /\ shot[w].seen[q].key # photo[q].key
        BY <3>1, <4>1 DEF Sound
      <4>3. CASE q = p
        BY <1>2, <2>2, <2>3, <2>5, <3>1, <4>2, <4>3 DEF OwnName
      <4>4. CASE q # p
        BY <2>5, <4>2, <4>4
      <4>5. QED BY <4>3, <4>4
    <3>4. QED BY <1>1, <3>1, <3>2, <3>3 DEF Sound
  <2>12. Stems'
    <3>1. \A q \in PhotoIds : photo'[q].key \in Stem(q, shots)
      BY <2>4, <2>5 DEF PictureInv, Stems
    <3>2. QED BY <1>1, <3>1 DEF Stems
  <2>13. \A q \in shown' : photo'[q].key \in disk \/ (q \in shown /\ photo'[q].key = photo[q].key)
    <3>1. shown \subseteq PhotoIds
      BY DEF PhotosInv, PhotosTypeOK
    <3>2. QED BY <1>1, <2>4, <2>5, <3>1
  <2>14. Overtakes(v, r) /\ UNCHANGED <<disk, shots, torn>> /\ shot[v].at \notin {"flush", "remove"}
    BY <1>1, <2>1, <2>6
  <2>15. QED BY <2>9, <2>10, <2>11, <2>12, <2>13, <2>14, CommitIsSound
<1>5. QED BY <1>3, <1>4 DEF SwapRow

\* A commit of a request for rows, which may have deleted one.
LEMMA SavesAreSound ==
  ASSUME PhotosInv, PictureInv, NEW v \in Viewers, shot[v].at \in {"save", "remove"}, Save(shot[v]), Overtakes(v, Quiet),
         UNCHANGED <<disk, shots, torn>>, shown' \subseteq shown, shown' \union gone' = shown \union gone,
         shot[v].at = "remove" => shot[v].of \intersect shown' = {}
  PROVE  PictureInv'
<1>1. Sound(shot[v], shown \union gone, photo, disk, shots)
  BY DEF PictureInv, Sounds
<1>2. \A p \in PhotoIds : photo'[p].key = photo[p].key
  BY <1>1, SavedName DEF Sound
<1>3. ASSUME NEW w \in Viewers \ {v} PROVE Sound(shot[w], shown' \union gone', photo', disk, shots)
  <2>1. Sound(shot[w], shown \union gone, photo, disk, shots) /\ shot[w].of \subseteq PhotoIds
    BY DEF PictureInv, Sounds, PhotosInv, PhotosTypeOK, Shots
  <2>2. Replacing(shot[w]) => \E q \in PhotoIds : shot[w].of = {q} /\ DOMAIN shot[w].put = {q}
                                                  /\ shot[w].put[q].key \in Stem(q, shots) \ {photo'[q].key}
    BY <1>2, <2>1 DEF Sound
  <2>3. shot[w].at = "drop" => \A q \in shot[w].of : shot[w].seen[q].key # photo'[q].key
    BY <1>2, <2>1 DEF Sound
  <2>4. QED BY <2>1, <2>2, <2>3 DEF Sound
<1>4. Stems'
  <2>1. \A q \in PhotoIds : photo'[q].key \in Stem(q, shots)
    BY <1>2 DEF PictureInv, Stems
  <2>2. QED BY <2>1 DEF Stems
<1>5. \A q \in shown' : photo'[q].key \in disk \/ (q \in shown /\ photo'[q].key = photo[q].key)
  BY <1>2 DEF PhotosInv, PhotosTypeOK
<1>6. Within(Quiet, shot[v]) /\ Sound(Quiet, shown' \union gone', photo', disk, shots)
  BY QuietIsSound
<1>7. shot[v].at \in {"flush", "remove"} => shot[v].of \intersect shown' = {}
  OBVIOUS
<1>8. PICK r : r = Quiet
  OBVIOUS
<1>9. QED BY <1>3, <1>4, <1>5, <1>6, <1>7, <1>8, CommitIsSound

LEMMA SaveRowsIsSound ==
  ASSUME PhotosInv, PictureInv, NEW v \in Viewers, SaveRows(v)
  PROVE  PictureInv'
<1>1. shot[v].at = "save" /\ UNCHANGED <<shown, gone, disk, shots, torn>>
  BY DEF SaveRows
<1>2. CASE Save(shot[v]) /\ Overtakes(v, Quiet)
  BY <1>1, <1>2, SavesAreSound
<1>3. CASE Breaks(v) /\ UNCHANGED photo
  <2>1. \A w \in Viewers : shot[w].at \in {"swap", "add"} => \A p \in shot[w].of : shot[w].put[p].key \in disk
    BY DEF PictureInv, Sounds, Sound
  <2>2. QED BY <1>1, <1>3, <2>1, BreaksIsSound
<1>4. QED BY <1>2, <1>3 DEF SaveRows

LEMMA RemoveRowIsSound ==
  ASSUME PhotosInv, PictureInv, NEW v \in Viewers, RemoveRow(v)
  PROVE  PictureInv'
<1>1. shot[v].at = "remove" /\ UNCHANGED <<disk, shots>>
  BY DEF RemoveRow
<1>2. CASE Save(shot[v]) /\ Overtakes(v, Quiet) /\ UNCHANGED torn
           /\ shown' = shown \ shot[v].of /\ gone' = gone \union shot[v].of
  <2>1. shot[v].of \subseteq shown \union gone
    BY <1>1 DEF PictureInv, Sounds, Sound, Uploading
  <2>2. shown' \subseteq shown /\ shown' \union gone' = shown \union gone /\ shot[v].of \intersect shown' = {}
    BY <1>2, <2>1
  <2>3. QED BY <1>1, <1>2, <2>2, SavesAreSound
<1>3. CASE Breaks(v) /\ torn' = torn \union shot[v].of /\ UNCHANGED <<shown, gone, photo>>
  <2>1. \A w \in Viewers : shot[w].at \in {"swap", "add"} => \A p \in shot[w].of : shot[w].put[p].key \in disk
    BY DEF PictureInv, Sounds, Sound
  <2>2. torn \subseteq torn' /\ \A p \in shot[v].of : p \in torn'
    BY <1>3
  <2>3. QED BY <1>1, <1>3, <2>1, <2>2, BreaksIsSound
<1>4. QED BY <1>2, <1>3 DEF RemoveRow

-----------------------------------------------------------------------------
LEMMA PictureStart == PhotosInit => PictureInv
<1> SUFFICES ASSUME PhotosInit PROVE PictureInv
  OBVIOUS
<1>1. shown = {} /\ gone = {} /\ disk = {} /\ shots = 0 /\ photo = [p \in PhotoIds |-> Row0(p)]
      /\ \A v \in Viewers : shot[v] = Quiet
  BY DEF PhotosInit
<1>2. Stems
  BY <1>1 DEF Stems, Stem, Row0, Key
<1>3. Sounds
  BY <1>1, QuietIsSound DEF Sounds
<1>4. OwnNames
  <2>1. Quiet.at = "idle"
    BY DEF Quiet, Asking
  <2>2. QED BY <1>1, <2>1 DEF OwnNames, OwnName, NamesApart, Uploading, Replacing
<1>5. RowHasImage
  BY <1>1 DEF RowHasImage
<1>6. QED BY <1>2, <1>3, <1>4, <1>5 DEF PictureInv

LEMMA PictureStep == PhotosInv /\ PictureInv /\ [PhotosNext]_photos => PictureInv'
<1> SUFFICES ASSUME PhotosInv, PictureInv, [PhotosNext]_photos PROVE PictureInv'
  OBVIOUS
<1>1. CASE UNCHANGED photos
  BY <1>1 DEF photos, PictureInv, Stems, Sounds, OwnNames, RowHasImage
<1>2. ASSUME NEW v \in Viewers, NEW p \in PhotoIds, Upload(v, p) \/ Replace(v, p) \/ MakePrimary(v, p) \/ Delete(v, p)
      PROVE  PictureInv'
  BY <1>2, UploadIsSound, ReplaceIsSound, RequestIsSound
<1>3. ASSUME NEW v \in Viewers, NEW order \in SetToSeqs(shown), Reorder(v, order) PROVE PictureInv'
  BY <1>3, RequestIsSound
<1>4. ASSUME NEW v \in Viewers,
             WriteFile(v) \/ AddRow(v) \/ SwapRow(v) \/ DropOld(v) \/ SaveRows(v)
             \/ Unlink(v) \/ Flush(v) \/ RemoveRow(v) \/ CutOff(v)
      PROVE  PictureInv'
  BY <1>4, WriteFileIsSound, AddRowIsSound, SwapRowIsSound, DropOldIsSound, SaveRowsIsSound,
     UnlinkIsSound, FlushIsSound, RemoveRowIsSound, CutOffIsSound
<1>5. QED BY <1>1, <1>2, <1>3, <1>4 DEF PhotosNext

\* A photo's row always names a file that is there, whatever requests overlap
\* and wherever they are cut off, but of a deletion at work or cut short
\* (routers/photos.py).
THEOREM RowsHaveImages == PhotosSpec => []RowHasImage
<1>1. PictureInv => RowHasImage
  BY DEF PictureInv
<1>2. QED BY <1>1, PhotosStart, PhotosStep, PictureStart, PictureStep, PTL DEF PhotosSpec

-----------------------------------------------------------------------------
(* The collection.                                                         *)

\* Whatever else Collection lets happen, a part takes its own steps only.
LEMMA PartsKeepTheirSpecs == Spec => ItemsSpec /\ ImportsSpec /\ PhotosSpec /\ TrashSpec
<1>1. Init => ItemsInit /\ ImportsInit /\ PhotosInit /\ TrashInit
  BY DEF Init
<1>2. [Next]_collection => [ItemsNext]_items
  BY DEF Next, collection
<1>3. [Next]_collection => [ImportsNext]_importing
  BY DEF Next, collection
<1>4. [Next]_collection => [PhotosNext]_photos
  BY DEF Next, collection
<1>5. [Next]_collection => [TrashNext]_trash
  BY DEF Next, collection
<1>6. QED BY <1>1, <1>2, <1>3, <1>4, <1>5, PTL DEF Spec, ItemsSpec, ImportsSpec, PhotosSpec, TrashSpec

\* What is proved of each holds of the collection as the run checks it: imports
\* make no item twice and leave no row out, neither overlapping edits nor the
\* look-up of prices take a piece out of step unseen, and a piece keeps one
\* primary photo; and the trash is TrashSpec's, which Trash_proofs is about.
THEOREM CollectionIsKept ==
  Spec => []ImportedOnce /\ NothingLeftOut /\ DerivedInStep /\ HandKept /\ PrimaryKept /\ TrashSpec
BY PartsKeepTheirSpecs, NothingIsImportedTwice, NoRowIsLeftOut, DerivedStaysInStep, TypedIsKept, PrimaryStays, PTL
=============================================================================
