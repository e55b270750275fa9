------------------------------- MODULE Imports -------------------------------
(***************************************************************************)
(* Importing a collection from other tools (services/importing.py,         *)
(* routers/imports.py and the readers of services/import_formats.py): a    *)
(* file is staged, read and compared with what is kept, and its new rows   *)
(* become items, one commit each.  A row carries a key that is stable in   *)
(* its source, and the table of items has at most one of each.             *)
(***************************************************************************)
EXTENDS Naturals, Sequences, FiniteSets

CONSTANTS
  Contents,    \* what a row says; in a source with record ids, the id
  Uploads,     \* ids of staged files, each given once
  Importers,   \* import requests at work at one time
  MaxRows,     \* bound: rows of a file
  MaxImports   \* bound: imports begun

ASSUME ImportsAssumption == MaxRows \in Nat /\ MaxImports \in Nat

VARIABLES
  source,    \* the source: no two share a key, so a behaviour has files of one
  staged,    \* the rows of each staged file
  kept,      \* how many items there are of each key, trash included
  own,       \* ids of the items here that an export of this Cabinet names
  import,    \* what each importer is at
  imports,   \* imports begun
  most       \* how often a file has had each content

importing == <<source, staged, kept, own, import, imports, most>>

-----------------------------------------------------------------------------
\* The Numista export is read as a spreadsheet is, and the Numista account
\* has record ids as an OpenNumismat file has.
Sources == {"spreadsheet", "cabinet", "opennumismat"}

Count(rows, c) == Cardinality({m \in DOMAIN rows : rows[m] = c})

\* Of equal rows, the first, the second, ...
Ordinal(rows, n) == Cardinality({m \in 1 .. n : rows[m] = rows[n]})

\* fingerprint_keys numbers equal rows; a record's id is its key as it is.
KeyOf(rows, n) == <<rows[n], IF source = "spreadsheet" THEN Ordinal(rows, n) ELSE 1>>

Keys == Contents \X (1 .. MaxRows)

RowSeqs == UNION {[1 .. n -> Contents] : n \in 1 .. MaxRows}
NoFile == <<>>
Rest == [at |-> "idle", rows |-> <<>>, from |-> {}, row |-> 0, already |-> {},
         failed |-> {}, purged |-> {}, open |-> FALSE]

\* The rows of an OpenNumismat file or an account have ids of their own; an
\* export may have been edited to have one twice.
WellFormed(rows) ==
  source = "opennumismat" => \A i, j \in DOMAIN rows : rows[i] = rows[j] => i = j

ImportsInit ==
  /\ source \in Sources
  /\ own \in IF source = "cabinet" THEN SUBSET Contents ELSE {{}}
  /\ staged = [u \in Uploads |-> NoFile] /\ kept = [k \in Keys |-> 0]
  /\ import = [w \in Importers |-> Rest] /\ imports = 0
  /\ most = [c \in Contents |-> 0]

-----------------------------------------------------------------------------
\* upload: the file is kept for its previews and its import.  A file staged
\* after the last import that the bound allows is left out.
Stage(u) ==
  /\ imports < MaxImports /\ staged[u] = NoFile
  /\ \A w \in Importers : u \notin import[w].from
  /\ \E rows \in RowSeqs :
       /\ WellFormed(rows) /\ staged' = [staged EXCEPT ![u] = rows]
       /\ most' = [c \in Contents |->
                     IF most[c] < Count(rows, c) THEN Count(rows, c) ELSE most[c]]
  /\ UNCHANGED <<source, kept, own, import, imports>>

\* discard, or the end of its day: the next upload prunes it.
Discard(u) ==
  /\ staged[u] # NoFile /\ staged' = [staged EXCEPT ![u] = NoFile]
  /\ UNCHANGED <<source, kept, own, import, imports, most>>

-----------------------------------------------------------------------------
\* Mutant of Already: the ordinal of equal rows is ignored.
AlreadyLike(rows) ==
  {n \in DOMAIN rows : (\E k \in Keys : k[1] = rows[n] /\ kept[k] > 0) \/ rows[n] \in own}

\* prepare: the rows whose item is here or in the trash, those of an own
\* export by their ids too.
Already(rows) ==
  {n \in DOMAIN rows : kept[KeyOf(rows, n)] > 0 \/ rows[n] \in own}

Prepare(w, u) ==
  /\ import[w].at = "idle" /\ imports < MaxImports /\ staged[u] # NoFile
  /\ imports' = imports + 1
  /\ import' = [import EXCEPT ![w] = [Rest EXCEPT !.at = "rows", !.rows = staged[u], !.from = {u},
                                                 !.row = 1, !.already = Already(staged[u])]]
  /\ UNCHANGED <<source, staged, kept, own, most>>

Here(w) == KeyOf(import[w].rows, import[w].row)
Row(w) == import[w].at = "rows" /\ import[w].row \in DOMAIN import[w].rows
NewRow(w) == Row(w) /\ import[w].row \notin import[w].already

Skip(w) ==
  /\ Row(w) /\ import[w].row \in import[w].already
  /\ import' = [import EXCEPT ![w].row = @ + 1]
  /\ UNCHANGED <<source, staged, kept, own, imports, most>>

\* A row without a country, or that an item cannot be made of, is reported
\* and takes nothing with it.
RowFails(w) ==
  /\ NewRow(w)
  /\ import' = [import EXCEPT ![w].row = @ + 1, ![w].failed = @ \union {import[w].row}]
  /\ UNCHANGED <<source, staged, kept, own, imports, most>>

\* Mutant of Taken: the table takes a second item of one origin.
NotLooked(k) == FALSE

\* uq_items_import_origin.
Taken(k) == kept[k] > 0

\* The item and its event, in one commit.
Insert(w) ==
  /\ NewRow(w) /\ ~Taken(Here(w))
  /\ kept' = [kept EXCEPT ![Here(w)] = @ + 1]
  /\ import' = [import EXCEPT ![w].at = IF source = "opennumismat"
                                          THEN "photos" ELSE "rows",
                              ![w].row = @ + 1]
  /\ UNCHANGED <<source, staged, own, imports, most>>

\* The photos of an OpenNumismat file are read from it as its items are made,
\* through a connection that is opened at the first.
Photos(w) ==
  /\ import[w].at = "photos"
  /\ import[w].open \/ \E u \in import[w].from : staged[u] # NoFile
  /\ import' = [import EXCEPT ![w].at = "rows", ![w].open = TRUE]
  /\ UNCHANGED <<source, staged, kept, own, imports, most>>

NoPhotos(w) ==
  /\ import[w].at = "photos" /\ import' = [import EXCEPT ![w].at = "rows"]
  /\ UNCHANGED <<source, staged, kept, own, imports, most>>

\* What neither run nor the router catches ends the request: an item of this
\* origin that another import made since, and a file that is no longer there.
\* The process may stop too.  The rows before it stay.
BreaksOff(w) ==
  /\ import[w].at # "idle" /\ import' = [import EXCEPT ![w] = Rest]
  /\ UNCHANGED <<source, staged, kept, own, imports, most>>

Finish(w) ==
  /\ import[w].at = "rows" /\ import[w].row > Len(import[w].rows)
  /\ import' = [import EXCEPT ![w] = Rest]
  /\ UNCHANGED <<source, staged, kept, own, imports, most>>

\* An item of an import, or one made kept, is purged from the trash.
Purged(k) ==
  import' = [w \in Importers |-> IF import[w].at = "idle" THEN import[w]
                                 ELSE [import[w] EXCEPT !.purged = @ \union k]]

PurgeImported(k) ==
  /\ kept[k] > 0 /\ kept' = [kept EXCEPT ![k] = @ - 1]
  /\ Purged({k}) /\ UNCHANGED <<source, staged, own, imports, most>>

PurgeOwn(c) ==
  /\ c \in own /\ own' = own \ {c}
  /\ Purged({k \in Keys : k[1] = c})
  /\ UNCHANGED <<source, staged, kept, imports, most>>

ImportsNext ==
  \/ \E u \in Uploads : Stage(u) \/ Discard(u)
  \/ \E w \in Importers, u \in Uploads : Prepare(w, u)
  \/ \E w \in Importers : Skip(w) \/ RowFails(w) \/ Insert(w) \/ Photos(w) \/ NoPhotos(w)
                          \/ BreaksOff(w) \/ Finish(w)
  \/ \E k \in Keys : PurgeImported(k)
  \/ \E c \in Contents : PurgeOwn(c)

ImportsSpec == ImportsInit /\ [][ImportsNext]_importing

-----------------------------------------------------------------------------
(* Properties.                                                             *)

\* "Re-importing never duplicates" (importing.py:10): however often files are
\* imported again, together, broken off or after a purge, there are never more
\* items of a content than a file of its source has had, and of an item of
\* this Cabinet's own export never a second one beside it.
ItemsOf(c) ==
  Cardinality({i \in Keys \X (1 .. MaxImports * MaxRows) : i[1][1] = c /\ i[2] <= kept[i[1]]})

ImportedOnce ==
  \A c \in Contents :
    IF c \in own THEN ItemsOf(c) = 0
    ELSE ItemsOf(c) <= IF source = "spreadsheet" THEN most[c] ELSE 1

\* An import that comes to its end has left no row out: each one has its item
\* here, or was reported, or was purged while it was at work - the second of
\* two equal rows too ("identical rows (two of the same coin) stay distinct",
\* importing.py:116).
NothingLeftOut ==
  [][\A w \in Importers : Finish(w) =>
       \A n \in DOMAIN import[w].rows :
         LET k == KeyOf(import[w].rows, n) IN
         kept[k] > 0 \/ k[1] \in own \/ n \in import[w].failed \/ k \in import[w].purged
    ]_importing
=============================================================================
