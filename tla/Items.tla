------------------------------- MODULE Items --------------------------------
(***************************************************************************)
(* Item rows and what is derived from them (routers/items.py, the rules of *)
(* schemas.py, services/serials.py, and the look-up of purchase-day spot   *)
(* prices in services/stack.py).  A request reads a row, works on what it  *)
(* read, and commits the columns it changed: another request can commit in *)
(* between, and neither sees the other's columns.                          *)
(***************************************************************************)
EXTENDS Naturals, FiniteSets

CONSTANTS
  Pieces,       \* ids of items
  Editors,      \* requests at work at one time
  MaxRequests,  \* bound: edits and look-ups begun
  MaxFields     \* bound: fields one request sets

ASSUME ItemsAssumption == MaxRequests \in Nat /\ MaxFields \in Nat

VARIABLES
  here,   \* the items there are
  row,    \* the row of each item: its fields, and the two derived columns
  edit,   \* what each request is at
  asked   \* requests begun

items == <<here, row, edit, asked>>

-----------------------------------------------------------------------------
\* The fields the rules are about; every other field is stored as it came.
Fields == {"bullion", "year", "nd", "fancy", "star", "spot"}
BulkFields == Fields \ {"nd", "spot"}
Values(f) == IF f = "spot" THEN {"no", "typed"} ELSE {"no", "yes"}

Partial(S) == {p \in [S -> {"no", "yes", "typed"}] : \A f \in S : p[f] \in Values(f)}
Payloads == UNION {Partial(S) : S \in {T \in SUBSET Fields : Cardinality(T) \in 1 .. MaxFields}}

\* "A year is required unless the piece carries no date; bullion is exempt"
YearOrNd(r) == r.bullion = "yes" \/ r.year = "yes" \/ r.nd = "yes"

\* The stored traits: of the serial's digits, and of a replacement's star.
StoredTraits(r) ==
  IF r.bullion = "yes" THEN {}
  ELSE {t \in {"radar", "star"} : r[IF t = "radar" THEN "fancy" ELSE "star"] = "yes"}

Merged(r, p) == [f \in DOMAIN r |-> IF f \in DOMAIN p THEN p[f] ELSE r[f]]

\* Mutant of SyncDerived: a change of type does not touch the traits.
SyncUntyped(r, touched) ==
  [r EXCEPT !.traits = IF touched \cap {"fancy", "star"} # {} THEN StoredTraits(r) ELSE @,
            !.by = IF "spot" \notin touched THEN @ ELSE IF r.spot = "no" THEN "none" ELSE "manual"]

SyncDerived(r, touched) ==
  [r EXCEPT !.traits = IF r.bullion = "yes" \/ touched \cap {"bullion", "fancy", "star"} # {}
                         THEN StoredTraits(r) ELSE @,
            !.by = IF "spot" \notin touched THEN @ ELSE IF r.spot = "no" THEN "none" ELSE "manual"]

\* The row a request makes of the one it read.
Edited(r, p) == SyncDerived(Merged(r, p), {f \in DOMAIN p : p[f] # r[f]})

Blank == [bullion |-> "no", year |-> "yes", nd |-> "no", fancy |-> "no", star |-> "no",
          spot |-> "no", traits |-> {}, by |-> "none"]

\* Only the columns whose value changed are written.
Written(now, seen, new) == [f \in DOMAIN now |-> IF new[f] # seen[f] THEN new[f] ELSE now[f]]

-----------------------------------------------------------------------------
NoSeen == [p \in {} |-> Blank]
Resting == [at |-> "idle", seen |-> NoSeen, put |-> [f \in {} |-> "no"],
            todo |-> {}, found |-> {}, late |-> {}]

ItemsInit ==
  /\ here = {} /\ row = [p \in Pieces |-> Blank]
  /\ edit = [e \in Editors |-> Resting] /\ asked = 0

Begins(e, r) ==
  /\ edit[e].at = "idle" /\ asked < MaxRequests
  /\ asked' = asked + 1 /\ edit' = [edit EXCEPT ![e] = r]
  /\ UNCHANGED <<here, row>>

\* A commit of e to the rows of S: the requests that have read one of them and
\* not committed yet are behind.
Commits(e, S, next) ==
  edit' = [d \in Editors |->
             IF d = e THEN next
             ELSE [edit[d] EXCEPT !.late = @ \union (S \cap (DOMAIN edit[d].seen \union edit[d].todo
                                                              \union edit[d].found))]]

\* create_item, an issue of add_run, a row of an import: a new item, checked
\* as ItemCreate and built by _build_item.
Create(p) ==
  /\ p \notin here /\ here' = here \union {p}
  /\ \E put \in Payloads :
       LET r == Merged(Blank, put) IN
       /\ YearOrNd(r)
       /\ row' = [row EXCEPT ![p] =
            [r EXCEPT !.traits = StoredTraits(r), !.by = IF r.spot = "no" THEN "none" ELSE "manual"]]
  /\ UNCHANGED <<edit, asked>>

Clone(p, q) ==
  /\ q \in here /\ p \notin here
  /\ here' = here \union {p} /\ row' = [row EXCEPT ![p] = row[q]]
  /\ UNCHANGED <<edit, asked>>

\* update_item: the year rule is checked against the row that was read.
Update(e, p, put) ==
  /\ p \in here /\ YearOrNd(Merged(row[p], put))
  /\ Begins(e, [Resting EXCEPT !.at = "commit", !.seen = [q \in {p} |-> row[p]], !.put = put])

\* bulk_update: the year cannot be emptied, and ND and the spot are per piece.
BulkUpdate(e, S, put) ==
  /\ S # {} /\ S \subseteq here
  /\ DOMAIN put \subseteq BulkFields /\ ("year" \in DOMAIN put => put["year"] # "no")
  /\ Begins(e, [Resting EXCEPT !.at = "commit", !.seen = [q \in S |-> row[q]], !.put = put])

CommitEdit(e) ==
  /\ edit[e].at = "commit"
  /\ LET seen == edit[e].seen IN
     /\ row' = [p \in Pieces |->
                  IF p \in DOMAIN seen THEN Written(row[p], seen[p], Edited(seen[p], edit[e].put))
                  ELSE row[p]]
     /\ Commits(e, DOMAIN seen, Resting)
  /\ UNCHANGED <<here, asked>>

-----------------------------------------------------------------------------
NeedsSpot(p) == p \in here /\ row[p].spot = "no"

\* backfill (hourly, or asked for): of the pieces that need one, those with a
\* metal, a cost and a date that is covered.
Backfill(e, S) ==
  /\ S # {} /\ \A p \in S : NeedsSpot(p)
  /\ Begins(e, [Resting EXCEPT !.at = "look", !.todo = S])

Filled(S) == [p \in Pieces |-> IF p \in S THEN [row[p] EXCEPT !.spot = "found", !.by = "auto"] ELSE row[p]]

\* One piece is looked up.  An answer that had to be fetched is cached by a
\* commit, which writes what was found so far with it.
LookUp(e, p) ==
  /\ edit[e].at = "look" /\ p \in edit[e].todo
  /\ \E fetched, found \in BOOLEAN :
       LET flushed == IF fetched THEN edit[e].found ELSE {} IN
       /\ row' = Filled(flushed)
       /\ Commits(e, flushed, [edit[e] EXCEPT !.todo = @ \ {p},
                                 !.found = (@ \ flushed) \union (IF found THEN {p} ELSE {})])
  /\ UNCHANGED <<here, asked>>

EndBackfill(e) ==
  /\ edit[e].at = "look" /\ edit[e].todo = {}
  /\ row' = Filled(edit[e].found) /\ Commits(e, edit[e].found, Resting)
  /\ UNCHANGED <<here, asked>>

-----------------------------------------------------------------------------
ItemsNext ==
  \/ \E p \in Pieces : Create(p) \/ \E q \in Pieces : Clone(p, q)
  \/ \E e \in Editors :
       \/ \E put \in Payloads :
            \/ \E p \in Pieces : Update(e, p, put)
            \/ \E S \in SUBSET Pieces : BulkUpdate(e, S, put)
       \/ \E S \in SUBSET Pieces : Backfill(e, S)
       \/ \E p \in Pieces : LookUp(e, p)
       \/ CommitEdit(e) \/ EndBackfill(e)

ItemsSpec == ItemsInit /\ [][ItemsNext]_items

-----------------------------------------------------------------------------
(* Properties.                                                             *)

InStep(r) == r.traits = StoredTraits(r) /\ (r.by = "none" <=> r.spot = "no")

\* Whether a request that commits now had read rows another changed since.
Behind(p) == \E e \in Editors : p \in edit[e].late /\ edit'[e] # edit[e]

\* "The item keeps the result in serial_traits" (services/serials.py:4), "kept
\* in step with the serial number by the server" (models/item.py:160), and the
\* origin of the spot with the spot: only requests that overlapped on a piece
\* can take what is derived out of step, whatever was edited before, by
\* whichever of the ways to edit.
DerivedInStep ==
  [][/\ \A p \in here : InStep(row[p]) /\ ~InStep(row'[p]) => Behind(p)
     /\ \A p \in here' \ here : InStep(row'[p]) \/ \E q \in here : row'[p] = row[q]]_items

\* "A value typed in by hand is never touched" by the look-up
\* (services/stack.py:369), but by one that had listed the piece before the
\* value was typed in.
HandKept ==
  [][\A p \in here : row[p].by = "manual" /\ row'[p].by = "auto" => Behind(p)]_items
=============================================================================
