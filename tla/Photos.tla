------------------------------- MODULE Photos -------------------------------
(***************************************************************************)
(* The photos of one item (routers/photos.py, and the files that           *)
(* services/photos.py writes and deletes for it): which one is primary,    *)
(* their order, and the image file of each row.  A request commits what it *)
(* made of the rows it read, files are written before a commit and deleted *)
(* around one, and all of it may overlap: most handlers run in threads,    *)
(* and the two that do not wait for the body between their read and the    *)
(* rest.                                                                   *)
(***************************************************************************)
EXTENDS Naturals, FiniteSets, SequencesExt

CONSTANTS
  PhotoIds,    \* ids of photo rows, each given once
  Viewers,     \* requests at work at one time
  MaxShots     \* bound: requests begun

ASSUME PhotosAssumption == MaxShots \in Nat

VARIABLES
  shown,    \* the photos that have a row
  gone,     \* the photos whose row was deleted
  photo,    \* the row of each: primary, position, and the key of its file
  disk,     \* the files there are
  shot,     \* what each request is at, the rows it read and what it made of them
  shots,    \* requests begun
  torn      \* photos of a deletion that was cut short

photos == <<shown, gone, photo, disk, shot, shots, torn>>

-----------------------------------------------------------------------------
\* A file's key is the photo's id and, after a replacement, a fresh stem.
Key(p, n) == <<p, n>>
Row0(p) == [primary |-> FALSE, position |-> 0, key |-> Key(p, 0)]
Nothing == [p \in {} |-> Row0(p)]
Asking(at, of, seen, put) == [at |-> at, of |-> of, seen |-> seen, put |-> put, late |-> FALSE]
Quiet == Asking("idle", {}, Nothing, Nothing)

PhotosInit ==
  /\ shown = {} /\ gone = {} /\ photo = [p \in PhotoIds |-> Row0(p)]
  /\ disk = {} /\ shot = [v \in Viewers |-> Quiet] /\ shots = 0 /\ torn = {}

Read == [p \in shown |-> photo[p]]
One(p) == [q \in {p} |-> photo[p]]

Asks(v, r) ==
  /\ shot[v].at = "idle" /\ shots < MaxShots
  /\ shots' = shots + 1 /\ shot' = [shot EXCEPT ![v] = r]

Moves(v, to) == shot' = [shot EXCEPT ![v].at = to]

Breaks(v) == shot' = [shot EXCEPT ![v] = Quiet]

\* A commit: what the requests at work have read is no longer what is there.
Overtakes(v, next) ==
  shot' = [w \in Viewers |-> IF w = v THEN next
                             ELSE [shot[w] EXCEPT !.late = shot[w].at # "idle"]]

\* A commit writes the columns that the request changed, and raises when a
\* row it would change is no longer there.
Changed(s) == {p \in DOMAIN s.put : s.put[p] # s.seen[p]}

Stored(now, seen, new) ==
  [c \in DOMAIN now |-> IF new[c] # seen[c] THEN new[c] ELSE now[c]]

Save(s) ==
  photo' = [p \in PhotoIds |->
              IF p \in Changed(s) THEN Stored(photo[p], s.seen[p], s.put[p]) ELSE photo[p]]

-----------------------------------------------------------------------------
\* _create_photo (an upload, a URL, a photo of an import): the rows are
\* counted, the files are written, and the row is committed.
Upload(v, p) ==
  /\ p \notin shown \union gone /\ \A n \in 0 .. MaxShots : Key(p, n) \notin disk
  /\ \A w \in Viewers : p \notin shot[w].of
  /\ LET n == Cardinality(shown) IN
     Asks(v, Asking("write", {p}, Nothing,
                [q \in {p} |-> [primary |-> n = 0, position |-> n, key |-> Key(p, 0)]]))
  /\ UNCHANGED <<shown, gone, photo, disk, torn>>

\* save_photo writes the image and its thumbnail, or finds no image in it.
WriteFile(v) ==
  /\ shot[v].at = "write"
  /\ \/ /\ disk' = disk \union {shot[v].put[p].key : p \in shot[v].of}
        /\ Moves(v, IF shot[v].seen = Nothing THEN "add" ELSE "swap")
     \/ disk' = disk /\ Breaks(v)
  /\ UNCHANGED <<shown, gone, photo, shots, torn>>

AddRow(v) ==
  /\ shot[v].at = "add"
  /\ shown' = shown \union shot[v].of
  /\ photo' = [p \in PhotoIds |-> IF p \in shot[v].of THEN shot[v].put[p] ELSE photo[p]]
  /\ Overtakes(v, Quiet) /\ UNCHANGED <<gone, disk, shots, torn>>

-----------------------------------------------------------------------------

FreshStem(p) == Key(p, shots + 1)

\* replace_photo_image: a fresh file, the row, then the old file goes.
Replace(v, p) ==
  /\ p \in shown
  /\ Asks(v, Asking("write", {p}, One(p), [One(p) EXCEPT ![p].key = FreshStem(p)]))
  /\ UNCHANGED <<shown, gone, photo, disk, torn>>

\* A row that went meanwhile raises, and the new file stays.
SwapRow(v) ==
  /\ shot[v].at = "swap"
  /\ IF shot[v].of \subseteq shown
       THEN Save(shot[v]) /\ Overtakes(v, [shot[v] EXCEPT !.at = "drop"])
       ELSE UNCHANGED photo /\ Breaks(v)
  /\ UNCHANGED <<shown, gone, disk, shots, torn>>

Files(s) == {s.seen[p].key : p \in s.of}

DropOld(v) ==
  /\ shot[v].at = "drop" /\ disk' = disk \ Files(shot[v]) /\ Breaks(v)
  /\ UNCHANGED <<shown, gone, photo, shots, torn>>

-----------------------------------------------------------------------------
\* reorder_photos and update_photo: the rows read, changed, and committed.
Reorder(v, order) ==
  /\ ToSet(order) = shown
  /\ Asks(v, Asking("save", {}, Read,
                [p \in shown |-> [photo[p] EXCEPT !.position =
                   (CHOOSE k \in DOMAIN order : order[k] = p) - 1]]))
  /\ UNCHANGED <<shown, gone, photo, disk, torn>>

MakePrimary(v, p) ==
  /\ p \in shown
  /\ Asks(v, Asking("save", {}, Read, [q \in shown |-> [photo[q] EXCEPT !.primary = q = p]]))
  /\ UNCHANGED <<shown, gone, photo, disk, torn>>

SaveRows(v) ==
  /\ shot[v].at = "save"
  /\ IF Changed(shot[v]) \subseteq shown
       THEN Save(shot[v]) /\ Overtakes(v, Quiet)
       ELSE UNCHANGED photo /\ Breaks(v)
  /\ UNCHANGED <<shown, gone, disk, shots, torn>>

-----------------------------------------------------------------------------
\* The place of each row in the order they are listed; of two in one
\* position, the one uploaded earlier first.
Places(rows) ==
  {place \in [DOMAIN rows -> 0 .. Cardinality(DOMAIN rows) - 1] :
     \A p, q \in DOMAIN rows : p # q =>
       place[p] # place[q] /\ (rows[p].position < rows[q].position => place[p] < place[q])}

\* Mutant of Closed: the primary photo has no successor.
ClosedUp(rows, place, heir) == [q \in DOMAIN rows |-> [rows[q] EXCEPT !.position = place[q]]]

\* The rows that are left: their positions closed up, and the first of them
\* primary when the one that went was.
Closed(rows, place, heir) ==
  [q \in DOMAIN rows |->
     [rows[q] EXCEPT !.position = place[q], !.primary = @ \/ (heir /\ place[q] = 0)]]

\* delete_photo: the files go first, then the row, flushed before the others
\* are read and committed with what they become.
Delete(v, p) ==
  /\ p \in shown
  /\ Asks(v, Asking("unlink", {p}, One(p), Nothing))
  /\ UNCHANGED <<shown, gone, photo, disk, torn>>

Unlink(v) ==
  /\ shot[v].at = "unlink" /\ disk' = disk \ Files(shot[v]) /\ Moves(v, "flush")
  /\ UNCHANGED <<shown, gone, photo, shots, torn>>

\* The flush waits for another that holds the row; deleting a row that is gone
\* only warns.
Flush(v) ==
  /\ shot[v].at = "flush"
  /\ \A w \in Viewers : shot[w].at = "remove" => shot[w].of # shot[v].of
  /\ LET left == [q \in shown \ shot[v].of |-> photo[q]]
         heir == \E p \in shot[v].of : shot[v].seen[p].primary
     IN \E place \in Places(left) :
          shot' = [shot EXCEPT ![v] = [@ EXCEPT !.at = "remove",
                     !.seen = left, !.put = Closed(left, place, heir)]]
  /\ UNCHANGED <<shown, gone, photo, disk, shots, torn>>

RemoveRow(v) ==
  /\ shot[v].at = "remove"
  /\ IF Changed(shot[v]) \subseteq shown
       THEN /\ Save(shot[v]) /\ Overtakes(v, Quiet)
            /\ shown' = shown \ shot[v].of /\ gone' = gone \union shot[v].of
            /\ UNCHANGED torn
       ELSE /\ Breaks(v) /\ torn' = torn \union shot[v].of
            /\ UNCHANGED <<shown, gone, photo>>
  /\ UNCHANGED <<disk, shots>>

\* The process stops, or a commit raises: what was written or deleted stays so.
CutOff(v) ==
  /\ shot[v].at # "idle" /\ Breaks(v)
  /\ torn' = torn \union (IF shot[v].at \in {"flush", "remove"} THEN shot[v].of ELSE {})
  /\ UNCHANGED <<shown, gone, photo, disk, shots>>

-----------------------------------------------------------------------------
PhotosNext ==
  \E v \in Viewers :
    \/ \E p \in PhotoIds : Upload(v, p) \/ Replace(v, p) \/ MakePrimary(v, p) \/ Delete(v, p)
    \/ \E order \in SetToSeqs(shown) : Reorder(v, order)
    \/ WriteFile(v) \/ AddRow(v) \/ SwapRow(v) \/ DropOld(v) \/ SaveRows(v)
    \/ Unlink(v) \/ Flush(v) \/ RemoveRow(v) \/ CutOff(v)

PhotosSpec == PhotosInit /\ [][PhotosNext]_photos

-----------------------------------------------------------------------------
(* Properties.                                                             *)

\* One photo is primary and the positions are 0, 1, ... without a gap.
InOrder(rows) ==
  /\ DOMAIN rows # {} => Cardinality({p \in DOMAIN rows : rows[p].primary}) = 1
  /\ {rows[p].position : p \in DOMAIN rows} = 0 .. Cardinality(DOMAIN rows) - 1

\* "first upload becomes the primary image", "compact positions"
\* (routers/photos.py:51,165): only a request that had read rows another
\* changed since can leave an item's photos with two primary ones, with none,
\* or with two in one place.
PrimaryKept ==
  [][InOrder(Read) /\ ~InOrder(Read') =>
       \E v \in Viewers : shot[v].late /\ shot'[v] # shot[v]]_photos

\* A photo's row always names a file that is there: it is written before the
\* row is committed, a replacement never deletes the file it has just written
\* ("the old files are deleted", routers/photos.py:105), and only a deletion
\* of the photo that is at work, or was cut short, has deleted it.
RowHasImage ==
  \A p \in shown :
    photo[p].key \in disk \/ p \in torn
    \/ \E v \in Viewers : shot[v].at \in {"flush", "remove"} /\ p \in shot[v].of
=============================================================================
