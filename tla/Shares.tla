------------------------------- MODULE Shares -------------------------------
(***************************************************************************)
(* Reading through a share link, and the owner's side of one               *)
(* (services/share.py, routers/share.py, routers/share_links.py,           *)
(* services/checklists.py, routers/checklists.py).  A request resolves its *)
(* link once and keeps what it read of it, then queries the collection     *)
(* step by step while the owner goes on editing; a photo is served from    *)
(* checked bytes or re-encoded in one of a few slots.  There is one set,   *)
(* and one checklist of one slot.  What a restore does to the links is     *)
(* Sharing.tla's, the pass that cleans photos and its marker Cleaning.tla's.*)
(***************************************************************************)
EXTENDS Naturals, FiniteSets

CONSTANTS
  Pieces,    \* numbered in the order they were entered
  Links, Readers,
  MaxLinks,  \* MAX_LINKS
  Slots,     \* REENCODE_SLOTS
  MaxEdits   \* the owner's edits, and files put in place

ASSUME SharesAssumption == Pieces \subseteq Nat /\ {MaxLinks, Slots, MaxEdits} \subseteq Nat

VARIABLES
  where,    \* each piece: owned, sold, in the trash or purged
  inSet,    \* pieces of the set
  fits,     \* pieces that are the slot's issue
  tick,     \* the slot as ticked by hand: [filled, item]
  gone,     \* targets that were deleted
  on,       \* the switch
  linkRows, \* each link: {} or what the row holds
  alerted,  \* links whose notes were asked for or alerted since they were last off
  photo,    \* the file of each piece's photo: clean, dirty, broken or gone
  photoMarker,  \* {} for none, or the one set of photos the pass listed as unreadable
  free,     \* REENCODE_SLOTS
  reader,   \* what each request is at
  ever,     \* what its link has covered at any moment of each request
  edits

collection == <<where, inSet, fits, tick, gone>>
images == <<photo, photoMarker>>
shares == <<collection, on, linkRows, alerted, images, free, reader, ever, edits>>

Targets == {"collection", "set", "checklist"}
NoReading == [at |-> "idle"]
Row(of, photos, notes) == [of |-> of, photos |-> photos, notes |-> notes]
NoTick == [filled |-> FALSE, item |-> {}]

SharesInit ==
  /\ where = [i \in Pieces |-> "owned"] /\ inSet = Pieces /\ fits = Pieces
  /\ tick = NoTick /\ gone = {} /\ on = TRUE
  /\ linkRows \in [Links -> {{}} \union {{r} : r \in [of : Targets, photos : {TRUE}, notes : BOOLEAN]}]
  /\ alerted = {l \in Links : \E r \in linkRows[l] : r.notes}
  /\ photo = [i \in Pieces |-> "dirty"] /\ photoMarker = {} /\ free = Slots
  /\ reader = [q \in Readers |-> NoReading] /\ ever = [q \in Readers |-> {}] /\ edits = 0

ReaderAt(q, at) == reader[q].at = at
ReaderGoes(q, next) == reader' = [reader EXCEPT ![q] = next]
Owned == {i \in Pieces : where[i] = "owned"}
Edit == edits < MaxEdits /\ edits' = edits + 1

\* owned_by_issue: the earliest entered of the owned pieces of the issue.
Matched == {i \in Owned \cap fits : \A j \in Owned \cap fits : i <= j}

\* slot_views: a match, else the piece of a ticked slot.
Filling ==
  IF "checklist" \in gone THEN {}
  ELSE IF Matched # {} THEN Matched
  ELSE IF tick.filled THEN tick.item ELSE {}

Covers == [collection |-> Pieces, set |-> inSet, checklist |-> Filling]

-----------------------------------------------------------------------------
(* The owner's collection and checklist.                                   *)

MovesPiece(i, to) ==
  /\ Edit /\ where[i] \notin {to, "purged"} /\ (to = "purged" => where[i] = "trash")
  /\ where' = [where EXCEPT ![i] = to]
  \* a purge deletes the row: the slot's item_id is set to null
  /\ tick' = IF to = "purged" THEN [tick EXCEPT !.item = @ \ {i}] ELSE tick
  /\ UNCHANGED <<inSet, fits, gone, on, linkRows, alerted, images, free, reader>>

Regroups(i) ==
  /\ Edit /\ where[i] # "purged"
  /\ \/ "set" \notin gone /\ inSet' = (inSet \ {i}) \union ({i} \ inSet) /\ UNCHANGED fits
     \/ fits' = (fits \ {i}) \union ({i} \ fits) /\ UNCHANGED inSet
  /\ UNCHANGED <<where, tick, gone, on, linkRows, alerted, images, free, reader>>

\* update_slot: unticking forgets the piece, naming one ticks.
TicksSlot ==
  /\ Edit /\ "checklist" \notin gone
  /\ \/ tick' = NoTick
     \/ tick' = [tick EXCEPT !.filled = TRUE]
     \/ \E i \in Pieces : where[i] # "purged" /\ tick' = [filled |-> TRUE, item |-> {i}]
  /\ UNCHANGED <<where, inSet, fits, gone, on, linkRows, alerted, images, free, reader>>

\* Deleting a set or a checklist deletes its links with it.
Deletes(k) ==
  /\ Edit /\ k \in {"set", "checklist"} \ gone /\ gone' = gone \union {k}
  /\ linkRows' = [l \in Links |-> {r \in linkRows[l] : r.of # k}]
  /\ inSet' = IF k = "set" THEN {} ELSE inSet
  /\ tick' = IF k = "checklist" THEN NoTick ELSE tick
  /\ UNCHANGED <<where, fits, on, alerted, images, free, reader>>

Switches ==
  /\ Edit /\ on' = ~on
  /\ UNCHANGED <<collection, linkRows, alerted, images, free, reader>>

\* A restore, restore.sh, the pass or a hand puts a file in place; the marker
\* may stay, go, or be written.
PutsFile(i, f) ==
  /\ Edit /\ photo' = [photo EXCEPT ![i] = f]
  /\ photoMarker' \in {photoMarker, {}, {{j \in Pieces : photo'[j] = "broken"}}}
  /\ UNCHANGED <<collection, on, linkRows, alerted, free, reader>>

-----------------------------------------------------------------------------
(* The owner's links.                                                      *)

Live == {l \in Links : linkRows[l] # {}}

MakesLink(l, of, photos, notes) ==
  /\ on /\ l \notin Live /\ Edit /\ of \notin gone /\ Cardinality(Live) < MaxLinks
  /\ linkRows' = [linkRows EXCEPT ![l] = {Row(of, photos, notes)}]
  /\ alerted' = IF notes THEN alerted \union {l} ELSE alerted \ {l}
  /\ UNCHANGED <<collection, on, images, free, reader>>

Revokes(l) ==
  /\ l \in Live /\ Edit /\ linkRows' = [linkRows EXCEPT ![l] = {}]
  /\ UNCHANGED <<collection, on, alerted, images, free, reader>>

\* update_link loads the row, and later writes what differs from what it loaded.
OpensLink(q, l) ==
  /\ ReaderAt(q, "idle") /\ \E r \in linkRows[l] : ReaderGoes(q, [at |-> "patching", link |-> l, row |-> r])
  /\ UNCHANGED <<collection, on, linkRows, alerted, images, free, edits>>

Changed(q, notes) == notes # reader[q].row.notes /\ linkRows[reader[q].link] # {}

\* The alert is for what was switched on. Writing a row that is gone fails.
SavesLink(q, notes) ==
  /\ ReaderAt(q, "patching") /\ Edit /\ ReaderGoes(q, NoReading)
  /\ LET l == reader[q].link IN
       IF Changed(q, notes)
       THEN /\ linkRows' = [linkRows EXCEPT ![l] = {[r EXCEPT !.notes = notes] : r \in @}]
            /\ alerted' = IF ~notes THEN alerted \ {l}
                       ELSE IF reader[q].row.notes THEN alerted ELSE alerted \union {l}
       ELSE UNCHANGED <<linkRows, alerted>>
  /\ UNCHANGED <<collection, on, images, free>>

-----------------------------------------------------------------------------
(* A request through a link.                                               *)

\* resolve: the link's row is read once; want is a piece's photo, or the page.
Resolves(q, l, want) ==
  /\ on /\ ReaderAt(q, "idle")
  /\ \E r \in linkRows[l] :
       /\ want # {} => r.photos
       /\ ReaderGoes(q, [at |-> IF r.of = "checklist" THEN "resolved" ELSE "asking",
                   of |-> r.of, want |-> want, found |-> {}])
  /\ UNCHANGED <<collection, on, linkRows, alerted, images, free, edits>>

\* checklist_view: the slots with their matches, then which of the pieces are owned.
Views(q) ==
  /\ ReaderAt(q, "resolved") /\ ReaderGoes(q, [reader[q] EXCEPT !.at = "viewed", !.found = Filling])
  /\ UNCHANGED <<collection, on, linkRows, alerted, images, free, edits>>

Filters(q) ==
  /\ ReaderAt(q, "viewed") /\ ReaderGoes(q, [reader[q] EXCEPT !.at = "asking", !.found = @ \cap Owned])
  /\ UNCHANGED <<collection, on, linkRows, alerted, images, free, edits>>

\* Mutant of Shown: what the checklist's view found is taken as it is.
ShownTrusting(q) ==
  IF reader[q].of = "checklist" THEN reader[q].found ELSE Owned \cap Covers[reader[q].of]

\* _conditions: owned pieces only, whatever was found before.
Shown(q) ==
  Owned \cap (IF reader[q].of = "checklist" THEN reader[q].found ELSE Covers[reader[q].of])

\* page_items, get_item, and get_photo on its piece.
Asks(q) ==
  /\ ReaderAt(q, "asking")
  /\ LET found == Shown(q) IN
       IF reader[q].want = {} THEN ReaderGoes(q, [reader[q] EXCEPT !.at = "shown", !.found = found])
       ELSE IF reader[q].want \subseteq found THEN ReaderGoes(q, [reader[q] EXCEPT !.at = "looking", !.found = reader[q].want])
       ELSE ReaderGoes(q, NoReading)
  /\ UNCHANGED <<collection, on, linkRows, alerted, images, free, edits>>

File(q) == photo[CHOOSE i \in Pieces : i \in reader[q].want]
Sends(q, body) == ReaderGoes(q, [at |-> "sent", of |-> reader[q].of, want |-> reader[q].want, found |-> {}, body |-> body])
Slowly(q) == ReaderGoes(q, [at |-> "slow", of |-> reader[q].of, want |-> reader[q].want, found |-> {}])

\* marker_unreadable; without a marker the file goes the slow way.
Looks(q) ==
  /\ ReaderAt(q, "looking")
  /\ IF File(q) = "gone" \/ (\E u \in photoMarker : reader[q].want \subseteq u) THEN ReaderGoes(q, NoReading)
     ELSE ReaderGoes(q, [reader[q] EXCEPT !.at = IF photoMarker = {} THEN "slow" ELSE "checking"])
  /\ UNCHANGED <<collection, on, linkRows, alerted, images, free, edits>>

\* All that is told of bytes is whether they are a photo without metadata.
Bytes(q) == IF File(q) = "clean" THEN "clean" ELSE "other"

\* checked_bytes reads the whole file.
Fetches(q) ==
  /\ ReaderAt(q, "checking")
  /\ ReaderGoes(q, [at |-> "read", of |-> reader[q].of, want |-> reader[q].want, found |-> {}, body |-> Bytes(q)])
  /\ UNCHANGED <<collection, on, linkRows, alerted, images, free, edits>>

\* Mutant of Checks: what passed is opened again by its path to be sent.
ChecksReopening(q) ==
  /\ ReaderAt(q, "read")
  /\ IF reader[q].body = "clean" THEN Sends(q, Bytes(q)) ELSE Slowly(q)
  /\ UNCHANGED <<collection, on, linkRows, alerted, images, free, edits>>

\* checked_bytes walks what it read, and that is what is sent, whatever the
\* path holds by now; anything else goes the slow way, from the file again.
Checks(q) ==
  /\ ReaderAt(q, "read")
  /\ IF reader[q].body = "clean" THEN Sends(q, reader[q].body) ELSE Slowly(q)
  /\ UNCHANGED <<collection, on, linkRows, alerted, images, free, edits>>

\* One of the slots, or 503.
Encodes(q) ==
  /\ ReaderAt(q, "slow")
  /\ IF free = 0 THEN ReaderGoes(q, NoReading) /\ UNCHANGED free
     ELSE ReaderGoes(q, [reader[q] EXCEPT !.at = "encoding"]) /\ free' = free - 1
  /\ UNCHANGED <<collection, on, linkRows, alerted, images, edits>>

Releases(q) == free + 1

\* cleaned_file, or not a readable image.
Encoded(q) ==
  /\ ReaderAt(q, "encoding") /\ free' = Releases(q)
  /\ IF File(q) \in {"clean", "dirty"} THEN Sends(q, "clean") ELSE ReaderGoes(q, NoReading)
  /\ UNCHANGED <<collection, on, linkRows, alerted, images, edits>>

Answered(q) ==
  /\ reader[q].at \in {"shown", "sent"} /\ ReaderGoes(q, NoReading)
  /\ UNCHANGED <<collection, on, linkRows, alerted, images, free, edits>>

Remembers ==
  ever' = [q \in Readers |->
    IF reader'[q].at \in {"idle", "patching"} THEN {}
    ELSE (IF ReaderAt(q, "idle") THEN {} ELSE ever[q]) \union Covers'[reader'[q].of]]

Steps ==
  \/ \E i \in Pieces : Regroups(i) \/ \E to \in {"owned", "sold", "trash", "purged"} : MovesPiece(i, to)
  \/ \E i \in Pieces, f \in {"clean", "dirty", "broken", "gone"} : PutsFile(i, f)
  \/ \E k \in Targets : Deletes(k)
  \/ TicksSlot \/ Switches
  \/ \E l \in Links : Revokes(l) \/ \E of \in Targets, p, n \in BOOLEAN : MakesLink(l, of, p, n)
  \/ \E q \in Readers :
       \/ \E l \in Links : OpensLink(q, l) \/ \E want \in {{}} \union {{i} : i \in Pieces} : Resolves(q, l, want)
       \/ \E n \in BOOLEAN : SavesLink(q, n)
       \/ Views(q) \/ Filters(q) \/ Asks(q) \/ Looks(q) \/ Fetches(q) \/ Checks(q)
       \/ Encodes(q) \/ Encoded(q) \/ Answered(q)

SharesNext == Steps /\ Remembers
SharesSpec == SharesInit /\ [][SharesNext]_shares

-----------------------------------------------------------------------------
(* A piece, or its photo, is only shown if it is owned and out of the      *)
(* trash when it is read, after all the slow matching before it, and was   *)
(* covered by the link at some moment of the request (share._conditions).  *)
OnlyShared ==
  [][\A q \in Readers :
       (ReaderAt(q, "asking") /\ reader'[q].at \in {"shown", "looking"})
         => reader'[q].found \subseteq Owned \cap ever[q]]_shares

(* No body sent through a link carries metadata, whatever is put in the    *)
(* photo's place between the reading, the check and the sending, and       *)
(* whatever the marker says, comes to say or ceases to say meanwhile       *)
(* (photos.checked_bytes, "a file replaced meanwhile is never sent         *)
(* unchecked"; routers/share.share_photo).                                 *)
CleanShown == \A q \in Readers : ReaderAt(q, "sent") => reader[q].body = "clean"

(* Every way a re-encoding ends gives its slot back; a leak would leave    *)
(* every later photo busy (routers/share.REENCODE_SLOTS).                  *)
SlotsBack == free + Cardinality({q \in Readers : ReaderAt(q, "encoding")}) = Slots

(* A link never shows notes that nobody asked for when it was made nor was *)
(* alerted of since, even when two changes of one link overlap             *)
(* (routers/share_links.update_link).                                      *)
WideningTold == \A l \in Links : \A r \in linkRows[l] : r.notes => l \in alerted
=============================================================================
