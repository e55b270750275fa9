----------------------------- MODULE Collection -----------------------------
(***************************************************************************)
(* The pieces, the photos of one of them, the imports that make them, and  *)
(* the trash, side by side: they share no variable and keep their hazards  *)
(* to themselves, so a behaviour has one of them at work and not their     *)
(* interleavings.                                                          *)
(***************************************************************************)
EXTENDS Items, Photos, Imports, Trash

VARIABLE part    \* the part at work

collection == <<items, photos, importing, trash, part>>

\* The choices of a part that is not at work are not multiplied.
Init ==
  /\ part \in {"items", "photos", "imports", "trash"}
  /\ ItemsInit /\ PhotosInit /\ ImportsInit /\ TrashInit
  /\ part # "imports" => source = "spreadsheet"

Next ==
  /\ UNCHANGED part
  /\ \/ part = "items" /\ ItemsNext /\ UNCHANGED <<photos, importing, trash>>
     \/ part = "photos" /\ PhotosNext /\ UNCHANGED <<items, importing, trash>>
     \/ part = "imports" /\ ImportsNext /\ UNCHANGED <<items, photos, trash>>
     \/ part = "trash" /\ TrashNext /\ UNCHANGED <<items, photos, importing>>

Spec == Init /\ [][Next]_collection
=============================================================================
