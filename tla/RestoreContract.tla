--------------------------- MODULE RestoreContract --------------------------
(***************************************************************************)
(* What a restore promises whoever uses Cabinet, with no files, journal,   *)
(* marker or phases: the collection only changes behind closed doors, and  *)
(* the doors open again on a mixture only if the owner is not told it went *)
(* well, and is told, unless the word was lost on the way to the disk.     *)
(* Restore.tla implements it (Contract there).                             *)
(***************************************************************************)
VARIABLES collection, open, said

contractVars == <<collection, open, said>>

Collections == {"before", "archive", "mixed"}

\* said is about the latest attempt: "none" until it is told, "lost" when what
\* is shown is older, or nothing.
Init == collection = "before" /\ open = TRUE /\ said = "none"

\* From then on the collection is named after what this attempt found: its
\* "before", or a mixture an earlier attempt left for a person to look at.
Close ==
  /\ open /\ open' = FALSE
  /\ collection' \in {collection, "before", "mixed"}
  /\ said' \in {said, "none", "lost"}

Work == ~open /\ collection' \in Collections /\ UNCHANGED <<open, said>>

Tell(what) == ~open /\ said' = what /\ UNCHANGED <<collection, open>>

Open ==
  /\ ~open /\ open' = TRUE
  /\ said = "ok" => collection = "archive"
  /\ collection = "mixed" => said \notin {"none", "ok"}
  /\ UNCHANGED <<collection, said>>

Next ==
  \/ Close \/ Work \/ Open
  \/ \E what \in {"ok", "nothing_changed", "partial", "failed", "put_back", "stuck", "lost"} :
       Tell(what)

Spec == Init /\ [][Next]_contractVars
=============================================================================
