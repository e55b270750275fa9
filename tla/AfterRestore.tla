---------------------------- MODULE AfterRestore ----------------------------
(***************************************************************************)
(* What a restore leaves to be settled once its files are swapped, and     *)
(* what is shown through a link from then on: the owner's share links and  *)
(* switch, which the archive's took the place of, the metadata of the      *)
(* photos it brought, whether one of them may be sent as it is, and a      *)
(* reading through a link.  The four share no state here, and a behaviour  *)
(* has one of them at work.                                                *)
(***************************************************************************)
EXTENDS Sharing, Cleaning, Walks, Shares

VARIABLE settling    \* which of the four is at work

afterRestore == <<sharing, cleaning, walks, shares, settling>>

\* The choices of one that is not at work are not multiplied.
Init ==
  /\ settling \in {"sharing", "cleaning", "walks", "shares"}
  /\ SharingInit /\ CleaningInit /\ WalksInit /\ SharesInit
  /\ settling # "sharing" => switch
  /\ settling # "cleaning" => pass[CHOOSE p \in Passes : TRUE].at = "queued"
  /\ settling # "walks" => format = "png"
  /\ settling # "shares" => Live = {}

Next ==
  /\ UNCHANGED settling
  /\ \/ settling = "sharing" /\ SharingNext /\ UNCHANGED <<cleaning, walks, shares>>
     \/ settling = "cleaning" /\ CleaningNext /\ UNCHANGED <<sharing, walks, shares>>
     \/ settling = "walks" /\ WalksNext /\ UNCHANGED <<sharing, cleaning, shares>>
     \/ settling = "shares" /\ SharesNext /\ UNCHANGED <<sharing, cleaning, walks>>

Spec == Init /\ [][Next]_afterRestore
=============================================================================
