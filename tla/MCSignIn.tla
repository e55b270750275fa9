----------------------------- MODULE MCSignIn -------------------------------
(***************************************************************************)
(* An instance of Sso and of Throttle for TLC, one at work in a behaviour, *)
(* as they share no variable.  Sso: two requests at once, from two         *)
(* browsers.  Once single sign-on is in use, tokens, restarts and the      *)
(* claim are not explored with it, nor two account requests at once: they  *)
(* share no state with it but the session rows.  Throttle: bursts of two,  *)
(* with times scaled to a few ticks.                                       *)
(***************************************************************************)
EXTENDS Sso, Throttle, TLC

VARIABLE part    \* the part at work

FreeOfKind == [user |-> 1, addr |-> 2, setup |-> 1]
Alike == Permutations(Handlers) \union Permutations(Browsers) \union Permutations(Addresses)

Init == part \in {"sso", "throttle"} /\ SsoInit /\ ThrottleInit

Next ==
  /\ UNCHANGED part
  /\ \/ part = "sso" /\ SsoNext /\ UNCHANGED throttle
     \/ part = "throttle" /\ ThrottleNext /\ UNCHANGED ssoVars

Spec == Init /\ [][Next]_<<ssoVars, throttle, part>>

OfSso == {"cutting", "callback", "header"}
InUse == \/ provider # "none" \/ links > 0 \/ ~header
         \/ \E h \in Handlers : req[h].at \in OfSso

Apart == InUse =>
  /\ tokens = 0 /\ starts = 1 /\ Up /\ marker
  /\ \A h \in Handlers : req[h].at \in OfSso \union {"idle", "rotate", "confirm"}
  /\ \E h \in Handlers : req[h].at \in OfSso \union {"idle"}
=============================================================================
