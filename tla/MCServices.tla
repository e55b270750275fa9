----------------------------- MODULE MCServices -----------------------------
(* Two pieces, conditions, archives or secrets, and two that work on them   *)
(* at a time: whichever part is at work, the same few model values.         *)
EXTENDS Services, TLC

CONSTANTS a1, a2, w1, w2

Issue(y, d, i, traits) == [year |-> y, nd |-> d, named |-> i, agrees |-> traits]

Issues ==
  {Issue(1, FALSE, TRUE, {"mint"}), Issue(1, FALSE, TRUE, {"replacement", "text"}),
   Issue(1, TRUE, TRUE, {"mint", "text"}), Issue(1, FALSE, FALSE, {"mint", "replacement"}),
   Issue(0, TRUE, TRUE, {"mint"})}

Alike == Permutations({a1, a2}) \union Permutations({w1, w2})
=============================================================================
