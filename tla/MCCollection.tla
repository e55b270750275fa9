---------------------------- MODULE MCCollection ----------------------------
(* Two requests of each part, on two pieces, three photos, rows of two      *)
(* contents, two documents; the third photo is not permuted.                *)
EXTENDS Collection, TLC

CONSTANTS a1, a2

Alike == Permutations({a1, a2}) \union Permutations(Editors) \union Permutations(Uploads)
=============================================================================
