--------------------------- MODULE MCMaintenance ----------------------------
(* Two of each kind of actor; requests, and the sessions that ask for a     *)
(* restore, are interchangeable (used where no liveness is checked).        *)
EXTENDS Maintenance, TLC

Interchangeable == Permutations(Requests) \union Permutations(Ticks) \union Permutations(Sessions)
=============================================================================
