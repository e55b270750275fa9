----------------------------- MODULE MCRestore -----------------------------
(* Instances of Restore for TLC: a volume whose file the archive replaces   *)
(* by another of the same name, adds to and drops from, and one it lacks.   *)
EXTENDS Restore

MCNames == {"a", "b", "c"}
MCPrevious == <<{"a", "b"}, {"a"}>>
MCArchived == <<{"b", "c"}, {"a"}>>
=============================================================================
