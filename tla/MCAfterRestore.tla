--------------------------- MODULE MCAfterRestore ---------------------------
\* A photo that may carry metadata and one that cannot be decoded; an archive
\* that brings both names with each other's contents, and one that lacks a name;
\* two readings of one link at a time, which are alike.
EXTENDS AfterRestore, TLC

CONSTANTS one, other

MCFiles == {one, other}
Of(a, b) == [x \in MCFiles |-> IF x = one THEN a ELSE b]
MCBefore == {Of("dirty", "broken")}
MCBrought == {Of("broken", "dirty"), Of("nodir", "clean")}

Alike == Permutations(Readers)
=============================================================================
