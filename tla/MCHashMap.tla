----------------------------- MODULE MCHashMap -----------------------------
EXTENDS HashMap, TLC

CONSTANTS k1, k2, k3, k4, k5, v1, v2
FiveKeys == {k1, k2, k3, k4, k5}
TwoVals == {v1, v2}
ValSymmetry == Permutations(TwoVals)

\* In a map of 4 cells k1 and k2 collide, k3 starts its probe at cell 0; in one
\* of 6 cells k4 and k5 start beyond the old capacity.
FiveHashes == (k1 :> 1) @@ (k2 :> 13) @@ (k3 :> 3) @@ (k4 :> 4) @@ (k5 :> 11)

\* A map that has grown holds no more than the entry it grew for.
EntryBound == Cardinality({i \in DOMAIN cell : Used(cell, i)}) <= CAP + 1
=============================================================================
