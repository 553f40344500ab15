------------------------------ MODULE MCKalloc ------------------------------
EXTENDS Kalloc, TLC

CONSTANTS c1, c2
TwoCpus == {c1, c2}
CpuSymmetry == Permutations(TwoCpus)
\* with PAGE = 8: half a page exactly filled, a page with some left, two pages
HeapSizes == {2, 3, 7}
AllResizes == Sizes \X Sizes
=============================================================================
