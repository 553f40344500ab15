CONSTANTS
  c1 = c1
  c2 = c2
  Cpus <- TwoCpus
  PAGE = 8
  NPAGES = 2
  Sizes <- HeapSizes
  Resizes <- AllResizes
SPECIFICATION Spec
SYMMETRY CpuSymmetry
INVARIANTS BlocksDisjoint HeapTiled 
\* a panic stops the kernel
CHECK_DEADLOCK FALSE
