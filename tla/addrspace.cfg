SPECIFICATION SpaceSpec
CHECK_DEADLOCK FALSE
CONSTANTS
  CPUS = {c1, c2}
  BSP = c1
  NPROC = 3
  NONE = NONE
  PtOf <- MCPtOf
INVARIANTS
  WrongOnlyIfCrossed
  

  
