SPECIFICATION Spec
CHECK_DEADLOCK FALSE
CONSTANTS
  PAGE = 4
  RADIX = 32
  VPAGES = 128
  MINIHEAP = 5
  NONE = NONE
  CFGBYTES = 8
  IOBYTES = 4
  Tags = {0, 1}
  Offsets <- MCOffsets
  HDR = 1
  KPAGES = 2
  KPHYS = 20
  NLAI = 3
  Machines <- MCMachines
  LaiMaps <- MCLaiMaps
INVARIANTS
  WindowsExact
  NothingElseMapped
  FindIsLookup
  DevicesExact

  
