SPECIFICATION Spec
CHECK_DEADLOCK FALSE
CONSTANTS
  Procs = {p1, p2, p3}
  MAXV = 2
  JUNK = JUNK
INVARIANTS
  FrameComesBack
  SegmentsFit
  TickHasStack
PROPERTY
  TicksKeepComing
