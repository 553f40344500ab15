\* Processes are also created while others run: schedule contends with
\* proc_next and unschedule for the queue locks, and reads stale counters.
CONSTANTS
  NPRIOR = 2
  NCPUS = 3
  MAXPID = 3
  NWRAP = 8
  Garbage <- TwoGarbage
  BootPrios <- OneProc
  Spawners <- BootCpu
  SWEEP_US = 10000
  TICKS = 1000
SPECIFICATION Spec
INVARIANTS Exclusion OnePlace ActivateAssert NothingLost PanicOnlyWhenEmpty
PROPERTY ImplementsSweep
CHECK_DEADLOCK FALSE
