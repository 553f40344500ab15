\* The kernel as it boots: kmain creates the processes, then they run and exit.
CONSTANTS
  NPRIOR = 3
  NCPUS = 2
  MAXPID = 3
  NWRAP = 65536
  Garbage <- SomeGarbage
  BootPrios <- ThreePrios
  Spawners <- NoSpawner
  SWEEP_US = 10000
  TICKS = 500
SPECIFICATION FairSpec
INVARIANTS RunsOnOneCpu RunsWhereQueued
PROPERTIES CountMovesWithNodes 
\* panic freezes a CPU, and the machine with the last one
CHECK_DEADLOCK FALSE
