CONSTANTS
  NPRIOR = 2
  Pids <- FourPids
SPECIFICATION Spec
INVARIANT EndIsLast
PROPERTY ImplementsQueues
