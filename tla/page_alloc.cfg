SPECIFICATION Spec
\* a panic or a fault keeps the lock
CHECK_DEADLOCK FALSE
CONSTANTS
  Memmaps <- MCMemmaps
  AllocSizes <- UpToFour
INVARIANTS PoolArrayExact BuddyBlocks  ListsSound HangsOnlyOnOddBlock
 
