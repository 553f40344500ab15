CONSTANT NCPUS = 4
SPECIFICATION FairSpec
INVARIANTS BarrierHolds NeverOvercounts OnlyReadyMessageIsCut
PROPERTY WaitEndsUnlessLost
\* the wait may never end, and a panic freezes a CPU
CHECK_DEADLOCK FALSE
