SPECIFICATION FairSpec
CONSTANTS
  BackoffBase = 1
  BackoffMax = 6
  MaxAttempts = 5
INVARIANT LoopSafe
PROPERTIES ShutdownEnds RunsAgain
CHECK_DEADLOCK FALSE
