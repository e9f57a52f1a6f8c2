SPECIFICATION ViewSpec
CONSTANTS
  Hazards = {k1}
  MaxPasses = 4
  MaxJournal = 2
  MaxFaults = 0
INVARIANT NeverResurrected
CHECK_DEADLOCK FALSE
