SPECIFICATION FairViewSpec
CONSTANTS
  Hazards = {k1}
  MaxPasses = 2
  MaxJournal = 3
  MaxFaults = 1
INVARIANTS ActiveShown OnlyGapResurrects
PROPERTY ActiveConverges
CHECK_DEADLOCK FALSE
