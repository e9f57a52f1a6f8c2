SPECIFICATION FairStoreSpec
CONSTANTS
  Keys = {k1, k2}
  Contents = {a}
  Expiries = {0, 1}
  Outputs = {o1}
  OutputTypes = {"mqtt"}
  ChangeRetention = 0
  EventRetention = 1
  MaxTime = 3
  MaxChanges = 2
  MaxWait = 1
  None = None
INVARIANTS JournalReadable JournalFaithful
PROPERTIES OnlyOvertakenRepeatWrites OverdueEventEnds
CHECK_DEADLOCK FALSE
