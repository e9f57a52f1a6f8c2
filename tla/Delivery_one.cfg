SPECIFICATION FairSpec
CONSTANTS
  Keys = {k1}
  Contents = {a}
  Expiries = {1}
  Outputs = {o1}
  OutputTypes = {"mqtt", "file"}
  ChangeRetention = 1
  EventRetention = 0
  MaxTime = 2
  MaxChanges = 2
  MaxWait = 0
  None = None
  PollBatch = 1
  FailureThreshold = 1
  MaxExits = 2
INVARIANT JournalFaithful
PROPERTY EventuallyHandled
CHECK_DEADLOCK FALSE
