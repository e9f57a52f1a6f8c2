SPECIFICATION Spec
CONSTANTS
  Keys = {k1}
  Contents = {a}
  Expiries = {0}
  Outputs = {o1, o2}
  OutputTypes = {"mqtt"}
  ChangeRetention = 1
  EventRetention = 0
  MaxTime = 2
  MaxChanges = 2
  MaxWait = 0
  None = None
  PollBatch = 2
  FailureThreshold = 1
  MaxExits = 1
INVARIANTS NothingLost OrderedDelivery NoRedeliveryAfterAck AckNeverRefused
PROPERTY ImplementsOutbox
SYMMETRY Symmetry
CHECK_DEADLOCK FALSE
