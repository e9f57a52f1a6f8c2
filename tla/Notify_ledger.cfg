SPECIFICATION FairSpec
CONSTANTS
  Groups = {g1}
  ActionIds = {a1}
  Feeds = {"imgw"}
  AnySource = "any"
  Ranks = {0, 1}
  Transitions <- WithCancellation
  InboxCap = 1
  QueueCap = 1
  Retries = 1
  MaxArrivals = 3
  MaxExits = 2
  NoJob = NoJob
INVARIANT NotifySafe
PROPERTY QueueDrains
CHECK_DEADLOCK FALSE
