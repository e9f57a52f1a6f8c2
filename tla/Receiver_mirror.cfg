SPECIFICATION FairRecvSpec
CONSTANTS
  r1 = r1
  r2 = r2
  a1 = a1
  Receivers = {r1, r2}
  Actives = {a1}
  Feeds <- MCFeeds
  Flaky = {r1}
  MaxActive = 1
  QueueSize = 1
  MaxFrames = 2
  MaxBreaks = 2
INVARIANT MirrorExact
PROPERTIES AcceptedIsTaken Resubscribed
CHECK_DEADLOCK FALSE
