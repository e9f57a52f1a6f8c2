SPECIFICATION EdgeSpec
CONSTANTS
    Handlers = {h1, h2}
    Levels = {0, 1, 2}
    LastTime = 1
    MaxRequests = 4
    Clients = {s1, s2}
    Hazards = {k1}
    Rate = 1
    Burst = 1
    LastTick = 2
    MaxPosts = 3
    Kinds = {"rso", "imgw", "gios", "gddkia", "giosaq"}
    Feeds = {f1, f2}
    Warnings = {"wa", "wb"}
    Cover <- MCCover
    Versions = {1, 2}
    Scope <- MCScope
    Due <- MCDue
    PageIn <- MCPageIn
    PageSize = 1
    MaxPages = 3
    LastDay = 2
    MaxEdits = 3
    MaxPolls = 3
    Programs <- MCPrograms
    SnapKeys <- MCSnapKeys
    AirKeys = {"home_air"}
    InfoCap = 2
    MaxRounds <- MCRounds
    MaxBeats = 1
    MaxLosses = 1
    ChannelKinds = {"smtp", "webhook", "discord", "aprs", "direct"}
    Configured <- MCConfigured
    MemberLists <- MCMemberLists
    Lower <- MCLower
    Interval = 1
    CallTimeout = 2
    Backoff = 1
    Retries = 1
    LastClock = 6
INVARIANTS AlarmFollowsLevel ViewFollowsJournal WithdrawnForCause CompletePollSettles
    NoLostWakeup ServedAsReported
PROPERTY NeverBackInTime
CHECK_DEADLOCK FALSE
