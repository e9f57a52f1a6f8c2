SPECIFICATION AprsSpec
CONSTANTS
    Me = "me"
    Stations = {"me", "peer"}
    Backends = {p1, p2}
    Packets <- MCPackets
    StationTTL = 0
    DigestWindow = 0
    OpsQueueSize = 1
    MaxWire = 1
    MaxRestarts = 1
    Instances = {p1, p2}
    Callsigns <- MCCallsigns
    Groups <- MCGroups
    Cooldown = 2
    TxInterval = 1
    AckTimeout = 1
    AckPendingCap = 1
    SeqWrap = 2
    Bytes <- MCBytes
    Payloads <- MCPayloads
    MaxDelay = 1
    IdleFactor = 1
    MaxCarry = 1
    Callers = {p1, p2}
    UserIds = {1, 2, 3}
    UserNames = {q1, q2}
    UserGroups = {g1}
    UserRoles = {"", "member"}
    MaxCalls = 3
    MaxTokens = 1
INVARIANTS CleanMeansShown OrphansExplained HeardOnce
    PendingMatchesCalls DecodedUnlessMuddied
    RoleKept PrefsFromOneForm LinkSpentOnce
SYMMETRY AprsSymmetry
CHECK_DEADLOCK FALSE
