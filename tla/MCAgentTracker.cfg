SPECIFICATION MCSpec
CONSTANTS
    None = None
    Sessions = {s1, s2}
    Paths = {p1}
    NumRequests = 3
    Costs = {1}
    MaxActive = 1
    TrimFactor = 1
    LoopThreshold = 2
    LoopWindow = 1
    LoopBlocks = TRUE
    SessionTimeout = 1
    GhostMaxAge = 2
    GhostMinCalls = 1
    GhostMinCost = 0
    StoreErrors = TRUE
    MaxTime = 4
    Horizon = 2
CHECK_DEADLOCK FALSE
INVARIANTS
    NothingForgotten
    GaugeExact
PROPERTIES
    LoopExact
    IdleSettles
