SPECIFICATION FairSpec
CONSTANTS
    Records = {r1, r2, r3, r4}
    Closers = {c1, c2}
    BufSize = 0
    NumWorkers = 0
    DefaultBufSize = 2
    DefaultWorkers = 2
    None = None
INVARIANTS
    Accounted
    DrainedOnClose
    DropsExplained
PROPERTIES
    RefinesUsageLog
    AcceptedSettles
    CloseReturns
CHECK_DEADLOCK FALSE
