SPECIFICATION Spec
CONSTANTS
    k1 = k1
    k2 = k2
    k3 = k3
    k4 = k4
    x1 = x1
    x2 = x2
    x3 = x3
    None = None
    Keys <- KeySet
    Hashes <- HashSet
    hash <- Shared
    Default <- NoDefault
    Rules <- SharedRules
    Minute = 2
    Hour = 4
    MaxTime = 7
INVARIANTS
    CountsPassed
    TwiceTheLimit
    RefusalJustified
