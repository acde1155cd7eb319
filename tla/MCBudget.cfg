SPECIFICATION MCSpec
CONSTANTS
    k1 = k1
    ta = ta
    q1 = q1
    q2 = q2
    q3 = q3
    NoKey = NoKey
    NoTenant = NoTenant
    NoRule = NoRule
    None = None
    Requests <- Three
    Keys <- K1
    Tenants <- MaybeTenant
    Worsts = {0, 2}
    Costs = {1, 2}
    Default <- NoDefault
    RuleSets <- MCRuleSets
    CacheTTL = 1
    DayLen = 2
    MonthLen = 4
    MaxTime = 3
    QueryErrors = TRUE
    MaxQuery = 1
CHECK_DEADLOCK FALSE
SYMMETRY Symmetry
INVARIANTS
    MonthCoversDay
PROPERTIES
    OverspendWindow
    BlockJustified
