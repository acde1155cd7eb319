CONSTANTS
    Pricing <- DefaultPricing
    k1 = k1
    k2 = k2
    t1 = t1
    t2 = t2
    s1 = s1
    q1 = q1
    q2 = q2
    None = None
    NoKey = NoKey
    NoTenant = NoTenant
    NoProvider = NoProvider
    NoSession = NoSession
    AnyTenant = AnyTenant
    MinuteLen = 1
    HourLen = 1
    DayLen = 1
    MonthLen = 2
    LatencyLimits = {1, 2}
    PercentileRows = 2
    PoolSize = 2
    Requests = {q1, q2}
    Traffic <- MCTraffic
    Extras <- MCExtras
    Mappings <- MCMappings
    Queries <- MCQueries
    Windows = {1}
    FirstTime = 0
    MaxTime = 2
    TopLimit = 1
SPECIFICATION FairSpec
INVARIANT Attribution
INVARIANT ReportsTrue
PROPERTY QueriesReturn
CHECK_DEADLOCK FALSE
