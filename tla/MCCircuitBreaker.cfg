SPECIFICATION FairBreakerSpec
CONSTANTS
    Threads = {t1, t2, t3}
    MaxFailures = 2
    Timeout = 1
INVARIANTS
    TimerNotAhead
PROPERTIES
    OpenLasts
    Recovers
    OutageOpens
