SPECIFICATION FairAlertsSpec
CONSTANTS
    Goroutines = {1, 2}
    AlertKeys = {"budget_exceeded", "loop_detected"}
    TrackerKeys = {"loop_detected"}
    N = 2
    Cooldown = 2
    NoEntry = NoEntry
INVARIANTS
    AlertsTypeOK
PROPERTIES
    CooldownExact
    GetsThrough
