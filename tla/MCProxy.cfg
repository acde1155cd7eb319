SPECIFICATION MCSpec
CONSTANTS
    Requests = {q1, q2}
    Sessions = {s1}
    Gates = {"blocklist", "track", "limit", "budget"}
    None = None
CHECK_DEADLOCK FALSE
INVARIANTS
    MeteredExactly
    GracefulLosesNothing
PROPERTIES
    StoreOutlivesRecorder
    ShutdownEnds
    TrackerNeverStuck
