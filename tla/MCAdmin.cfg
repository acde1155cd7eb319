SPECIFICATION Spec
CONSTANTS
    k1 = k1
    k2 = k2
    c1 = c1
    c2 = c2
    q1 = q1
    q2 = q2
    None = None
    Calls = {c1, c2}
    Requests = {q1}
    Keys <- OneKey
    Patterns <- OnePat
    ConfigKeys <- Both
    FileRules <- NoRules
    TTL = 1
    MaxRead = 1
    ReadErrors = TRUE
    WriteErrors = TRUE
    Restarts = TRUE
INVARIANTS
    AcknowledgedHolds
PROPERTIES
    BlockedWithinTTL
SYMMETRY Symmetry
