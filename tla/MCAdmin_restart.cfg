SPECIFICATION Spec
CONSTANTS
    k1 = k1
    k2 = k2
    c1 = c1
    c2 = c2
    q1 = q1
    q2 = q2
    None = None
    Calls = {c1}
    Requests = {}
    Keys <- KeySet
    Patterns <- TwoPats
    ConfigKeys <- JustRules
    FileRules <- NoRules
    TTL = 1
    MaxRead = 0
    ReadErrors = FALSE
    WriteErrors = FALSE
    Restarts = TRUE
INVARIANTS
    RulesInForce
