SPECIFICATION FairMCPSpec
CONSTANTS
    q1 = q1
    q2 = q2
    t1 = t1
    t2 = t2
    files = files
    unknown = unknown
    any = any
    None = None
    Ids = {1, 2}
    Tools <- ToolSet
    Servers <- ServerSet
    Unknown = unknown
    Wildcard = any
    PricingRules <- Prices
    Requests = {q1, q2}
    MaxEvents = 2
    Upstream = files
    MaxSent = 3
    MaxNotes = 1
    PipeCap = 1
    Faults = {"tooLong", "stdout", "crash"}
INVARIANTS
    AnswersRecorded
    DrainedOnReturn
    OwnAnswerRecorded
PROPERTIES
    InputEndsRun
