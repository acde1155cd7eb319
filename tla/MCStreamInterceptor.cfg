SPECIFICATION FairStreamSpec
CONSTANTS
    Pricing <- DefaultPricing
    Events <- MCEvents
    MaxEvents = 3
    Framings <- BothFramings
    Asked <- MCAsked
CHECK_DEADLOCK FALSE
INVARIANTS
    ChunkingInvisible
    RecordedOnce
PROPERTIES
    EventuallyRecorded
