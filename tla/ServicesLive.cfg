SPECIFICATION FairServicesSpec
CONSTANTS
    s1 = s1
    s2 = s2
    v1 = v1
    v2 = v2
    Services = {s1}
    Lanes <- OneLane
    Variants = {v1, v2}
    QuoteAt <- Quotes
    BarLength = 4
    EntryWindow = 3
    MaxLag = 1
    EnvelopeTtl = 1
    MaxBar = 2
    MaxFaults = 1
    MaxCycles = 2
    MaxBeats = 3
    MaxLost = 1
INVARIANTS
    NoOrphanWorker
    FailureIsDenied
PROPERTIES
    RecoversWhileAcceptable
    OneCriticalAbort
    CycleIsBounded
CHECK_DEADLOCK FALSE
