SPECIFICATION FairQueueSpec
CONSTANTS
    p1 = p1
    c1 = c1
    c2 = c2
    d1 = d1
    d2 = d2
    Producers = {p1}
    Consumers = {c1}
    Decisions = {d1, d2}
    Waits = {d2}
    TTL = 1
    MaxTime = 2
    MaxCrashes = 1
INVARIANTS
    AnchorWithinOne
    EmittedFresh
PROPERTIES
    LatchStopsTheQueue
    ImplementsAtMostOnce
    QueueDrains
