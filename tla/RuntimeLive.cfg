SPECIFICATION LiveSpec
CONSTANTS
    i1 = i1
    i2 = i2
    d1 = d1
    d2 = d2
    p1 = p1
    p2 = p2
    Intents = {i1}
    Tombstones = {}
    DemoAuto = {}
    Decisions = {d1, d2}
    DecisionOf <- MCOneDecision
    Procs = {p1}
    MaxDaily = 5
    Lot = 2
    MaxDay = 1
    MaxToken = 1
    MaxLatch = 2
    FenceDomain <- MCFenceDomain
    MaxCrash = 1
INVARIANTS
    BrokerExposureIsJournaled
PROPERTIES
    RefinesJournal
    SubmittingIsResolved
    OpenPositionIsRecorded
    ClosedPositionIsReleased
