SPECIFICATION StoresSpec
CONSTANTS
    p1 = p1
    p2 = p2
    o1 = o1
    o2 = o2
    n1 = n1
    n2 = n2
    e1 = e1
    a1 = a1
    a2 = a2
    a3 = a3
    Users = {p1, p2}
    Orders = {o1, o2}
    MaxChain = 3
    MaxSup = 2
    Days = {"d1", "d2"}
    Weeks = {"k1"}
    Intents = {o1, o2}
    Trades = {p1, p2}
    Snapshots = {n1, n2}
    Equities = {1, 2}
    MaxAt = 1
    MaxEvents = 5
    MaxKept = 2
    MaxRestores = 1
    Watchers = {p1, p2}
    Owners = {o1, o2}
    Exposures = {e1}
    LeaseTerm = 1
    Lookback = 1
    MaxClock = 3
    MaxLeases = 2
    MaxCycles = 2
    MaxResets = 1
    Starters = {p1, p2}
    Authorizations = {a1, a2, a3}
    NonceOf <- StageNonces
    MaxClaims = 3
    MaxRollbacks = 1
    Hosts = {p1, p2}
    Runs = {"run"}
    AckFuture = 1
    MaxNow = 2
    MaxRows = 2
SYMMETRY StoresSymmetry
CHECK_DEADLOCK FALSE
INVARIANTS
    ExternalTracksLedger
    ReservedUnderAnchoredLease
    StateIsDerived
    CyclesFenced
    UncertaintyIsLatched
    UnrecordedExitIsHeld
    OneStart
    StartsAreOneChain
    OutboxVerifies
    SuccessorAfterAck
PROPERTY
    CustodyOnlyExtends
