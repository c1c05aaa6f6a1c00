SPECIFICATION RuntimeSpec
CONSTANTS
    i1 = i1
    i2 = i2
    d1 = d1
    d2 = d2
    p1 = p1
    p2 = p2
    Intents = {i1}
    Tombstones = {}
    DemoAuto = {i1}
    Decisions = {d1, d2}
    DecisionOf <- MCOneDecision
    Procs = {p1, p2}
    MaxDaily = 5
    Lot = 1
    MaxDay = 1
    MaxToken = 2
    MaxLatch = 1
    FenceDomain <- MCFenceDomain
    MaxCrash = 0
SYMMETRY ProcSymmetry
INVARIANTS
    OneSendPerIntent
    ReservationIsTrue
