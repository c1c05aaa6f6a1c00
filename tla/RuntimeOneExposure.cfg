SPECIFICATION RuntimeSpec
CONSTANTS
    i1 = i1
    i2 = i2
    d1 = d1
    d2 = d2
    p1 = p1
    p2 = p2
    Intents = {i1, i2}
    Tombstones = {}
    DemoAuto = {}
    Decisions = {d1, d2}
    DecisionOf <- MCDecisionOf
    Procs = {p1}
    MaxDaily = 5
    Lot = 1
    MaxDay = 1
    MaxToken = 2
    MaxLatch = 1
    FenceDomain <- MCFenceDomain
    MaxCrash = 1
SYMMETRY IntentSymmetry
INVARIANTS
    OneBrokerExposure
