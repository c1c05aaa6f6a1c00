SPECIFICATION JournalSpec
CONSTANTS
    i1 = i1
    i2 = i2
    t1 = t1
    d1 = d1
    d2 = d2
    p1 = p1
    p2 = p2
    Intents = {i1, i2, t1}
    Tombstones = {t1}
    DemoAuto = {i1}
    Decisions = {d1, d2}
    DecisionOf <- MCDecisionOf
    Procs = {p1}
    MaxDaily = 1
    Lot = 1
    MaxDay = 2
    MaxToken = 1
    MaxLatch = 2
INVARIANTS
    NotSentIsTrue
    SettlementProofsAreTrue
    SentIsReleasedOnEvidence
    SingleExposure
    DailyLimit
