SPECIFICATION SupervisorSpec
CONSTANTS
    p1 = p1
    p2 = p2
    Supervisors <- TwoSupervisors
    Mode = "DEMO"
    LeaseTerm = 1
    MaxTime = 2
    MaxStarts = 2
    MaxCycles = 2
    MaxFaults = 1
SYMMETRY Symmetry
INVARIANTS
    ReceiptsFenced
    AnchoredBeforeDispatch
    FactsCompleteUndisturbed
PROPERTY
    ImplementsAnchoredChain
CHECK_DEADLOCK FALSE
