SPECIFICATION SupervisorSpec
CONSTANTS
    p1 = p1
    p2 = p2
    Supervisors <- OneSupervisor
    Mode = "DEMO"
    LeaseTerm = 1
    MaxTime = 2
    MaxStarts = 2
    MaxCycles = 3
    MaxFaults = 1
INVARIANT
    FactsSurviveRestart
CHECK_DEADLOCK FALSE
