SPECIFICATION SessionSpec
CONSTANTS
    u1 = u1
    u2 = u2
    o1 = o1
    o2 = o2
    Users = {u1, u2}
    Orders = {o1, o2}
    MaxChain = 3
    MaxSup = 2
SYMMETRY SessionSymmetry
INVARIANTS
    RenewalCannotRaceDispatch
