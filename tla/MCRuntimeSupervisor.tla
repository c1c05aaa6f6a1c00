------------------------- MODULE MCRuntimeSupervisor -------------------------
EXTENDS RuntimeSupervisor, TLC

CONSTANTS p1, p2

OneSupervisor == {p1}
TwoSupervisors == {p1, p2}
Symmetry == Permutations(TwoSupervisors)

=============================================================================
