-------------------------- MODULE MCDecisionQueue --------------------------
(* Small instances of the decision queue. *)
EXTENDS DecisionQueue, TLC

CONSTANTS p1, c1, c2, d1, d2
=============================================================================
