---------------------------- MODULE MCDemoAutoSession ----------------------------
(* Two processes sharing a session store, two orders. *)
EXTENDS DemoAutoSession, TLC

CONSTANTS u1, u2, o1, o2

(* Processes and orders are interchangeable. *)
SessionSymmetry == Permutations(Users) \cup Permutations(Orders)
=============================================================================
