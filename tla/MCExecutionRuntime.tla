--------------------------- MODULE MCExecutionRuntime ---------------------------
(***************************************************************************)
(* Instances of ExecutionRuntime for TLC: one DEMO_AUTO intent under two    *)
(* processes that do not see each other's mutex, and two intents under one  *)
(* process that may crash and start again.                                  *)
(***************************************************************************)
EXTENDS ExecutionRuntime, TLC

CONSTANTS i1, i2, d1, d2, p1, p2

MCDecisionOf == (i1 :> d1) @@ (i2 :> d2)

MCOneDecision == i1 :> d1

(* Intents with distinct decisions are interchangeable. *)
IntentSymmetry == Permutations(Intents)

(* Processes are interchangeable. *)
ProcSymmetry == Permutations(Procs)

(* Every process in a mutex namespace of its own. *)
MCFenceDomain == [p \in Procs |-> p]
=============================================================================
