-------------------------- MODULE MCExecutionJournal --------------------------
(* Small instances of the journal under arbitrary callers. *)
EXTENDS ExecutionJournal, TLC

CONSTANTS i1, i2, t1, d1, d2, p1, p2

(* i1 and its tombstone t1 carry the same decision. *)
MCDecisionOf == [i \in Intents |-> IF i = i2 THEN d2 ELSE d1]
=============================================================================
