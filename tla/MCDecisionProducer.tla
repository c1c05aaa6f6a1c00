------------------------- MODULE MCDecisionProducer -------------------------
(* Instances of DecisionProducer for TLC. *)
EXTENDS DecisionProducer, TLC

CONSTANTS s1, s2, v1, v2

OneLane == <<"EURUSD">>
TwoLanes == <<"EURUSD", "XAUUSD">>

(* An early quote, whose lag is exceeded while the entry window is open, and a late one,
   which still passes when its envelope would outlive the window. *)
Quotes == v1 :> 1 @@ v2 :> 2

(* Data that differ in something else. *)
SameQuotes == v1 :> 1 @@ v2 :> 1

ProducerSymmetry == Permutations({s1, s2}) \cup Permutations({v1, v2})
=============================================================================
