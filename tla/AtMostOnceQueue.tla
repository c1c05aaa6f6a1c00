------------------------- MODULE AtMostOnceQueue -------------------------
(* What the signed decision queue promises its two ends, without processes,
   checkpoints or faults: a decision enters once, every position is settled
   once and in order, and a position leaves for the risk pipeline at most
   once, only when it was settled as CONSUMED. *)
EXTENDS Naturals, Sequences

CONSTANT Decisions

VARIABLES queue, outcome, used

abstractVars == <<queue, outcome, used>>

Entered == {queue[i] : i \in DOMAIN queue}
Left == {used[i] : i \in DOMAIN used}

Enqueue(d) ==
    /\ d \notin Entered
    /\ queue' = Append(queue, d)
    /\ UNCHANGED <<outcome, used>>

Settle(o) ==
    /\ Len(outcome) < Len(queue)
    /\ outcome' = Append(outcome, o)
    /\ UNCHANGED <<queue, used>>

Leave(n) ==
    /\ outcome[n] = "CONSUMED"
    /\ n \notin Left
    /\ used' = Append(used, n)
    /\ UNCHANGED <<queue, outcome>>

AbstractInit ==
    /\ queue = <<>>
    /\ outcome = <<>>
    /\ used = <<>>

AbstractNext ==
    \/ \E d \in Decisions : Enqueue(d)
    \/ \E o \in {"CONSUMED", "EXPIRED_DISCARDED"} : Settle(o)
    \/ \E n \in DOMAIN outcome : Leave(n)

AbstractSpec == AbstractInit /\ [][AbstractNext]_abstractVars
=============================================================================
