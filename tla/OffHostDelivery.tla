-------------------------- MODULE OffHostDelivery --------------------------
(* Heartbeats of the Windows service and their off-host delivery: _heartbeat of
   WindowsGatedServiceRunner, OffHostDeliverySupervisor.deliver_pending, the
   SQLite DeliveryOutbox and the DirectoryDropTransport.

   Processes of one service share the outbox and the drop directory: a restarted
   service beside one that has not died yet, under a run id of its own or under
   the same one. Each outbox call is one transaction; between two of them another
   process may run, and a process may crash anywhere, in the middle of a write to
   the drop included. A heartbeat reads the clock once, at its beginning. *)
EXTENDS Integers, Sequences

CONSTANTS
    Hosts,      \* service processes
    Runs,       \* service run ids
    AckFuture,  \* MAX_ACK_FUTURE_SECONDS
    MaxNow,     \* bound on the clock
    MaxRows     \* bound on the envelopes

ASSUME DeliveryAssumption == AckFuture \in Nat /\ MaxNow \in Nat /\ MaxRows \in Nat

VARIABLES
    now,
    outbox,  \* delivery_outbox by rowid: envelope (idempotency key and time), state, last_attempt_at, acknowledgement
    drop,    \* envelopes with a file in the drop: complete, or not (yet)
    acked,   \* the receiver's acknowledgements, with its clock
    beat     \* each process's heartbeat

deliveryVars == <<now, outbox, drop, acked, beat>>

NoAck == -1

(* A heartbeat: the time it read, whether it delivers for the second time, the rows
   it has yet to deliver and the one it is delivering. *)
Beat(pc, run, at, second, todo) ==
    [pc |-> pc, run |-> run, at |-> at, second |-> second, todo |-> todo,
     row |-> 0, failed |-> FALSE, seq |-> 0, ack |-> NoAck]
Off == Beat("off", "none", 0, FALSE, {})

BeatAt(p, label) == beat[p].pc = label
Goes(p, label) == beat' = [beat EXCEPT ![p].pc = label]

(* _heartbeat raises or returns its status, or the process dies in it. The next
   heartbeat is sent by this process or by one that took its place. *)
Over(p) == beat' = [beat EXCEPT ![p] = Off]

(* Envelopes are named by their idempotency key, which is unique in the outbox. *)
Envelope(p) == outbox[beat[p].row].env
Pending == {n \in DOMAIN outbox : outbox[n].state = "PENDING"}

(* verify_records: an acknowledgement is no older than its envelope and at most
   AckFuture ahead of the attempt that recorded it. *)
Verifies(row) ==
    row.state = "PENDING" \/ (row.env.at <= row.ack /\ row.ack <= row.last + AckFuture)

-----------------------------------------------------------------------------
(* deliver_pending begins: the records are verified, the pending ones listed. *)
ListPending(p, run, at, second) ==
    /\ IF \A n \in DOMAIN outbox : Verifies(outbox[n])
       THEN beat' = [beat EXCEPT ![p] = Beat("deliver", run, at, second, Pending)]
       ELSE Over(p)
    /\ UNCHANGED <<now, outbox, drop, acked>>

(* A heartbeat of a run reads the clock, and delivers what is pending first. *)
Heartbeat(p, run) == BeatAt(p, "off") /\ ListPending(p, run, now, FALSE)

(* After its own envelope is in the outbox, it delivers again. *)
DeliverAgain(p) == BeatAt(p, "again") /\ ListPending(p, beat[p].run, beat[p].at, TRUE)

(* The next envelope in the order of the rows. *)
Takes(p, n, label) ==
    beat' = [beat EXCEPT ![p].pc = label, ![p].row = n, ![p].todo = beat[p].todo \ {n}]

(* _write_exclusive creates the file, finds it complete, or refuses what it finds. *)
CreateDrop(p) ==
    /\ BeatAt(p, "deliver")
    /\ \E n \in beat[p].todo :
        /\ \A m \in beat[p].todo : n <= m
        /\ LET e == outbox[n].env
           IN  \/ /\ \A d \in drop : d.env # e
                  /\ drop' = drop \cup {[env |-> e, whole |-> FALSE]}
                  /\ Takes(p, n, "write")
               \/ [env |-> e, whole |-> TRUE] \in drop /\ Takes(p, n, "ack") /\ UNCHANGED drop
               \/ [env |-> e, whole |-> FALSE] \in drop /\ Takes(p, n, "fail") /\ UNCHANGED drop
    /\ UNCHANGED <<now, outbox, acked>>

(* The file is written and synced, or removed. *)
WriteDrop(p) ==
    /\ BeatAt(p, "write")
    /\ LET rest == drop \ {[env |-> Envelope(p), whole |-> FALSE]}
       IN  \/ drop' = rest \cup {[env |-> Envelope(p), whole |-> TRUE]} /\ Goes(p, "ack")
           \/ drop' = rest /\ Goes(p, "fail")
    /\ UNCHANGED <<now, outbox, acked>>

(* The acknowledgement is read and validated against the time of the heartbeat. *)
ReadAck(p) ==
    /\ BeatAt(p, "ack")
    /\ \/ \E a \in acked :
            /\ a.env = Envelope(p) /\ a.env.at <= a.at /\ a.at <= beat[p].at + AckFuture
            /\ beat' = [beat EXCEPT ![p].pc = "store", ![p].ack = a.at]
       \/ /\ \A a \in acked :
                a.env = Envelope(p) => ~(a.env.at <= a.at /\ a.at <= beat[p].at + AckFuture)
          /\ Goes(p, "fail")
    /\ UNCHANGED <<now, outbox, drop, acked>>

(* _acknowledge_verified: another process may have stored it already. *)
StoreAck(p) ==
    /\ BeatAt(p, "store")
    /\ LET n == beat[p].row
       IN  outbox' = IF outbox[n].state = "ACKNOWLEDGED" THEN outbox
                     ELSE [outbox EXCEPT ![n] = [@ EXCEPT !.state = "ACKNOWLEDGED",
                                                          !.last = beat[p].at, !.ack = beat[p].ack]]
    /\ beat' = [beat EXCEPT ![p].pc = "deliver", ![p].row = 0, ![p].ack = NoAck]
    /\ UNCHANGED <<now, drop, acked>>

(* Mutant: a failed attempt is recorded whatever the state of the row. *)
RecordAttemptLate(p) ==
    /\ BeatAt(p, "fail")
    /\ outbox' = [outbox EXCEPT ![beat[p].row].last = beat[p].at]
    /\ beat' = [beat EXCEPT ![p].pc = "deliver", ![p].row = 0, ![p].failed = TRUE]
    /\ UNCHANGED <<now, drop, acked>>

(* record_failure, which raises when the row is not pending any more. *)
RecordAttempt(p) ==
    /\ BeatAt(p, "fail")
    /\ LET n == beat[p].row
       IN  IF outbox[n].state = "PENDING"
           THEN /\ outbox' = [outbox EXCEPT ![n].last = beat[p].at]
                /\ beat' = [beat EXCEPT ![p].pc = "deliver", ![p].row = 0, ![p].failed = TRUE]
           ELSE Over(p) /\ UNCHANGED outbox
    /\ UNCHANGED <<now, drop, acked>>

(* The report of deliver_pending: the heartbeat goes on to its own envelope, ends,
   or raises. *)
Report(p) ==
    /\ BeatAt(p, "deliver") /\ beat[p].todo = {}
    /\ IF beat[p].second \/ beat[p].failed \/ Pending # {} THEN Over(p) ELSE Goes(p, "head")
    /\ UNCHANGED <<now, outbox, drop, acked>>

Mine(p) == {n \in DOMAIN outbox : outbox[n].env.run = beat[p].run}

(* The run's statuses, sorted by sequence, are numbered 1 to k. *)
Chained(p, k) ==
    /\ {outbox[n].env.seq : n \in Mine(p)} = 1..k
    /\ \A m, n \in Mine(p) : outbox[m].env.seq = outbox[n].env.seq => m = n

(* Mutant: the head counts the run's statuses without looking at their state. *)
HeadUnchecked(p) ==
    /\ BeatAt(p, "head") /\ Len(outbox) < MaxRows
    /\ \E k \in 0..Len(outbox) :
        Chained(p, k) /\ beat' = [beat EXCEPT ![p].pc = "enqueue", ![p].seq = k + 1]
    /\ UNCHANGED <<now, outbox, drop, acked>>

(* _durable_heartbeat_head: the records verify and the run's statuses are one
   acknowledged chain. *)
DurableHead(p) ==
    /\ BeatAt(p, "head") /\ Len(outbox) < MaxRows
    /\ \/ /\ \A n \in DOMAIN outbox : Verifies(outbox[n])
          /\ \A n \in Mine(p) : outbox[n].state = "ACKNOWLEDGED"
          /\ \E k \in 0..Len(outbox) :
                Chained(p, k) /\ beat' = [beat EXCEPT ![p].pc = "enqueue", ![p].seq = k + 1]
       \/ /\ \/ \E n \in DOMAIN outbox : ~Verifies(outbox[n])
             \/ \E n \in Mine(p) : outbox[n].state # "ACKNOWLEDGED"
             \/ \A k \in 0..Len(outbox) : ~Chained(p, k)
          /\ Over(p)
    /\ UNCHANGED <<now, outbox, drop, acked>>

(* enqueue: the idempotency key (run, sequence) names one envelope. *)
Enqueue(p) ==
    /\ BeatAt(p, "enqueue")
    /\ LET e == [run |-> beat[p].run, seq |-> beat[p].seq, at |-> beat[p].at]
           old == {n \in DOMAIN outbox : outbox[n].env.run = e.run /\ outbox[n].env.seq = e.seq}
       IN  \/ /\ old = {}
              /\ outbox' = Append(outbox, [env |-> e, state |-> "PENDING", last |-> NoAck, ack |-> NoAck])
              /\ Goes(p, "again")
           \/ (\E n \in old : outbox[n].env = e) /\ Goes(p, "again") /\ UNCHANGED outbox
           \/ (\E n \in old : outbox[n].env # e) /\ Over(p) /\ UNCHANGED outbox
    /\ UNCHANGED <<now, drop, acked>>

Crashes(p) ==
    /\ ~BeatAt(p, "off")
    /\ beat' = [beat EXCEPT ![p] = Off]
    /\ UNCHANGED <<now, outbox, drop, acked>>

(* External: the receiver acknowledges a complete drop once, by its own clock,
   which may be behind. *)
Acknowledge(e) ==
    /\ [env |-> e, whole |-> TRUE] \in drop
    /\ \A a \in acked : a.env # e
    /\ \E t \in {now - 1, now} \cap Nat : acked' = acked \cup {[env |-> e, at |-> t]}
    /\ UNCHANGED <<now, outbox, drop, beat>>

ClockTick == now < MaxNow /\ now' = now + 1 /\ UNCHANGED <<outbox, drop, acked, beat>>

DeliveryInit ==
    /\ now = 0 /\ outbox = <<>> /\ drop = {} /\ acked = {}
    /\ beat = [p \in Hosts |-> Off]

HostStep(p) ==
    \/ DeliverAgain(p) \/ CreateDrop(p) \/ WriteDrop(p) \/ ReadAck(p) \/ StoreAck(p) \/ RecordAttempt(p)
    \/ Report(p) \/ DurableHead(p) \/ Enqueue(p) \/ Crashes(p)
    \/ \E r \in Runs : Heartbeat(p, r)

DeliveryNext ==
    \/ \E p \in Hosts : HostStep(p)
    \/ \E d \in drop : Acknowledge(d.env)
    \/ ClockTick

DeliverySpec == DeliveryInit /\ [][DeliveryNext]_deliveryVars

-----------------------------------------------------------------------------
(* The outbox always passes its own verification, which every later heartbeat
   needs: no interleaving of two deliveries leaves an acknowledgement ahead of the
   attempt recorded beside it (record_failure touches pending rows only). *)
OutboxVerifies == \A n \in DOMAIN outbox : Verifies(outbox[n])

(* Within a run, a status is enqueued only when every earlier one has been
   acknowledged off the host, even by two processes that share the run id
   (_durable_heartbeat_head and the unique idempotency key). *)
SuccessorAfterAck ==
    \A m, n \in DOMAIN outbox :
        m < n /\ outbox[m].env.run = outbox[n].env.run =>
            outbox[m].state = "ACKNOWLEDGED" /\ outbox[m].env.seq < outbox[n].env.seq
=============================================================================
