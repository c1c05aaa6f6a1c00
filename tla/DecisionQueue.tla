--------------------------- MODULE DecisionQueue ---------------------------
(* The signed decision queue of live_runtime/decision_ipc.py and the consumer
   of live_runtime/demo_auto_ipc_consumer.py.

   Producers publish decision snapshots and consumers take the next one, from
   processes that share one SQLite file and one external checkpoint register.
   Every operation verifies the store, requires the register to hold the local
   head, commits one row, exports the new head by compare-and-swap, reads it
   back and verifies again. A checkpoint is the pair of counts it commits to:
   both tables only grow, so the counts name one history. *)
EXTENDS Naturals, Sequences

CONSTANTS
    Producers,      \* processes that hold a DecisionIPCProducer
    Consumers,      \* processes that hold a DecisionIPCConsumerPort
    Decisions,      \* snapshots, by content hash
    Waits,          \* the decisions whose side is WAIT
    TTL,            \* MAX_ENVELOPE_TTL
    MaxTime,        \* bound on the clock
    MaxCrashes      \* bound on process deaths

ASSUME QueueAssumption ==
    /\ Producers \cap Consumers = {}
    /\ Waits \subseteq Decisions
    /\ TTL \in Nat
    /\ MaxTime \in Nat
    /\ MaxCrashes \in Nat

VARIABLES
    clock,      \* the trusted UTC clock
    log,        \* decision_ipc_envelopes: [decision, issued]
    disp,       \* decision_ipc_consumptions: the dispositions
    flag,       \* decision_ipc_state.critical_latched
    latch,      \* whether decision_ipc_critical_latch has its row
    external,   \* the checkpoint the register holds
    late,       \* requests the register may still accept after a timeout
    arm,        \* whether the environment arm token is set
    call,       \* the call each process is in, with its local variables
    emitted,    \* inputs handed to the risk pipeline: [seq, at]
    crashes

durable == <<log, disp, flag, latch>>
register == <<external, late>>
vars == <<clock, durable, register, arm, call, emitted, crashes>>

Procs == Producers \cup Consumers

Genesis == [pub |-> 0, con |-> 0]

(* The checkpoint the state row stores after the last commit. *)
LocalHead == [pub |-> Len(log), con |-> Len(disp)]

Expires(n) == log[n].issued + TTL

(* Mutant: only the state column is consulted. *)
VerifyColumnOnly(f) == ~f

(* The latch part of _verify_all, on the state row's column f: row and column
   must agree, and a set latch refuses. The chains and signatures it also
   verifies hold of every store these operations write. *)
VerifyLatch(f) == /\ latch <=> f
                  /\ ~f

(* Mutant: a call starts without comparing the register. *)
AdmitsUnanchored == VerifyLatch(flag)

(* _verify_all and _verify_external_checkpoint at the start of a call. Their reads
   are taken as one: a latch that is set between them does not stop a call whose
   latch check has passed, here it does. *)
Admits == VerifyLatch(flag) /\ external = LocalHead

(* The checkpoint the committed call p exports. *)
Successor(p) ==
    IF p \in Producers THEN [call[p].prev EXCEPT !.pub = @ + 1]
                       ELSE [call[p].prev EXCEPT !.con = @ + 1]

(* The position a consumer's call took. *)
Taken(p) == call[p].prev.con + 1

(* A call's locals: the decision to publish, the time it works with, the expiry
   of the consumer's permit, the checkpoint it verified, and the state row its
   closing verification has read. *)
Locals(label, item, at, until, prev) ==
    [pc |-> label, item |-> item, at |-> at, until |-> until,
     prev |-> prev, seen |-> Genesis, seenFlag |-> FALSE]
Idle == Locals("idle", "none", 0, 0, Genesis)

At(p, label) == call[p].pc = label
GoTo(p, label) == call' = [call EXCEPT ![p].pc = label]
Return(p) == call' = [call EXCEPT ![p] = Idle]

----------------------------------------------------------------------------
(* publish: verify, then issue the envelope for the verified checkpoint. The
   service samples the time of its cycle before it calls. *)
PublishStart(p, d, t) ==
    /\ At(p, "idle")
    /\ Admits
    /\ call' = [call EXCEPT ![p] = Locals("publish", d, t, 0, LocalHead)]
    /\ UNCHANGED <<clock, durable, register, arm, emitted, crashes>>

(* Mutant: the decision may already be in the table. *)
PublishAgain(p) == LocalHead # call[p].prev

PublishRefused(p) == LocalHead # call[p].prev \/ \E n \in DOMAIN log : log[n].decision = call[p].item

(* The transaction of publish. _write_state clears the latch column. *)
PublishCommit(p) ==
    /\ At(p, "publish")
    /\ \/ /\ PublishRefused(p)
          /\ Return(p)
          /\ UNCHANGED durable
       \/ /\ ~PublishRefused(p)
          /\ GoTo(p, "export")
          /\ log' = Append(log, [decision |-> call[p].item, issued |-> call[p].at])
          /\ flag' = FALSE
          /\ UNCHANGED <<disp, latch>>
    /\ UNCHANGED <<clock, register, arm, emitted, crashes>>

(* consume_for_risk_intent_pipeline up to the queue: the clock, the permit and
   the environment arm. *)
ConsumerEnter(p, u) ==
    /\ At(p, "idle")
    /\ arm
    /\ clock < u
    /\ call' = [call EXCEPT ![p] = Locals("entered", "none", clock, u, Genesis)]
    /\ UNCHANGED <<clock, durable, register, arm, emitted, crashes>>

(* Mutant: an expired envelope is refused instead of discarded. *)
NextIsFresh(p) ==
    /\ Len(disp) < Len(log)
    /\ log[Len(disp) + 1].issued <= call[p].at
    /\ call[p].at < Expires(Len(disp) + 1)

(* There is a next envelope and the call's time is not before its issue. *)
NextIsReadable(p) == Len(disp) < Len(log) /\ log[Len(disp) + 1].issued <= call[p].at

(* consume_next up to its transaction; every refusal leaves the store alone. *)
ConsumeStart(p) ==
    /\ At(p, "entered")
    /\ \/ /\ Admits /\ NextIsReadable(p)
          /\ call' = [call EXCEPT ![p] =
                          Locals("consume", "none", call[p].at, call[p].until, LocalHead)]
       \/ /\ ~(Admits /\ NextIsReadable(p))
          /\ Return(p)
    /\ UNCHANGED <<clock, durable, register, arm, emitted, crashes>>

(* The disposition is decided with the time the call brought along. *)
Disposition(p) == IF call[p].at >= Expires(Taken(p)) THEN "EXPIRED_DISCARDED" ELSE "CONSUMED"

ConsumeRefused(p) == LocalHead # call[p].prev

ConsumeCommit(p) ==
    /\ At(p, "consume")
    /\ \/ /\ ConsumeRefused(p)
          /\ Return(p)
          /\ UNCHANGED durable
       \/ /\ ~ConsumeRefused(p)
          /\ GoTo(p, "export")
          /\ disp' = Append(disp, Disposition(p))
          /\ flag' = FALSE
          /\ UNCHANGED <<log, latch>>
    /\ UNCHANGED <<clock, register, arm, emitted, crashes>>

----------------------------------------------------------------------------
(* The register's compare-and-swap for the request of p. *)
Accepts(p) == external = call[p].prev

(* The exporter returns a verified acknowledgement. *)
ExportAcknowledged(p) ==
    /\ At(p, "export")
    /\ Accepts(p)
    /\ external' = Successor(p)
    /\ GoTo(p, "readback")
    /\ UNCHANGED <<clock, durable, late, arm, emitted, crashes>>

(* The exporter raises: the register refused, it accepted and the answer was
   lost, or it has not answered yet and may still accept. *)
ExportFails(p) ==
    /\ At(p, "export")
    /\ \/ ~Accepts(p) /\ UNCHANGED register
       \/ Accepts(p) /\ external' = Successor(p) /\ UNCHANGED late
       \/ /\ late' = late \cup {[from |-> call[p].prev, to |-> Successor(p)]}
          /\ UNCHANGED external
    /\ GoTo(p, "latch")
    /\ UNCHANGED <<clock, durable, arm, emitted, crashes>>

(* The register takes up a request whose client has given up, or drops it. *)
AcceptLate(r) ==
    /\ late' = late \ {r}
    /\ external' \in {external} \cup (IF external = r.from THEN {r.to} ELSE {})
    /\ UNCHANGED <<clock, durable, arm, call, emitted, crashes>>

(* _export_checkpoint reads the register once more. *)
Readback(p) ==
    /\ At(p, "readback")
    /\ GoTo(p, IF external = Successor(p) THEN "final" ELSE "latch")
    /\ UNCHANGED <<clock, durable, register, arm, emitted, crashes>>

(* _latch_critical: the row is written once, together with the column. *)
LatchCritical(p) ==
    /\ At(p, "latch")
    /\ latch' = TRUE
    /\ flag' = (~latch \/ flag)
    /\ Return(p)
    /\ UNCHANGED <<clock, log, disp, register, arm, emitted, crashes>>

(* The closing _verify_all reads the state row and then the tables, in
   separate statements; a commit in between makes it raise. *)
FinalReadState(p) ==
    /\ At(p, "final")
    /\ call' = [call EXCEPT ![p] = [pc |-> "verify", item |-> @.item, at |-> @.at,
                    until |-> @.until, prev |-> @.prev,
                    seen |-> LocalHead, seenFlag |-> flag]]
    /\ UNCHANGED <<clock, durable, register, arm, emitted, crashes>>

FinalVerify(p) ==
    /\ At(p, "verify")
    /\ IF /\ p \in Consumers
          /\ call[p].seen = LocalHead
          /\ VerifyLatch(call[p].seenFlag)
       THEN GoTo(p, "return")
       ELSE Return(p)
    /\ UNCHANGED <<clock, durable, register, arm, emitted, crashes>>

(* Mutant: the freshness at the start of the call is good enough. *)
HandsOnUnchecked(p) ==
    /\ arm
    /\ disp[Taken(p)] = "CONSUMED"
    /\ log[Taken(p)].decision \notin Waits

(* The consumer samples clock and arm again. A WAIT, a discarded envelope, a
   control that ran out meanwhile: the envelope stays consumed and nothing is
   handed on. *)
HandsOn(p) ==
    /\ arm
    /\ disp[Taken(p)] = "CONSUMED"
    /\ clock < Expires(Taken(p))
    /\ clock < call[p].until
    /\ log[Taken(p)].decision \notin Waits

ConsumerReturn(p) ==
    /\ At(p, "return")
    /\ Return(p)
    /\ emitted' = IF HandsOn(p) THEN Append(emitted, [seq |-> Taken(p), at |-> clock])
                                ELSE emitted
    /\ UNCHANGED <<clock, durable, register, arm, crashes>>

----------------------------------------------------------------------------
(* A process dies anywhere in a call; a restarted one opens the queue with the
   same two verifications that start every call. *)
Crash(p) ==
    /\ ~At(p, "idle")
    /\ crashes < MaxCrashes
    /\ crashes' = crashes + 1
    /\ Return(p)
    /\ UNCHANGED <<clock, durable, register, arm, emitted>>

Tick ==
    /\ clock < MaxTime
    /\ clock' = clock + 1
    /\ UNCHANGED <<durable, register, arm, call, emitted, crashes>>

SwitchArm ==
    /\ arm' = ~arm
    /\ UNCHANGED <<clock, durable, register, call, emitted, crashes>>

(* A provisioned queue: the register holds the genesis checkpoint. *)
QueueInit ==
    /\ clock = 0
    /\ log = <<>> /\ disp = <<>>
    /\ flag = FALSE /\ latch = FALSE
    /\ external = Genesis
    /\ late = {}
    /\ arm = TRUE
    /\ call = [p \in Procs |-> Idle]
    /\ emitted = <<>>
    /\ crashes = 0

ProducerStep(p) ==
    \/ \E d \in Decisions, t \in 0 .. clock : PublishStart(p, d, t)
    \/ PublishCommit(p)

ConsumerStep(p) ==
    \/ \E u \in 0 .. MaxTime + 1 : ConsumerEnter(p, u)
    \/ ConsumeStart(p)
    \/ ConsumeCommit(p)
    \/ ConsumerReturn(p)

SharedStep(p) ==
    \/ ExportAcknowledged(p)
    \/ ExportFails(p)
    \/ Readback(p)
    \/ LatchCritical(p)
    \/ FinalReadState(p)
    \/ FinalVerify(p)

QueueNext ==
    \/ \E p \in Producers : ProducerStep(p)
    \/ \E p \in Consumers : ConsumerStep(p)
    \/ \E p \in Procs : SharedStep(p) \/ Crash(p)
    \/ \E r \in late : AcceptLate(r)
    \/ Tick
    \/ SwitchArm

QueueSpec == QueueInit /\ [][QueueNext]_vars

(* An assumption on the caller of consume_for_risk_intent_pipeline, which the
   repository leaves to the runtime to be deployed: it calls the consumer again
   and again. Besides, a started call runs on, and an export ends with an answer
   or its timeout. *)
QueueFairness ==
    /\ \A p \in Consumers : WF_vars(ConsumerStep(p))
    /\ \A p \in Producers : WF_vars(PublishCommit(p))
    /\ \A p \in Procs : WF_vars(SharedStep(p))

FairQueueSpec == QueueSpec /\ QueueFairness

----------------------------------------------------------------------------
Checkpoints == [pub : Nat, con : Nat]
Labels == {"idle", "publish", "entered", "consume", "export", "readback",
           "latch", "final", "verify", "return"}
Dispositions == {"CONSUMED", "EXPIRED_DISCARDED"}
CallRecords ==
    [pc : Labels, item : Decisions \cup {"none"}, at : Nat, until : Nat,
     prev : Checkpoints, seen : Checkpoints, seenFlag : BOOLEAN]

(* Type invariant. *)
QueueTypeOK ==
    /\ clock \in Nat
    /\ log \in Seq([decision : Decisions, issued : Nat])
    /\ disp \in Seq(Dispositions)
    /\ flag \in BOOLEAN /\ latch \in BOOLEAN /\ arm \in BOOLEAN
    /\ external \in Checkpoints
    /\ late \subseteq [from : Checkpoints, to : Checkpoints]
    /\ call \in [Procs -> CallRecords]
    /\ emitted \in Seq([seq : Nat, at : Nat])
    /\ crashes \in Nat

(* The register holds the local head or the checkpoint right before it: however
   publishers, consumers, crashes and lost answers interleave, at most one
   committed row is not anchored (the check that opens publish and consume_next
   and the compare-and-swap inside their transactions). *)
AnchorWithinOne ==
    \/ external = LocalHead
    \/ external.pub + 1 = LocalHead.pub /\ external.con = LocalHead.con
    \/ external.pub = LocalHead.pub /\ external.con + 1 = LocalHead.con

(* A decision reaches the risk pipeline only inside its one-second window at the
   moment it is handed on, whatever delayed the call after the queue judged it
   fresh (consume_for_risk_intent_pipeline samples the clock again). *)
EmittedFresh ==
    \A n \in DOMAIN emitted : emitted[n].at < Expires(emitted[n].seq)

(* Once the critical latch has its row, no later call, one that has yet to make its
   opening verification, gets past it. A concurrent commit may clear the state column again
   (_write_state writes critical_latched=0); the row must be enough. *)
LatchStopsTheQueue ==
    [][latch => \A p \in Procs :
         call'[p].pc \in {"publish", "consume"} => call'[p].pc = call[p].pc]_vars

(* The projection of the store on what the queue promises. *)
Promise == INSTANCE AtMostOnceQueue WITH
    queue <- [n \in DOMAIN log |-> log[n].decision],
    outcome <- disp,
    used <- [n \in DOMAIN emitted |-> emitted[n].seq]

(* The store with its races, crashes and lost answers implements the
   at-most-once queue: no decision enters twice, every position is settled once
   and in order, and none leaves twice or after it was discarded. *)
ImplementsAtMostOnce == Promise!AbstractSpec

(* The queue has stopped for good: latched, or a committed row that nobody is
   going to export any more. *)
Stopped ==
    \/ latch
    \/ external # LocalHead /\ \A p \in Procs : ~At(p, "export") /\ ~At(p, "latch")

(* Every published envelope is consumed or discarded in the end, unless the
   queue stopped or the operator disarmed the consumer (an expired head is
   drained, so it does not block the ones behind it). *)
QueueDrains ==
    \A n \in 1 .. 2 : Len(log) >= n ~> (Len(disp) >= n \/ Stopped \/ ~arm)
=============================================================================
