---------------------------- MODULE ExecutionRuntime ----------------------------
(***************************************************************************)
(* The processes around the execution journal: execution coordinators      *)
(* (live_runtime/executor.py), the broker behind the MT5 adapter           *)
(* (mt5_adapter.py), the reconciliation loop (runtime_service.py,          *)
(* reconciliation.py, reconciliation_supervisor.py), the DEMO_AUTO         *)
(* dispatch reservations of the session store and their recovery at        *)
(* start-up (demo_auto_session_capability.py, production_bootstrap.py).    *)
(*                                                                         *)
(* One call of execute_once is a sequence of steps, one per transaction or *)
(* broker call, and any other process may run between two of them.  Checks *)
(* whose data is not modelled (permits, health, spreads, expiry of proofs) *)
(* may fail at any time, so every early return of the code is possible     *)
(* here.  An exception that leaves execute_once ends the call; what it     *)
(* wrote before stays.                                                     *)
(***************************************************************************)
EXTENDS ExecutionJournal

CONSTANTS
    FenceDomain,   \* which OS mutex namespace each process sees
    MaxCrash       \* bound on crashes

VARIABLES
    ex,        \* per process: where execute_once is and what it holds
    mutex,     \* processes holding the account runtime fence
    resv,      \* dispatch reservation of each intent in the session store
    broker,    \* the broker's view of each intent's order
    sent,      \* intents for which order_send was called
    rc,        \* the reconciliation cycle
    crashes

rvars == <<ex, mutex, resv, broker, sent, rc, crashes>>
allvars == <<jvars, rvars>>

NoReturn == [t |-> "none", v |-> 0]
Idle(tok) == [pc |-> "idle", cur |-> "none", tok |-> tok, seen |-> "none",
              ret |-> NoReturn, proof |-> "none", todo |-> {}]
Down == [Idle(0) EXCEPT !.pc = "down"]

NoView == [i \in Intents |-> 0]
RcIdle == [pc |-> "idle", orders |-> {}, pos |-> NoView, deals |-> NoView,
           recs |-> <<>>, critical |-> FALSE]

RuntimeInit ==
    /\ JournalInit
    /\ ex = [p \in Procs |-> Down]
    /\ mutex = {}
    /\ resv = [i \in Intents |-> "none"]
    /\ broker = [i \in Intents |-> [st |-> "none", vol |-> 0, closed |-> 0]]
    /\ sent = {}
    /\ rc = RcIdle
    /\ crashes = 0

At(p, label) == ex[p].pc = label
Cur(p) == ex[p].cur

(* The call goes on at label, or returns. *)
Goto(p, label) == ex' = [ex EXCEPT ![p].pc = label]
Return(p) == ex' = [ex EXCEPT ![p] = Idle(ex[p].tok)]

(* Only the process's own control state changes besides the journal. *)
ExOnly == UNCHANGED <<mutex, resv, broker, sent, rc, crashes>>

LiveAtBroker(i) == broker[i].st \in {"sent", "working", "open"}
BrokerQuiet == \A i \in Intents : broker[i].st \notin {"working", "open"}

Unresolved(i) == resv[i] \in {"ACTIVE", "RECONCILIATION_REQUIRED"}

-----------------------------------------------------------------------------
(* Start-up: settle every unresolved reservation, then run.  Any exception  *)
(* stops the start-up.                                                      *)

Boot(p) ==
    /\ At(p, "down")
    /\ ex' = [ex EXCEPT ![p].pc = "recover", ![p].todo = {i \in Intents : Unresolved(i)}]
    /\ UNCHANGED jvars /\ ExOnly

RecoverMint(p) ==
    /\ At(p, "recover")
    /\ \E i \in ex[p].todo :
          IF CanSettle(i)
          THEN /\ DemoAutoDispatchSettlement(i)
               /\ ex' = [ex EXCEPT ![p].pc = "recover_apply", ![p].cur = i,
                                   ![p].proof = Settlement(i)]
          ELSE /\ UNCHANGED jvars
               /\ ex' = [ex EXCEPT ![p] = Down]
    /\ ExOnly

(* A terminal reservation accepts only the very proof it was settled with,  *)
(* and two proofs never carry the same issue time.                          *)
CanApply(i) == Unresolved(i)

RecoverApply(p) ==
    /\ At(p, "recover_apply")
    /\ \/ /\ CanApply(Cur(p))
          /\ resv' = [resv EXCEPT ![Cur(p)] = ex[p].proof]
          /\ ex' = [ex EXCEPT ![p].pc = "recover", ![p].todo = @ \ {Cur(p)},
                              ![p].cur = "none", ![p].proof = "none"]
       \/ ex' = [ex EXCEPT ![p] = Down] /\ UNCHANGED resv
    /\ UNCHANGED <<jvars, mutex, broker, sent, rc, crashes>>

Recovered(p) ==
    /\ At(p, "recover") /\ ex[p].todo = {}
    /\ ex' = [ex EXCEPT ![p] = Idle(0)]
    /\ UNCHANGED jvars /\ ExOnly

Claim(p) ==
    /\ At(p, "idle")
    /\ ClaimExecutor(p)
    /\ ex' = [ex EXCEPT ![p].tok = lease.token + 1]
    /\ ExOnly

-----------------------------------------------------------------------------
(* execute_once up to the reservation.                                      *)

(* The fence is asserted and the intent is looked up; an existing row ends  *)
(* the call.                                                                *)
Begin(p, i) ==
    /\ At(p, "idle") /\ HoldsFence(p, ex[p].tok)
    /\ i \notin Tombstones /\ state[i] = "ABSENT"
    /\ ex' = [ex EXCEPT ![p].pc = "create", ![p].cur = i]
    /\ UNCHANGED jvars /\ ExOnly

(* create_intent may return a row another process inserted since.  A row    *)
(* with the very same payload that is still CREATED lets this call go on.   *)
Create(p) ==
    /\ At(p, "create")
    /\ \/ /\ CanInsert(Cur(p))
          /\ CreateIntent(Cur(p))
          /\ ex' = [ex EXCEPT ![p].pc = "safety", ![p].seen = "CREATED"]
       \/ /\ state[Cur(p)] = "CREATED"
          /\ ex' = [ex EXCEPT ![p].pc = "safety", ![p].seen = "CREATED"]
          /\ UNCHANGED jvars
       \/ /\ ~CanInsert(Cur(p))
          /\ Return(p)
          /\ UNCHANGED jvars
    /\ ExOnly

(* Safety checks, then the account runtime fence, kept until close. *)
Safety(p) ==
    /\ At(p, "safety")
    /\ ~kill.latched
    /\ \A q \in mutex \ {p} : FenceDomain[q] # FenceDomain[p]
    /\ mutex' = mutex \cup {p}
    /\ Goto(p, "risk")
    /\ UNCHANGED <<jvars, resv, broker, sent, rc, crashes>>

(* _reject: one transition from the state the call last saw. *)
Reject(p) ==
    /\ At(p, "reject")
    /\ \/ Transition(Cur(p), ex[p].seen,
                     IF ex[p].seen = "CREATED" THEN "RISK_REJECTED" ELSE "REJECTED")
       \/ state[Cur(p)] # ex[p].seen /\ UNCHANGED jvars
    /\ Return(p)
    /\ ExOnly

(* Any of the checks whose data is abstracted fails before the reservation. *)
CheckFails(p) ==
    /\ ex[p].pc \in {"safety", "preflight", "guard", "authorize", "dispatch"}
    /\ Goto(p, "reject")
    /\ UNCHANGED jvars /\ ExOnly

(* A denied decision may be a loss stop, which latches the kill switch.  A  *)
(* decision that another process recorded first raises.                     *)
Risk(p) ==
    /\ At(p, "risk")
    /\ \/ RecordRiskDecision(Cur(p), p) /\ Goto(p, "approve")
       \/ RecordRiskDecision(Cur(p), "denied") /\ (Goto(p, "reject") \/ Goto(p, "loss_stop"))
       \/ evidence[Cur(p)].risk # "none" /\ Return(p) /\ UNCHANGED jvars
    /\ ExOnly

LossStop(p) ==
    /\ At(p, "loss_stop")
    /\ LatchKillSwitch
    /\ Goto(p, "reject")
    /\ ExOnly

(* A transition with an expected state; a mismatch raises. *)
Advance(p, from, to, label) ==
    /\ \/ /\ Transition(Cur(p), from, to)
          /\ ex' = [ex EXCEPT ![p].pc = label, ![p].seen = to]
       \/ /\ state[Cur(p)] # from
          /\ Return(p)
          /\ UNCHANGED jvars
    /\ ExOnly

Approve(p) == At(p, "approve") /\ Advance(p, "CREATED", "RISK_APPROVED", "preflight")

(* Only the process whose risk decision was recorded comes here, so no      *)
(* preflight is recorded yet.                                               *)
Preflight(p) ==
    /\ At(p, "preflight")
    /\ \/ RecordMt5Preflight(Cur(p), p) /\ Goto(p, "pass")
       \/ RecordMt5Preflight(Cur(p), "denied") /\ Goto(p, "reject")
    /\ ExOnly

Pass(p) == At(p, "pass") /\ Advance(p, "RISK_APPROVED", "PREFLIGHT_PASSED", "guard")

(* MT5Adapter.submission_guard refuses while anything is open. *)
SubmissionGuard(p) ==
    /\ At(p, "guard") /\ BrokerQuiet
    /\ Goto(p, "authorize")
    /\ UNCHANGED jvars /\ ExOnly

Authorize(p) ==
    /\ At(p, "authorize")
    /\ AuthorizeSubmissionEvidence(Cur(p), p)
    /\ Goto(p, IF Cur(p) \in DemoAuto THEN "dispatch" ELSE "reserve")
    /\ ExOnly

-----------------------------------------------------------------------------
(* The DEMO_AUTO dispatch reservation and the submission.                   *)

(* reserve_dispatch_verification: one row per intent, and no other row may  *)
(* be unresolved.                                                           *)
CanReserveDispatch(i) == resv[i] = "none" /\ \A j \in Intents : ~Unresolved(j)

Dispatch(p) ==
    /\ At(p, "dispatch")
    /\ CanReserveDispatch(Cur(p)) \/ resv[Cur(p)] = "ACTIVE"
    /\ resv' = [resv EXCEPT ![Cur(p)] = "ACTIVE"]
    /\ Goto(p, "reserve")
    /\ UNCHANGED <<jvars, mutex, broker, sent, rc, crashes>>

FenceLost(p) == ~HoldsFence(p, ex[p].tok) \/ ~lease.live

(* reserve_submission.  It also fails when the evidence capability expired, *)
(* whatever the journal holds; a DEMO_AUTO failure is settled, a lost fence *)
(* leaves any other intent PREFLIGHT_PASSED, every other failure rejects.   *)
Reserve(p) ==
    /\ At(p, "reserve")
    /\ \/ \E d \in StampDays : ReserveSubmission(Cur(p), p, ex[p].tok, d) /\ Goto(p, "mint")
       \/ UNCHANGED jvars /\ Goto(p, IF Cur(p) \in DemoAuto THEN "settle" ELSE "reject")
       \/ /\ FenceLost(p) /\ Cur(p) \notin DemoAuto
          /\ Return(p)
          /\ UNCHANGED jvars
    /\ ExOnly

(* Where a failure that is known to precede the send goes on. *)
HeldBeforeSend(p) == Goto(p, IF Cur(p) \in DemoAuto THEN "not_sent" ELSE "uncertain")

(* The gate capability and the authorization are minted and still valid.    *)
Mint(p) ==
    /\ At(p, "mint")
    /\ Goto(p, "final_guard") \/ HeldBeforeSend(p)
    /\ UNCHANGED jvars /\ ExOnly

(* final_submission_guard's first transaction, and the handler each of its  *)
(* exceptions reaches: a lost fence, a latched kill switch, and any other,  *)
(* which makes the intent UNCERTAIN.                                        *)
FinalGuard(p) ==
    LET i == Cur(p) IN
    /\ At(p, "final_guard")
    /\ \/ \E d \in StampDays : FinalSubmissionGuard(i, p, ex[p].tok, d) /\ Goto(p, "submit")
       \/ /\ FenceLost(p)
          /\ IF i \in DemoAuto THEN Goto(p, "not_sent") ELSE Return(p)
          /\ UNCHANGED jvars
       \/ /\ HoldsFence(p, ex[p].tok) /\ kill.latched
          /\ HeldBeforeSend(p)
          /\ UNCHANGED jvars
       \/ Goto(p, "uncertain") /\ UNCHANGED jvars
    /\ ExOnly

(* Inside the with-block: the DEMO_AUTO reservation is verified again and   *)
(* the adapter re-reads the account; then the lease is consumed.            *)
VerifySend(p) ==
    /\ At(p, "submit") /\ BrokerQuiet
    /\ Cur(p) \in DemoAuto => resv[Cur(p)] = "ACTIVE"
    /\ Goto(p, "adapter")
    /\ UNCHANGED jvars /\ ExOnly

Consume(p) ==
    /\ At(p, "adapter")
    /\ ConsumeLease(Cur(p))
    /\ Goto(p, "sending")
    /\ ExOnly

(* Anything raised before the lease is consumed leaves the with-block,      *)
(* which releases the lease.  When the release raises instead, the generic  *)
(* handler's transition raises too.  A lost fence leaves an intent that is  *)
(* not DEMO_AUTO in SUBMITTING; an unclassified exception makes any intent  *)
(* UNCERTAIN.                                                               *)
SubmitRefused(p) ==
    LET i == Cur(p) IN
    /\ ex[p].pc \in {"submit", "adapter"}
    /\ ReleaseUnusedLease(i)
    /\ IF ~UnusedLeaseProvable(i) THEN Return(p)
       ELSE \/ HeldBeforeSend(p)
            \/ Goto(p, "uncertain")
            \/ FenceLost(p) /\ i \notin DemoAuto /\ Return(p)
    /\ ExOnly

OrderSend(p) ==
    /\ At(p, "sending")
    /\ broker' = [broker EXCEPT ![Cur(p)].st = "sent"]
    /\ sent' = sent \cup {Cur(p)}
    /\ Goto(p, "waiting")
    /\ UNCHANGED <<jvars, mutex, resv, rc, crashes>>

(* The receipts order_send's result may be mapped to once the broker has    *)
(* acted: a DONE code with any filled volume is FILLED, without one it is   *)
(* ACKNOWLEDGED, and an unclassified code is UNCERTAIN.                     *)
ResultsOf(b) ==
    {[t |-> "UNCERTAIN", v |-> 0]} \cup
    CASE b.st = "rejected"               -> {[t |-> "REJECTED", v |-> 0]}
      [] b.st # "rejected" /\ b.vol = 0 -> {[t |-> "ACKNOWLEDGED", v |-> 0]}
      [] OTHER -> {[t |-> "FILLED", v |-> b.vol]}
                    \cup (IF b.vol < Lot THEN {[t |-> "PARTIAL", v |-> b.vol]} ELSE {})

(* Mutant: an order_send that raises is retried. *)
SendReturnsRetried(p) ==
    /\ At(p, "waiting")
    /\ Goto(p, "sending")
    /\ UNCHANGED jvars /\ ExOnly

(* order_send returns an answer, or raises. *)
SendReturns(p) ==
    LET b == broker[Cur(p)] IN
    /\ At(p, "waiting")
    /\ \/ /\ b.st # "sent"
          /\ \E r \in ResultsOf(b) :
                ex' = [ex EXCEPT ![p].pc = "record", ![p].ret = r]
       \/ Goto(p, "uncertain")
    /\ UNCHANGED jvars /\ ExOnly

(* Mutant: the answer is written over whatever state the intent is in. *)
RecordBlindly(p) ==
    /\ At(p, "record")
    /\ state' = [state EXCEPT ![Cur(p)] = ex[p].ret.t]
    /\ UNCHANGED <<filled, posTicket, evidence, reservedOn, sendVars, controlVars>>
    /\ Return(p)
    /\ ExOnly

(* record_execution_receipt raises when the intent left SUBMITTING or the   *)
(* receipt is too old; the broker's answer is then lost to the journal.     *)
Record(p) ==
    /\ At(p, "record")
    /\ \/ /\ RecordExecutionReceipt(Cur(p), ex[p].ret.t, ex[p].ret.v)
          /\ Goto(p, IF Cur(p) \in DemoAuto THEN "settle" ELSE "slippage")
       \/ UNCHANGED jvars /\ Return(p)
    /\ ExOnly

Slippage(p) ==
    /\ At(p, "slippage")
    /\ LatchKillSwitch \/ UNCHANGED jvars
    /\ Return(p)
    /\ ExOnly

(* The handlers' transition to UNCERTAIN, settled afterwards for DEMO_AUTO. *)
Uncertain(p) ==
    /\ At(p, "uncertain")
    /\ \/ /\ Transition(Cur(p), "SUBMITTING", "UNCERTAIN")
          /\ IF Cur(p) \in DemoAuto THEN Goto(p, "settle") ELSE Return(p)
       \/ state[Cur(p)] # "SUBMITTING" /\ UNCHANGED jvars /\ Return(p)
    /\ ExOnly

NotSent(p) ==
    /\ At(p, "not_sent")
    /\ \/ RecordSubmissionNotSent(Cur(p)) /\ Goto(p, "settle")
       \/ ~MayRecordNotSent(Cur(p)) /\ UNCHANGED jvars /\ Return(p)
    /\ ExOnly

(* After the settlement a recorded receipt's slippage is still checked. *)
AfterSettling(p) == IF ex[p].ret = NoReturn THEN Return(p) ELSE Goto(p, "slippage")

(* _settle_demo_auto_dispatch: mint a proof and apply it; any exception     *)
(* latches the kill switch.                                                 *)
Settle(p) ==
    LET i == Cur(p) IN
    /\ At(p, "settle")
    /\ \/ /\ DemoAutoDispatchSettlement(i)
          /\ ex' = [ex EXCEPT ![p].pc = "apply", ![p].proof = Settlement(i)]
       \/ ~CanSettle(i) /\ LatchKillSwitch /\ AfterSettling(p)
    /\ ExOnly

(* The proof is refused when it grew too old, too. *)
Apply(p) ==
    /\ At(p, "apply")
    /\ \/ /\ CanApply(Cur(p))
          /\ resv' = [resv EXCEPT ![Cur(p)] = ex[p].proof]
          /\ UNCHANGED jvars
       \/ LatchKillSwitch /\ UNCHANGED resv
    /\ AfterSettling(p)
    /\ UNCHANGED <<mutex, broker, sent, rc, crashes>>

(* A process dies: its memory, its lease object and its OS mutex go with it. *)
Crash(p) ==
    /\ ~At(p, "down") /\ crashes < MaxCrash
    /\ crashes' = crashes + 1
    /\ ex' = [ex EXCEPT ![p] = Down]
    /\ mutex' = mutex \ {p}
    /\ IF ex[p].pc \in {"submit", "adapter"} THEN LoseLease(Cur(p)) ELSE UNCHANGED jvars
    /\ UNCHANGED <<resv, broker, sent, rc>>

ExecutorStep(p) ==
    \/ Boot(p) \/ RecoverMint(p) \/ RecoverApply(p) \/ Recovered(p) \/ Claim(p)
    \/ \E i \in Intents : Begin(p, i)
    \/ Create(p) \/ Safety(p) \/ Reject(p) \/ CheckFails(p) \/ Risk(p) \/ LossStop(p)
    \/ Approve(p) \/ Preflight(p) \/ Pass(p) \/ SubmissionGuard(p) \/ Authorize(p)
    \/ Dispatch(p) \/ Reserve(p) \/ Mint(p) \/ FinalGuard(p)
    \/ VerifySend(p) \/ Consume(p) \/ SubmitRefused(p) \/ OrderSend(p) \/ SendReturns(p)
    \/ Record(p) \/ Slippage(p) \/ Uncertain(p) \/ NotSent(p) \/ Settle(p) \/ Apply(p)
    \/ Crash(p)

-----------------------------------------------------------------------------
(* The broker.  Orders are FOK or IOC, so a position is closed (by stop     *)
(* loss, take profit or by hand) only after its order is done.              *)

BrokerSteps(b) ==
    CASE b.st = "sent"    -> {[b EXCEPT !.st = "working"], [b EXCEPT !.st = "rejected"]}
      [] b.st = "working" -> {[b EXCEPT !.vol = w] : w \in b.vol + 1 .. Lot}
                               \cup {[b EXCEPT !.st = IF b.vol > 0 THEN "open" ELSE "rejected"]}
      [] b.st = "open"    -> {[b EXCEPT !.closed = w, !.st = IF w = b.vol THEN "closed" ELSE @] :
                                 w \in b.closed + 1 .. b.vol}
      [] OTHER            -> {}

BrokerStep(i) ==
    /\ \E b \in BrokerSteps(broker[i]) : broker' = [broker EXCEPT ![i] = b]
    /\ UNCHANGED <<jvars, ex, mutex, resv, sent, rc, crashes>>

OpenOrders == {i \in Intents : broker[i].st = "working"}
OpenVolume(i) == IF broker[i].st \in {"working", "open"} THEN broker[i].vol - broker[i].closed ELSE 0
ExitVolume(i) == broker[i].closed

-----------------------------------------------------------------------------
(* The reconciliation loop.  One cycle reads orders, positions and deals in *)
(* three broker calls, then the active intents, then handles each record.   *)

RcOnly == UNCHANGED <<ex, mutex, resv, broker, sent, crashes>>

(* reconcile_once takes its time before it reads the broker, and asks for   *)
(* the deals up to that time.                                               *)
StartCycle ==
    /\ rc.pc = "idle"
    /\ rc' = [RcIdle EXCEPT !.pc = "orders", !.deals = [i \in Intents |-> ExitVolume(i)]]
    /\ UNCHANGED jvars /\ RcOnly

ReadOrders ==
    /\ rc.pc = "orders"
    /\ rc' = [rc EXCEPT !.pc = "positions", !.orders = OpenOrders]
    /\ UNCHANGED jvars /\ RcOnly

ReadPositions ==
    /\ rc.pc = "positions"
    /\ rc' = [rc EXCEPT !.pc = "deals", !.pos = [i \in Intents |-> OpenVolume(i)]]
    /\ UNCHANGED jvars /\ RcOnly

ActiveIntents == {i \in Intents : state[i] \notin TerminalStates \cup {"ABSENT"}}

Orphan == \E i \in Intents \ ActiveIntents : i \in rc.orders \/ rc.pos[i] > 0

(* Mutant: the deal history is read up to the moment of the call. *)
DealsUpToNow(i) == ExitVolume(i)

DealsInHistory(i) == rc.deals[i]

(* The deals, then the active intents, each with what matches it.  Exposure *)
(* that matches none latches.  Exit deals match by the position ticket,     *)
(* which only reconciliation records, or by a comment the broker may have   *)
(* rewritten.                                                               *)
ReadActive ==
    /\ rc.pc = "deals"
    /\ \E unmatched \in SUBSET (ActiveIntents \ posTicket) :
          rc' = [RcIdle EXCEPT !.pc = "apply", !.critical = Orphan,
                   !.recs = [i \in ActiveIntents |->
                      [s |-> state[i], f |-> filled[i],
                       order |-> i \in rc.orders, pos |-> rc.pos[i],
                       exits |-> IF i \in unmatched THEN 0 ELSE DealsInHistory(i)]]]
    /\ IF Orphan THEN LatchKillSwitch ELSE UNCHANGED jvars
    /\ RcOnly

Evidence(a, t, v) == [act |-> a, target |-> t, v |-> v]
Mismatch == Evidence("latch", "none", 0)

Leave == Evidence("leave", "none", 0)

(* Mutant: a position is not bound to an UNCERTAIN record. *)
PositionEvidenceSkipped(r) == IF r.s = "UNCERTAIN" THEN {Leave} ELSE {Mismatch}

(* What reconcile_broker_state may do with a record.  A position or an      *)
(* order that matches may fail the checks of its symbol, side, magic number *)
(* or protection, which latches; so does an order left after a full fill.   *)
PositionEvidence(r) ==
    {Mismatch} \cup IF r.pos = Lot
                    THEN IF r.order THEN {} ELSE {Evidence("position", "FILLED", r.pos)}
                    ELSE {Evidence("position", "PARTIAL", r.pos)}

(* Mutant: exit deals do not close an UNCERTAIN record. *)
ExitEvidenceSkipped(r) == IF r.s = "UNCERTAIN" THEN {Leave} ELSE {Mismatch}

(* Exit deals close a record whose whole recorded fill they account for. *)
ExitEvidence(r) ==
    {Mismatch} \cup IF r.exits = r.f THEN {Evidence("apply", "CLOSED", r.exits)} ELSE {}

(* Mutant: a reservation the broker does not know is left alone. *)
AbsenceEvidenceLate(r) ==
    IF r.s \in {"ACKNOWLEDGED", "PARTIAL", "FILLED"}
    THEN {Evidence("apply", "UNCERTAIN", 0)} ELSE {Leave}

AbsenceEvidence(r) ==
    IF r.s \in {"SUBMITTING", "ACKNOWLEDGED", "PARTIAL", "FILLED"}
    THEN {Evidence("apply", "UNCERTAIN", 0)} ELSE {Leave}

EvidenceFor(r) ==
    CASE r.pos > 0 -> PositionEvidence(r)
      [] r.pos = 0 /\ r.exits > 0 /\ r.s \in {"ACKNOWLEDGED", "PARTIAL", "FILLED", "UNCERTAIN"} ->
           ExitEvidence(r)
      [] OTHER ->
           IF r.order /\ r.s \in {"SUBMITTING", "ACKNOWLEDGED", "UNCERTAIN"}
           THEN {Mismatch, Evidence("apply", "ACKNOWLEDGED", 0)}
           ELSE AbsenceEvidence(r) \cup (IF r.order THEN {Mismatch} ELSE {})

Handled(i) == [j \in DOMAIN rc.recs \ {i} |-> rc.recs[j]]

(* An exception in the cycle: the supervisor latches and stops. *)
StopLatched == LatchKillSwitch /\ rc' = [RcIdle EXCEPT !.pc = "stopped"]

(* One record.  A target the state machine does not allow raises; so does a *)
(* record that changed since it was read, which a position only latches.    *)
ApplyRecord(i) ==
    LET r == rc.recs[i] IN
    /\ rc.pc = "apply" /\ i \in DOMAIN rc.recs
    /\ \E e \in EvidenceFor(r) :
          \/ /\ e.act = "leave"
             /\ rc' = [rc EXCEPT !.recs = Handled(i)]
             /\ UNCHANGED jvars
          \/ /\ e.act = "latch"
             /\ LatchKillSwitch
             /\ rc' = [rc EXCEPT !.recs = Handled(i), !.critical = TRUE]
          \/ /\ e.act \in {"apply", "position"}
             /\ ApplyReconciliation(i, r.s, e.target, e.v)
             /\ rc' = [rc EXCEPT !.recs = Handled(i)]
          \/ /\ e.act = "position" /\ e.target \in AllowedTransitions(r.s) \cup {r.s}
             /\ ~MayReconcile(i, r.s, e.target, e.v)
             /\ LatchKillSwitch
             /\ rc' = [rc EXCEPT !.recs = Handled(i)]
          \/ /\ \/ e.act \in {"apply", "position"} /\ e.target \notin AllowedTransitions(r.s) \cup {r.s}
                \/ e.act = "apply" /\ ~MayReconcile(i, r.s, e.target, e.v)
             /\ StopLatched
    /\ RcOnly

(* The supervisor stops on a critical result or a latched kill switch. *)
EndCycle ==
    /\ rc.pc = "apply" /\ DOMAIN rc.recs = {}
    /\ IF rc.critical /\ ~kill.latched THEN LatchKillSwitch ELSE UNCHANGED jvars
    /\ rc' = [RcIdle EXCEPT !.pc = IF rc.critical \/ kill.latched THEN "stopped" ELSE "idle"]
    /\ RcOnly

(* A broker read fails. *)
CycleFails ==
    /\ rc.pc \in {"orders", "positions", "deals"}
    /\ StopLatched
    /\ RcOnly

(* The supervisor process dies and its launcher starts it again. *)
CycleLost ==
    /\ rc.pc \notin {"idle", "stopped"} /\ crashes < MaxCrash
    /\ crashes' = crashes + 1
    /\ rc' = RcIdle
    /\ UNCHANGED <<jvars, ex, mutex, resv, broker, sent>>

(* An operator starts a stopped supervisor again. *)
Relaunch ==
    /\ rc.pc = "stopped"
    /\ rc' = RcIdle
    /\ UNCHANGED jvars /\ RcOnly

CycleStep ==
    \/ StartCycle \/ ReadOrders \/ ReadPositions \/ ReadActive
    \/ \E i \in Intents : ApplyRecord(i)
    \/ EndCycle

-----------------------------------------------------------------------------
Environment ==
    /\ LeaseExpires \/ LatchKillSwitch \/ IssueResetAuthorization \/ ResetKillSwitch \/ NextDay
    /\ UNCHANGED rvars

RuntimeNext ==
    \/ \E p \in Procs : ExecutorStep(p)
    \/ \E i \in Intents : BrokerStep(i)
    \/ CycleStep \/ CycleFails \/ CycleLost \/ Relaunch
    \/ Environment

RuntimeSpec == RuntimeInit /\ [][RuntimeNext]_allvars

(* The supervisor's loop runs on while it is neither stopped nor dead.      *)
(* Nothing is assumed of executors, broker or operators.                    *)
LiveSpec == RuntimeSpec /\ WF_allvars(CycleStep)

-----------------------------------------------------------------------------
(* Properties.                                                              *)

(* About to be sent, or possibly alive at the broker. *)
Exposed(i) == LiveAtBroker(i) \/ \E p \in Procs : At(p, "sending") /\ Cur(p) = i

(* One position globally, at the broker and not only in the journal: at no  *)
(* time are two intents on their way to or alive at the broker, although    *)
(* the broker is read long before order_send.                               *)
OneBrokerExposure == \A i, j \in Intents : Exposed(i) /\ Exposed(j) => i = j

(* The journal never forgets broker exposure: what is being sent or alive   *)
(* at the broker is in an exposure state, so REJECTED and CLOSED are true   *)
(* although orders, positions and deals are three separate reads.           *)
BrokerExposureIsJournaled == \A i \in Intents : Exposed(i) => state[i] \in GlobalExposureStates

(* order_send is called at most once for an intent, whatever is retried,    *)
(* crashes or is taken over.                                                *)
OneSendPerIntent ==
    \A i \in Intents : \A p \in Procs :
        At(p, "sending") /\ Cur(p) = i =>
            i \notin sent /\ \A q \in Procs \ {p} : ~(At(q, "sending") /\ Cur(q) = i)

(* A settled dispatch reservation tells the truth although its proof is     *)
(* minted in one database and applied in another: ABORTED_BEFORE_SEND means *)
(* nothing was or will be sent, a completed one is past the final guard.    *)
ReservationIsTrue ==
    \A i \in Intents :
        /\ resv[i] = "ABORTED_BEFORE_SEND" => i \notin sent /\ ~Exposed(i)
        /\ resv[i] \in {"COMPLETED", "RECONCILED"} =>
              "FINAL_SUBMISSION_GUARD" \in receipts[i] /\ state[i] # "SUBMITTING"

(* recover_dispatch_reservations: "Settle every unresolved reservation from *)
(* durable journal evidence."                                               *)
UnresolvedIsSettleable == \A i \in Intents : Unresolved(i) => CanSettle(i)

(* Trading is halted until an operator acts. *)
Halted == kill.latched \/ rc.pc = "stopped"

(* A reservation never lingers unwatched: whatever happens to its executor, *)
(* SUBMITTING is left or trading is halted.                                 *)
SubmittingIsResolved == \A i \in Intents : state[i] = "SUBMITTING" ~> state[i] # "SUBMITTING" \/ Halted

(* A position that stays open is recorded as one, or trading halts. *)
OpenPositionIsRecorded ==
    \A i \in Intents : broker[i].st = "open"
        ~> state[i] \in {"PARTIAL", "FILLED"} \/ broker[i].st = "closed" \/ Halted

(* A position known by its ticket that the broker closed releases its       *)
(* intent, or trading halts.                                                *)
ClosedPositionIsReleased ==
    \A i \in Intents : broker[i].st = "closed" /\ i \in posTicket
        ~> state[i] = "CLOSED" \/ Halted

(* Every step of the composed system is a step of the journal or leaves it  *)
(* unchanged, so everything shown of the journal holds here.                *)
RefinesJournal == JournalSpec
=============================================================================
