-------------------------- MODULE RuntimeSupervisor --------------------------
(* The production runtime supervisor of live_runtime/runtime_supervisor.py: its
   store (lease, receipt chain, critical latch), the external custody of that
   store, and the start, cycle, dispatch, stop and critical-stop protocols that
   call reconciliation, the journal, the risk ledger and the execution service.

   Modes DEMO (manual dispatch), DEMO_AUTO and LIVE are modelled. The content of
   facts, news, approvals and authorizations is reduced to whether the provider's
   answer passes its checks: Unhealthy takes the failing answer. *)
EXTENDS Naturals, Sequences, FiniteSets

CONSTANTS
    Supervisors,    \* supervisor processes sharing one store
    Mode,           \* binding.mode
    LeaseTerm,      \* lease_seconds, in ticks
    MaxTime,        \* bound on the trusted clock
    MaxStarts,      \* bound on calls of start
    MaxCycles,      \* bound on calls of run_cycle
    MaxFaults       \* bound on crashes, refused facts and lost answers

ASSUME SupervisorAssumption ==
    /\ Mode \in {"DEMO", "DEMO_AUTO", "LIVE"}
    /\ LeaseTerm \in Nat \ {0}
    /\ {MaxTime, MaxStarts, MaxCycles, MaxFaults} \subseteq Nat

VARIABLES
    now,        \* the trusted clock
    lease,      \* supervisor_lease: token and expiry
    receipts,   \* supervisor_cycle_receipts
    latched,    \* supervisor_critical_state
    external,   \* the supervisor checkpoint in external custody
    journal,    \* kill switch, closed intents and the custodied checkpoint's version
    risk,       \* risk_events
    custody,    \* the risk receipt in external custody
    broker,     \* intents executed at the broker, and those it has closed
    sup,        \* each supervisor's position and local variables
    calls,      \* starts and cycles so far
    faults

vars == <<now, lease, receipts, latched, external, journal, risk, custody, broker,
          sup, calls, faults>>
store == <<lease, receipts, latched>>
ports == <<journal, risk, custody, broker>>
env == <<now, calls, faults>>

NoReceipt == [seq |-> 0, issued |-> 0]
Off == [pc |-> "off", job |-> "none", token |-> 0, guard |-> 0, risk |-> NoReceipt,
        journal |-> 0, closing |-> {}, pre |-> 0, called |-> FALSE, expected |-> 0]

At(p, label) == sup[p].pc = label
GoTo(p, label) == sup' = [sup EXCEPT ![p].pc = label]

(* An intent is named by the position of its PRE_DISPATCH receipt. *)
Recorded(kind) == {risk[n].intent : n \in {m \in DOMAIN risk : risk[m].kind = kind}}

(* RiskStateReceipt: its content hash covers the head and the time of issue. *)
RiskReceipt == [seq |-> Len(risk), issued |-> now]

(* latest_news_guard: a guard's predecessor is the guard one below it. *)
NewsHead ==
    LET guards == {receipts[n].guard : n \in DOMAIN receipts} \cup {0}
    IN  CHOOSE g \in guards : \A h \in guards : h <= g

(* verify_external_checkpoint: the register describes the local store. *)
Anchored == external.count = Len(receipts) /\ external.latched = latched

(* Mutant: the fence token is not compared. *)
HoldsUnfenced(p) == sup[p].token > 0 /\ lease.expires > now

Holds(p) == lease.token = sup[p].token /\ lease.expires > now
Refresh(p) == /\ Holds(p)
              /\ lease' = [lease EXCEPT !.expires = now + LeaseTerm]

(* Steps of a start and of a cycle, in the order the code takes them. *)
After(job, label) ==
    IF job = "start"
    THEN CASE label = "claimed" -> "journal"
           [] label = "journal" -> "risk"
           [] label = "risk" -> "reconcile"
           [] label = "reconcile" -> "settle"
    ELSE CASE label = "begun" -> "reconcile"
           [] label = "reconcile" -> "journal"
           [] label = "journal" -> "risk"
           [] label = "risk" -> "settle"

----------------------------------------------------------------------------
(* start: verify custody, then claim the lease with the next fence token. A
   store that differs from custody is latched without a lease. *)
StartClaims(p) ==
    /\ At(p, "off") /\ calls.starts < MaxStarts
    /\ Anchored
    /\ lease.expires <= now
    /\ lease' = [token |-> lease.token + 1, expires |-> now + LeaseTerm]
    /\ sup' = [sup EXCEPT ![p] = [Off EXCEPT !.pc = After("start", "claimed"),
                                             !.job = "start", !.token = lease.token + 1]]
    /\ calls' = [calls EXCEPT !.starts = @ + 1]
    /\ UNCHANGED <<now, receipts, latched, external, ports, faults>>

StartUnanchored(p) ==
    /\ At(p, "off") /\ calls.starts < MaxStarts
    /\ ~Anchored
    /\ sup' = [sup EXCEPT ![p] = [Off EXCEPT !.pc = "fail", !.job = "start"]]
    /\ calls' = [calls EXCEPT !.starts = @ + 1]
    /\ UNCHANGED <<now, store, external, ports, faults>>

(* run_cycle: refresh the lease, then reconcile first. *)
Begin(p) ==
    /\ At(p, "ready") /\ calls.cycles < MaxCycles
    /\ Refresh(p)
    /\ sup' = [sup EXCEPT ![p] = [Off EXCEPT !.pc = After("cycle", "begun"),
                                             !.job = "cycle", !.token = sup[p].token]]
    /\ calls' = [calls EXCEPT !.cycles = @ + 1]
    /\ UNCHANGED <<now, receipts, latched, external, ports, faults>>

(* reconciliation_provider: the journal moves every intent the broker has closed
   to CLOSED, and the result reports exactly the intents moved by this call. *)
Reconcile(p) ==
    /\ At(p, "reconcile")
    /\ ~journal.kill
    /\ LET closing == broker.closed \ journal.closed
       IN  /\ journal' = [journal EXCEPT !.closed = @ \cup closing]
           /\ sup' = [sup EXCEPT ![p].closing = closing,
                                 ![p].pc = After(sup[p].job, "reconcile")]
    /\ UNCHANGED <<store, external, risk, custody, broker, env>>

(* _startup_checks before the journal; a cycle does not look at the latch. *)
StoreAllows(p) == sup[p].job = "start" => Anchored /\ ~latched

(* _verify_journal and _verify_journal_checkpoint: the checkpoint names the
   custodied one as predecessor and replaces it. *)
VerifyJournal(p) ==
    /\ At(p, "journal")
    /\ StoreAllows(p) /\ ~journal.kill
    /\ journal' = [journal EXCEPT !.version = @ + 1]
    /\ sup' = [sup EXCEPT ![p].journal = journal.version + 1,
                          ![p].pc = After(sup[p].job, "journal")]
    /\ UNCHANGED <<store, external, risk, custody, broker, env>>

(* _verify_risk: custody is replaced by a receipt issued now. *)
VerifyRisk(p) ==
    /\ At(p, "risk")
    /\ custody' = RiskReceipt
    /\ sup' = [sup EXCEPT ![p].risk = RiskReceipt, ![p].pc = After(sup[p].job, "risk")]
    /\ UNCHANGED <<store, external, journal, risk, broker, env>>

(* _append_reconciled_closed_trades: one transaction for each closed trade, whose
   entry the ledger must know, then the account snapshot. *)
SettleClosed(p) ==
    /\ At(p, "settle")
    /\ \E d \in sup[p].closing :
        /\ d \in Recorded("ENTRY") \ Recorded("CLOSED_TRADE")
        /\ risk' = Append(risk, [kind |-> "CLOSED_TRADE", intent |-> d])
        /\ sup' = [sup EXCEPT ![p].closing = @ \ {d}]
    /\ UNCHANGED <<store, external, journal, custody, broker, env>>

(* Mutant: the snapshot does not wait for the closed trades. *)
SettleSnapshotEarly(p) ==
    /\ At(p, "settle")
    /\ risk' = Append(risk, [kind |-> "ACCOUNT_SNAPSHOT", intent |-> 0])
    /\ GoTo(p, "settled")
    /\ UNCHANGED <<store, external, journal, custody, broker, env>>

SettleSnapshot(p) ==
    /\ At(p, "settle")
    /\ sup[p].closing = {}
    /\ risk' = Append(risk, [kind |-> "ACCOUNT_SNAPSHOT", intent |-> 0])
    /\ GoTo(p, "settled")
    /\ UNCHANGED <<store, external, journal, custody, broker, env>>

(* _verify_risk_with_source. *)
RiskCustody(p) ==
    /\ At(p, "settled")
    /\ custody' = RiskReceipt
    /\ sup' = [sup EXCEPT ![p].risk = RiskReceipt, ![p].pc = "guard"]
    /\ UNCHANGED <<store, external, journal, risk, broker, env>>

(* Facts, then a news guard that follows the accepted one, then the lease. *)
NewsGuard(p) ==
    /\ At(p, "guard")
    /\ Refresh(p)
    /\ sup' = [sup EXCEPT ![p].guard = NewsHead + 1,
                          ![p].pc = IF sup[p].job = "start" THEN "startup" ELSE "decide"]
    /\ UNCHANGED <<receipts, latched, external, ports, env>>

(* decision_provider, answering NO_ACTION or the action of the mode. *)
Decide(p) ==
    /\ At(p, "decide")
    /\ GoTo(p, "cycle") \/ GoTo(p, IF Mode = "DEMO_AUTO" THEN "preconsume" ELSE "predispatch")
    /\ UNCHANGED <<store, external, ports, env>>

----------------------------------------------------------------------------
(* _append_and_checkpoint. The receipt each position appends, and what follows
   its publication. *)
PhaseAt == [startup |-> "STARTUP", cycle |-> "CYCLE", preconsume |-> "PRE_CONSUME",
            predispatch |-> "PRE_DISPATCH", shutdown |-> "SHUTDOWN", critical |-> "CRITICAL"]
Then(phase) == CASE phase \in {"STARTUP", "CYCLE"} -> "ready"
                 [] phase = "PRE_CONSUME" -> "predispatch"
                 [] phase = "PRE_DISPATCH" -> "recheck"
                 [] phase \in {"SHUTDOWN", "CRITICAL"} -> "release"

GuardAt(p) == IF sup[p].pc \in {"shutdown", "critical"} THEN 0 ELSE sup[p].guard

(* Mutant: the register is not compared with the store before the append. *)
AppendableUnanchored(p) ==
    /\ Holds(p)
    /\ GuardAt(p) # 0 => GuardAt(p) = NewsHead + 1

(* store.append: the caller's lease, and a guard that follows the last one. *)
Appendable(p) ==
    /\ Anchored
    /\ Holds(p)
    /\ GuardAt(p) # 0 => GuardAt(p) = NewsHead + 1

(* The refreshed lease, the comparison with custody and the append. *)
AppendReceipt(p) ==
    /\ sup[p].pc \in DOMAIN PhaseAt
    /\ Appendable(p)
    /\ lease' = [lease EXCEPT !.expires = IF At(p, "critical") THEN @ ELSE now + LeaseTerm]
    /\ LET phase == PhaseAt[sup[p].pc]
           pre == IF phase = "PRE_DISPATCH" THEN Len(receipts) + 1 ELSE sup[p].pre
       IN  /\ receipts' = Append(receipts, [phase |-> phase, token |-> sup[p].token,
                                            guard |-> GuardAt(p), pre |-> pre,
                                            called |-> sup[p].called])
           /\ sup' = [sup EXCEPT ![p].pc = "publish", ![p].job = phase, ![p].pre = pre,
                                 ![p].expected = external.version]
    /\ UNCHANGED <<latched, external, ports, env>>

(* create_checkpoint of the store as it is now. *)
Successor == [version |-> external.version + 1, count |-> Len(receipts), latched |-> latched]

(* _publish_supervisor_checkpoint: compare-and-swap, then read back. *)
Publish(p) ==
    /\ At(p, "publish")
    /\ external.version = sup[p].expected
    /\ external' = Successor
    /\ GoTo(p, Then(sup[p].job))
    /\ UNCHANGED <<store, ports, env>>

----------------------------------------------------------------------------
(* The recheck behind the approval and policy callbacks. A manual dispatch takes
   the refreshed journal checkpoint; the other modes compare it with the held one. *)
Recheck(p) ==
    /\ At(p, "recheck")
    /\ Anchored /\ ~latched /\ ~journal.kill
    /\ journal' = [journal EXCEPT !.version = @ + 1]
    /\ sup' = [sup EXCEPT ![p].pc = IF Mode = "DEMO" \/ sup[p].journal = journal.version + 1
                                    THEN "rerisk" ELSE "fail"]
    /\ UNCHANGED <<store, external, risk, custody, broker, env>>

(* The refreshed risk receipt must have the content of the held one. *)
SameRisk(p) == RiskReceipt = sup[p].risk

RecheckRisk(p) ==
    /\ At(p, "rerisk")
    /\ custody' = RiskReceipt
    /\ GoTo(p, IF SameRisk(p) THEN "reguard" ELSE "fail")
    /\ UNCHANGED <<store, external, journal, risk, broker, env>>

(* The final boundary: a new guard, custody, latch, kill switch and lease. *)
FinalBoundary(p) ==
    /\ At(p, "reguard")
    /\ Anchored /\ ~latched /\ ~journal.kill
    /\ NewsHead = sup[p].guard
    /\ Refresh(p)
    /\ sup' = [sup EXCEPT ![p].pc = "dispatch", ![p].guard = NewsHead + 1]
    /\ UNCHANGED <<receipts, latched, external, ports, env>>

(* Mutant: the order is sent while the PRE_DISPATCH receipt is being exported. *)
DispatchBeforePublish(p) ==
    /\ At(p, "dispatch") \/ (At(p, "publish") /\ sup[p].job = "PRE_DISPATCH")
    /\ broker' = [broker EXCEPT !.executed = @ \cup {sup[p].pre}]
    /\ sup' = [sup EXCEPT ![p].called = TRUE, ![p].pc = "entry"]
    /\ UNCHANGED <<store, external, journal, risk, custody, env>>

(* execution_service: the order is executed and its receipt is journaled. *)
Dispatch(p) ==
    /\ At(p, "dispatch")
    /\ broker' = [broker EXCEPT !.executed = @ \cup {sup[p].pre}]
    /\ sup' = [sup EXCEPT ![p].called = TRUE, ![p].pc = "entry"]
    /\ UNCHANGED <<store, external, journal, risk, custody, env>>

(* _append_entry_risk_event: the append commits before its effect is checked. *)
AppendEntry(p) ==
    /\ At(p, "entry")
    /\ risk' = Append(risk, [kind |-> "ENTRY", intent |-> sup[p].pre])
    /\ GoTo(p, IF Len(risk) = sup[p].risk.seq THEN "entered" ELSE "fail")
    /\ UNCHANGED <<store, external, journal, custody, broker, env>>

EntryCustody(p) ==
    /\ At(p, "entered")
    /\ custody' = RiskReceipt
    /\ GoTo(p, "rejournal")
    /\ UNCHANGED <<store, external, journal, risk, broker, env>>

JournalCustody(p) ==
    /\ At(p, "rejournal")
    /\ ~journal.kill
    /\ journal' = [journal EXCEPT !.version = @ + 1]
    /\ GoTo(p, "cycle")
    /\ UNCHANGED <<store, external, risk, custody, broker, env>>

----------------------------------------------------------------------------
(* stop. *)
Stop(p) ==
    /\ At(p, "ready")
    /\ GoTo(p, "shutdown")
    /\ UNCHANGED <<store, external, ports, env>>

(* store.release keeps the fence token. It refuses another owner's lease: stop
   then stops critically, and a critical stop passes over it. *)
Release(p) ==
    /\ At(p, "release")
    /\ \/ /\ lease.token = sup[p].token
          /\ lease' = [lease EXCEPT !.expires = 0]
          /\ sup' = [sup EXCEPT ![p] = Off]
       \/ /\ lease.token # sup[p].token
          /\ sup' = [sup EXCEPT ![p] = IF @.job = "CRITICAL" THEN Off ELSE [@ EXCEPT !.pc = "fail"]]
          /\ UNCHANGED lease
    /\ UNCHANGED <<receipts, latched, external, ports, env>>

(* A check of the code refuses what it finds. *)
Denied(p) ==
    /\ \/ At(p, "ready") /\ calls.cycles < MaxCycles /\ ~Holds(p)
       \/ At(p, "reconcile") /\ journal.kill
       \/ At(p, "journal") /\ ~(StoreAllows(p) /\ ~journal.kill)
       \/ At(p, "settle") /\ ~(sup[p].closing \subseteq Recorded("ENTRY") \ Recorded("CLOSED_TRADE"))
       \/ At(p, "guard") /\ ~Holds(p)
       \/ sup[p].pc \in DOMAIN PhaseAt \ {"critical"} /\ ~Appendable(p)
       \/ At(p, "publish") /\ external.version # sup[p].expected
       \/ At(p, "recheck") /\ ~(Anchored /\ ~latched /\ ~journal.kill)
       \/ At(p, "reguard") /\ ~(Anchored /\ ~latched /\ ~journal.kill /\ NewsHead = sup[p].guard /\ Holds(p))
       \/ At(p, "rejournal") /\ journal.kill
    /\ GoTo(p, IF sup[p].job = "CRITICAL" THEN "release" ELSE "fail")
    /\ UNCHANGED <<store, external, ports, env>>

Fault == faults < MaxFaults /\ faults' = faults + 1

(* A provider's answer fails its checks: reconciliation is not clean (it may have
   latched the kill switch itself), a source receipt, fact or guard is stale or
   unhealthy, an approval is missing, the service raises. *)
Unhealthy(p) ==
    /\ sup[p].pc \in {"reconcile", "journal", "risk", "settle", "guard", "decide",
                      "recheck", "reguard", "dispatch", "entry", "rejournal"}
    /\ Fault
    /\ journal' \in {journal} \cup {j \in {[journal EXCEPT !.kill = TRUE]} : At(p, "reconcile")}
    /\ GoTo(p, "fail")
    /\ UNCHANGED <<now, store, external, risk, custody, broker, calls>>

(* The service raises after the order has reached the broker. *)
DispatchRaises(p) ==
    /\ At(p, "dispatch")
    /\ Fault
    /\ broker' = [broker EXCEPT !.executed = @ \cup {sup[p].pre}]
    /\ GoTo(p, "fail")
    /\ UNCHANGED <<now, store, external, journal, risk, custody, calls>>

(* The answer of the checkpoint register is lost, applied or not. *)
PublishLost(p) ==
    /\ At(p, "publish")
    /\ Fault
    /\ external' \in {external} \cup {e \in {Successor} : external.version = sup[p].expected}
    /\ GoTo(p, IF sup[p].job = "CRITICAL" THEN "release" ELSE "fail")
    /\ UNCHANGED <<now, store, ports, calls>>

Crash(p) ==
    /\ ~At(p, "off")
    /\ Fault
    /\ sup' = [sup EXCEPT ![p] = Off]
    /\ UNCHANGED <<now, store, external, ports, calls>>

----------------------------------------------------------------------------
(* _latch_and_stop. The local latch is committed first; it is published only if
   custody described the store before it. The write of the latch itself is taken
   not to fail. *)
LatchCritical(p) ==
    /\ At(p, "fail")
    /\ latched' = TRUE
    /\ sup' = [sup EXCEPT ![p].pc = "faillatched",
                          ![p].expected = IF Anchored THEN external.version ELSE 0]
    /\ UNCHANGED <<lease, receipts, external, ports, env>>

PublishLatch(p) ==
    /\ At(p, "faillatched")
    /\ external' = IF external.version = sup[p].expected THEN Successor ELSE external
    /\ GoTo(p, "kill")
    /\ UNCHANGED <<store, ports, env>>

PublishLatchLost(p) ==
    /\ At(p, "faillatched")
    /\ Fault
    /\ GoTo(p, "kill")
    /\ UNCHANGED <<now, store, external, ports, calls>>

(* The journal's kill switch and its custody; then, with a lease, the receipt. *)
KillSwitch(p) ==
    /\ At(p, "kill")
    /\ journal' = [journal EXCEPT !.kill = TRUE, !.version = @ + 1]
    /\ sup' = [sup EXCEPT ![p] = IF @.token = 0 THEN Off
                                 ELSE [@ EXCEPT !.pc = "critical", !.called = FALSE]]
    /\ UNCHANGED <<store, external, risk, custody, broker, env>>

(* An append the store or custody refuses is passed over. *)
NoCriticalReceipt(p) ==
    /\ At(p, "critical")
    /\ ~Appendable(p)
    /\ sup' = [sup EXCEPT ![p].pc = "release", ![p].job = "CRITICAL"]
    /\ UNCHANGED <<store, external, ports, env>>

----------------------------------------------------------------------------
BrokerCloses ==
    /\ \E d \in broker.executed \ broker.closed :
        broker' = [broker EXCEPT !.closed = @ \cup {d}]
    /\ UNCHANGED <<store, external, journal, risk, custody, sup, env>>

Tick ==
    /\ now < MaxTime
    /\ now' = now + 1
    /\ UNCHANGED <<store, external, ports, sup, calls, faults>>

(* A provisioned store: custody bootstrapped, the first snapshot in the ledger. *)
SupervisorInit ==
    /\ now = 1
    /\ lease = [token |-> 0, expires |-> 0]
    /\ receipts = <<>>
    /\ latched = FALSE
    /\ external = [version |-> 1, count |-> 0, latched |-> FALSE]
    /\ journal = [kill |-> FALSE, closed |-> {}, version |-> 1]
    /\ risk = <<[kind |-> "ACCOUNT_SNAPSHOT", intent |-> 0]>>
    /\ custody = [seq |-> 1, issued |-> 1]
    /\ broker = [executed |-> {}, closed |-> {}]
    /\ sup = [p \in Supervisors |-> Off]
    /\ calls = [starts |-> 0, cycles |-> 0]
    /\ faults = 0

Step(p) ==
    \/ Reconcile(p) \/ VerifyJournal(p) \/ VerifyRisk(p) \/ SettleClosed(p) \/ SettleSnapshot(p)
    \/ RiskCustody(p) \/ NewsGuard(p) \/ Decide(p) \/ AppendReceipt(p) \/ Publish(p)
    \/ Recheck(p) \/ RecheckRisk(p) \/ FinalBoundary(p) \/ Dispatch(p) \/ AppendEntry(p)
    \/ EntryCustody(p) \/ JournalCustody(p) \/ Release(p) \/ Denied(p) \/ LatchCritical(p)
    \/ PublishLatch(p) \/ KillSwitch(p) \/ NoCriticalReceipt(p)

SupervisorNext ==
    \/ \E p \in Supervisors :
        \/ StartClaims(p) \/ StartUnanchored(p) \/ Begin(p) \/ Stop(p) \/ Step(p)
        \/ Unhealthy(p) \/ DispatchRaises(p) \/ PublishLost(p) \/ PublishLatchLost(p) \/ Crash(p)
    \/ BrokerCloses
    \/ Tick

SupervisorSpec == SupervisorInit /\ [][SupervisorNext]_vars

----------------------------------------------------------------------------
(* The fence: receipts never step back to an older token, a token's receipts open
   with STARTUP (or are only the CRITICAL of a refused start), nothing follows its
   CRITICAL, and nothing but CRITICAL (the publication failed) its SHUTDOWN,
   whatever takeovers, crashes and late writers there are. A critical stop ends every
   run: after it the chain holds nothing but further CRITICAL receipts. *)
ReceiptsFenced ==
    \A n \in DOMAIN receipts :
        /\ \A m \in 1..(n - 1) :
            /\ receipts[m].token <= receipts[n].token
            /\ receipts[m].phase = "CRITICAL" => receipts[n].phase = "CRITICAL"
            /\ receipts[m].token = receipts[n].token =>
                /\ receipts[m].phase # "CRITICAL" /\ receipts[n].phase # "STARTUP"
                /\ receipts[m].phase = "SHUTDOWN" => receipts[n].phase = "CRITICAL"
        /\ receipts[n].phase \in {"STARTUP", "CRITICAL"} \/
            \E m \in 1..(n - 1) : receipts[m].token = receipts[n].token
                                  /\ receipts[m].phase = "STARTUP"

(* An intent reaches the broker only behind its PRE_DISPATCH receipt, and external
   custody already commits to that receipt. *)
AnchoredBeforeDispatch ==
    \A d \in broker.executed :
        d \in 1..external.count /\ receipts[d].phase = "PRE_DISPATCH"

Chain == INSTANCE AnchoredChain WITH length <- Len(receipts), anchored <- external.count

(* The receipt chain and its register are an anchored chain: no receipt is
   appended over one that custody does not know. *)
ImplementsAnchoredChain == Chain!ChainSpec

(* Whenever an order is dispatched, the ledger that limits it is complete: every
   earlier execution is an ENTRY of it and every intent the journal has closed a
   CLOSED_TRADE. *)
FactsSurviveRestart ==
    \A p \in Supervisors : At(p, "dispatch") =>
        /\ broker.executed \subseteq Recorded("ENTRY")
        /\ journal.closed \subseteq Recorded("CLOSED_TRADE")

(* No process has died, no provider or register has failed, no critical stop has
   begun to latch the store, and one supervisor at most is inside a call. *)
Undisturbed ==
    /\ faults = 0 /\ ~latched
    /\ \A p, q \in Supervisors : p = q \/ sup[p].pc \in {"off", "ready"}
                                    \/ sup[q].pc \in {"off", "ready"}

(* Whatever starts, stops, takeovers and broker closes have come before, the ledger
   is complete at a dispatch nothing disturbs. *)
FactsCompleteUndisturbed == Undisturbed => FactsSurviveRestart

=============================================================================
