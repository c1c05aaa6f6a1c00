---------------------------- MODULE ExecutionJournal ----------------------------
(***************************************************************************)
(* The SQLite execution journal (live_runtime/journal.py): durable         *)
(* idempotency per decision, the fenced executor lease, the latched kill   *)
(* switch, the one-use submission lease and the evidence receipts.         *)
(*                                                                         *)
(* Every operation of the class that writes runs in one BEGIN IMMEDIATE    *)
(* transaction, so each is one action here.  JournalSpec lets any caller   *)
(* invoke any operation at any time: what it satisfies, every composition  *)
(* of callers satisfies.                                                   *)
(*                                                                         *)
(* Time.  Most operations read the clock BEFORE they take the database     *)
(* lock, so the instant they compare with may already be past when they    *)
(* run: a lease that has expired since then still passes as long as nobody *)
(* has claimed it over, and a reservation just after midnight may be       *)
(* stamped with the day before.  The lease's final validator reads the     *)
(* clock inside its transaction and has no such slack.                     *)
(***************************************************************************)
EXTENDS Naturals, FiniteSets

CONSTANTS
    Intents,        \* intent ids, tombstone ids included
    Tombstones,     \* the ids derived for safe-loss tombstones
    DemoAuto,       \* intents whose payload binds a session dispatch
    Decisions,
    DecisionOf,     \* the decision each intent carries
    Procs,          \* executor owner ids
    MaxDaily,       \* MAX_DAILY_SUBMISSIONS
    Lot,            \* requested volume, in volume steps
    MaxDay, MaxToken, MaxLatch   \* bounds of the model's counters

ASSUME JournalAssumption ==
    /\ IsFiniteSet(Intents)
    /\ Tombstones \subseteq Intents
    /\ DemoAuto \subseteq Intents
    /\ DecisionOf \in [Intents -> Decisions]
    /\ MaxDaily \in Nat
    /\ Lot \in Nat \ {0}
    /\ MaxDay \in Nat \ {0}
    /\ MaxToken \in Nat
    /\ MaxLatch \in Nat
    /\ "none" \notin Procs
    /\ "denied" \notin Procs

GlobalExposureStates == {"SUBMITTING", "ACKNOWLEDGED", "PARTIAL", "FILLED", "UNCERTAIN"}

TerminalStates == {"RISK_REJECTED", "REJECTED", "EXPIRED", "CLOSED"}

ExecutionStates ==
    {"CREATED", "RISK_APPROVED", "PREFLIGHT_PASSED"}
        \cup GlobalExposureStates \cup TerminalStates

AllowedTransitions(s) ==
    CASE s = "CREATED"          -> {"RISK_APPROVED", "RISK_REJECTED", "EXPIRED"}
      [] s = "RISK_APPROVED"    -> {"PREFLIGHT_PASSED", "REJECTED", "EXPIRED"}
      [] s = "PREFLIGHT_PASSED" -> {"SUBMITTING", "REJECTED", "EXPIRED"}
      [] s = "SUBMITTING"       -> {"ACKNOWLEDGED", "PARTIAL", "FILLED", "REJECTED", "UNCERTAIN"}
      [] s = "ACKNOWLEDGED"     -> {"PARTIAL", "FILLED", "REJECTED", "UNCERTAIN"}
      [] s = "PARTIAL"          -> {"FILLED", "CLOSED", "UNCERTAIN"}
      [] s = "FILLED"           -> {"CLOSED", "UNCERTAIN"}
      [] s = "UNCERTAIN"        -> {"ACKNOWLEDGED", "PARTIAL", "FILLED", "REJECTED", "CLOSED"}
      [] OTHER                  -> {}

BrokerConclusiveTargets == {"ACKNOWLEDGED", "PARTIAL", "FILLED", "CLOSED"}

(* The receipts the send boundary is proved from.  FINAL_SUBMISSION_GUARD   *)
(* stands for the receipt and for the authorization_consumptions row, which *)
(* is unique per intent and is written by the same transaction.            *)
BoundaryReceipts ==
    {"FINAL_SUBMISSION_GUARD", "SUBMISSION_LEASE_NOT_CONSUMED", "SUBMISSION_NOT_SENT",
     "EXECUTION_RECEIPT", "RECONCILIATION_RECEIPT"}

SettlementStates == {"ABORTED_BEFORE_SEND", "COMPLETED", "RECONCILED", "RECONCILIATION_REQUIRED"}

VARIABLES
    state,       \* [Intents -> ExecutionStates \cup {"ABSENT"}]
    filled,      \* filled_volume
    posTicket,   \* intents with a broker_position_ticket
    evidence,    \* who wrote the risk, preflight and guard receipts
    reservedOn,  \* day of the intent's SUBMITTING transition row, 0 without one
    receipts,    \* BoundaryReceipts each intent has
    slease,      \* the DurableSubmissionLease object of each intent
    minted,      \* settlement proofs minted for each intent
    lease,       \* executor_lease row; live: its expiry is still ahead
    kill,        \* kill_switch row; at numbers the latch
    resetAuth,   \* latches for which a dual-control authorization exists
    day          \* the current UTC day

intentVars  == <<state, filled, posTicket, evidence, reservedOn>>
sendVars    == <<receipts, slease, minted>>
controlVars == <<lease, kill, resetAuth, day>>
jvars       == <<state, filled, posTicket, evidence, reservedOn,
                 receipts, slease, minted, lease, kill, resetAuth, day>>

NoEvidence == [risk |-> "none", preflight |-> "none", guard |-> "none"]
NoLease    == [st |-> "none", by |-> "none", token |-> 0]

JournalInit ==
    /\ state = [i \in Intents |-> "ABSENT"]
    /\ filled = [i \in Intents |-> 0]
    /\ posTicket = {}
    /\ evidence = [i \in Intents |-> NoEvidence]
    /\ reservedOn = [i \in Intents |-> 0]
    /\ receipts = [i \in Intents |-> {}]
    /\ slease = [i \in Intents |-> NoLease]
    /\ minted = [i \in Intents |-> {}]
    /\ lease = [owner |-> "none", token |-> 0, live |-> FALSE]
    /\ kill = [latched |-> FALSE, at |-> 0]
    /\ resetAuth = {}
    /\ day = 1

-----------------------------------------------------------------------------
(* Creating an intent.  The decision index makes a decision's first row its *)
(* only one; every later insert for it returns that row.                    *)

CanInsert(i) == \A j \in Intents : DecisionOf[j] = DecisionOf[i] => state[j] = "ABSENT"

InsertIntent(i, s) ==
    /\ CanInsert(i)
    /\ state' = [state EXCEPT ![i] = s]
    /\ UNCHANGED <<filled, posTicket, evidence, reservedOn, sendVars, controlVars>>

CreateIntent(i) == i \notin Tombstones /\ InsertIntent(i, "CREATED")

RecordLockedDemoAutoPreparation(i) ==
    i \in DemoAuto \ Tombstones /\ InsertIntent(i, "RISK_REJECTED")

RecordDemoAutoSafeLoss(i) == i \in Tombstones /\ InsertIntent(i, "EXPIRED")

-----------------------------------------------------------------------------
(* The generic transition.  It refuses the reserve-only and the broker-     *)
(* conclusive targets, and refuses to release an exposed intent.            *)

(* Mutant: an exposed intent may be moved to REJECTED by a bare transition. *)
MayTransitionUnguarded(i, to) ==
    /\ state[i] # "ABSENT"
    /\ to \notin {"SUBMITTING"} \cup BrokerConclusiveTargets
    /\ to \in AllowedTransitions(state[i]) \cup {state[i]}

MayTransition(i, to) ==
    /\ state[i] # "ABSENT"
    /\ to \notin {"SUBMITTING"} \cup BrokerConclusiveTargets
    /\ ~(to = "REJECTED" /\ state[i] \in GlobalExposureStates)
    /\ to \in AllowedTransitions(state[i]) \cup {state[i]}

Transition(i, expected, to) ==
    /\ state[i] = expected
    /\ MayTransition(i, to)
    /\ state' = [state EXCEPT ![i] = to]
    /\ UNCHANGED <<filled, posTicket, evidence, reservedOn, sendVars, controlVars>>

-----------------------------------------------------------------------------
(* Evidence receipts.  A receipt's content is identified with its writer: a *)
(* process evaluates an intent once, so a capability built from its own     *)
(* decision matches the receipt exactly when it wrote that receipt.  The    *)
(* first receipt of a kind is kept; storing another one raises.  A denied   *)
(* decision or a failed preflight can back no capability.                   *)

RecordRiskDecision(i, w) ==
    /\ state[i] # "ABSENT" /\ i \notin Tombstones
    /\ evidence[i].risk = "none"
    /\ evidence' = [evidence EXCEPT ![i].risk = w]
    /\ UNCHANGED <<state, filled, posTicket, reservedOn, sendVars, controlVars>>

RecordMt5Preflight(i, w) ==
    /\ state[i] # "ABSENT" /\ i \notin Tombstones
    /\ evidence[i].preflight = "none"
    /\ evidence' = [evidence EXCEPT ![i].preflight = w]
    /\ UNCHANGED <<state, filled, posTicket, reservedOn, sendVars, controlVars>>

MayAuthorize(i, p) ==
    state[i] = "PREFLIGHT_PASSED" /\ evidence[i].risk = p /\ evidence[i].preflight = p

AuthorizeSubmissionEvidence(i, p) ==
    /\ MayAuthorize(i, p)
    /\ evidence' = [evidence EXCEPT ![i].guard = p]
    /\ UNCHANGED <<state, filled, posTicket, reservedOn, sendVars, controlVars>>

-----------------------------------------------------------------------------
(* The submission boundary: reserve SUBMITTING, commit the one-use          *)
(* authorization, consume the lease just before order_send.                 *)

HoldsFence(p, tok) == lease.owner = p /\ lease.token = tok

(* Mutant: an intent whose submission is uncertain does not count. *)
OtherExposureCertain(i) ==
    \E j \in Intents \ {i} : state[j] \in GlobalExposureStates \ {"UNCERTAIN"}

OtherExposure(i) == \E j \in Intents \ {i} : state[j] \in GlobalExposureStates

SubmittedOn(d) == Cardinality({i \in Intents : reservedOn[i] = d})

(* The day an operation that read the clock before its lock may stamp. *)
StampDays == {d \in 1..MaxDay : d = day \/ d + 1 = day}

(* Mutant: the transaction trusts the caller's earlier broker snapshot. *)
MayReserveStale(i, p, tok, d) ==
    /\ HoldsFence(p, tok) /\ ~kill.latched
    /\ state[i] = "PREFLIGHT_PASSED"
    /\ SubmittedOn(d) < MaxDaily
    /\ evidence[i] = [risk |-> p, preflight |-> p, guard |-> p]

(* Mutant: the daily limit is off by one. *)
MayReserveOneMore(i, p, tok, d) ==
    /\ HoldsFence(p, tok) /\ ~kill.latched
    /\ state[i] = "PREFLIGHT_PASSED" /\ ~OtherExposure(i)
    /\ SubmittedOn(d) <= MaxDaily
    /\ evidence[i] = [risk |-> p, preflight |-> p, guard |-> p]

MayReserve(i, p, tok, d) ==
    /\ HoldsFence(p, tok) /\ ~kill.latched
    /\ state[i] = "PREFLIGHT_PASSED" /\ ~OtherExposure(i)
    /\ SubmittedOn(d) < MaxDaily
    /\ evidence[i] = [risk |-> p, preflight |-> p, guard |-> p]

ReserveSubmission(i, p, tok, d) ==
    /\ MayReserve(i, p, tok, d)
    /\ state' = [state EXCEPT ![i] = "SUBMITTING"]
    /\ reservedOn' = [reservedOn EXCEPT ![i] = d]
    /\ UNCHANGED <<filled, posTicket, evidence, sendVars, controlVars>>

AssertFinalSubmissionState(i, p, tok, d) ==
    /\ HoldsFence(p, tok) /\ ~kill.latched
    /\ state[i] = "SUBMITTING" /\ ~OtherExposure(i)
    /\ SubmittedOn(d) <= MaxDaily

MayCommitGuard(i, p, tok, d) ==
    /\ AssertFinalSubmissionState(i, p, tok, d)
    /\ "FINAL_SUBMISSION_GUARD" \notin receipts[i]

FinalSubmissionGuard(i, p, tok, d) ==
    /\ MayCommitGuard(i, p, tok, d)
    /\ receipts' = [receipts EXCEPT ![i] = @ \cup {"FINAL_SUBMISSION_GUARD"}]
    /\ slease' = [slease EXCEPT ![i] = [st |-> "active", by |-> p, token |-> tok]]
    /\ UNCHANGED <<intentVars, minted, controlVars>>

MayConsume(i) ==
    /\ slease[i].st = "active"
    /\ AssertFinalSubmissionState(i, slease[i].by, slease[i].token, day)
    /\ lease.live

ConsumeLease(i) ==
    /\ MayConsume(i)
    /\ slease' = [slease EXCEPT ![i].st = "used"]
    /\ UNCHANGED <<intentVars, receipts, minted, controlVars>>

(* The with-block's exit deactivates an unused lease and, when the intent  *)
(* is still SUBMITTING without a broker receipt, proves it; otherwise the  *)
(* exit raises and the lease is dead without a proof.                      *)
UnusedLeaseProvable(i) == state[i] = "SUBMITTING" /\ "EXECUTION_RECEIPT" \notin receipts[i]

ReleaseUnusedLease(i) ==
    /\ slease[i].st = "active"
    /\ slease' = [slease EXCEPT ![i].st = "dead"]
    /\ receipts' = [receipts EXCEPT ![i] =
                      IF UnusedLeaseProvable(i)
                      THEN @ \cup {"SUBMISSION_LEASE_NOT_CONSUMED"} ELSE @]
    /\ UNCHANGED <<intentVars, minted, controlVars>>

(* A process that dies takes its lease object with it. *)
LoseLease(i) ==
    /\ slease[i].st = "active"
    /\ slease' = [slease EXCEPT ![i].st = "dead"]
    /\ UNCHANGED <<intentVars, receipts, minted, controlVars>>

-----------------------------------------------------------------------------
(* Broker outcomes.  An execution receipt can only be minted from a lease's *)
(* consumption proof; reconciliation evidence only by the reconciler, from  *)
(* a record that was active when it read it.                                *)

VolumeFits(target, v) == target \in {"PARTIAL", "FILLED"} => v > 0

Larger(a, b) == IF a > b THEN a ELSE b

MayRecordExecution(i) ==
    state[i] = "SUBMITTING" /\ "FINAL_SUBMISSION_GUARD" \in receipts[i]

RecordExecutionReceipt(i, target, v) ==
    /\ slease[i].st = "used" /\ VolumeFits(target, v)
    /\ MayRecordExecution(i)
    /\ receipts' = [receipts EXCEPT ![i] = @ \cup {"EXECUTION_RECEIPT"}]
    /\ state' = [state EXCEPT ![i] = target]
    /\ filled' = [filled EXCEPT ![i] = Larger(@, v)]
    /\ UNCHANGED <<posTicket, evidence, reservedOn, slease, minted, controlVars>>

ReconciliationTargets == {"ACKNOWLEDGED", "PARTIAL", "FILLED", "UNCERTAIN", "CLOSED"}

(* v is the observed volume: of the position, or of the exit deals. *)
MayReconcile(i, expected, target, v) ==
    /\ state[i] = expected
    /\ target \in AllowedTransitions(expected) \cup ({expected} \ {"UNCERTAIN"})
    /\ VolumeFits(target, v)
    /\ target = "CLOSED" => v = filled[i] /\ filled[i] > 0

ApplyReconciliation(i, expected, target, v) ==
    /\ expected \in ExecutionStates \ TerminalStates
    /\ target \in ReconciliationTargets
    /\ MayReconcile(i, expected, target, v)
    /\ receipts' = [receipts EXCEPT ![i] = @ \cup {"RECONCILIATION_RECEIPT"}]
    /\ state' = [state EXCEPT ![i] = target]
    /\ filled' = [filled EXCEPT ![i] =
                    IF target \in {"PARTIAL", "FILLED"} THEN Larger(@, v) ELSE @]
    /\ posTicket' = IF target \in {"PARTIAL", "FILLED"} THEN posTicket \cup {i} ELSE posTicket
    /\ UNCHANGED <<evidence, reservedOn, slease, minted, controlVars>>

-----------------------------------------------------------------------------
(* Proofs that nothing was sent, and settlement proofs for the session.     *)

BrokerEvidence(i) == receipts[i] \cap {"EXECUTION_RECEIPT", "RECONCILIATION_RECEIPT"} # {}

(* Mutant: a committed final guard does not have to be accounted for. *)
MayRecordNotSentUnproved(i) ==
    /\ i \in DemoAuto
    /\ state[i] \in {"SUBMITTING", "UNCERTAIN"}
    /\ ~BrokerEvidence(i)

MayRecordNotSent(i) ==
    /\ i \in DemoAuto
    /\ state[i] \in {"SUBMITTING", "UNCERTAIN"}
    /\ ~BrokerEvidence(i)
    /\ "FINAL_SUBMISSION_GUARD" \in receipts[i] => "SUBMISSION_LEASE_NOT_CONSUMED" \in receipts[i]

RecordSubmissionNotSent(i) ==
    /\ MayRecordNotSent(i)
    /\ receipts' = [receipts EXCEPT ![i] = @ \cup {"SUBMISSION_NOT_SENT"}]
    /\ state' = [state EXCEPT ![i] = "REJECTED"]
    /\ UNCHANGED <<filled, posTicket, evidence, reservedOn, slease, minted, controlVars>>

NoSendBoundary(i) ==
    \/ "FINAL_SUBMISSION_GUARD" \notin receipts[i]
    \/ "SUBMISSION_LEASE_NOT_CONSUMED" \in receipts[i]

AbortableStates == {"PREFLIGHT_PASSED", "SUBMITTING", "UNCERTAIN"}

Settlement(i) ==
    IF "SUBMISSION_NOT_SENT" \in receipts[i]
    THEN IF ~BrokerEvidence(i) /\ state[i] = "REJECTED" THEN "ABORTED_BEFORE_SEND" ELSE "ERROR"
    ELSE IF NoSendBoundary(i)
    THEN IF /\ ~BrokerEvidence(i)
            /\ state[i] \in AbortableStates \cup {"RISK_REJECTED", "REJECTED", "EXPIRED"}
         THEN "ABORTED_BEFORE_SEND" ELSE "ERROR"
    ELSE IF state[i] \in {"SUBMITTING", "UNCERTAIN"} THEN "RECONCILIATION_REQUIRED"
    ELSE IF "RECONCILIATION_RECEIPT" \in receipts[i] THEN "RECONCILED"
    ELSE IF "EXECUTION_RECEIPT" \in receipts[i] THEN "COMPLETED"
    ELSE "RECONCILIATION_REQUIRED"

CanSettle(i) == i \in DemoAuto /\ state[i] # "ABSENT" /\ Settlement(i) # "ERROR"

(* Mutant: the abort proof is minted without making the intent terminal. *)
StateAfterSettlementKept(i) == state[i]

StateAfterSettlement(i) ==
    IF Settlement(i) = "ABORTED_BEFORE_SEND" /\ state[i] \in AbortableStates
    THEN "REJECTED" ELSE state[i]

DemoAutoDispatchSettlement(i) ==
    /\ CanSettle(i)
    /\ state' = [state EXCEPT ![i] = StateAfterSettlement(i)]
    /\ minted' = [minted EXCEPT ![i] = @ \cup {Settlement(i)}]
    /\ UNCHANGED <<filled, posTicket, evidence, reservedOn, receipts, slease, controlVars>>

-----------------------------------------------------------------------------
(* The executor lease and the kill switch.                                  *)

MayClaim(p) == lease.owner \in {"none", p} \/ ~lease.live

ClaimExecutor(p) ==
    /\ MayClaim(p) /\ lease.token < MaxToken
    /\ lease' = [owner |-> p, token |-> lease.token + 1, live |-> TRUE]
    /\ UNCHANGED <<intentVars, sendVars, kill, resetAuth, day>>

(* The clock passes the lease's expiry. *)
LeaseExpires ==
    /\ lease.live
    /\ lease' = [lease EXCEPT !.live = FALSE]
    /\ UNCHANGED <<intentVars, sendVars, kill, resetAuth, day>>

(* Latching again moves latched_at.  The counter saturates at MaxLatch, for *)
(* which no authorization is issued, so a latch is never refused.           *)
Latched == [latched |-> TRUE, at |-> IF kill.at < MaxLatch THEN kill.at + 1 ELSE kill.at]

LatchKillSwitch ==
    /\ kill' = Latched
    /\ UNCHANGED <<intentVars, sendVars, lease, resetAuth, day>>

(* Two approvers sign a reset permit for the latch they looked at. *)
IssueResetAuthorization ==
    /\ kill.latched /\ kill.at < MaxLatch
    /\ resetAuth' = resetAuth \cup {kill.at}
    /\ UNCHANGED <<intentVars, sendVars, lease, kill, day>>

MayReset == kill.latched /\ kill.at \in resetAuth

ResetKillSwitch ==
    /\ MayReset
    /\ kill' = [kill EXCEPT !.latched = FALSE]
    /\ UNCHANGED <<intentVars, sendVars, lease, resetAuth, day>>

NextDay ==
    /\ day < MaxDay
    /\ day' = day + 1
    /\ UNCHANGED <<intentVars, sendVars, lease, kill, resetAuth>>

-----------------------------------------------------------------------------
ExecutionTargets == {"ACKNOWLEDGED", "PARTIAL", "FILLED", "REJECTED", "UNCERTAIN"}

(* A transition or a reconciliation that expects another state than the     *)
(* present one is refused, and a transition to the present one is a no-op.  *)
IntentStep(i) ==
    \/ CreateIntent(i)
    \/ RecordLockedDemoAutoPreparation(i)
    \/ RecordDemoAutoSafeLoss(i)
    \/ \E s \in ExecutionStates \cap {state[i]} : \E t \in AllowedTransitions(s) : Transition(i, s, t)
    \/ \E w \in Procs \cup {"denied"} : RecordRiskDecision(i, w)
    \/ \E w \in Procs \cup {"denied"} : RecordMt5Preflight(i, w)

SubmissionStep(i) ==
    \/ \E p \in Procs : AuthorizeSubmissionEvidence(i, p)
    \/ \E p \in Procs, tok \in 1..MaxToken, d \in StampDays :
          ReserveSubmission(i, p, tok, d) \/ FinalSubmissionGuard(i, p, tok, d)
    \/ ConsumeLease(i)
    \/ ReleaseUnusedLease(i)
    \/ LoseLease(i)

OutcomeStep(i) ==
    \/ \E t \in ExecutionTargets, v \in 0..Lot : RecordExecutionReceipt(i, t, v)
    \/ \E s \in ExecutionStates \cap {state[i]}, t \in ReconciliationTargets, v \in 0..Lot :
          ApplyReconciliation(i, s, t, v)
    \/ RecordSubmissionNotSent(i)
    \/ DemoAutoDispatchSettlement(i)

ControlStep ==
    \/ \E p \in Procs : ClaimExecutor(p)
    \/ LeaseExpires
    \/ LatchKillSwitch
    \/ IssueResetAuthorization
    \/ ResetKillSwitch
    \/ NextDay

JournalNext ==
    \/ \E i \in Intents : IntentStep(i) \/ SubmissionStep(i) \/ OutcomeStep(i)
    \/ ControlStep

JournalSpec == JournalInit /\ [][JournalNext]_jvars

-----------------------------------------------------------------------------
(* Properties.                                                              *)

(* Every journal column holds a value of its type. *)
JournalTypeOK ==
    /\ state \in [Intents -> ExecutionStates \cup {"ABSENT"}]
    /\ filled \in [Intents -> 0..Lot]
    /\ posTicket \subseteq Intents
    /\ evidence \in [Intents -> [risk : Procs \cup {"none", "denied"},
                                 preflight : Procs \cup {"none", "denied"},
                                 guard : Procs \cup {"none", "denied"}]]
    /\ reservedOn \in [Intents -> 0..MaxDay]
    /\ receipts \in [Intents -> SUBSET BoundaryReceipts]
    /\ slease \in [Intents -> [st : {"none", "active", "used", "dead"},
                               by : Procs \cup {"none"}, token : 0..MaxToken]]
    /\ minted \in [Intents -> SUBSET SettlementStates]
    /\ lease \in [owner : Procs \cup {"none"}, token : 0..MaxToken, live : BOOLEAN]
    /\ kill \in [latched : BOOLEAN, at : 0..MaxLatch]
    /\ resetAuth \subseteq 0..MaxLatch
    /\ day \in 1..MaxDay

(* One position globally: at most one intent is in a state that may stand  *)
(* for broker exposure, whatever the callers do (GLOBAL_EXPOSURE_STATES).   *)
SingleExposure ==
    \A i, j \in Intents :
        state[i] \in GlobalExposureStates /\ state[j] \in GlobalExposureStates => i = j

(* No UTC day collects more SUBMITTING transitions than                    *)
(* MAX_DAILY_SUBMISSIONS, even when a reservation that read the clock       *)
(* before midnight commits after it.                                       *)
DailyLimit == \A d \in 1..MaxDay : SubmittedOn(d) <= MaxDaily

(* A decision backs at most one durable intent: a tombstone, a locked       *)
(* preparation and an executable intent exclude each other.                 *)
DecisionBoundOnce ==
    \A i, j \in Intents :
        DecisionOf[i] = DecisionOf[j] /\ state[i] # "ABSENT" /\ state[j] # "ABSENT" => i = j

(* A durable "nothing was sent" (SUBMISSION_LEASE_NOT_CONSUMED or           *)
(* SUBMISSION_NOT_SENT) is true and stays true: the lease of that intent    *)
(* was never consumed, and a NOT_SENT intent is REJECTED without any broker *)
(* evidence.                                                                *)
NotSentIsTrue ==
    \A i \in Intents :
        /\ receipts[i] \cap {"SUBMISSION_LEASE_NOT_CONSUMED", "SUBMISSION_NOT_SENT"} # {}
              => slease[i].st # "used"
        /\ "SUBMISSION_NOT_SENT" \in receipts[i] => state[i] = "REJECTED" /\ ~BrokerEvidence(i)

(* An ABORTED_BEFORE_SEND proof cannot race a later submission: once it is  *)
(* minted the intent is terminal and its lease is never consumed; COMPLETED *)
(* and RECONCILED proofs are minted only for intents past the final guard.  *)
SettlementProofsAreTrue ==
    \A i \in Intents :
        /\ "ABORTED_BEFORE_SEND" \in minted[i]
              => state[i] \in {"RISK_REJECTED", "REJECTED", "EXPIRED"} /\ slease[i].st # "used"
        /\ minted[i] \cap {"COMPLETED", "RECONCILED"} # {}
              => /\ "FINAL_SUBMISSION_GUARD" \in receipts[i]
                 /\ "ABORTED_BEFORE_SEND" \notin minted[i]

(* An intent whose lease was consumed is released only on broker evidence:  *)
(* REJECTED by an execution receipt, or CLOSED by reconciliation with the   *)
(* filled volume accounted for.  Until then it blocks other submissions.    *)
SentIsReleasedOnEvidence ==
    \A i \in Intents :
        slease[i].st = "used" =>
            \/ state[i] \in GlobalExposureStates
            \/ state[i] = "REJECTED" /\ "EXECUTION_RECEIPT" \in receipts[i]
            \/ /\ state[i] = "CLOSED" /\ "RECONCILIATION_RECEIPT" \in receipts[i]
               /\ filled[i] > 0

(* Two-person reset: a latch is only ever cleared by an authorization that  *)
(* was issued for that very latch, so a latch raised after the approvers    *)
(* signed survives their reset.                                             *)
ResetMatchesLatch ==
    [][kill.latched /\ ~kill'.latched => kill.at \in resetAuth]_jvars

(* Terminal states are absorbing and their broker facts are frozen.         *)
TerminalIsFinal ==
    [][\A i \in Intents : state[i] \in TerminalStates =>
          state'[i] = state[i] /\ filled'[i] = filled[i] /\ receipts'[i] = receipts[i]]_jvars
=============================================================================
