------------------------ MODULE BrokerExposureProofs ------------------------
EXTENDS ExecutionRuntimeProofs
(***************************************************************************)
(* What the journal says of the broker.  ExposureInvariant ties the        *)
(* journal to the broker: a sent intent leaves the exposure states only as *)
(* REJECTED or CLOSED, and only on what the broker said of it, which no    *)
(* later broker step takes back.  FillInvariant ties recorded volumes to   *)
(* the broker's fills through the answers and the reads they came by.      *)
(***************************************************************************)

(* The journal knows of every exposure.  An intent that was sent leaves the *)
(* exposure states only as REJECTED or CLOSED (SendBoundary), so what is    *)
(* left to show is that these two are true of the broker.                   *)

(* A position is closed when nothing of its volume is left, and only what   *)
(* was opened has exits.                                                    *)
PositionSound(b) ==
    /\ b.st = "open" => b.closed < b.vol
    /\ b.closed > 0 => b.st \in {"open", "closed"}

(* The journal released an intent only when the broker was done with it. *)
ReleaseTrue(i) ==
    /\ state[i] = "REJECTED" /\ slease[i].st = "used" => broker[i].st = "rejected"
    /\ state[i] = "CLOSED" => broker[i].st = "closed"

(* An answer about to be recorded as REJECTED is final. *)
AnswerTrue(p) ==
    ex[p].pc = "record" /\ ex[p].ret.t = "REJECTED" => broker[ex[p].cur].st = "rejected"

(* What a reconciliation cycle read: exits come from a position, and exits  *)
(* without a position read later mean that it is closed.                    *)
CycleTrue(i) ==
    /\ rc.pc \in {"orders", "positions", "deals"} /\ rc.deals[i] > 0 =>
          broker[i].st \in {"open", "closed"}
    /\ rc.pc = "deals" /\ rc.deals[i] > 0 /\ rc.pos[i] = 0 => broker[i].st = "closed"
    /\ rc.pc = "apply" /\ i \in DOMAIN rc.recs =>
          (rc.recs[i].exits > 0 /\ rc.recs[i].pos = 0 => broker[i].st = "closed")

Truthful(i) == PositionSound(broker[i]) /\ ReleaseTrue(i) /\ CycleTrue(i)

ExposureInvariant ==
    /\ RuntimeInvariant
    /\ \A i \in Intents : Truthful(i)
    /\ \A p \in Procs : AnswerTrue(p)

(* The step releases no intent: what is REJECTED after its lease was        *)
(* consumed, or CLOSED, was so before.                                      *)
NoRelease ==
    \A i \in Intents :
        /\ state'[i] = "REJECTED" /\ slease'[i].st = "used" =>
              state[i] = "REJECTED" /\ slease[i].st = "used"
        /\ state'[i] = "CLOSED" => state[i] = "CLOSED"

(* The journal's operations that change neither a state nor a lease. *)
LEMMA SteadyReleasesNone ==
    ASSUME UNCHANGED <<state, slease>>
    PROVE  NoRelease
  BY DEF NoRelease

(* An operation that moves one intent to a state other than the two. *)
LEMMA MovedReleasesNone ==
    ASSUME JournalTypeOK, NEW i \in Intents, NEW s, state' = [state EXCEPT ![i] = s], slease' = slease,
           s = "REJECTED" /\ slease[i].st = "used" => state[i] = "REJECTED",
           s = "CLOSED" => state[i] = "CLOSED"
    PROVE  NoRelease
  <1>1. state'[i] = s /\ \A j \in Intents \ {i} : state'[j] = state[j]
    BY DEF JournalTypeOK
  <1> QED
    BY Zenon, <1>1 DEF NoRelease

(* create_intent inserts a CREATED row. *)
LEMMA CreateReleasesNone ==
    ASSUME JournalTypeOK, NEW i \in Intents, CreateIntent(i)
    PROVE  NoRelease
  <1>1. state' = [state EXCEPT ![i] = "CREATED"] /\ slease' = slease
    BY Zenon DEF CreateIntent, InsertIntent, sendVars
  <1> QED
    BY Zenon, <1>1, MovedReleasesNone

(* transition refuses to reject an exposed intent, and to close any. *)
LEMMA TransitionReleasesNone ==
    ASSUME SendInv, NEW i \in Intents, NEW s, NEW t, Transition(i, s, t)
    PROVE  NoRelease
  <1>1. state' = [state EXCEPT ![i] = t] /\ slease' = slease
    BY Zenon DEF Transition, sendVars
  <1>2. t # "CLOSED" /\ t \in AllowedTransitions(state[i]) \cup {state[i]}
    BY DEF Transition, MayTransition, BrokerConclusiveTargets
  <1>3. t = "REJECTED" => state[i] \notin GlobalExposureStates
    BY Zenon DEF Transition, MayTransition
  <1>4. state[i] = "CLOSED" => AllowedTransitions(state[i]) = {}
    BY DEF AllowedTransitions
  <1>5. t = "REJECTED" /\ slease[i].st = "used" => state[i] = "REJECTED"
    BY <1>2, <1>3, <1>4, UsedStates
  <1> QED
    BY Zenon, <1>1, <1>2, <1>5, MovedReleasesNone DEF SendInv

(* reserve_submission makes the intent SUBMITTING. *)
LEMMA ReserveReleasesNone ==
    ASSUME JournalTypeOK, NEW i \in Intents, NEW p, NEW k, NEW d, ReserveSubmission(i, p, k, d)
    PROVE  NoRelease
  <1>1. state' = [state EXCEPT ![i] = "SUBMITTING"] /\ slease' = slease
    BY Zenon DEF ReserveSubmission, sendVars
  <1> QED
    BY Zenon, <1>1, MovedReleasesNone

(* An operation on one lease changes no state. *)
LEMMA LeasedReleasesNone ==
    ASSUME JournalTypeOK, NEW i \in Intents, NEW r, slease' = [slease EXCEPT ![i] = r], state' = state,
           r.st = "used" => state[i] = "SUBMITTING"
    PROVE  NoRelease
  <1>1. slease'[i] = r /\ \A j \in Intents \ {i} : slease'[j] = slease[j]
    BY DEF JournalTypeOK
  <1>2. ASSUME NEW j \in Intents, state'[j] = "REJECTED", slease'[j].st = "used"
        PROVE  state[j] = "REJECTED" /\ slease[j].st = "used"
    BY <1>1, <1>2
  <1> QED
    BY Zenon, <1>2 DEF NoRelease

(* The final guard hands out an active lease. *)
LEMMA GuardReleasesNone ==
    ASSUME JournalTypeOK, NEW i \in Intents, NEW p, NEW k, NEW d, FinalSubmissionGuard(i, p, k, d)
    PROVE  NoRelease
  <1> DEFINE r == [st |-> "active", by |-> p, token |-> k]
  <1>1. slease' = [slease EXCEPT ![i] = r] /\ state' = state
    BY Zenon DEF FinalSubmissionGuard, intentVars
  <1>2. r.st # "used"
    OBVIOUS
  <1> HIDE DEF r
  <1> QED
    BY Zenon, <1>1, <1>2, LeasedReleasesNone

(* A lease is consumed while its intent is SUBMITTING; releasing or losing  *)
(* it leaves it dead.                                                       *)
LEMMA LeaseReleasesNone ==
    ASSUME JournalTypeOK, NEW i \in Intents, ConsumeLease(i) \/ ReleaseUnusedLease(i) \/ LoseLease(i)
    PROVE  NoRelease
  <1>0. slease[i] \in [st : {"none", "active", "used", "dead"}, by : Procs \cup {"none"}, token : 0..MaxToken]
    BY DEF JournalTypeOK
  <1>1. CASE ConsumeLease(i)
    <2> DEFINE r == [slease[i] EXCEPT !.st = "used"]
    <2>1. slease' = [slease EXCEPT ![i] = r] /\ state' = state
      BY Zenon, <1>1 DEF ConsumeLease, intentVars
    <2>2. state[i] = "SUBMITTING"
      BY Zenon, <1>1 DEF ConsumeLease, MayConsume, AssertFinalSubmissionState
    <2> HIDE DEF r
    <2> QED
      BY Zenon, <2>1, <2>2, LeasedReleasesNone
  <1>2. CASE ReleaseUnusedLease(i) \/ LoseLease(i)
    <2> DEFINE r == [slease[i] EXCEPT !.st = "dead"]
    <2>1. slease' = [slease EXCEPT ![i] = r] /\ state' = state
      BY Zenon, <1>2 DEF ReleaseUnusedLease, LoseLease, intentVars
    <2>2. r.st # "used"
      BY <1>0
    <2> HIDE DEF r
    <2> QED
      BY Zenon, <2>1, <2>2, LeasedReleasesNone
  <1> QED
    BY <1>1, <1>2

(* record_submission_not_sent rejects an intent whose lease, if it ever had *)
(* one, was not consumed.                                                   *)
LEMMA NotSentReleasesNone ==
    ASSUME SendInv, NEW i \in Intents, RecordSubmissionNotSent(i)
    PROVE  NoRelease
  <1>1. state' = [state EXCEPT ![i] = "REJECTED"] /\ slease' = slease
    BY Zenon DEF RecordSubmissionNotSent
  <1>2. slease[i].st # "used"
    <2>1. Guarded(i) => Unconsumed(i)
      BY Zenon DEF RecordSubmissionNotSent, MayRecordNotSent, Guarded, Unconsumed
    <2>2. SendBoundary(i)
      BY Zenon DEF SendInv
    <2> QED
      BY <2>1, <2>2 DEF SendBoundary
  <1> QED
    BY Zenon, <1>1, <1>2, MovedReleasesNone DEF SendInv

(* A settlement rejects only an intent whose lease was not consumed. *)
LEMMA SettlementReleasesNone ==
    ASSUME SendInv, NEW i \in Intents, DemoAutoDispatchSettlement(i)
    PROVE  NoRelease
  <1> DEFINE s == StateAfterSettlement(i)
  <1>1. state' = [state EXCEPT ![i] = s] /\ slease' = slease
    BY Zenon DEF DemoAutoDispatchSettlement
  <1>2. SendBoundary(i)
    BY Zenon DEF SendInv
  <1>3. CASE s = state[i]
    BY Zenon, <1>1, <1>3, MovedReleasesNone DEF SendInv
  <1>4. CASE s # state[i]
    <2>1. s = "REJECTED" /\ Settlement(i) = "ABORTED_BEFORE_SEND" /\ state[i] \in AbortableStates
      BY Zenon, <1>4 DEF StateAfterSettlement
    <2>2. SaidNotSent(i) => state[i] = "REJECTED"
      BY Zenon, <1>2 DEF SendBoundary
    <2>3. ~SaidNotSent(i)
      BY <2>1, <2>2 DEF AbortableStates
    <2>4. NoSendBoundary(i)
      BY Zenon, <2>1, <2>3 DEF Settlement, SaidNotSent
    <2>5. slease[i].st # "used"
      BY <1>2, <2>4 DEF NoSendBoundary, SendBoundary, Guarded, Unconsumed
    <2>6. s # "CLOSED"
      BY <2>1
    <2> HIDE DEF s
    <2> QED
      BY Zenon, <1>1, <2>5, <2>6, MovedReleasesNone DEF SendInv
  <1> QED
    BY <1>3, <1>4

-----------------------------------------------------------------------------
(* Most steps release nothing, leave broker and cycle alone and bring no    *)
(* process to an answer.                                                    *)

NoAnswer == \A q \in Procs : ex'[q].pc = "record" => ex'[q] = ex[q]

Discreet == NoRelease /\ NoAnswer /\ UNCHANGED <<broker, rc>>

(* The journal's own ways of leaving states and leases alone. *)
LEMMA SteadyOperations ==
    ASSUME \/ UNCHANGED jvars \/ LatchKillSwitch \/ LeaseExpires \/ IssueResetAuthorization
           \/ ResetKillSwitch \/ NextDay \/ \E p \in Procs : ClaimExecutor(p)
    PROVE  NoRelease
  <1>1. UNCHANGED <<state, slease>>
    BY DEF LatchKillSwitch, LeaseExpires, IssueResetAuthorization, ResetKillSwitch, NextDay,
           ClaimExecutor, jvars, intentVars, sendVars
  <1> QED
    BY <1>1, SteadyReleasesNone

(* Evidence receipts are written next to the intent's row. *)
LEMMA EvidenceReleasesNone ==
    ASSUME NEW i, NEW w,
           RecordRiskDecision(i, w) \/ RecordMt5Preflight(i, w) \/ AuthorizeSubmissionEvidence(i, w)
    PROVE  NoRelease
  <1>1. UNCHANGED <<state, slease>>
    BY DEF RecordRiskDecision, RecordMt5Preflight, AuthorizeSubmissionEvidence, sendVars
  <1> QED
    BY <1>1, SteadyReleasesNone

(* One process moves to a label other than the one that records an answer. *)
LEMMA MovesNoAnswer ==
    ASSUME NEW p \in Procs, NEW l, NEW c, Moves(p, l, c), l # "record"
    PROVE  NoAnswer
  BY Zenon DEF Moves, NoAnswer

(* A quiet step that releases nothing is discreet. *)
LEMMA QuietDiscreet ==
    ASSUME NEW p \in Procs, Quiet(p), NoRelease
    PROVE  Discreet
  <1>1. PICK l \in Plain, c \in Intents \cup {"none"} : Moves(p, l, c)
    BY Zenon DEF Quiet
  <1>2. l # "record"
    BY DEF Plain
  <1> QED
    BY Zenon, <1>1, <1>2, MovesNoAnswer DEF Discreet, Quiet

(* Every quiet step but the recording of an answer is discreet. *)
LEMMA QuietStepsDiscreet ==
    ASSUME RuntimeInvariant, NEW p \in Procs,
           \/ Boot(p) \/ Recovered(p) \/ Claim(p) \/ (\E i \in Intents : Begin(p, i))
           \/ Create(p) \/ Safety(p) \/ Reject(p) \/ CheckFails(p) \/ Risk(p) \/ LossStop(p)
           \/ Approve(p) \/ Preflight(p) \/ Pass(p) \/ SubmissionGuard(p) \/ Authorize(p)
           \/ Reserve(p) \/ Mint(p) \/ Slippage(p) \/ Uncertain(p) \/ NotSent(p)
    PROVE  Discreet
  <1>0. SendInv /\ JournalTypeOK
    BY Zenon DEF RuntimeInvariant, SendInv
  <1>1. Quiet(p)
    BY Zenon, StartQuiet, CreateQuiet, PrepareQuiet, SubmitQuiet
  <1>2. CASE \/ Boot(p) \/ Recovered(p) \/ Claim(p) \/ (\E i \in Intents : Begin(p, i))
             \/ Safety(p) \/ CheckFails(p) \/ LossStop(p) \/ SubmissionGuard(p) \/ Mint(p) \/ Slippage(p)
    <2>1. NoRelease
      BY Zenon, <1>2, SteadyOperations
         DEF Boot, Recovered, Claim, Begin, Safety, CheckFails, LossStop, SubmissionGuard, Mint, Slippage
    <2> QED
      BY Zenon, <1>1, <2>1, QuietDiscreet
  <1>3. CASE Risk(p) \/ Preflight(p) \/ Authorize(p)
    <2>1. NoRelease
      BY Zenon, <1>3, EvidenceReleasesNone, SteadyOperations DEF Risk, Preflight, Authorize
    <2> QED
      BY Zenon, <1>1, <2>1, QuietDiscreet
  <1>4. CASE Create(p) \/ Reject(p) \/ Approve(p) \/ Pass(p) \/ Reserve(p) \/ Uncertain(p) \/ NotSent(p)
    <2>1. Cur(p) \in Intents
      <3>1. ex[p].pc \notin Free
        BY <1>4 DEF Create, Reject, Approve, Pass, Reserve, Uncertain, NotSent, At, Free
      <3> QED
        BY <3>1, Busy
    <2>2. CASE Create(p)
      <3>1. CreateIntent(Cur(p)) \/ UNCHANGED jvars
        BY Zenon, <2>2 DEF Create
      <3>2. NoRelease
        BY Zenon, <1>0, <2>1, <3>1, CreateReleasesNone, SteadyOperations
      <3> QED
        BY Zenon, <1>1, <3>2, QuietDiscreet
    <2>3. CASE Reject(p) \/ Approve(p) \/ Pass(p) \/ Uncertain(p)
      <3>1. (\E s, t : Transition(Cur(p), s, t)) \/ UNCHANGED jvars
        BY Zenon, <2>3 DEF Reject, Approve, Pass, Uncertain, Advance
      <3>2. NoRelease
        BY Zenon, <1>0, <2>1, <3>1, TransitionReleasesNone, SteadyOperations
      <3> QED
        BY Zenon, <1>1, <3>2, QuietDiscreet
    <2>4. CASE Reserve(p)
      <3>1. (\E d : ReserveSubmission(Cur(p), p, ex[p].tok, d)) \/ UNCHANGED jvars
        BY Zenon, <2>4 DEF Reserve
      <3>2. NoRelease
        BY Zenon, <1>0, <2>1, <3>1, ReserveReleasesNone, SteadyOperations
      <3> QED
        BY Zenon, <1>1, <3>2, QuietDiscreet
    <2>5. CASE NotSent(p)
      <3>1. RecordSubmissionNotSent(Cur(p)) \/ UNCHANGED jvars
        BY Zenon, <2>5 DEF NotSent
      <3>2. NoRelease
        BY Zenon, <1>0, <2>1, <3>1, NotSentReleasesNone, SteadyOperations
      <3> QED
        BY Zenon, <1>1, <3>2, QuietDiscreet
    <2> QED
      BY Zenon, <1>4, <2>2, <2>3, <2>4, <2>5
  <1> QED
    BY Zenon, <1>2, <1>3, <1>4

(* A process that goes on at another label, or returns, holds no answer. *)
LEMMA GoesNoAnswer ==
    ASSUME RuntimeInvariant, NEW p \in Procs,
           \/ \E l \in Labels \ {"record"} : Goto(p, l)
           \/ Return(p)
           \/ ex' = [ex EXCEPT ![p] = Down]
    PROVE  NoAnswer
  <1>0. ExTyped
    BY Zenon DEF RuntimeInvariant
  <1>1. ASSUME NEW l \in Labels \ {"record"}, Goto(p, l) PROVE NoAnswer
    BY <1>0, <1>1, GotoMoves, MovesNoAnswer
  <1>2. CASE Return(p)
    BY <1>0, <1>2, ReturnMoves, MovesNoAnswer
  <1>3. CASE ex' = [ex EXCEPT ![p] = Down]
    <2>1. Moves(p, Down.pc, Down.cur)
      BY Zenon, <1>0, <1>3, DownTyped, PutMoves
    <2>2. Down.pc # "record"
      BY DownTyped
    <2> QED
      BY Zenon, <2>1, <2>2, MovesNoAnswer
  <1> QED
    BY Zenon, <1>1, <1>2, <1>3

(* After the settlement the call returns or checks the slippage. *)
LEMMA AfterSettlingNoAnswer ==
    ASSUME RuntimeInvariant, NEW p \in Procs, AfterSettling(p)
    PROVE  NoAnswer
  <1>1. "slippage" \in Labels \ {"record"}
    BY DEF Labels
  <1>2. Return(p) \/ Goto(p, "slippage")
    BY Zenon DEF AfterSettling
  <1> QED
    BY Zenon, <1>1, <1>2, GoesNoAnswer

(* Recovery mints a settlement, or stops. *)
LEMMA RecoverMintDiscreet ==
    ASSUME RuntimeInvariant, NEW p \in Procs, RecoverMint(p)
    PROVE  Discreet
  <1>0. SendInv /\ ExTyped /\ ExOnly /\ ex[p].todo \subseteq Intents
    BY Zenon DEF RuntimeInvariant, RecoverMint, ExTyped, ExRecord
  <1>1. PICK i \in ex[p].todo :
          \/ DemoAutoDispatchSettlement(i) /\ Holding(p, "recover_apply", i, Settlement(i))
          \/ UNCHANGED jvars /\ ex' = [ex EXCEPT ![p] = Down]
    BY Zenon DEF RecoverMint, Holding
  <1>2. i \in Intents
    BY <1>0
  <1>3. NoRelease
    BY Zenon, <1>0, <1>1, <1>2, SettlementReleasesNone, SteadyOperations
  <1>4. CASE DemoAutoDispatchSettlement(i) /\ Holding(p, "recover_apply", i, Settlement(i))
    <2>1. Settlement(i) \in SettlementStates
      BY Zenon, <1>2, <1>4, MintingIsJournal
    <2>2. "recover_apply" \in Labels
      BY DEF Labels
    <2>3. Moves(p, "recover_apply", i)
      BY Zenon, <1>0, <1>2, <1>4, <2>1, <2>2, HoldingMoves
    <2>4. NoAnswer
      BY <2>3, MovesNoAnswer
    <2> QED
      BY Zenon, <1>0, <1>3, <2>4 DEF Discreet, ExOnly
  <1>5. CASE ex' = [ex EXCEPT ![p] = Down]
    BY Zenon, <1>0, <1>3, <1>5, GoesNoAnswer DEF Discreet, ExOnly
  <1> QED
    BY Zenon, <1>1, <1>4, <1>5

(* Recovery applies a proof to the session store, or stops. *)
LEMMA RecoverApplyDiscreet ==
    ASSUME RuntimeInvariant, NEW p \in Procs, RecoverApply(p)
    PROVE  Discreet
  <1>1. NoRelease /\ UNCHANGED <<broker, rc>>
    BY Zenon, SteadyOperations DEF RecoverApply
  <1>2. Applied(p) \/ ex' = [ex EXCEPT ![p] = Down]
    BY Zenon DEF RecoverApply, Applied
  <1>3. CASE Applied(p)
    <2>1. Moves(p, "recover", "none")
      BY Zenon, <1>3, AppliedMoves DEF RuntimeInvariant
    <2>2. NoAnswer
      BY <2>1, MovesNoAnswer
    <2> QED
      BY Zenon, <1>1, <2>2 DEF Discreet
  <1>4. CASE ex' = [ex EXCEPT ![p] = Down]
    BY Zenon, <1>1, <1>4, GoesNoAnswer DEF Discreet
  <1> QED
    BY <1>2, <1>3, <1>4

(* The dispatch is settled: a proof is minted, or the kill switch latched. *)
LEMMA SettleDiscreet ==
    ASSUME RuntimeInvariant, NEW p \in Procs, Settle(p)
    PROVE  Discreet
  <1>0. SendInv /\ ExTyped /\ ExOnly /\ ex[p].pc = "settle"
    BY Zenon DEF RuntimeInvariant, Settle, At
  <1>1. Cur(p) \in Intents /\ ex[p].pc \notin Free
    BY <1>0, Busy DEF Free
  <1>2. \/ DemoAutoDispatchSettlement(Cur(p)) /\ Proven(p, "apply", Settlement(Cur(p)))
        \/ LatchKillSwitch /\ AfterSettling(p)
    BY Zenon DEF Settle, Proven
  <1>3. NoRelease
    BY Zenon, <1>0, <1>1, <1>2, SettlementReleasesNone, SteadyOperations
  <1>4. CASE DemoAutoDispatchSettlement(Cur(p)) /\ Proven(p, "apply", Settlement(Cur(p)))
    <2>1. Settlement(Cur(p)) \in SettlementStates
      BY Zenon, <1>1, <1>4, MintingIsJournal
    <2>2. "apply" \in Labels
      BY DEF Labels
    <2>3. Moves(p, "apply", Cur(p))
      BY Zenon, <1>0, <1>4, <2>1, <2>2, ProvenMoves
    <2>4. NoAnswer
      BY <2>3, MovesNoAnswer
    <2> QED
      BY Zenon, <1>0, <1>3, <2>4 DEF Discreet, ExOnly
  <1>5. CASE AfterSettling(p)
    <2>1. NoAnswer
      BY Zenon, <1>5, <1>1, AfterSettlingNoAnswer
    <2> QED
      BY Zenon, <1>0, <1>3, <2>1 DEF Discreet, ExOnly
  <1> QED
    BY Zenon, <1>2, <1>4, <1>5

(* The proof is applied, or the kill switch latched. *)
LEMMA ApplyDiscreet ==
    ASSUME RuntimeInvariant, NEW p \in Procs, Apply(p)
    PROVE  Discreet
  <1>1. NoRelease /\ UNCHANGED <<broker, rc>>
    BY Zenon, SteadyOperations DEF Apply
  <1>2. AfterSettling(p)
    BY Zenon DEF Apply
  <1> QED
    BY Zenon, <1>1, <1>2, AfterSettlingNoAnswer DEF Discreet

(* The dispatch reservation. *)
LEMMA DispatchDiscreet ==
    ASSUME RuntimeInvariant, NEW p \in Procs, Dispatch(p) \/ VerifySend(p)
    PROVE  Discreet
  <1>1. NoRelease /\ UNCHANGED <<broker, rc>>
    BY Zenon, SteadyOperations DEF Dispatch, VerifySend, ExOnly
  <1>2. \E l \in Labels \ {"record"} : Goto(p, l)
    BY DEF Dispatch, VerifySend, Labels
  <1> QED
    BY Zenon, <1>1, <1>2, GoesNoAnswer DEF Discreet

(* The final guard and the lease. *)
LEMMA BoundaryDiscreet ==
    ASSUME RuntimeInvariant, NEW p \in Procs, FinalGuard(p) \/ Consume(p) \/ SubmitRefused(p)
    PROVE  Discreet
  <1>0. JournalTypeOK /\ ExOnly
    BY Zenon DEF RuntimeInvariant, SendInv, FinalGuard, Consume, SubmitRefused
  <1>1. Cur(p) \in Intents
    <2>1. ex[p].pc \notin Free
      BY Zenon DEF FinalGuard, Consume, SubmitRefused, At, Free
    <2> QED
      BY Zenon, <2>1, Busy
  <1>2. NoRelease
    <2>1. \/ UNCHANGED jvars \/ \E d : FinalSubmissionGuard(Cur(p), p, ex[p].tok, d)
          \/ ConsumeLease(Cur(p)) \/ ReleaseUnusedLease(Cur(p))
      BY Zenon DEF FinalGuard, Consume, SubmitRefused
    <2> QED
      BY Zenon, <1>0, <1>1, <2>1, SteadyOperations, GuardReleasesNone, LeaseReleasesNone
  <1>3. {"submit", "not_sent", "uncertain", "sending"} \subseteq Labels \ {"record"}
    BY DEF Labels
  <1>4. \/ Goto(p, "submit") \/ Goto(p, "not_sent") \/ Goto(p, "uncertain") \/ Goto(p, "sending")
        \/ Return(p)
    <2>1. HeldBeforeSend(p) => Goto(p, "not_sent") \/ Goto(p, "uncertain")
      BY Zenon DEF HeldBeforeSend
    <2> QED
      BY Zenon, <2>1 DEF FinalGuard, Consume, SubmitRefused
  <1>5. NoAnswer
    BY Zenon, <1>3, <1>4, GoesNoAnswer
  <1> QED
    BY Zenon, <1>0, <1>2, <1>5 DEF Discreet, ExOnly

(* A process dies. *)
LEMMA CrashDiscreet ==
    ASSUME RuntimeInvariant, NEW p \in Procs, Crash(p)
    PROVE  Discreet
  <1>1. ex' = [ex EXCEPT ![p] = Down] /\ UNCHANGED <<broker, rc>>
    BY Zenon DEF Crash
  <1>2. NoRelease
    <2>1. CASE ex[p].pc \in {"submit", "adapter"}
      <3>1. ex[p].pc \notin Free
        BY <2>1 DEF Free
      <3>2. LoseLease(Cur(p)) /\ JournalTypeOK
        BY Zenon, <2>1 DEF Crash, RuntimeInvariant, SendInv
      <3> QED
        BY Zenon, <3>1, <3>2, Busy, LeaseReleasesNone
    <2>2. CASE ex[p].pc \notin {"submit", "adapter"}
      BY Zenon, <2>2, SteadyOperations DEF Crash
    <2> QED
      BY <2>1, <2>2
  <1> QED
    BY Zenon, <1>1, <1>2, GoesNoAnswer DEF Discreet

-----------------------------------------------------------------------------
(* What the broker has finished stays finished, and a position stays one    *)
(* until it is closed.                                                      *)
BrokerMoves ==
    \A i \in Intents :
        /\ PositionSound(broker'[i])
        /\ broker[i].st \in {"rejected", "closed"} => broker'[i].st = broker[i].st
        /\ broker[i].st \in {"open", "closed"} => broker'[i].st \in {"open", "closed"}

(* A broker that is left alone keeps its word. *)
LEMMA BrokerRests ==
    ASSUME ExposureInvariant, broker' = broker
    PROVE  BrokerMoves
  BY Zenon DEF ExposureInvariant, Truthful, BrokerMoves

(* Released intents stay truly released. *)
LEMMA ReleasesKept ==
    ASSUME ExposureInvariant, BrokerMoves, NoRelease, NEW i \in Intents
    PROVE  ReleaseTrue(i)'
  <1>1. ReleaseTrue(i)
    BY Zenon DEF ExposureInvariant, Truthful
  <1>2. broker[i].st \in {"rejected", "closed"} => broker'[i].st = broker[i].st
    BY Zenon DEF BrokerMoves
  <1>3. /\ state'[i] = "REJECTED" /\ slease'[i].st = "used" =>
              state[i] = "REJECTED" /\ slease[i].st = "used"
        /\ state'[i] = "CLOSED" => state[i] = "CLOSED"
    BY Zenon DEF NoRelease
  <1> QED
    BY <1>1, <1>2, <1>3 DEF ReleaseTrue

(* A cycle's reads stay true while the broker moves on. *)
LEMMA CyclesKept ==
    ASSUME ExposureInvariant, BrokerMoves, rc' = rc, NEW i \in Intents
    PROVE  CycleTrue(i)'
  <1>1. CycleTrue(i)
    BY Zenon DEF ExposureInvariant, Truthful
  <1>2. /\ broker[i].st = "closed" => broker'[i].st = "closed"
        /\ broker[i].st \in {"open", "closed"} => broker'[i].st \in {"open", "closed"}
    BY Zenon DEF BrokerMoves
  <1> QED
    BY Zenon, <1>1, <1>2 DEF CycleTrue

(* Answers that were in hand stay true. *)
LEMMA AnswersKept ==
    ASSUME ExposureInvariant, BrokerMoves, NEW p \in Procs, ex'[p].pc = "record" => ex'[p] = ex[p]
    PROVE  AnswerTrue(p)'
  <1> SUFFICES ASSUME ex'[p].pc = "record", ex'[p].ret.t = "REJECTED"
               PROVE  broker'[ex'[p].cur].st = "rejected"
    BY Zenon DEF AnswerTrue
  <1>1. ex'[p] = ex[p]
    OBVIOUS
  <1>2. ex[p].cur \in Intents
    BY Zenon, <1>1 DEF ExposureInvariant, RuntimeInvariant, Bound, Free
  <1>3. broker[ex[p].cur].st = "rejected"
    BY Zenon, <1>1 DEF ExposureInvariant, AnswerTrue
  <1> QED
    BY Zenon, <1>1, <1>2, <1>3 DEF BrokerMoves

(* The four parts of the invariant together. *)
LEMMA ExposureParts ==
    ASSUME RuntimeInvariant', BrokerMoves,
           \A i \in Intents : ReleaseTrue(i)',
           \A i \in Intents : CycleTrue(i)',
           \A p \in Procs : AnswerTrue(p)'
    PROVE  ExposureInvariant'
  BY Zenon DEF ExposureInvariant, Truthful, BrokerMoves

(* A discreet step keeps the invariant. *)
LEMMA DiscreetKeeps ==
    ASSUME ExposureInvariant, RuntimeInvariant', Discreet
    PROVE  ExposureInvariant'
  <1>1. NoRelease /\ NoAnswer /\ broker' = broker /\ rc' = rc
    BY Zenon DEF Discreet
  <1>2. BrokerMoves
    BY <1>1, BrokerRests
  <1>3. \A i \in Intents : ReleaseTrue(i)' /\ CycleTrue(i)'
    BY Zenon, <1>1, <1>2, ReleasesKept, CyclesKept
  <1>4. \A p \in Procs : AnswerTrue(p)'
    BY Zenon, <1>1, <1>2, AnswersKept DEF NoAnswer
  <1> QED
    BY Zenon, <1>2, <1>3, <1>4, ExposureParts

(* order_send is called for an intent the broker does not know. *)
LEMMA OrderSendMoves ==
    ASSUME ExposureInvariant, NEW p \in Procs, OrderSend(p)
    PROVE  BrokerMoves
  <1>1. broker' = [broker EXCEPT ![Cur(p)].st = "sent"] /\ ex[p].pc = "sending"
    BY Zenon DEF OrderSend, At
  <1>2. Cur(p) \in Intents /\ Cur(p) \notin sent
    BY <1>1 DEF ExposureInvariant, RuntimeInvariant, Bound, Free, Cur
  <1>3. broker[Cur(p)].st = "none" /\ PositionSound(broker[Cur(p)])
    BY Zenon, <1>2 DEF ExposureInvariant, RuntimeInvariant, Agrees, Truthful
  <1>4. broker \in [Intents -> BrokerRecord]
    BY Zenon DEF ExposureInvariant, RuntimeInvariant, BrokerTyped
  <1>5. broker[Cur(p)] \in BrokerRecord
    BY Zenon, <1>2, <1>4
  <1> DEFINE r == [broker[Cur(p)] EXCEPT !.st = "sent"]
  <1>6. r.st = "sent" /\ r.closed = broker[Cur(p)].closed
    BY <1>5 DEF BrokerRecord
  <1>7. broker' = [broker EXCEPT ![Cur(p)] = r]
    BY Zenon, <1>1
  <1> HIDE DEF r
  <1>8. PositionSound(r)
    BY <1>3, <1>6 DEF PositionSound
  <1>9. broker'[Cur(p)] = r /\ \A i \in Intents \ {Cur(p)} : broker'[i] = broker[i]
    BY <1>2, <1>4, <1>7
  <1>10. \A i \in Intents : PositionSound(broker[i])
    BY Zenon DEF ExposureInvariant, Truthful
  <1>11. ASSUME NEW i \in Intents
         PROVE  /\ PositionSound(broker'[i])
                /\ broker[i].st \in {"rejected", "closed"} => broker'[i].st = broker[i].st
                /\ broker[i].st \in {"open", "closed"} => broker'[i].st \in {"open", "closed"}
    <2>1. CASE i = Cur(p)
      BY <1>3, <1>8, <1>9, <2>1
    <2>2. CASE i # Cur(p)
      BY Zenon, <1>9, <1>10, <2>2
    <2> QED
      BY Zenon, <2>1, <2>2
  <1> QED
    BY Zenon, <1>11 DEF BrokerMoves

(* Calling order_send keeps the invariant. *)
LEMMA OrderSendExposes ==
    ASSUME ExposureInvariant, RuntimeInvariant', NEW p \in Procs, OrderSend(p)
    PROVE  ExposureInvariant'
  <1>1. BrokerMoves
    BY OrderSendMoves
  <1>2. NoRelease /\ rc' = rc
    BY Zenon, SteadyOperations DEF OrderSend
  <1>3. NoAnswer
    <2>1. "waiting" \in Labels \ {"record"}
      BY DEF Labels
    <2> QED
      BY Zenon, <2>1, GoesNoAnswer DEF OrderSend, ExposureInvariant
  <1>4. \A i \in Intents : ReleaseTrue(i)' /\ CycleTrue(i)'
    BY Zenon, <1>1, <1>2, ReleasesKept, CyclesKept
  <1>5. \A q \in Procs : AnswerTrue(q)'
    BY Zenon, <1>1, <1>3, AnswersKept DEF NoAnswer
  <1> QED
    BY Zenon, <1>1, <1>4, <1>5, ExposureParts

(* order_send answers REJECTED only for an order the broker rejected. *)
LEMMA RejectedAnswer ==
    ASSUME NEW b, NEW r \in ResultsOf(b), r.t = "REJECTED"
    PROVE  b.st = "rejected"
  <1> SUFFICES ASSUME b.st # "rejected" PROVE FALSE
    OBVIOUS
  <1>1. CASE b.vol = 0
    BY <1>1 DEF ResultsOf
  <1>2. CASE b.vol # 0
    BY <1>2 DEF ResultsOf
  <1> QED
    BY <1>1, <1>2

(* order_send returns, or raises. *)
LEMMA SendReturnsExposes ==
    ASSUME ExposureInvariant, RuntimeInvariant', NEW p \in Procs, SendReturns(p)
    PROVE  ExposureInvariant'
  <1>0. RuntimeInvariant /\ ExTyped /\ BrokerTyped
    BY Zenon DEF ExposureInvariant, RuntimeInvariant
  <1>1. UNCHANGED jvars /\ ExOnly /\ ex[p].pc = "waiting"
    BY Zenon DEF SendReturns, At
  <1>2. NoRelease
    BY Zenon, <1>1, SteadyOperations
  <1>3. CASE Goto(p, "uncertain")
    <2>1. "uncertain" \in Labels \ {"record"}
      BY DEF Labels
    <2>2. NoAnswer
      BY Zenon, <1>0, <1>3, <2>1, GoesNoAnswer
    <2> QED
      BY Zenon, <1>1, <1>2, <2>2, DiscreetKeeps DEF Discreet, ExOnly
  <1>4. ASSUME NEW r \in ResultsOf(broker[Cur(p)]), Answered(p, r) PROVE ExposureInvariant'
    <2>1. Cur(p) \in Intents
      BY <1>0, <1>1, Busy DEF Free
    <2>2. broker[Cur(p)] \in BrokerRecord
      BY Zenon, <1>0, <2>1 DEF BrokerTyped
    <2>3. r \in Returns
      BY Zenon, <2>2, <1>4, ResultsTyped
    <2>4. Moves(p, "record", Cur(p)) /\ ex'[p].ret = r
      BY Zenon, <1>0, <1>4, <2>3, AnsweredMoves
    <2>5. broker' = broker /\ rc' = rc
      BY Zenon, <1>1 DEF ExOnly
    <2>6. BrokerMoves
      BY Zenon, <2>5, BrokerRests
    <2>7. AnswerTrue(p)'
      BY Zenon, <1>4, <2>4, <2>5, RejectedAnswer DEF AnswerTrue, Moves
    <2>8. ASSUME NEW q \in Procs \ {p} PROVE AnswerTrue(q)'
      <3>1. ex'[q] = ex[q]
        BY Zenon, <2>4 DEF Moves
      <3> QED
        BY Zenon, <2>6, <3>1, AnswersKept
    <2>9. \A i \in Intents : ReleaseTrue(i)' /\ CycleTrue(i)'
      BY Zenon, <1>2, <2>5, <2>6, ReleasesKept, CyclesKept
    <2> QED
      BY Zenon, <2>6, <2>7, <2>8, <2>9, ExposureParts
  <1> QED
    BY Zenon, <1>3, <1>4 DEF SendReturns, Answered

(* The answer is recorded: REJECTED is then true. *)
LEMMA RecordExposes ==
    ASSUME ExposureInvariant, RuntimeInvariant', NEW p \in Procs, Record(p)
    PROVE  ExposureInvariant'
  <1>0. RuntimeInvariant /\ JournalTypeOK /\ AnswerTrue(p)
    BY Zenon DEF ExposureInvariant, RuntimeInvariant, SendInv
  <1>1. ex[p].pc = "record" /\ ExOnly
    BY Zenon DEF Record, At
  <1>2. broker' = broker /\ rc' = rc
    BY ZenonT(40), <1>1 DEF ExOnly
  <1>3. Cur(p) \in Intents /\ ex[p].ret.t \in ExecutionTargets
    BY <1>0, <1>1 DEF RuntimeInvariant, Bound, Free, Cur
  <1>4. NoAnswer
    <2>1. {"settle", "slippage"} \subseteq Labels \ {"record"}
      BY DEF Labels
    <2>2. Goto(p, "settle") \/ Goto(p, "slippage") \/ Return(p)
      BY Zenon DEF Record
    <2> QED
      BY Zenon, <1>0, <2>1, <2>2, GoesNoAnswer
  <1>5. CASE UNCHANGED jvars
    BY Zenon, <1>2, <1>4, <1>5, SteadyOperations, DiscreetKeeps DEF Discreet
  <1>6. CASE RecordExecutionReceipt(Cur(p), ex[p].ret.t, ex[p].ret.v)
    <2>1. state' = [state EXCEPT ![Cur(p)] = ex[p].ret.t] /\ slease' = slease
      BY Zenon, <1>6 DEF RecordExecutionReceipt
    <2>0. PICK c \in Intents : c = Cur(p)
      BY Zenon, <1>3
    <2>2. state'[c] = ex[p].ret.t /\ \A i \in Intents \ {c} : state'[i] = state[i]
      BY Zenon, <1>0, <2>0, <2>1 DEF JournalTypeOK
    <2>3. ReleaseTrue(c)'
      <3>1. ex[p].ret.t # "CLOSED"
        BY <1>3 DEF ExecutionTargets
      <3>2. ex[p].ret.t = "REJECTED" => broker[c].st = "rejected"
        BY Zenon, <1>0, <1>1, <2>0 DEF AnswerTrue, Cur
      <3> QED
        BY Zenon, <1>2, <2>2, <3>1, <3>2 DEF ReleaseTrue
    <2>4. ASSUME NEW i \in Intents \ {c} PROVE ReleaseTrue(i)'
      <3>1. ReleaseTrue(i)
        BY Zenon DEF ExposureInvariant, Truthful
      <3> QED
        BY Zenon, <1>2, <2>1, <2>2, <3>1 DEF ReleaseTrue
    <2>5. BrokerMoves
      BY Zenon, <1>2, BrokerRests
    <2>6. \A i \in Intents : CycleTrue(i)'
      BY Zenon, <1>2, <2>5, CyclesKept
    <2>7. \A q \in Procs : AnswerTrue(q)'
      BY Zenon, <1>4, <2>5, AnswersKept DEF NoAnswer
    <2> QED
      BY Zenon, <2>3, <2>4, <2>5, <2>6, <2>7, ExposureParts
  <1> QED
    BY Zenon, <1>5, <1>6 DEF Record

(* The executor's steps keep the invariant. *)
LEMMA ExecutorExposes ==
    ASSUME ExposureInvariant, RuntimeInvariant', NEW p \in Procs, ExecutorStep(p)
    PROVE  ExposureInvariant'
  <1>1. RuntimeInvariant
    BY Zenon DEF ExposureInvariant
  <1>2. \/ Discreet \/ OrderSend(p) \/ SendReturns(p) \/ Record(p)
    BY Zenon, <1>1, QuietStepsDiscreet, RecoverMintDiscreet, RecoverApplyDiscreet, SettleDiscreet,
       ApplyDiscreet, DispatchDiscreet, BoundaryDiscreet, CrashDiscreet DEF ExecutorStep
  <1> QED
    BY Zenon, <1>2, DiscreetKeeps, OrderSendExposes, SendReturnsExposes, RecordExposes

(* One step of the broker. *)
LEMMA BrokerStepsSound ==
    ASSUME NEW r \in BrokerRecord, PositionSound(r), NEW b \in BrokerSteps(r)
    PROVE  /\ PositionSound(b)
           /\ r.st \in {"rejected", "closed"} => b.st = r.st
           /\ r.st \in {"open", "closed"} => b.st \in {"open", "closed"}
  <1>0. r.vol \in 0..Lot /\ r.closed \in 0..Lot /\ Lot \in Nat
    BY JournalAssumption DEF BrokerRecord
  <1>1. CASE r.st = "sent"
    <2>1. b = [r EXCEPT !.st = "working"] \/ b = [r EXCEPT !.st = "rejected"]
      BY <1>1 DEF BrokerSteps
    <2>2. b.closed = r.closed /\ b.st \in {"working", "rejected"}
      BY <2>1 DEF BrokerRecord
    <2> QED
      BY <1>0, <1>1, <2>2 DEF PositionSound
  <1>2. CASE r.st = "working"
    <2>1. \/ \E w \in r.vol + 1 .. Lot : b = [r EXCEPT !.vol = w]
          \/ b = [r EXCEPT !.st = IF r.vol > 0 THEN "open" ELSE "rejected"]
      BY <1>2 DEF BrokerSteps
    <2>2. r.closed = 0
      BY <1>0, <1>2 DEF PositionSound
    <2>3. ASSUME NEW w, b = [r EXCEPT !.vol = w]
          PROVE  b.closed = r.closed /\ b.st = "working"
      BY <1>2, <2>3 DEF BrokerRecord
    <2>4. ASSUME b = [r EXCEPT !.st = IF r.vol > 0 THEN "open" ELSE "rejected"]
          PROVE  b.closed = r.closed /\ b.vol = r.vol /\ ((b.st = "open" /\ r.vol > 0) \/ b.st = "rejected")
      BY <2>4 DEF BrokerRecord
    <2> QED
      BY <1>0, <1>2, <2>1, <2>2, <2>3, <2>4 DEF PositionSound
  <1>3. CASE r.st = "open"
    <2>1. PICK w \in r.closed + 1 .. r.vol :
            b = [r EXCEPT !.closed = w, !.st = IF w = r.vol THEN "closed" ELSE "open"]
      BY Zenon, <1>3 DEF BrokerSteps
    <2>2. b.closed = w /\ b.vol = r.vol /\ b.st = IF w = r.vol THEN "closed" ELSE "open"
      BY Zenon, <2>1 DEF BrokerRecord
    <2>3. w \in Int /\ w <= r.vol
      BY <1>0, <2>1
    <2> QED
      BY <1>0, <1>3, <2>2, <2>3 DEF PositionSound
  <1>4. CASE r.st \notin {"sent", "working", "open"}
    BY Zenon, <1>4 DEF BrokerSteps
  <1> QED
    BY <1>1, <1>2, <1>3, <1>4

(* The broker's steps keep the invariant. *)
LEMMA BrokerExposes ==
    ASSUME ExposureInvariant, RuntimeInvariant', NEW i \in Intents, BrokerStep(i)
    PROVE  ExposureInvariant'
  <1>1. UNCHANGED jvars /\ ex' = ex /\ rc' = rc
    BY Zenon DEF BrokerStep
  <1>2. PICK b \in BrokerSteps(broker[i]) : broker' = [broker EXCEPT ![i] = b]
    BY Zenon DEF BrokerStep
  <1>3. broker \in [Intents -> BrokerRecord] /\ \A j \in Intents : PositionSound(broker[j])
    BY Zenon DEF ExposureInvariant, RuntimeInvariant, BrokerTyped, Truthful
  <1>4. broker'[i] = b /\ \A j \in Intents \ {i} : broker'[j] = broker[j]
    BY <1>2, <1>3
  <1>5. /\ PositionSound(b)
        /\ broker[i].st \in {"rejected", "closed"} => b.st = broker[i].st
        /\ broker[i].st \in {"open", "closed"} => b.st \in {"open", "closed"}
    BY Zenon, <1>3, BrokerStepsSound
  <1>6. BrokerMoves
    <2>1. ASSUME NEW j \in Intents \ {i} PROVE broker'[j] = broker[j] /\ PositionSound(broker'[j])
      BY Zenon, <1>3, <1>4
    <2> QED
      BY Zenon, <1>4, <1>5, <2>1 DEF BrokerMoves
  <1>7. NoRelease
    BY Zenon, <1>1, SteadyOperations
  <1>8. \A j \in Intents : ReleaseTrue(j)' /\ CycleTrue(j)'
    BY Zenon, <1>1, <1>6, <1>7, ReleasesKept, CyclesKept
  <1>9. \A q \in Procs : AnswerTrue(q)'
    BY Zenon, <1>1, <1>6, AnswersKept
  <1> QED
    BY Zenon, <1>6, <1>8, <1>9, ExposureParts

-----------------------------------------------------------------------------
(* A step of the cycle that keeps its reads true keeps the invariant. *)
LEMMA CycleExposes ==
    ASSUME ExposureInvariant, RuntimeInvariant', UNCHANGED <<ex, broker>>, NoRelease,
           \A i \in Intents : CycleTrue(i)'
    PROVE  ExposureInvariant'
  <1>1. BrokerMoves
    BY BrokerRests
  <1>2. \A i \in Intents : ReleaseTrue(i)'
    BY Zenon, <1>1, ReleasesKept
  <1>3. \A p \in Procs : AnswerTrue(p)'
    BY Zenon, <1>1, AnswersKept
  <1> QED
    BY Zenon, <1>1, <1>2, <1>3, ExposureParts

(* Between cycles nothing was read. *)
LEMMA RestingExposes ==
    ASSUME ExposureInvariant, RuntimeInvariant', UNCHANGED <<ex, broker>>, NoRelease,
           rc'.pc \in {"idle", "stopped"}
    PROVE  ExposureInvariant'
  <1>1. \A i \in Intents : CycleTrue(i)'
    BY DEF CycleTrue
  <1> QED
    BY Zenon, <1>1, CycleExposes

(* The three reads of the broker.  Exits come from a position, and exits    *)
(* read before a position that is no longer there mean that it is closed.   *)
LEMMA ReadingExposes ==
    ASSUME ExposureInvariant, RuntimeInvariant', StartCycle \/ ReadOrders \/ ReadPositions
    PROVE  ExposureInvariant'
  <1>0. NoRelease /\ UNCHANGED <<ex, broker>>
    BY Zenon, SteadyOperations DEF StartCycle, ReadOrders, ReadPositions, RcOnly
  <1>1. rc \in RcSet({rc.recs}) /\ BrokerTyped
    BY Zenon DEF ExposureInvariant, RuntimeInvariant, RcTyped
  <1>2. \A i \in Intents : PositionSound(broker[i]) /\ CycleTrue(i)
    BY Zenon DEF ExposureInvariant, Truthful
  <1>3. ASSUME StartCycle, NEW i \in Intents PROVE CycleTrue(i)'
    <2> DEFINE D == [j \in Intents |-> ExitVolume(j)]
               r == [RcIdle EXCEPT !.pc = "orders"]
               s == [r EXCEPT !.deals = D]
    <2>1. rc' = s
      BY <1>3, Zenon DEF StartCycle
    <2>2. D[i] = broker[i].closed
      BY DEF ExitVolume
    <2> HIDE DEF D
    <2>3. r.pc = "orders" /\ r \in RcSet({<<>>})
      <3>1. r.pc = "orders"
        BY RcIdleTyped DEF RcSet
      <3> QED
        BY Zenon, <3>1, RcIdleTyped, RcFields
    <2> HIDE DEF r
    <2>4. s.pc = "orders" /\ s.deals = D
      BY <2>3 DEF RcSet
    <2> HIDE DEF s
    <2>5. rc'.pc = "orders" /\ rc'.deals[i] = broker[i].closed
      BY Zenon, <2>1, <2>2, <2>4
    <2> QED
      BY <1>0, <1>2, <2>5 DEF CycleTrue, PositionSound
  <1>4. ASSUME ReadOrders, NEW i \in Intents PROVE CycleTrue(i)'
    <2> DEFINE r == [rc EXCEPT !.pc = "positions"]
               s == [r EXCEPT !.orders = OpenOrders]
    <2>1. rc' = s
      BY <1>4, Zenon DEF ReadOrders
    <2>2. r \in RcSet({rc.recs}) /\ r.pc = "positions" /\ r.deals = rc.deals
      <3>1. r.pc = "positions" /\ r.deals = rc.deals
        BY <1>1 DEF RcSet
      <3> QED
        BY Zenon, <1>1, <3>1, RcFields
    <2> HIDE DEF r
    <2>3. s.pc = "positions" /\ s.deals = rc.deals
      BY <2>2 DEF RcSet
    <2> HIDE DEF s
    <2>4. rc'.pc = "positions" /\ rc'.deals = rc.deals /\ rc.pc = "orders"
      BY Zenon, <1>4, <2>1, <2>3 DEF ReadOrders
    <2> QED
      BY <1>0, <1>2, <2>4 DEF CycleTrue
  <1>5. ASSUME ReadPositions, NEW i \in Intents PROVE CycleTrue(i)'
    <2> DEFINE V == [j \in Intents |-> OpenVolume(j)]
               r == [rc EXCEPT !.pc = "deals"]
               s == [r EXCEPT !.pos = V]
    <2>1. rc' = s
      BY <1>5, Zenon DEF ReadPositions
    <2>2. V[i] = OpenVolume(i)
      OBVIOUS
    <2> HIDE DEF V
    <2>3. r \in RcSet({rc.recs}) /\ r.pc = "deals" /\ r.deals = rc.deals
      <3>1. r.pc = "deals" /\ r.deals = rc.deals
        BY <1>1 DEF RcSet
      <3> QED
        BY Zenon, <1>1, <3>1, RcFields
    <2> HIDE DEF r
    <2>4. s.pc = "deals" /\ s.deals = rc.deals /\ s.pos = V
      BY <2>3 DEF RcSet
    <2> HIDE DEF s
    <2>5. rc'.pc = "deals" /\ rc'.deals = rc.deals /\ rc'.pos[i] = OpenVolume(i) /\ rc.pc = "positions"
      BY Zenon, <1>5, <2>1, <2>2, <2>4 DEF ReadPositions
    <2>6. rc.deals[i] > 0 => broker[i].st \in {"open", "closed"}
      BY <1>2, <2>5 DEF CycleTrue
    <2>7. broker[i].st = "open" => OpenVolume(i) > 0
      <3>1. broker[i].vol \in 0..Lot /\ broker[i].closed \in 0..Lot
        BY <1>1 DEF BrokerTyped, BrokerRecord
      <3>2. broker[i].st = "open" => broker[i].closed < broker[i].vol
        BY Zenon, <1>2 DEF PositionSound
      <3> QED
        BY <3>1, <3>2 DEF OpenVolume
    <2> QED
      BY <1>0, <2>5, <2>6, <2>7 DEF CycleTrue
  <1> QED
    BY Zenon, <1>0, <1>3, <1>4, <1>5, CycleExposes

(* The active intents with what matches them. *)
LEMMA ReadActiveExposes ==
    ASSUME ExposureInvariant, RuntimeInvariant', ReadActive
    PROVE  ExposureInvariant'
  <1>0. NoRelease /\ UNCHANGED <<ex, broker>> /\ rc.pc = "deals"
    BY Zenon, SteadyOperations DEF ReadActive, RcOnly
  <1>1. PICK U : rc' = [RcIdle EXCEPT !.pc = "apply", !.critical = Orphan,
                   !.recs = [i \in ActiveIntents |->
                      [s |-> state[i], f |-> filled[i],
                       order |-> i \in rc.orders, pos |-> rc.pos[i],
                       exits |-> IF i \in U THEN 0 ELSE DealsInHistory(i)]]]
    BY Zenon DEF ReadActive
  <1> DEFINE F == [i \in ActiveIntents |->
                      [s |-> state[i], f |-> filled[i],
                       order |-> i \in rc.orders, pos |-> rc.pos[i],
                       exits |-> IF i \in U THEN 0 ELSE DealsInHistory(i)]]
             r == [RcIdle EXCEPT !.pc = "apply"]
             s == [r EXCEPT !.critical = Orphan]
             t == [s EXCEPT !.recs = F]
  <1>2. rc' = t
    BY Zenon, <1>1
  <1>3. /\ DOMAIN F = ActiveIntents
        /\ \A i \in ActiveIntents : /\ F[i].pos = rc.pos[i]
                                    /\ F[i].exits = IF i \in U THEN 0 ELSE rc.deals[i]
    BY Zenon DEF DealsInHistory
  <1> HIDE DEF F
  <1>4. r \in RcSet({<<>>}) /\ r.pc = "apply"
    <2>1. r.pc = "apply"
      BY RcIdleTyped DEF RcSet
    <2> QED
      BY Zenon, <2>1, RcIdleTyped, RcFields
  <1> HIDE DEF r
  <1>5. s \in RcSet({<<>>}) /\ s.pc = "apply"
    <2>1. s.pc = "apply"
      BY <1>4 DEF RcSet
    <2>2. Orphan \in BOOLEAN
      BY Zenon DEF Orphan
    <2> QED
      BY Zenon, <1>4, <2>1, <2>2, RcFields
  <1> HIDE DEF s
  <1>6. t.pc = "apply" /\ t.recs = F
    BY <1>5 DEF RcSet
  <1> HIDE DEF t
  <1>7. ASSUME NEW i \in Intents PROVE CycleTrue(i)'
    <2>1. rc'.pc = "apply" /\ rc'.recs = F
      BY Zenon, <1>2, <1>6
    <2>2. rc.deals[i] > 0 /\ rc.pos[i] = 0 => broker[i].st = "closed"
      BY Zenon, <1>0 DEF ExposureInvariant, Truthful, CycleTrue
    <2>3. ASSUME i \in DOMAIN F, F[i].exits > 0, F[i].pos = 0 PROVE broker'[i].st = "closed"
      <3>1. i \in ActiveIntents /\ rc.pos[i] = 0 /\ F[i].exits = IF i \in U THEN 0 ELSE rc.deals[i]
        BY Zenon, <1>3, <2>3
      <3>2. rc.deals[i] > 0
        BY <2>3, <3>1
      <3> QED
        BY Zenon, <1>0, <2>2, <3>1, <3>2
    <2> QED
      BY <2>1, <2>3 DEF CycleTrue
  <1> QED
    BY Zenon, <1>0, <1>7, CycleExposes

(* Only exits without a position close a record. *)
LEMMA ClosingEvidence ==
    ASSUME NEW r, NEW e \in EvidenceFor(r), e.target = "CLOSED"
    PROVE  r.pos = 0 /\ r.exits > 0
  <1>1. ASSUME NEW a, NEW t, NEW v, e = Evidence(a, t, v) PROVE t = "CLOSED"
    BY <1>1 DEF Evidence
  <1>2. Mismatch = Evidence("latch", "none", 0) /\ Leave = Evidence("leave", "none", 0)
    BY Zenon DEF Mismatch, Leave
  <1>3. ASSUME e \in PositionEvidence(r) PROVE FALSE
    BY Zenon, <1>1, <1>2, <1>3 DEF PositionEvidence
  <1>4. ASSUME e \in AbsenceEvidence(r) PROVE FALSE
    BY Zenon, <1>1, <1>2, <1>4 DEF AbsenceEvidence
  <1>5. e # Mismatch /\ e # Evidence("apply", "ACKNOWLEDGED", 0)
    BY Zenon, <1>1, <1>2
  <1> QED
    BY Zenon, <1>3, <1>4, <1>5 DEF EvidenceFor

(* The records that remain are as they were read. *)
LEMMA HandledTrue ==
    ASSUME ExposureInvariant, NEW i, rc.pc = "apply", rc'.pc = "apply", rc'.recs = Handled(i),
           broker' = broker, NEW j \in Intents
    PROVE  CycleTrue(j)'
  <1>1. j \in DOMAIN rc.recs =>
          (rc.recs[j].exits > 0 /\ rc.recs[j].pos = 0 => broker[j].st = "closed")
    BY Zenon DEF ExposureInvariant, Truthful, CycleTrue
  <1>2. j \in DOMAIN Handled(i) => j \in DOMAIN rc.recs /\ Handled(i)[j] = rc.recs[j]
    BY DEF Handled
  <1> QED
    BY <1>1, <1>2 DEF CycleTrue

(* One record is handled.  What a cycle closes has closed at the broker. *)
LEMMA ApplyRecordExposes ==
    ASSUME ExposureInvariant, RuntimeInvariant', NEW i \in Intents, ApplyRecord(i)
    PROVE  ExposureInvariant'
  <1> DEFINE Plainly == rc' = [rc EXCEPT !.recs = Handled(i)]
             Gravely == rc' = [rc EXCEPT !.recs = Handled(i), !.critical = TRUE]
  <1>0. rc \in RcSet({rc.recs}) /\ JournalTypeOK
    BY Zenon DEF ExposureInvariant, RuntimeInvariant, RcTyped, SendInv
  <1>1. UNCHANGED <<ex, broker>> /\ i \in DOMAIN rc.recs /\ rc.pc = "apply"
    BY Zenon DEF ApplyRecord, RcOnly
  <1>2. PICK e \in EvidenceFor(rc.recs[i]) :
          \/ UNCHANGED jvars /\ Plainly
          \/ LatchKillSwitch /\ (Plainly \/ Gravely)
          \/ ApplyReconciliation(i, rc.recs[i].s, e.target, e.v) /\ Plainly
          \/ StopLatched
    BY Zenon DEF ApplyRecord
  <1>3. Plainly \/ Gravely => rc'.pc = "apply" /\ rc'.recs = Handled(i)
    BY Zenon, <1>0, <1>1 DEF RcSet
  <1> HIDE DEF Plainly, Gravely
  <1>4. ASSUME Plainly \/ Gravely, NEW j \in Intents PROVE CycleTrue(j)'
    BY Zenon, <1>1, <1>3, <1>4, HandledTrue
  <1>5. CASE StopLatched
    <2>1. NoRelease /\ rc' = [RcIdle EXCEPT !.pc = "stopped"]
      BY Zenon, <1>5, SteadyOperations DEF StopLatched
    <2>2. rc'.pc = "stopped"
      BY <2>1, RcIdleTyped DEF RcSet
    <2> QED
      BY Zenon, <1>1, <2>1, <2>2, RestingExposes
  <1>6. CASE (UNCHANGED jvars \/ LatchKillSwitch) /\ (Plainly \/ Gravely)
    BY Zenon, <1>1, <1>4, <1>6, SteadyOperations, CycleExposes
  <1>7. CASE ApplyReconciliation(i, rc.recs[i].s, e.target, e.v) /\ Plainly
    <2>1. /\ state' = [state EXCEPT ![i] = e.target] /\ slease' = slease
          /\ e.target \in ReconciliationTargets
      BY Zenon, <1>7 DEF ApplyReconciliation
    <2>2. state'[i] = e.target /\ \A j \in Intents \ {i} : state'[j] = state[j]
      BY <1>0, <2>1 DEF JournalTypeOK
    <2>3. ReleaseTrue(i)'
      <3>1. e.target # "REJECTED"
        BY <2>1 DEF ReconciliationTargets
      <3>2. e.target = "CLOSED" => rc.recs[i].pos = 0 /\ rc.recs[i].exits > 0
        BY Zenon, ClosingEvidence
      <3>3. rc.recs[i].exits > 0 /\ rc.recs[i].pos = 0 => broker[i].st = "closed"
        BY Zenon, <1>1 DEF ExposureInvariant, Truthful, CycleTrue
      <3> QED
        BY Zenon, <1>1, <2>2, <3>1, <3>2, <3>3 DEF ReleaseTrue
    <2>4. ASSUME NEW j \in Intents \ {i} PROVE ReleaseTrue(j)'
      <3>1. ReleaseTrue(j)
        BY Zenon DEF ExposureInvariant, Truthful
      <3> QED
        BY Zenon, <1>1, <2>1, <2>2, <3>1 DEF ReleaseTrue
    <2>5. BrokerMoves
      BY Zenon, <1>1, BrokerRests
    <2>6. \A p \in Procs : AnswerTrue(p)'
      BY Zenon, <1>1, <2>5, AnswersKept
    <2> QED
      BY Zenon, <1>4, <1>7, <2>3, <2>4, <2>5, <2>6, ExposureParts
  <1> QED
    BY Zenon, <1>2, <1>5, <1>6, <1>7

(* A cycle ends, fails or is lost; the supervisor is started again. *)
LEMMA EndingExposes ==
    ASSUME ExposureInvariant, RuntimeInvariant', EndCycle \/ CycleFails \/ CycleLost \/ Relaunch
    PROVE  ExposureInvariant'
  <1>1. NoRelease /\ UNCHANGED <<ex, broker>>
    BY Zenon, SteadyOperations DEF EndCycle, CycleFails, CycleLost, Relaunch, StopLatched, RcOnly
  <1>2. \/ rc' = RcIdle
        \/ rc' = [RcIdle EXCEPT !.pc = "stopped"]
        \/ rc' = [RcIdle EXCEPT !.pc = "idle"]
    BY Zenon DEF EndCycle, CycleFails, CycleLost, Relaunch, StopLatched
  <1>3. RcIdle.pc = "idle"
    BY Zenon DEF RcIdle
  <1>4. rc'.pc \in {"idle", "stopped"}
    BY <1>2, <1>3, RcIdleTyped DEF RcSet
  <1> QED
    BY Zenon, <1>1, <1>4, RestingExposes

(* The environment's steps and stuttering. *)
LEMMA OthersExpose ==
    ASSUME ExposureInvariant, RuntimeInvariant', Environment \/ UNCHANGED allvars
    PROVE  ExposureInvariant'
  <1>1. NoRelease /\ UNCHANGED <<ex, broker, rc>>
    BY Zenon, SteadyOperations DEF Environment, rvars, allvars
  <1>2. Discreet
    BY Zenon, <1>1 DEF Discreet, NoAnswer
  <1> QED
    BY <1>2, DiscreetKeeps

(* Nothing is exposed at first. *)
LEMMA ExposureInit == RuntimeInit => ExposureInvariant
  <1> SUFFICES ASSUME RuntimeInit PROVE ExposureInvariant
    OBVIOUS
  <1>1. RuntimeInvariant
    BY RuntimeInvariantInit
  <1>2. ASSUME NEW i \in Intents PROVE Truthful(i)
    <2>1. state[i] = "ABSENT" /\ broker[i] = [st |-> "none", vol |-> 0, closed |-> 0] /\ rc = RcIdle
      BY Zenon, <1>2 DEF RuntimeInit, JournalInit
    <2>2. rc.pc = "idle"
      BY Zenon, <2>1 DEF RcIdle
    <2>3. PositionSound(broker[i])
      BY <2>1 DEF PositionSound
    <2>4. ReleaseTrue(i) /\ CycleTrue(i)
      BY <2>1, <2>2 DEF ReleaseTrue, CycleTrue
    <2> QED
      BY Zenon, <2>3, <2>4 DEF Truthful
  <1>3. ASSUME NEW p \in Procs PROVE AnswerTrue(p)
    <2>1. ex[p] = Down
      BY Zenon DEF RuntimeInit
    <2> QED
      BY <2>1, DownTyped DEF AnswerTrue
  <1> QED
    BY Zenon, <1>1, <1>2, <1>3 DEF ExposureInvariant

(* Every step of the runtime keeps the invariant. *)
LEMMA ExposureStepKeeps ==
    ASSUME ExposureInvariant, [RuntimeNext]_allvars
    PROVE  ExposureInvariant'
  <1>1. RuntimeInvariant'
    BY Zenon, RuntimeStep DEF ExposureInvariant
  <1> QED
    BY Zenon, <1>1, ExecutorExposes, BrokerExposes, ReadingExposes, ReadActiveExposes,
       ApplyRecordExposes, EndingExposes, OthersExpose DEF RuntimeNext, CycleStep

(* The journal never forgets exposure, for any number of intents, processes, *)
(* crashes and cycles: while an order is being sent or lives at the broker,  *)
(* its row is in an exposure state.  Its lease was consumed, so the row      *)
(* could only have left as REJECTED, on a final answer, or as CLOSED, on     *)
(* exits read before a position that was gone.                               *)
THEOREM ExposureIsJournaled == RuntimeSpec => []BrokerExposureIsJournaled
  <1>1. ASSUME ExposureInvariant, NEW i \in Intents, Exposed(i)
        PROVE  state[i] \in GlobalExposureStates
    <2>1. SendInv /\ Agrees(i) /\ ReleaseTrue(i)
      BY Zenon, <1>1 DEF ExposureInvariant, RuntimeInvariant, Truthful
    <2>2. slease[i].st = "used" /\ broker[i].st \notin {"rejected", "closed"}
      <3>1. CASE LiveAtBroker(i)
        BY <2>1, <3>1 DEF LiveAtBroker, Agrees
      <3>2. ASSUME NEW p \in Procs, At(p, "sending"), Cur(p) = i
            PROVE  slease[i].st = "used" /\ broker[i].st = "none"
        <4>1. slease[i].st = "used" /\ i \notin sent
          BY Zenon, <1>1, <3>2 DEF ExposureInvariant, RuntimeInvariant, Bound, At, Cur
        <4> QED
          BY Zenon, <2>1, <4>1 DEF Agrees
      <3> QED
        BY Zenon, <1>1, <3>1, <3>2 DEF Exposed
    <2>3. state[i] \in GlobalExposureStates \cup {"REJECTED", "CLOSED"}
      BY Zenon, <2>1, <2>2, UsedStates
    <2> QED
      BY <2>1, <2>2, <2>3 DEF ReleaseTrue
  <1>2. ExposureInvariant => BrokerExposureIsJournaled
    BY Zenon, <1>1 DEF BrokerExposureIsJournaled
  <1> QED
    BY <1>2, ExposureInit, ExposureStepKeeps, PTL DEF RuntimeSpec

(* One position globally, at the broker: two orders are never on their way   *)
(* to it or alive there at once, although the broker is read long before     *)
(* order_send.  Both would be in exposure states of the journal, which       *)
(* reserve_submission keeps to one.                                          *)
THEOREM OneExposureAtBroker == RuntimeSpec => []OneBrokerExposure
  <1>1. RuntimeSpec => []SingleExposure
    <2>1. RefinesJournal => []SingleExposure
      BY OneExposure DEF RefinesJournal
    <2> QED
      BY <2>1, RuntimeImplementsJournal, PTL
  <1>2. BrokerExposureIsJournaled /\ SingleExposure => OneBrokerExposure
    BY Zenon DEF BrokerExposureIsJournaled, SingleExposure, OneBrokerExposure
  <1> QED
    BY <1>1, <1>2, ExposureIsJournaled, PTL

-----------------------------------------------------------------------------
(* The volume a row records is volume the broker filled.                    *)

(* What a row records, and what a cycle read of a position, is no more than *)
(* the broker filled.                                                       *)
FillTrue(i) ==
    /\ filled[i] <= broker[i].vol
    /\ rc.pc = "deals" => rc.pos[i] <= broker[i].vol
    /\ rc.pc = "apply" /\ i \in DOMAIN rc.recs => rc.recs[i].pos <= broker[i].vol

(* So is the volume of an answer about to be recorded. *)
ReturnTrue(p) == ex[p].pc = "record" => ex[p].ret.v <= broker[ex[p].cur].vol

FillInvariant == (\A i \in Intents : FillTrue(i)) /\ \A p \in Procs : ReturnTrue(p)

(* The broker's fills stay. *)
FillsStay == \A i \in Intents : broker'[i].vol \in Nat /\ broker[i].vol \in Nat /\ broker[i].vol <= broker'[i].vol

(* Only the recording of an answer changes the recorded volume. *)
LEMMA CallsRecordNoFill ==
    ASSUME RuntimeInvariant, NEW p \in Procs, ExecutorStep(p), ~Record(p)
    PROVE  filled' = filled
  <1>1. \A i, s, t : Transition(i, s, t) => filled' = filled
    BY Zenon DEF Transition
  <1>2. \A i, w, k, d : \/ RecordRiskDecision(i, w) \/ RecordMt5Preflight(i, w) \/ CreateIntent(i)
                        \/ AuthorizeSubmissionEvidence(i, w) \/ ReserveSubmission(i, w, k, d)
                        \/ FinalSubmissionGuard(i, w, k, d)
                        => filled' = filled
    BY ZenonT(40) DEF RecordRiskDecision, RecordMt5Preflight, CreateIntent, InsertIntent, AuthorizeSubmissionEvidence,
       ReserveSubmission, FinalSubmissionGuard, intentVars
  <1>3. \A i : \/ ConsumeLease(i) \/ ReleaseUnusedLease(i) \/ LoseLease(i) \/ RecordSubmissionNotSent(i)
               \/ DemoAutoDispatchSettlement(i) \/ ClaimExecutor(i) \/ LatchKillSwitch \/ UNCHANGED jvars
               => filled' = filled
    BY Zenon DEF ConsumeLease, ReleaseUnusedLease, LoseLease, RecordSubmissionNotSent, DemoAutoDispatchSettlement,
       ClaimExecutor, LatchKillSwitch, intentVars, jvars
  <1>4. CASE \/ Boot(p) \/ RecoverMint(p) \/ RecoverApply(p) \/ Recovered(p) \/ Claim(p)
             \/ \E i \in Intents : Begin(p, i)
    BY Zenon, <1>3, <1>4 DEF Boot, RecoverMint, RecoverApply, Recovered, Claim, Begin, jvars
  <1>5. CASE \/ Create(p) \/ Safety(p) \/ Reject(p) \/ CheckFails(p) \/ Risk(p) \/ LossStop(p)
             \/ Approve(p) \/ Preflight(p) \/ Pass(p) \/ SubmissionGuard(p) \/ Authorize(p) \/ Dispatch(p)
    <2>1. CASE Create(p)
      BY Zenon, <1>2, <1>3, <2>1 DEF Create
    <2>2. CASE Reject(p) \/ Approve(p) \/ Pass(p)
      BY Zenon, <1>1, <1>3, <2>2 DEF Reject, Approve, Pass, Advance
    <2>3. CASE Risk(p) \/ Preflight(p) \/ Authorize(p)
      BY Zenon, <1>2, <1>3, <2>3 DEF Risk, Preflight, Authorize
    <2>4. CASE Safety(p) \/ CheckFails(p) \/ LossStop(p) \/ SubmissionGuard(p) \/ Dispatch(p)
      BY Zenon, <1>3, <2>4 DEF Safety, CheckFails, LossStop, SubmissionGuard, Dispatch, jvars
    <2> QED
      BY Zenon, <1>5, <2>1, <2>2, <2>3, <2>4
  <1>6. CASE \/ Reserve(p) \/ Mint(p) \/ FinalGuard(p) \/ VerifySend(p) \/ Consume(p) \/ SubmitRefused(p)
             \/ OrderSend(p) \/ SendReturns(p)
    <2>1. CASE Reserve(p)
      BY Zenon, <1>2, <1>3, <2>1 DEF Reserve
    <2>2. CASE FinalGuard(p)
      BY Zenon, <1>2, <1>3, <2>2 DEF FinalGuard
    <2>3. CASE Mint(p) \/ VerifySend(p) \/ Consume(p) \/ SubmitRefused(p) \/ OrderSend(p) \/ SendReturns(p)
      BY Zenon, <1>3, <2>3 DEF Mint, VerifySend, Consume, SubmitRefused, OrderSend, SendReturns, jvars
    <2> QED
      BY Zenon, <1>6, <2>1, <2>2, <2>3
  <1>7. CASE Slippage(p) \/ Uncertain(p) \/ NotSent(p) \/ Settle(p) \/ Apply(p) \/ Crash(p)
    BY Zenon, <1>1, <1>3, <1>7 DEF Slippage, Uncertain, NotSent, Settle, Apply, Crash, jvars
  <1> QED
    BY Zenon, <1>4, <1>5, <1>6, <1>7 DEF ExecutorStep

(* A step that records no volume, reads nothing and brings no answer. *)
LEMMA FillsKept ==
    ASSUME RuntimeInvariant, FillInvariant, filled' = filled, rc' = rc, NoAnswer, FillsStay
    PROVE  FillInvariant'
  <1>1. ASSUME NEW i \in Intents PROVE FillTrue(i)'
    <2>1. /\ filled[i] \in Nat /\ rc.pos[i] \in Nat
          /\ i \in DOMAIN rc.recs => rc.recs[i].pos \in Nat
      BY JournalAssumption DEF RuntimeInvariant, SendInv, JournalTypeOK, RcTyped, RcSet, RecsTyped, Volumes
    <2>2. FillTrue(i) /\ broker'[i].vol \in Nat /\ broker[i].vol \in Nat /\ broker[i].vol <= broker'[i].vol
      BY Zenon DEF FillInvariant, FillsStay
    <2>3. filled'[i] <= broker'[i].vol
      BY <2>1, <2>2 DEF FillTrue
    <2>4. rc'.pc = "deals" => rc'.pos[i] <= broker'[i].vol
      BY <2>1, <2>2 DEF FillTrue
    <2>5. rc'.pc = "apply" /\ i \in DOMAIN rc'.recs => rc'.recs[i].pos <= broker'[i].vol
      BY <2>1, <2>2 DEF FillTrue
    <2> QED
      BY Zenon, <2>3, <2>4, <2>5 DEF FillTrue
  <1>2. ASSUME NEW q \in Procs PROVE ReturnTrue(q)'
    <2> SUFFICES ASSUME ex'[q].pc = "record" PROVE ex'[q].ret.v <= broker'[ex'[q].cur].vol
      BY Zenon DEF ReturnTrue
    <2>1. ex'[q] = ex[q] /\ ex[q].pc = "record"
      BY Zenon DEF NoAnswer
    <2>2. ex[q].cur \in Intents
      BY <2>1 DEF RuntimeInvariant, Bound, Free
    <2>3. ex[q].ret.v \in Nat
      BY JournalAssumption DEF RuntimeInvariant, ExTyped, ExRecord, Returns
    <2>4. ex[q].ret.v <= broker[ex[q].cur].vol
      BY Zenon, <2>1 DEF FillInvariant, ReturnTrue
    <2> QED
      BY <2>1, <2>2, <2>3, <2>4 DEF FillsStay
  <1> QED
    BY Zenon, <1>1, <1>2 DEF FillInvariant

(* A broker that is left alone keeps its fills. *)
LEMMA FillsRest ==
    ASSUME RuntimeInvariant, broker' = broker
    PROVE  FillsStay
  <1>1. \A i \in Intents : broker[i].vol \in Nat
    BY JournalAssumption DEF RuntimeInvariant, BrokerTyped, BrokerRecord
  <1> QED
    BY <1>1 DEF FillsStay

(* An answer carries no more volume than the broker filled. *)
LEMMA AnswerVolume ==
    ASSUME NEW b \in BrokerRecord, NEW r \in ResultsOf(b)
    PROVE  r.v <= b.vol
  <1>0. b.vol \in Nat
    BY JournalAssumption DEF BrokerRecord
  <1>1. r.v \in {0, b.vol}
    <2>1. CASE b.st = "rejected"
      BY <2>1 DEF ResultsOf
    <2>2. CASE b.st # "rejected" /\ b.vol = 0
      BY <2>2 DEF ResultsOf
    <2>3. CASE b.st # "rejected" /\ b.vol # 0
      BY <2>3 DEF ResultsOf
    <2> QED
      BY Zenon, <2>1, <2>2, <2>3
  <1> QED
    BY <1>0, <1>1

(* The broker never unfills an order. *)
LEMMA BrokerFillsGrow ==
    ASSUME NEW r \in BrokerRecord, NEW b \in BrokerSteps(r)
    PROVE  r.vol <= b.vol
  <1>0. r.vol \in 0..Lot /\ r.closed \in 0..Lot /\ Lot \in Nat
    BY JournalAssumption DEF BrokerRecord
  <1>1. CASE r.st = "sent"
    <2>1. b = [r EXCEPT !.st = "working"] \/ b = [r EXCEPT !.st = "rejected"]
      BY <1>1 DEF BrokerSteps
    <2>2. b.vol = r.vol
      BY <2>1 DEF BrokerRecord
    <2> QED
      BY <1>0, <2>2
  <1>2. CASE r.st = "working"
    <2>1. \/ \E w \in r.vol + 1 .. Lot : b = [r EXCEPT !.vol = w]
          \/ b = [r EXCEPT !.st = IF r.vol > 0 THEN "open" ELSE "rejected"]
      BY <1>2 DEF BrokerSteps
    <2>2. ASSUME NEW w \in r.vol + 1 .. Lot, b = [r EXCEPT !.vol = w] PROVE b.vol = w /\ r.vol <= w
      BY <1>0, <2>2 DEF BrokerRecord
    <2>3. ASSUME b = [r EXCEPT !.st = IF r.vol > 0 THEN "open" ELSE "rejected"] PROVE b.vol = r.vol
      BY <2>3 DEF BrokerRecord
    <2> QED
      BY <1>0, <2>1, <2>2, <2>3
  <1>3. CASE r.st = "open"
    <2>1. PICK w : b = [r EXCEPT !.closed = w, !.st = IF w = r.vol THEN "closed" ELSE "open"]
      BY Zenon, <1>3 DEF BrokerSteps
    <2>2. b.vol = r.vol
      BY Zenon, <2>1 DEF BrokerRecord
    <2> QED
      BY <1>0, <2>2
  <1>4. CASE r.st \notin {"sent", "working", "open"}
    BY Zenon, <1>4 DEF BrokerSteps
  <1> QED
    BY <1>1, <1>2, <1>3, <1>4

(* order_send is called: nothing is filled by that. *)
LEMMA OrderSendFills ==
    ASSUME RuntimeInvariant, RuntimeInvariant', FillInvariant, NEW p \in Procs, OrderSend(p)
    PROVE  FillInvariant'
  <1>1. NoAnswer
    <2>1. "waiting" \in Labels \ {"record"}
      BY DEF Labels
    <2> QED
      BY Zenon, <2>1, GoesNoAnswer DEF OrderSend
  <1>2. broker \in [Intents -> BrokerRecord] /\ broker' = [broker EXCEPT ![Cur(p)].st = "sent"]
    BY Zenon DEF RuntimeInvariant, BrokerTyped, OrderSend
  <1>3. \A i \in Intents : broker[i].vol \in Nat /\ broker'[i].vol = broker[i].vol
    BY <1>2, JournalAssumption DEF BrokerRecord
  <1>4. FillsStay
    BY <1>3 DEF FillsStay
  <1>5. filled' = filled /\ rc' = rc
    BY Zenon DEF OrderSend, jvars
  <1> QED
    BY Zenon, <1>1, <1>4, <1>5, FillsKept

(* order_send returns what the broker filled by then, or raises. *)
LEMMA SendReturnsFills ==
    ASSUME RuntimeInvariant, RuntimeInvariant', FillInvariant, NEW p \in Procs, SendReturns(p)
    PROVE  FillInvariant'
  <1>0. ExTyped /\ BrokerTyped
    BY Zenon DEF RuntimeInvariant
  <1>1. filled' = filled /\ rc' = rc /\ broker' = broker /\ ex[p].pc = "waiting"
    BY Zenon DEF SendReturns, At, ExOnly, jvars
  <1>2. FillsStay
    BY Zenon, <1>1, FillsRest
  <1>3. CASE Goto(p, "uncertain")
    <2>1. "uncertain" \in Labels \ {"record"}
      BY DEF Labels
    <2>2. NoAnswer
      BY Zenon, <1>3, <2>1, GoesNoAnswer
    <2> QED
      BY Zenon, <1>1, <1>2, <2>2, FillsKept
  <1>4. ASSUME NEW r \in ResultsOf(broker[Cur(p)]), Answered(p, r) PROVE FillInvariant'
    <2>1. Cur(p) \in Intents
      BY <1>1, Busy DEF Free
    <2>2. broker[Cur(p)] \in BrokerRecord
      BY Zenon, <1>0, <2>1 DEF BrokerTyped
    <2>3. r \in Returns /\ r.v <= broker[Cur(p)].vol
      BY Zenon, <2>2, <1>4, ResultsTyped, AnswerVolume
    <2>4. Moves(p, "record", Cur(p)) /\ ex'[p].ret = r
      BY Zenon, <1>0, <1>4, <2>3, AnsweredMoves
    <2>5. ReturnTrue(p)'
      BY Zenon, <1>1, <2>3, <2>4 DEF ReturnTrue, Moves
    <2>6. ASSUME NEW q \in Procs \ {p} PROVE ReturnTrue(q)'
      BY Zenon, <1>1, <2>4 DEF FillInvariant, ReturnTrue, Moves
    <2>7. \A i \in Intents : FillTrue(i)'
      BY Zenon, <1>1 DEF FillInvariant, FillTrue
    <2> QED
      BY Zenon, <2>5, <2>6, <2>7 DEF FillInvariant
  <1> QED
    BY Zenon, <1>3, <1>4 DEF SendReturns, Answered

(* The answer is recorded: the larger of the row's volume and the answer's. *)
LEMMA RecordFills ==
    ASSUME RuntimeInvariant, RuntimeInvariant', FillInvariant, NEW p \in Procs, Record(p)
    PROVE  FillInvariant'
  <1>0. JournalTypeOK /\ ReturnTrue(p)
    BY Zenon DEF RuntimeInvariant, SendInv, FillInvariant
  <1>1. ex[p].pc = "record" /\ rc' = rc /\ broker' = broker
    BY ZenonT(40) DEF Record, At, ExOnly
  <1>2. Cur(p) \in Intents /\ ex[p].ret.t \in ExecutionTargets /\ ex[p].ret.v \in 0..Lot
    BY ZenonT(40), <1>1 DEF RuntimeInvariant, Bound, Free, Cur, ExTyped, ExRecord, Returns
  <1>3. NoAnswer
    <2>1. {"settle", "slippage"} \subseteq Labels \ {"record"}
      BY DEF Labels
    <2>2. Goto(p, "settle") \/ Goto(p, "slippage") \/ Return(p)
      BY Zenon DEF Record
    <2> QED
      BY Zenon, <2>1, <2>2, GoesNoAnswer
  <1>4. FillsStay
    BY Zenon, <1>1, FillsRest
  <1>5. CASE UNCHANGED jvars
    BY Zenon, <1>1, <1>3, <1>4, <1>5, FillsKept DEF jvars
  <1>6. CASE RecordExecutionReceipt(Cur(p), ex[p].ret.t, ex[p].ret.v)
    <2>1. PICK c \in Intents : c = Cur(p)
      BY Zenon, <1>2
    <2>2. /\ filled'[c] \in {filled[c], ex[p].ret.v}
          /\ \A j \in Intents \ {c} : filled'[j] = filled[j]
      BY Zenon, <1>0, <1>2, <1>6, <2>1, OutcomeRecordsFill
    <2>3. ex[p].ret.v <= broker[c].vol
      BY Zenon, <1>0, <1>1, <2>1 DEF ReturnTrue, Cur
    <2>4. ASSUME NEW i \in Intents PROVE FillTrue(i)'
      <3>1. filled'[i] <= broker[i].vol
        BY Zenon, <2>2, <2>3 DEF FillInvariant, FillTrue
      <3> QED
        BY Zenon, <1>1, <3>1 DEF FillInvariant, FillTrue
    <2>5. ASSUME NEW q \in Procs PROVE ReturnTrue(q)'
      BY Zenon, <1>1, <1>3 DEF FillInvariant, ReturnTrue, NoAnswer
    <2> QED
      BY Zenon, <2>4, <2>5 DEF FillInvariant
  <1> QED
    BY Zenon, <1>5, <1>6 DEF Record

(* The executor's steps keep the invariant. *)
LEMMA ExecutorFills ==
    ASSUME RuntimeInvariant, RuntimeInvariant', FillInvariant, NEW p \in Procs, ExecutorStep(p)
    PROVE  FillInvariant'
  <1>1. \/ Discreet \/ OrderSend(p) \/ SendReturns(p) \/ Record(p)
    BY Zenon, QuietStepsDiscreet, RecoverMintDiscreet, RecoverApplyDiscreet, SettleDiscreet,
       ApplyDiscreet, DispatchDiscreet, BoundaryDiscreet, CrashDiscreet DEF ExecutorStep
  <1>2. CASE Discreet /\ ~Record(p)
    <2>1. filled' = filled /\ rc' = rc /\ broker' = broker /\ NoAnswer
      BY Zenon, <1>2, CallsRecordNoFill DEF Discreet
    <2> QED
      BY Zenon, <2>1, FillsRest, FillsKept
  <1> QED
    BY Zenon, <1>1, <1>2, OrderSendFills, SendReturnsFills, RecordFills

(* The broker's steps keep the invariant. *)
LEMMA BrokerFills ==
    ASSUME RuntimeInvariant, RuntimeInvariant', FillInvariant, NEW i \in Intents, BrokerStep(i)
    PROVE  FillInvariant'
  <1>1. filled' = filled /\ ex' = ex /\ rc' = rc
    BY Zenon DEF BrokerStep, jvars
  <1>2. PICK b \in BrokerSteps(broker[i]) : broker' = [broker EXCEPT ![i] = b]
    BY Zenon DEF BrokerStep
  <1>3. broker \in [Intents -> BrokerRecord] /\ broker' \in [Intents -> BrokerRecord]
    BY Zenon DEF RuntimeInvariant, BrokerTyped
  <1>4. \A j \in Intents : broker[j].vol \in Nat /\ broker'[j].vol \in Nat
    BY <1>3, JournalAssumption DEF BrokerRecord
  <1>5. broker[i].vol <= b.vol
    BY Zenon, <1>3, BrokerFillsGrow
  <1>6. broker'[i] = b /\ \A j \in Intents \ {i} : broker'[j] = broker[j]
    BY Zenon, <1>2, <1>3
  <1>7. FillsStay
    BY <1>4, <1>5, <1>6 DEF FillsStay
  <1>8. NoAnswer
    BY Zenon, <1>1 DEF NoAnswer
  <1> QED
    BY Zenon, <1>1, <1>7, <1>8, FillsKept

(* A step of the cycle that keeps its reads and the rows' volumes true. *)
LEMMA CycleFills ==
    ASSUME FillInvariant, UNCHANGED <<ex, broker>>, \A i \in Intents : FillTrue(i)'
    PROVE  FillInvariant'
  BY Zenon DEF FillInvariant, ReturnTrue

(* A cycle that has read no position yet, or that is over. *)
LEMMA RestingFills ==
    ASSUME FillInvariant, UNCHANGED <<ex, broker>>, filled' = filled,
           rc'.pc \in {"idle", "stopped", "orders", "positions"}
    PROVE  FillInvariant'
  <1>1. \A i \in Intents : filled[i] <= broker[i].vol
    BY Zenon DEF FillInvariant, FillTrue
  <1>2. \A i \in Intents : FillTrue(i)'
    BY <1>1 DEF FillTrue
  <1> QED
    BY Zenon, <1>2, CycleFills

(* The three reads: a position's volume is part of what was filled. *)
LEMMA ReadingFills ==
    ASSUME RuntimeInvariant, FillInvariant, StartCycle \/ ReadOrders \/ ReadPositions
    PROVE  FillInvariant'
  <1>0. filled' = filled /\ UNCHANGED <<ex, broker>>
    BY Zenon DEF StartCycle, ReadOrders, ReadPositions, RcOnly, jvars
  <1>1. rc \in RcSet({rc.recs}) /\ BrokerTyped
    BY Zenon DEF RuntimeInvariant, RcTyped
  <1>2. CASE StartCycle
    <2> DEFINE r == [RcIdle EXCEPT !.pc = "orders"]
    <2>1. rc' = [r EXCEPT !.deals = [i \in Intents |-> ExitVolume(i)]]
      BY Zenon, <1>2 DEF StartCycle
    <2>2. r.pc = "orders" /\ r \in RcSet({<<>>})
      <3>1. r.pc = "orders"
        BY RcIdleTyped DEF RcSet
      <3> QED
        BY Zenon, <3>1, RcIdleTyped, RcFields
    <2> HIDE DEF r
    <2>3. rc'.pc = "orders"
      BY <2>1, <2>2 DEF RcSet
    <2> QED
      BY Zenon, <1>0, <2>3, RestingFills
  <1>3. CASE ReadOrders
    <2> DEFINE r == [rc EXCEPT !.pc = "positions"]
    <2>1. rc' = [r EXCEPT !.orders = OpenOrders]
      BY Zenon, <1>3 DEF ReadOrders
    <2>2. r.pc = "positions" /\ r \in RcSet({rc.recs})
      <3>1. r.pc = "positions"
        BY <1>1 DEF RcSet
      <3> QED
        BY Zenon, <1>1, <3>1, RcFields
    <2> HIDE DEF r
    <2>3. rc'.pc = "positions"
      BY <2>1, <2>2 DEF RcSet
    <2> QED
      BY Zenon, <1>0, <2>3, RestingFills
  <1>4. CASE ReadPositions
    <2> DEFINE V == [j \in Intents |-> OpenVolume(j)]
               r == [rc EXCEPT !.pc = "deals"]
    <2>1. rc' = [r EXCEPT !.pos = V]
      BY Zenon, <1>4 DEF ReadPositions
    <2>2. \A i \in Intents : V[i] = OpenVolume(i)
      BY Zenon
    <2> HIDE DEF V
    <2>3. r.pc = "deals" /\ r \in RcSet({rc.recs})
      <3>1. r.pc = "deals"
        BY <1>1 DEF RcSet
      <3> QED
        BY Zenon, <1>1, <3>1, RcFields
    <2> HIDE DEF r
    <2>4. rc'.pc = "deals" /\ rc'.pos = V
      BY <2>1, <2>3 DEF RcSet
    <2>5. ASSUME NEW i \in Intents PROVE OpenVolume(i) <= broker[i].vol
      <3>1. broker[i].vol \in Nat /\ broker[i].closed \in Nat
        BY <1>1, JournalAssumption DEF BrokerTyped, BrokerRecord
      <3> QED
        BY <3>1 DEF OpenVolume
    <2>6. ASSUME NEW i \in Intents PROVE FillTrue(i)'
      <3>1. filled[i] <= broker[i].vol
        BY Zenon DEF FillInvariant, FillTrue
      <3>2. rc'.pos[i] <= broker[i].vol
        BY Zenon, <2>2, <2>4, <2>5
      <3> QED
        BY <1>0, <2>4, <3>1, <3>2 DEF FillTrue
    <2> QED
      BY Zenon, <1>0, <2>6, CycleFills
  <1> QED
    BY Zenon, <1>2, <1>3, <1>4

(* The active intents with the positions that match them. *)
LEMMA ReadActiveFills ==
    ASSUME RuntimeInvariant, FillInvariant, ReadActive
    PROVE  FillInvariant'
  <1>0. filled' = filled /\ UNCHANGED <<ex, broker>> /\ rc.pc = "deals"
    BY Zenon DEF ReadActive, RcOnly, LatchKillSwitch, intentVars, jvars
  <1>1. PICK U : rc' = [RcIdle EXCEPT !.pc = "apply", !.critical = Orphan,
                   !.recs = [i \in ActiveIntents |->
                      [s |-> state[i], f |-> filled[i],
                       order |-> i \in rc.orders, pos |-> rc.pos[i],
                       exits |-> IF i \in U THEN 0 ELSE DealsInHistory(i)]]]
    BY Zenon DEF ReadActive
  <1> DEFINE F == [i \in ActiveIntents |->
                      [s |-> state[i], f |-> filled[i],
                       order |-> i \in rc.orders, pos |-> rc.pos[i],
                       exits |-> IF i \in U THEN 0 ELSE DealsInHistory(i)]]
             r == [RcIdle EXCEPT !.pc = "apply"]
             s == [r EXCEPT !.critical = Orphan]
             t == [s EXCEPT !.recs = F]
  <1>2. rc' = t
    BY Zenon, <1>1
  <1>3. DOMAIN F = ActiveIntents /\ \A i \in ActiveIntents : F[i].pos = rc.pos[i]
    BY Zenon
  <1> HIDE DEF F
  <1>4. r \in RcSet({<<>>}) /\ r.pc = "apply"
    <2>1. r.pc = "apply"
      BY RcIdleTyped DEF RcSet
    <2> QED
      BY Zenon, <2>1, RcIdleTyped, RcFields
  <1> HIDE DEF r
  <1>5. s \in RcSet({<<>>}) /\ s.pc = "apply"
    <2>1. s.pc = "apply"
      BY <1>4 DEF RcSet
    <2>2. Orphan \in BOOLEAN
      BY Zenon DEF Orphan
    <2> QED
      BY Zenon, <1>4, <2>1, <2>2, RcFields
  <1> HIDE DEF s
  <1>6. t.pc = "apply" /\ t.recs = F
    BY <1>5 DEF RcSet
  <1> HIDE DEF t
  <1>7. ASSUME NEW i \in Intents PROVE FillTrue(i)'
    <2>1. filled[i] <= broker[i].vol /\ rc.pos[i] <= broker[i].vol
      BY Zenon, <1>0 DEF FillInvariant, FillTrue
    <2>2. rc'.pc = "apply" /\ (i \in DOMAIN rc'.recs => rc'.recs[i].pos = rc.pos[i])
      BY Zenon, <1>2, <1>3, <1>6
    <2> QED
      BY <1>0, <2>1, <2>2 DEF FillTrue
  <1> QED
    BY Zenon, <1>0, <1>7, CycleFills

(* Evidence of a fill carries the volume of the position that was read. *)
LEMMA FillingEvidence ==
    ASSUME NEW r, NEW e \in EvidenceFor(r), e.target \in {"PARTIAL", "FILLED"}
    PROVE  e.v = r.pos
  <1>1. ASSUME NEW a, NEW t, NEW v, e = Evidence(a, t, v)
        PROVE  t \in {"PARTIAL", "FILLED"} /\ e.v = v
    BY <1>1 DEF Evidence
  <1>2. Mismatch = Evidence("latch", "none", 0) /\ Leave = Evidence("leave", "none", 0)
    BY Zenon DEF Mismatch, Leave
  <1>3. ASSUME e \in AbsenceEvidence(r) \/ e \in ExitEvidence(r) PROVE FALSE
    <2>1. \E a, v : \E t \in {"none", "UNCERTAIN", "CLOSED"} : e = Evidence(a, t, v)
      BY Zenon, <1>2, <1>3 DEF AbsenceEvidence, ExitEvidence
    <2> QED
      BY <2>1 DEF Evidence
  <1>4. e # Mismatch /\ e # Evidence("apply", "ACKNOWLEDGED", 0)
    <2>1. CASE e = Mismatch
      BY <1>2, <2>1 DEF Evidence
    <2>2. CASE e = Evidence("apply", "ACKNOWLEDGED", 0)
      BY <2>2 DEF Evidence
    <2> QED
      BY Zenon, <2>1, <2>2
  <1>5. e \in PositionEvidence(r)
    BY Zenon, <1>3, <1>4 DEF EvidenceFor
  <1> QED
    BY Zenon, <1>1, <1>4, <1>5 DEF PositionEvidence

(* One record is handled.  Only the position that was read adds volume. *)
LEMMA ApplyRecordFills ==
    ASSUME RuntimeInvariant, FillInvariant, NEW i \in Intents, ApplyRecord(i)
    PROVE  FillInvariant'
  <1> DEFINE Plainly == rc' = [rc EXCEPT !.recs = Handled(i)]
             Gravely == rc' = [rc EXCEPT !.recs = Handled(i), !.critical = TRUE]
  <1>0. rc \in RcSet({rc.recs}) /\ JournalTypeOK
    BY Zenon DEF RuntimeInvariant, RcTyped, SendInv
  <1>1. UNCHANGED <<ex, broker>> /\ i \in DOMAIN rc.recs /\ rc.pc = "apply"
    BY Zenon DEF ApplyRecord, RcOnly
  <1>2. PICK e \in EvidenceFor(rc.recs[i]) :
          \/ UNCHANGED jvars /\ Plainly
          \/ LatchKillSwitch /\ (Plainly \/ Gravely)
          \/ ApplyReconciliation(i, rc.recs[i].s, e.target, e.v) /\ Plainly
          \/ StopLatched
    BY Zenon DEF ApplyRecord
  <1>3. Plainly \/ Gravely => rc'.pc = "apply" /\ rc'.recs = Handled(i)
    BY Zenon, <1>0, <1>1 DEF RcSet
  <1> HIDE DEF Plainly, Gravely
  <1>4. ASSUME Plainly \/ Gravely, NEW j \in Intents, filled'[j] <= broker[j].vol PROVE FillTrue(j)'
    <2>1. j \in DOMAIN Handled(i) => j \in DOMAIN rc.recs /\ Handled(i)[j] = rc.recs[j]
      BY DEF Handled
    <2>2. j \in DOMAIN rc.recs => rc.recs[j].pos <= broker[j].vol
      BY Zenon, <1>1 DEF FillInvariant, FillTrue
    <2>3. rc'.pc = "apply" /\ (j \in DOMAIN rc'.recs => rc'.recs[j].pos <= broker[j].vol)
      BY Zenon, <1>3, <1>4, <2>1, <2>2
    <2> QED
      BY <1>1, <1>4, <2>3 DEF FillTrue
  <1>5. CASE StopLatched
    <2>1. filled' = filled /\ rc' = [RcIdle EXCEPT !.pc = "stopped"]
      BY Zenon, <1>5 DEF StopLatched, LatchKillSwitch, intentVars
    <2>2. rc'.pc = "stopped"
      BY <2>1, RcIdleTyped DEF RcSet
    <2> QED
      BY Zenon, <1>1, <2>1, <2>2, RestingFills
  <1>6. CASE (UNCHANGED jvars \/ LatchKillSwitch) /\ (Plainly \/ Gravely)
    <2>1. filled' = filled
      BY Zenon, <1>6 DEF LatchKillSwitch, intentVars, jvars
    <2>2. \A j \in Intents : filled[j] <= broker[j].vol
      BY Zenon DEF FillInvariant, FillTrue
    <2> QED
      BY Zenon, <1>1, <1>4, <1>6, <2>1, <2>2, CycleFills
  <1>7. CASE ApplyReconciliation(i, rc.recs[i].s, e.target, e.v) /\ Plainly
    <2>1. rc.recs[i].pos \in 0..Lot /\ rc.recs[i].exits \in 0..Lot
      BY Zenon, <1>1 DEF RuntimeInvariant, RcTyped, RecsTyped
    <2>2. e.v \in 0..Lot
      BY Zenon, <2>1, EvidenceTyped
    <2>3. filled'[i] \in {filled[i], e.v} /\ \A j \in Intents \ {i} : filled'[j] = filled[j]
      BY Zenon, <1>0, <1>7, <2>2, OutcomeRecordsFill
    <2>4. e.target \in {"PARTIAL", "FILLED"} => e.v <= broker[i].vol
      BY Zenon, <1>1, FillingEvidence DEF FillInvariant, FillTrue
    <2>5. e.target \notin {"PARTIAL", "FILLED"} => filled'[i] = filled[i]
      <3>1. filled' = [filled EXCEPT ![i] =
                        IF e.target \in {"PARTIAL", "FILLED"} THEN Larger(filled[i], e.v) ELSE filled[i]]
        BY Zenon, <1>7 DEF ApplyReconciliation
      <3> QED
        BY Zenon, <1>0, <3>1 DEF JournalTypeOK
    <2>6. ASSUME NEW j \in Intents PROVE filled'[j] <= broker[j].vol
      BY Zenon, <2>3, <2>4, <2>5 DEF FillInvariant, FillTrue
    <2> QED
      BY Zenon, <1>1, <1>4, <1>7, <2>6, CycleFills
  <1> QED
    BY Zenon, <1>2, <1>5, <1>6, <1>7

(* A cycle ends, fails or is lost, the environment moves, or nothing does. *)
LEMMA OthersFill ==
    ASSUME RuntimeInvariant, FillInvariant,
           EndCycle \/ CycleFails \/ CycleLost \/ Relaunch \/ Environment \/ UNCHANGED allvars
    PROVE  FillInvariant'
  <1>1. filled' = filled /\ UNCHANGED <<ex, broker>>
    BY Zenon DEF EndCycle, CycleFails, CycleLost, Relaunch, StopLatched, RcOnly, Environment, LeaseExpires,
       LatchKillSwitch, IssueResetAuthorization, ResetKillSwitch, NextDay, intentVars, jvars, rvars, allvars
  <1>2. CASE EndCycle \/ CycleFails \/ CycleLost \/ Relaunch
    <2>1. \/ rc' = RcIdle
          \/ rc' = [RcIdle EXCEPT !.pc = "stopped"]
          \/ rc' = [RcIdle EXCEPT !.pc = "idle"]
      BY Zenon, <1>2 DEF EndCycle, CycleFails, CycleLost, Relaunch, StopLatched
    <2>2. RcIdle.pc = "idle"
      BY Zenon DEF RcIdle
    <2>3. rc'.pc \in {"idle", "stopped"}
      BY <2>1, <2>2, RcIdleTyped DEF RcSet
    <2> QED
      BY <1>1, <2>3, RestingFills
  <1>3. CASE Environment \/ UNCHANGED allvars
    <2>1. rc' = rc
      BY Zenon, <1>3 DEF Environment, rvars, allvars
    <2>2. \A i \in Intents : FillTrue(i)'
      BY Zenon, <1>1, <2>1 DEF FillInvariant, FillTrue
    <2> QED
      BY Zenon, <1>1, <2>2, CycleFills
  <1> QED
    BY Zenon, <1>2, <1>3

(* Nothing is recorded, read or answered at first; every step keeps it so. *)
LEMMA FillsAlways == RuntimeSpec => []FillInvariant
  <1>1. RuntimeInit => FillInvariant
    <2> SUFFICES ASSUME RuntimeInit PROVE FillInvariant
      OBVIOUS
    <2>1. \A p \in Procs : ex[p].pc = "down"
      BY Zenon, DownTyped DEF RuntimeInit
    <2>2. \A i \in Intents : filled[i] = 0 /\ broker[i].vol = 0
      BY Zenon DEF RuntimeInit, JournalInit
    <2>3. rc.pc = "idle"
      BY Zenon DEF RuntimeInit, RcIdle
    <2> QED
      BY <2>1, <2>2, <2>3 DEF FillInvariant, FillTrue, ReturnTrue
  <1>2. ASSUME RuntimeInvariant, RuntimeInvariant', FillInvariant, [RuntimeNext]_allvars PROVE FillInvariant'
    BY Zenon, <1>2, ExecutorFills, BrokerFills, ReadingFills, ReadActiveFills, ApplyRecordFills, OthersFill
    DEF RuntimeNext, CycleStep
  <1> QED
    BY <1>1, <1>2, RuntimeInvariantAlways, PTL DEF RuntimeSpec

(* The journal's volumes are the broker's: a PARTIAL, FILLED or CLOSED row   *)
(* records a positive volume, never more than the broker filled of that      *)
(* order, and a CLOSED row's position is closed.                             *)
RecordedFillsAreReal ==
    \A i \in Intents :
        /\ state[i] \in {"PARTIAL", "FILLED", "CLOSED"} => filled[i] > 0
        /\ filled[i] <= broker[i].vol
        /\ state[i] = "CLOSED" => broker[i].st = "closed"

(* Whatever answers are late, lost or overtaken by a reconciliation cycle:   *)
(* record_execution_receipt and apply_reconciliation write the larger of two *)
(* volumes, both of which the broker really filled.                          *)
THEOREM RecordedFills == RuntimeSpec => []RecordedFillsAreReal
  <1>1. ASSUME FillInvariant, ExposureInvariant, \A i \in Intents : FillShown(i)
        PROVE  RecordedFillsAreReal
    BY Zenon, <1>1 DEF FillInvariant, FillTrue, ExposureInvariant, Truthful, ReleaseTrue, FillShown, FillStates,
       RecordedFillsAreReal
  <1>2. RuntimeSpec => JournalSpec
    BY RuntimeImplementsJournal DEF RefinesJournal
  <1>3. RuntimeSpec => []ExposureInvariant
    BY ExposureInit, ExposureStepKeeps, PTL DEF RuntimeSpec
  <1> QED
    BY <1>1, <1>2, <1>3, FillsAlways, FillsAlwaysShown, PTL
=============================================================================
