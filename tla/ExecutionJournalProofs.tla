-------------------------- MODULE ExecutionJournalProofs --------------------------
(***************************************************************************)
(* Proofs about the execution journal for every number of intents,         *)
(* decisions and processes and every value of its limits.                  *)
(***************************************************************************)
EXTENDS ExecutionJournal, FiniteSetTheorems, TLAPS

(* The generic state machine never leaves the set of states, and reaches a  *)
(* state of broker exposure other than by a reservation only from one.      *)
LEMMA TransitionFacts ==
    ASSUME NEW s \in ExecutionStates \cup {"ABSENT"}, NEW t \in AllowedTransitions(s)
    PROVE  /\ t \in ExecutionStates
           /\ t \in GlobalExposureStates /\ t # "SUBMITTING" => s \in GlobalExposureStates
           /\ s \notin TerminalStates
           /\ t # "SUBMITTING" => (t = "CLOSED" => s \in GlobalExposureStates)
  BY DEF AllowedTransitions, ExecutionStates, GlobalExposureStates, TerminalStates

EvidenceType == [Intents -> [risk : Procs \cup {"none", "denied"},
                              preflight : Procs \cup {"none", "denied"},
                              guard : Procs \cup {"none", "denied"}]]

LeaseType == [Intents -> [st : {"none", "active", "used", "dead"},
                          by : Procs \cup {"none"}, token : 0..MaxToken]]

(* Updating one field of one record keeps a function's type. *)
LEMMA EvidenceUpdate ==
    ASSUME NEW S, NEW E, NEW i \in S, NEW w \in E,
           NEW f \in [S -> [risk : E, preflight : E, guard : E]]
    PROVE  /\ [f EXCEPT ![i].risk = w] \in [S -> [risk : E, preflight : E, guard : E]]
           /\ [f EXCEPT ![i].preflight = w] \in [S -> [risk : E, preflight : E, guard : E]]
           /\ [f EXCEPT ![i].guard = w] \in [S -> [risk : E, preflight : E, guard : E]]
  OBVIOUS

(* The same for the submission lease objects. *)
LEMMA LeaseUpdate ==
    ASSUME NEW S, NEW A, NEW B, NEW C, NEW i \in S, NEW w \in A,
           NEW f \in [S -> [st : A, by : B, token : C]]
    PROVE  [f EXCEPT ![i].st = w] \in [S -> [st : A, by : B, token : C]]
  OBVIOUS

(* JournalInit establishes the types. *)
LEMMA TypeInit == JournalInit => JournalTypeOK
  <1> SUFFICES ASSUME JournalInit PROVE JournalTypeOK
    OBVIOUS
  <1>1. evidence \in [Intents -> [risk : Procs \cup {"none", "denied"},
                                  preflight : Procs \cup {"none", "denied"},
                                  guard : Procs \cup {"none", "denied"}]]
    BY DEF JournalInit, NoEvidence
  <1>2. slease \in [Intents -> [st : {"none", "active", "used", "dead"},
                                by : Procs \cup {"none"}, token : 0..MaxToken]]
    BY JournalAssumption DEF JournalInit, NoLease
  <1>3. /\ lease \in [owner : Procs \cup {"none"}, token : 0..MaxToken, live : BOOLEAN]
        /\ kill \in [latched : BOOLEAN, at : 0..MaxLatch]
    BY JournalAssumption DEF JournalInit
  <1> QED
    BY <1>1, <1>2, <1>3, JournalAssumption DEF JournalInit, JournalTypeOK

(* Every operation keeps the types. *)
LEMMA TypeStep == JournalTypeOK /\ [JournalNext]_jvars => JournalTypeOK'
  <1> SUFFICES ASSUME JournalTypeOK, [JournalNext]_jvars PROVE JournalTypeOK'
    OBVIOUS
  <1> USE JournalAssumption
  <1>1. CASE UNCHANGED jvars
    BY <1>1 DEF JournalTypeOK, jvars
  <1>2. ASSUME NEW i \in Intents, IntentStep(i) PROVE JournalTypeOK'
    <2>1. ASSUME NEW s \in ExecutionStates, InsertIntent(i, s) PROVE JournalTypeOK'
      BY <2>1 DEF JournalTypeOK, InsertIntent, sendVars, controlVars
    <2>2. ASSUME NEW s \in ExecutionStates, NEW t \in AllowedTransitions(s), Transition(i, s, t)
          PROVE  JournalTypeOK'
      <3>1. t \in ExecutionStates
        BY TransitionFacts
      <3> QED
        BY <2>2, <3>1 DEF JournalTypeOK, Transition, sendVars, controlVars
    <2>3. ASSUME NEW w \in Procs \cup {"denied"}, RecordRiskDecision(i, w) PROVE JournalTypeOK'
      <3>1. evidence' \in EvidenceType
        BY Zenon, <2>3, EvidenceUpdate DEF JournalTypeOK, EvidenceType, RecordRiskDecision
      <3> QED
        BY <2>3, <3>1 DEF JournalTypeOK, EvidenceType, RecordRiskDecision, sendVars, controlVars
    <2>4. ASSUME NEW w \in Procs \cup {"denied"}, RecordMt5Preflight(i, w) PROVE JournalTypeOK'
      <3>1. evidence' \in EvidenceType
        BY Zenon, <2>4, EvidenceUpdate DEF JournalTypeOK, EvidenceType, RecordMt5Preflight
      <3> QED
        BY <2>4, <3>1 DEF JournalTypeOK, EvidenceType, RecordMt5Preflight, sendVars, controlVars
    <2> QED
      BY <1>2, <2>1, <2>2, <2>3, <2>4
      DEF IntentStep, CreateIntent, RecordLockedDemoAutoPreparation, RecordDemoAutoSafeLoss,
          ExecutionStates, TerminalStates
  <1>3. ASSUME NEW i \in Intents, SubmissionStep(i) PROVE JournalTypeOK'
    <2>1. ASSUME NEW p \in Procs, AuthorizeSubmissionEvidence(i, p) PROVE JournalTypeOK'
      <3>1. evidence' \in EvidenceType
        BY Zenon, <2>1, EvidenceUpdate DEF JournalTypeOK, EvidenceType, AuthorizeSubmissionEvidence
      <3> QED
        BY <2>1, <3>1 DEF JournalTypeOK, EvidenceType, AuthorizeSubmissionEvidence, sendVars, controlVars
    <2>2. ASSUME NEW p \in Procs, NEW tok \in 1..MaxToken, NEW d \in StampDays,
                 ReserveSubmission(i, p, tok, d)
          PROVE  JournalTypeOK'
      BY <2>2 DEF JournalTypeOK, ReserveSubmission, StampDays, sendVars, controlVars,
                  ExecutionStates, GlobalExposureStates
    <2>3. ASSUME NEW p \in Procs, NEW tok \in 1..MaxToken, NEW d \in StampDays,
                 FinalSubmissionGuard(i, p, tok, d)
          PROVE  JournalTypeOK'
      BY <2>3 DEF JournalTypeOK, FinalSubmissionGuard, intentVars, controlVars, BoundaryReceipts
    <2>4. CASE ConsumeLease(i)
      <3>1. slease' \in LeaseType
        BY Zenon, <2>4, LeaseUpdate DEF JournalTypeOK, LeaseType, ConsumeLease
      <3> QED
        BY <2>4, <3>1 DEF JournalTypeOK, LeaseType, ConsumeLease, intentVars, controlVars
    <2>5. CASE ReleaseUnusedLease(i)
      <3>1. slease' \in LeaseType
        BY Zenon, <2>5, LeaseUpdate DEF JournalTypeOK, LeaseType, ReleaseUnusedLease
      <3> QED
        BY <2>5, <3>1 DEF JournalTypeOK, LeaseType, ReleaseUnusedLease, intentVars, controlVars, BoundaryReceipts
    <2>6. CASE LoseLease(i)
      <3>1. slease' \in LeaseType
        BY Zenon, <2>6, LeaseUpdate DEF JournalTypeOK, LeaseType, LoseLease
      <3> QED
        BY <2>6, <3>1 DEF JournalTypeOK, LeaseType, LoseLease, intentVars, controlVars
    <2> QED
      BY <1>3, <2>1, <2>2, <2>3, <2>4, <2>5, <2>6 DEF SubmissionStep
  <1>4. ASSUME NEW i \in Intents, OutcomeStep(i) PROVE JournalTypeOK'
    <2>1. ASSUME NEW t \in ExecutionTargets, NEW v \in 0..Lot, RecordExecutionReceipt(i, t, v)
          PROVE  JournalTypeOK'
      <3>1. t \in ExecutionStates
        BY DEF ExecutionTargets, ExecutionStates, GlobalExposureStates, TerminalStates
      <3> QED
        BY <2>1, <3>1 DEF JournalTypeOK, RecordExecutionReceipt, Larger, controlVars, BoundaryReceipts
    <2>2. ASSUME NEW s \in ExecutionStates, NEW t \in ReconciliationTargets, NEW v \in 0..Lot,
                 ApplyReconciliation(i, s, t, v)
          PROVE  JournalTypeOK'
      <3>1. t \in ExecutionStates
        BY DEF ReconciliationTargets, ExecutionStates, GlobalExposureStates, TerminalStates
      <3> QED
        BY <2>2, <3>1 DEF JournalTypeOK, ApplyReconciliation, Larger, controlVars, BoundaryReceipts
    <2>3. CASE RecordSubmissionNotSent(i)
      BY <2>3 DEF JournalTypeOK, RecordSubmissionNotSent, controlVars, BoundaryReceipts,
                  ExecutionStates, TerminalStates
    <2>4. CASE DemoAutoDispatchSettlement(i)
      <3>1. Settlement(i) \in SettlementStates
        BY <2>4 DEF DemoAutoDispatchSettlement, CanSettle, Settlement, SettlementStates
      <3>2. StateAfterSettlement(i) \in ExecutionStates \cup {"ABSENT"}
        BY DEF StateAfterSettlement, JournalTypeOK, ExecutionStates, TerminalStates
      <3> QED
        BY <2>4, <3>1, <3>2 DEF JournalTypeOK, DemoAutoDispatchSettlement, controlVars
    <2> QED
      BY <1>4, <2>1, <2>2, <2>3, <2>4 DEF OutcomeStep
  <1>5. CASE ControlStep
    <2>1. ASSUME NEW p \in Procs, ClaimExecutor(p) PROVE JournalTypeOK'
      BY <2>1 DEF JournalTypeOK, ClaimExecutor, intentVars, sendVars
    <2>2. CASE LeaseExpires
      BY Zenon, <2>2 DEF JournalTypeOK, LeaseExpires, intentVars, sendVars
    <2>3. CASE LatchKillSwitch
      BY <2>3 DEF JournalTypeOK, LatchKillSwitch, Latched, intentVars, sendVars
    <2>4. CASE IssueResetAuthorization
      BY Zenon, <2>4 DEF JournalTypeOK, IssueResetAuthorization, intentVars, sendVars
    <2>5. CASE ResetKillSwitch
      BY Zenon, <2>5 DEF JournalTypeOK, ResetKillSwitch, intentVars, sendVars
    <2>6. CASE NextDay
      BY <2>6 DEF JournalTypeOK, NextDay, intentVars, sendVars
    <2> QED
      BY <1>5, <2>1, <2>2, <2>3, <2>4, <2>5, <2>6 DEF ControlStep
  <1> QED
    BY <1>1, <1>2, <1>3, <1>4, <1>5 DEF JournalNext

(* Every journal column keeps its type (_initialize's column constraints    *)
(* and the values the operations write).                                    *)
THEOREM JournalTypes == JournalSpec => []JournalTypeOK
  BY TypeInit, TypeStep, PTL DEF JournalSpec

-----------------------------------------------------------------------------
(* One exposure.  Only a reservation brings an intent into an exposure      *)
(* state, and its transaction looks at every other intent.                  *)

(* What a step does to exposure: it adds none, or reserves one intent when  *)
(* no other is exposed.                                                     *)
Reserves(i) ==
    /\ ~OtherExposure(i)
    /\ \A j \in Intents \ {i} : state'[j] = state[j]

LEMMA ExposureStep ==
    ASSUME JournalTypeOK, [JournalNext]_jvars
    PROVE  \/ \E i \in Intents : Reserves(i)
           \/ \A j \in Intents : state'[j] \in GlobalExposureStates => state[j] \in GlobalExposureStates
  <1> DEFINE Same == \A j \in Intents :
                        state'[j] \in GlobalExposureStates => state[j] \in GlobalExposureStates
  <1> USE DEF JournalTypeOK
  <1>1. CASE UNCHANGED jvars
    BY <1>1 DEF jvars
  <1>2. ASSUME NEW i \in Intents, IntentStep(i) PROVE Same
    <2>1. ASSUME NEW s \in {"CREATED", "RISK_REJECTED", "EXPIRED"}, InsertIntent(i, s) PROVE Same
      BY <2>1 DEF InsertIntent, GlobalExposureStates
    <2>2. ASSUME NEW s \in ExecutionStates, NEW t \in AllowedTransitions(s), Transition(i, s, t) PROVE Same
      <3>1. (t \in AllowedTransitions(s) /\ t # "SUBMITTING") \/ t = s
        BY <2>2 DEF Transition, MayTransition
      <3>2. t \in GlobalExposureStates => s \in GlobalExposureStates
        BY <3>1, TransitionFacts
      <3> QED
        BY <2>2, <3>2 DEF Transition
    <2>3. CASE UNCHANGED state
      BY <2>3
    <2> QED
      BY <1>2, <2>1, <2>2, <2>3
      DEF IntentStep, CreateIntent, RecordLockedDemoAutoPreparation, RecordDemoAutoSafeLoss,
          RecordRiskDecision, RecordMt5Preflight
  <1>3. ASSUME NEW i \in Intents, SubmissionStep(i) PROVE Same \/ Reserves(i)
    <2>1. ASSUME NEW p \in Procs, NEW tok \in 1..MaxToken, NEW d \in StampDays,
                 ReserveSubmission(i, p, tok, d)
          PROVE  Reserves(i)
      BY <2>1 DEF ReserveSubmission, MayReserve, Reserves
    <2>2. CASE UNCHANGED state
      BY <2>2
    <2> QED
      BY <1>3, <2>1, <2>2
      DEF SubmissionStep, AuthorizeSubmissionEvidence, FinalSubmissionGuard, ConsumeLease,
          ReleaseUnusedLease, LoseLease, intentVars
  <1>4. ASSUME NEW i \in Intents, OutcomeStep(i) PROVE Same
    <2>1. ASSUME NEW t \in ExecutionTargets, NEW v \in 0..Lot, RecordExecutionReceipt(i, t, v)
          PROVE  Same
      BY <2>1 DEF RecordExecutionReceipt, MayRecordExecution, GlobalExposureStates
    <2>2. ASSUME NEW s \in ExecutionStates, NEW t \in ReconciliationTargets, NEW v \in 0..Lot,
                 ApplyReconciliation(i, s, t, v)
          PROVE  Same
      <3>1. (t \in AllowedTransitions(s) \/ t = s) /\ t # "SUBMITTING" /\ state[i] = s
        BY <2>2 DEF ApplyReconciliation, MayReconcile, ReconciliationTargets
      <3>2. t \in GlobalExposureStates => s \in GlobalExposureStates
        BY <3>1, TransitionFacts
      <3> QED
        BY <2>2, <3>1, <3>2 DEF ApplyReconciliation
    <2>3. CASE RecordSubmissionNotSent(i)
      BY <2>3 DEF RecordSubmissionNotSent, GlobalExposureStates
    <2>4. CASE DemoAutoDispatchSettlement(i)
      BY <2>4 DEF DemoAutoDispatchSettlement, StateAfterSettlement, GlobalExposureStates
    <2> QED
      BY <1>4, <2>1, <2>2, <2>3, <2>4 DEF OutcomeStep
  <1>5. CASE ControlStep
    BY <1>5 DEF ControlStep, ClaimExecutor, LeaseExpires, LatchKillSwitch,
                IssueResetAuthorization, ResetKillSwitch, NextDay, intentVars
  <1> QED
    BY <1>1, <1>2, <1>3, <1>4, <1>5 DEF JournalNext

(* At most one intent may stand for broker exposure, for any number of      *)
(* processes calling the journal in any order (GLOBAL_EXPOSURE_STATES,      *)
(* reserve_submission).                                                     *)
THEOREM OneExposure == JournalSpec => []SingleExposure
  <1>1. JournalInit => SingleExposure
    BY DEF JournalInit, SingleExposure, GlobalExposureStates
  <1>2. ASSUME JournalTypeOK, SingleExposure, [JournalNext]_jvars PROVE SingleExposure'
    <2>1. CASE \E i \in Intents : Reserves(i)
      <3>1. PICK i \in Intents : Reserves(i)
        BY <2>1
      <3> QED
        BY <3>1 DEF Reserves, OtherExposure, SingleExposure
    <2>2. CASE \A j \in Intents : state'[j] \in GlobalExposureStates => state[j] \in GlobalExposureStates
      BY <1>2, <2>2 DEF SingleExposure
    <2> QED
      BY <1>2, <2>1, <2>2, ExposureStep
  <1> QED
    BY <1>1, <1>2, JournalTypes, PTL DEF JournalSpec

-----------------------------------------------------------------------------
(* The send boundary.  What the receipts and the settlement proofs say of   *)
(* an intent's lease is not inductive by itself: it rests on which states   *)
(* an intent can be in once its final guard is committed.                   *)

EarlyStates == {"ABSENT", "CREATED", "RISK_APPROVED", "PREFLIGHT_PASSED"}

Guarded(i) == "FINAL_SUBMISSION_GUARD" \in receipts[i]
Unconsumed(i) == "SUBMISSION_LEASE_NOT_CONSUMED" \in receipts[i]
SaidNotSent(i) == "SUBMISSION_NOT_SENT" \in receipts[i]

SendBoundary(i) ==
    /\ Guarded(i) <=> slease[i].st # "none"
    /\ Guarded(i) => state[i] \notin EarlyStates
    /\ Unconsumed(i) => Guarded(i) /\ slease[i].st = "dead"
    /\ SaidNotSent(i) => /\ state[i] = "REJECTED" /\ ~BrokerEvidence(i)
                         /\ Guarded(i) => Unconsumed(i)
    /\ slease[i].st = "used" =>
          \/ state[i] \in GlobalExposureStates
          \/ state[i] = "REJECTED" /\ "EXECUTION_RECEIPT" \in receipts[i]
          \/ state[i] = "CLOSED" /\ "RECONCILIATION_RECEIPT" \in receipts[i] /\ filled[i] > 0
    /\ "ABORTED_BEFORE_SEND" \in minted[i] =>
          /\ state[i] \in {"RISK_REJECTED", "REJECTED", "EXPIRED"}
          /\ Guarded(i) => Unconsumed(i)
    /\ minted[i] \cap {"COMPLETED", "RECONCILED"} # {} =>
          /\ Guarded(i) /\ ~Unconsumed(i)
          /\ state[i] # "SUBMITTING"
          /\ "ABORTED_BEFORE_SEND" \notin minted[i]

SendInv == JournalTypeOK /\ \A i \in Intents : SendBoundary(i)

(* The columns the send boundary of an intent is about. *)
Untouched(j) ==
    /\ state'[j] = state[j] /\ receipts'[j] = receipts[j] /\ slease'[j] = slease[j]
    /\ minted'[j] = minted[j] /\ filled'[j] = filled[j]

(* A step that leaves an intent's columns alone keeps its boundary. *)
LEMMA UntouchedKeeps ==
    ASSUME NEW j \in Intents, SendBoundary(j), Untouched(j)
    PROVE  SendBoundary(j)'
  BY DEF Untouched, SendBoundary, Guarded, Unconsumed, SaidNotSent, BrokerEvidence

(* Initially nothing is guarded, sent or minted. *)
LEMMA SendInit == JournalInit => SendInv
  BY TypeInit DEF JournalInit, SendInv, SendBoundary, Guarded, Unconsumed, SaidNotSent,
                  BrokerEvidence, NoLease

(* Operations before the submission only move unguarded intents or leave    *)
(* the boundary's columns alone.                                            *)
LEMMA SendIntentStep ==
    ASSUME SendInv, NEW i \in Intents, IntentStep(i), NEW j \in Intents
    PROVE  SendBoundary(j)'
  <1> USE DEF SendInv, JournalTypeOK
  <1>1. CASE Untouched(j)
    BY <1>1, UntouchedKeeps
  <1>2. ASSUME NEW s \in ExecutionStates, InsertIntent(i, s) PROVE SendBoundary(j)'
    <2>1. CASE j = i
      <3>1. /\ state[i] = "ABSENT" /\ receipts'[i] = receipts[i] /\ slease'[i] = slease[i]
            /\ minted'[i] = minted[i] /\ filled'[i] = filled[i]
        BY <1>2 DEF InsertIntent, CanInsert, sendVars
      <3>2. /\ ~Guarded(i) /\ slease[i].st = "none" /\ ~Unconsumed(i) /\ ~SaidNotSent(i)
            /\ "ABORTED_BEFORE_SEND" \notin minted[i]
            /\ minted[i] \cap {"COMPLETED", "RECONCILED"} = {}
        BY SMTT(30), <3>1 DEF SendBoundary, EarlyStates
      <3> QED
        BY <2>1, <3>1, <3>2 DEF SendBoundary, Guarded, Unconsumed, SaidNotSent, BrokerEvidence
    <2>2. CASE j # i
      BY <1>1, <1>2, <2>2 DEF InsertIntent, Untouched, sendVars
    <2> QED
      BY <2>1, <2>2
  <1>3. ASSUME NEW s \in ExecutionStates, NEW t \in AllowedTransitions(s), Transition(i, s, t)
        PROVE  SendBoundary(j)'
    <2>1. CASE j = i /\ t # s
      <3>1. /\ state[i] = s /\ state'[i] = t
            /\ receipts'[i] = receipts[i] /\ slease'[i] = slease[i]
            /\ minted'[i] = minted[i] /\ filled'[i] = filled[i]
        BY <1>3 DEF Transition, sendVars
      <3>2. /\ t \in AllowedTransitions(s)
            /\ t \notin {"SUBMITTING", "CLOSED"}
            /\ ~(t = "REJECTED" /\ s \in GlobalExposureStates)
        BY <1>3, <2>1 DEF Transition, MayTransition, BrokerConclusiveTargets
      <3>3. /\ s \notin TerminalStates
            /\ s \in GlobalExposureStates => t \in GlobalExposureStates
            /\ s \notin EarlyStates => t \notin EarlyStates
        BY <3>2 DEF AllowedTransitions, GlobalExposureStates, TerminalStates, EarlyStates, ExecutionStates
      <3> QED
        BY <2>1, <3>1, <3>2, <3>3
        DEF SendBoundary, Guarded, Unconsumed, SaidNotSent, BrokerEvidence, TerminalStates,
            GlobalExposureStates, EarlyStates
    <2>2. CASE j # i \/ t = s
      BY <1>1, <1>3, <2>2 DEF Transition, Untouched, sendVars
    <2> QED
      BY <2>1, <2>2
  <1>4. ASSUME NEW w \in Procs \cup {"denied"},
               RecordRiskDecision(i, w) \/ RecordMt5Preflight(i, w)
        PROVE  SendBoundary(j)'
    BY <1>1, <1>4 DEF RecordRiskDecision, RecordMt5Preflight, Untouched, sendVars
  <1> QED
    BY <1>2, <1>3, <1>4
    DEF IntentStep, CreateIntent, RecordLockedDemoAutoPreparation, RecordDemoAutoSafeLoss,
        ExecutionStates, TerminalStates

(* Reserving, guarding, consuming and releasing. *)
LEMMA SendSubmissionStep ==
    ASSUME SendInv, NEW i \in Intents, SubmissionStep(i), NEW j \in Intents
    PROVE  SendBoundary(j)'
  <1> USE DEF SendInv, JournalTypeOK
  <1>1. CASE Untouched(j)
    BY <1>1, UntouchedKeeps
  <1>2. ASSUME NEW p \in Procs, AuthorizeSubmissionEvidence(i, p) PROVE SendBoundary(j)'
    BY <1>1, <1>2 DEF AuthorizeSubmissionEvidence, Untouched, sendVars
  <1>3. ASSUME NEW p \in Procs, NEW tok \in 1..MaxToken, NEW d \in StampDays,
               ReserveSubmission(i, p, tok, d)
        PROVE  SendBoundary(j)'
    <2>1. CASE j = i
      BY <1>3, <2>1
      DEF ReserveSubmission, MayReserve, sendVars, SendBoundary, Guarded, Unconsumed, SaidNotSent,
          BrokerEvidence, EarlyStates, GlobalExposureStates
    <2>2. CASE j # i
      BY <1>1, <1>3, <2>2 DEF ReserveSubmission, Untouched, sendVars
    <2> QED
      BY <2>1, <2>2
  <1>4. ASSUME NEW p \in Procs, NEW tok \in 1..MaxToken, NEW d \in StampDays,
               FinalSubmissionGuard(i, p, tok, d)
        PROVE  SendBoundary(j)'
    <2>1. CASE j = i
      <3>1. /\ state[i] = "SUBMITTING" /\ state'[i] = state[i] /\ ~Guarded(i)
            /\ receipts'[i] = receipts[i] \cup {"FINAL_SUBMISSION_GUARD"}
            /\ slease'[i].st = "active" /\ minted'[i] = minted[i] /\ filled'[i] = filled[i]
        BY <1>4 DEF FinalSubmissionGuard, MayCommitGuard, AssertFinalSubmissionState, Guarded, intentVars
      <3> QED
        BY <2>1, <3>1 DEF SendBoundary, Guarded, Unconsumed, SaidNotSent, BrokerEvidence, EarlyStates
    <2>2. CASE j # i
      BY <1>1, <1>4, <2>2 DEF FinalSubmissionGuard, Untouched, intentVars
    <2> QED
      BY <2>1, <2>2
  <1>5. CASE ConsumeLease(i)
    <2>1. CASE j = i
      <3>1. /\ state[i] = "SUBMITTING" /\ state'[i] = state[i]
            /\ slease[i].st = "active" /\ slease'[i].st = "used"
            /\ receipts'[i] = receipts[i] /\ minted'[i] = minted[i] /\ filled'[i] = filled[i]
        BY <1>5 DEF ConsumeLease, MayConsume, AssertFinalSubmissionState, intentVars
      <3> QED
        BY <2>1, <3>1 DEF SendBoundary, Guarded, Unconsumed, SaidNotSent, BrokerEvidence, EarlyStates,
                          GlobalExposureStates
    <2>2. CASE j # i
      BY <1>1, <1>5, <2>2 DEF ConsumeLease, Untouched, intentVars
    <2> QED
      BY <2>1, <2>2
  <1>6. CASE ReleaseUnusedLease(i)
    <2>1. CASE j = i
      <3>1. /\ state'[i] = state[i] /\ slease[i].st = "active" /\ slease'[i].st = "dead"
            /\ \/ receipts'[i] = receipts[i]
               \/ /\ state[i] = "SUBMITTING"
                  /\ receipts'[i] = receipts[i] \cup {"SUBMISSION_LEASE_NOT_CONSUMED"}
            /\ minted'[i] = minted[i] /\ filled'[i] = filled[i]
        BY <1>6 DEF ReleaseUnusedLease, UnusedLeaseProvable, intentVars
      <3> QED
        BY <2>1, <3>1 DEF SendBoundary, Guarded, Unconsumed, SaidNotSent, BrokerEvidence, EarlyStates
    <2>2. CASE j # i
      BY <1>1, <1>6, <2>2 DEF ReleaseUnusedLease, Untouched, intentVars
    <2> QED
      BY <2>1, <2>2
  <1>7. CASE LoseLease(i)
    <2>1. CASE j = i
      <3>1. /\ state'[i] = state[i] /\ slease[i].st = "active" /\ slease'[i].st = "dead"
            /\ receipts'[i] = receipts[i] /\ minted'[i] = minted[i] /\ filled'[i] = filled[i]
        BY <1>7 DEF LoseLease, intentVars
      <3> QED
        BY <2>1, <3>1 DEF SendBoundary, Guarded, Unconsumed, SaidNotSent, BrokerEvidence, EarlyStates
    <2>2. CASE j # i
      BY <1>1, <1>7, <2>2 DEF LoseLease, Untouched, intentVars
    <2> QED
      BY <2>1, <2>2
  <1> QED
    BY <1>2, <1>3, <1>4, <1>5, <1>6, <1>7 DEF SubmissionStep

(* Outcomes, not-sent proofs and settlements. *)
LEMMA SendOutcomeStep ==
    ASSUME SendInv, NEW i \in Intents, OutcomeStep(i), NEW j \in Intents
    PROVE  SendBoundary(j)'
  <1> USE DEF SendInv, JournalTypeOK
  <1>1. CASE Untouched(j)
    BY <1>1, UntouchedKeeps
  <1>2. ASSUME NEW t \in ExecutionTargets, NEW v \in 0..Lot, RecordExecutionReceipt(i, t, v)
        PROVE  SendBoundary(j)'
    <2>1. CASE j = i
      <3>1. /\ slease[i].st = "used" /\ slease'[i] = slease[i]
            /\ state[i] = "SUBMITTING" /\ state'[i] = t /\ Guarded(i)
            /\ receipts'[i] = receipts[i] \cup {"EXECUTION_RECEIPT"}
            /\ minted'[i] = minted[i]
        BY <1>2 DEF RecordExecutionReceipt, MayRecordExecution, Guarded
      <3>2. t \in GlobalExposureStates \/ t = "REJECTED"
        BY DEF ExecutionTargets, GlobalExposureStates
      <3> QED
        BY <2>1, <3>1, <3>2 DEF SendBoundary, Guarded, Unconsumed, SaidNotSent, EarlyStates,
                                GlobalExposureStates
    <2>2. CASE j # i
      BY <1>1, <1>2, <2>2 DEF RecordExecutionReceipt, Untouched
    <2> QED
      BY <2>1, <2>2
  <1>3. ASSUME NEW s \in ExecutionStates, NEW t \in ReconciliationTargets, NEW v \in 0..Lot,
               ApplyReconciliation(i, s, t, v)
        PROVE  SendBoundary(j)'
    <2>1. CASE j = i
      <3>1. /\ state[i] = s /\ state'[i] = t /\ s \notin TerminalStates
            /\ t \in AllowedTransitions(s) \/ t = s
            /\ t \in ReconciliationTargets
            /\ slease'[i] = slease[i] /\ minted'[i] = minted[i]
            /\ receipts'[i] = receipts[i] \cup {"RECONCILIATION_RECEIPT"}
        BY <1>3 DEF ApplyReconciliation, MayReconcile
      <3>2. t = "CLOSED" => filled'[i] > 0
        BY <1>3 DEF ApplyReconciliation, MayReconcile
      <3>3. t \in (GlobalExposureStates \ {"SUBMITTING"}) \cup {"CLOSED"}
        BY DEF ReconciliationTargets, GlobalExposureStates
      <3> QED
        BY <2>1, <3>1, <3>2, <3>3
        DEF SendBoundary, Guarded, Unconsumed, SaidNotSent, EarlyStates, TerminalStates,
            GlobalExposureStates
    <2>2. CASE j # i
      BY <1>1, <1>3, <2>2 DEF ApplyReconciliation, Untouched
    <2> QED
      BY <2>1, <2>2
  <1>4. CASE RecordSubmissionNotSent(i)
    <2>1. CASE j = i
      <3>1. /\ state[i] \in {"SUBMITTING", "UNCERTAIN"} /\ state'[i] = "REJECTED"
            /\ ~BrokerEvidence(i)
            /\ Guarded(i) => Unconsumed(i)
            /\ slease'[i] = slease[i] /\ minted'[i] = minted[i]
            /\ receipts'[i] = receipts[i] \cup {"SUBMISSION_NOT_SENT"}
        BY <1>4 DEF RecordSubmissionNotSent, MayRecordNotSent, Guarded, Unconsumed
      <3> QED
        BY <2>1, <3>1 DEF SendBoundary, Guarded, Unconsumed, SaidNotSent, BrokerEvidence, EarlyStates
    <2>2. CASE j # i
      BY Zenon, <1>1, <1>4, <2>2 DEF RecordSubmissionNotSent, Untouched
    <2> QED
      BY <2>1, <2>2
  <1>5. CASE DemoAutoDispatchSettlement(i)
    <2>1. CASE j = i
      <3>1. /\ state'[i] = StateAfterSettlement(i)
            /\ minted'[i] = minted[i] \cup {Settlement(i)}
            /\ receipts'[i] = receipts[i] /\ slease'[i] = slease[i] /\ filled'[i] = filled[i]
            /\ Settlement(i) # "ERROR"
        BY <1>5 DEF DemoAutoDispatchSettlement, CanSettle
      <3>2. CASE Settlement(i) = "ABORTED_BEFORE_SEND"
        <4>1. Guarded(i) => Unconsumed(i)
          BY <3>2 DEF Settlement, NoSendBoundary, SendBoundary, Guarded, Unconsumed, SaidNotSent
        <4>2. state'[i] \in {"RISK_REJECTED", "REJECTED", "EXPIRED"}
          BY <3>1, <3>2 DEF Settlement, StateAfterSettlement, AbortableStates
        <4>3. SaidNotSent(i) => state'[i] = "REJECTED"
          BY <3>1 DEF SendBoundary, StateAfterSettlement
        <4>4. slease[i].st # "used"
          BY <4>1 DEF SendBoundary
        <4> QED
          BY <2>1, <3>1, <3>2, <4>1, <4>2, <4>3, <4>4
          DEF SendBoundary, Guarded, Unconsumed, SaidNotSent, BrokerEvidence, EarlyStates
      <3>3. CASE Settlement(i) \in {"COMPLETED", "RECONCILED"}
        <4>1. Guarded(i) /\ ~Unconsumed(i) /\ state[i] # "SUBMITTING"
          BY <3>3 DEF Settlement, NoSendBoundary, Guarded, Unconsumed
        <4>2. state'[i] = state[i]
          BY <3>1, <3>3 DEF StateAfterSettlement
        <4> QED
          BY <2>1, <3>1, <3>3, <4>1, <4>2
          DEF SendBoundary, Guarded, Unconsumed, SaidNotSent, BrokerEvidence, EarlyStates
      <3>4. CASE Settlement(i) = "RECONCILIATION_REQUIRED"
        <4>1. state'[i] = state[i]
          BY <3>1, <3>4 DEF StateAfterSettlement
        <4> QED
          BY <2>1, <3>1, <3>4, <4>1
          DEF SendBoundary, Guarded, Unconsumed, SaidNotSent, BrokerEvidence, EarlyStates
      <3> QED
        BY <3>1, <3>2, <3>3, <3>4 DEF Settlement
    <2>2. CASE j # i
      BY <1>1, <1>5, <2>2 DEF DemoAutoDispatchSettlement, Untouched
    <2> QED
      BY <2>1, <2>2
  <1> QED
    BY <1>2, <1>3, <1>4, <1>5 DEF OutcomeStep

(* The send boundary of every intent is kept by every step. *)
LEMMA SendStep == SendInv /\ [JournalNext]_jvars => SendInv'
  <1> SUFFICES ASSUME SendInv, [JournalNext]_jvars, NEW j \in Intents PROVE SendBoundary(j)'
    BY TypeStep DEF SendInv
  <1>1. CASE UNCHANGED jvars
    BY <1>1, UntouchedKeeps DEF jvars, Untouched, SendInv
  <1>2. CASE ControlStep
    BY <1>2, UntouchedKeeps
    DEF ControlStep, ClaimExecutor, LeaseExpires, LatchKillSwitch, IssueResetAuthorization,
        ResetKillSwitch, NextDay, intentVars, sendVars, Untouched, SendInv
  <1> QED
    BY <1>1, <1>2, SendIntentStep, SendSubmissionStep, SendOutcomeStep DEF JournalNext

(* The inductive invariant of the send boundary holds throughout. *)
LEMMA SendInvariant == JournalSpec => []SendInv
  BY SendInit, SendStep, PTL DEF JournalSpec

(* A durable "nothing was sent" is true and stays true, for any callers     *)
(* (record_submission_not_sent, final_submission_guard's exit).             *)
THEOREM NotSentTruth == JournalSpec => []NotSentIsTrue
  <1>1. SendInv => NotSentIsTrue
    BY DEF SendInv, SendBoundary, NotSentIsTrue, Guarded, Unconsumed, SaidNotSent
  <1> QED
    BY <1>1, SendInvariant, PTL

(* An ABORTED_BEFORE_SEND settlement proof cannot race a later submission,  *)
(* and a completed one was guarded (demo_auto_dispatch_settlement).         *)
THEOREM SettlementTruth == JournalSpec => []SettlementProofsAreTrue
  <1>1. SendInv => SettlementProofsAreTrue
    BY DEF SendInv, SendBoundary, SettlementProofsAreTrue, Guarded, Unconsumed
  <1> QED
    BY <1>1, SendInvariant, PTL

(* A consumed lease's intent is released only on broker evidence            *)
(* (record_execution_receipt, apply_reconciliation).                        *)
THEOREM SentRelease == JournalSpec => []SentIsReleasedOnEvidence
  <1>1. SendInv => SentIsReleasedOnEvidence
    BY DEF SendInv, SendBoundary, SentIsReleasedOnEvidence
  <1> QED
    BY <1>1, SendInvariant, PTL

-----------------------------------------------------------------------------
(* The daily limit and the decision index.                                  *)

(* Only a reservation writes a SUBMITTING row, and only below the limit. *)
LEMMA ReservationStep ==
    ASSUME JournalTypeOK, [JournalNext]_jvars
    PROVE  \/ reservedOn' = reservedOn
           \/ \E i \in Intents, d \in 1..MaxDay :
                /\ SubmittedOn(d) < MaxDaily
                /\ reservedOn' = [reservedOn EXCEPT ![i] = d]
  <1>1. ASSUME NEW i \in Intents, IntentStep(i) PROVE reservedOn' = reservedOn
    BY <1>1 DEF IntentStep, CreateIntent, RecordLockedDemoAutoPreparation, RecordDemoAutoSafeLoss,
                InsertIntent, Transition, RecordRiskDecision, RecordMt5Preflight
  <1>2. ASSUME NEW i \in Intents, SubmissionStep(i)
        PROVE  \/ reservedOn' = reservedOn
               \/ \E d \in 1..MaxDay : /\ SubmittedOn(d) < MaxDaily
                                       /\ reservedOn' = [reservedOn EXCEPT ![i] = d]
    BY Zenon, <1>2 DEF SubmissionStep, AuthorizeSubmissionEvidence, ReserveSubmission, MayReserve,
                StampDays, FinalSubmissionGuard, ConsumeLease, ReleaseUnusedLease, LoseLease,
                intentVars
  <1>3. ASSUME NEW i \in Intents, OutcomeStep(i) PROVE reservedOn' = reservedOn
    BY <1>3 DEF OutcomeStep, RecordExecutionReceipt, ApplyReconciliation,
                RecordSubmissionNotSent, DemoAutoDispatchSettlement
  <1>4. ControlStep => reservedOn' = reservedOn
    BY DEF ControlStep, ClaimExecutor, LeaseExpires, LatchKillSwitch,
           IssueResetAuthorization, ResetKillSwitch, NextDay, intentVars
  <1> QED
    BY <1>1, <1>2, <1>3, <1>4 DEF JournalNext, jvars

(* One more element adds at most one to a set's size. *)
LEMMA AddOne ==
    ASSUME NEW S, NEW x, IsFiniteSet(S)
    PROVE  /\ IsFiniteSet(S \cup {x})
           /\ Cardinality(S \cup {x}) <= Cardinality(S) + 1
  <1>1. IsFiniteSet(S \cup {x})
    BY FS_AddElement
  <1>2. Cardinality(S \cup {x}) \in {Cardinality(S), Cardinality(S) + 1}
    BY FS_AddElement
  <1>3. Cardinality(S) \in Nat
    BY FS_CardinalityType
  <1> QED
    BY <1>1, <1>2, <1>3

(* No UTC day collects more reservations than MAX_DAILY_SUBMISSIONS,        *)
(* whatever day a late transaction stamps (reserve_submission).             *)
THEOREM DailySubmissions == JournalSpec => []DailyLimit
  <1>1. JournalInit => DailyLimit
    <2> SUFFICES ASSUME JournalInit, NEW d \in 1..MaxDay PROVE SubmittedOn(d) <= MaxDaily
      BY DEF DailyLimit
    <2>1. {i \in Intents : reservedOn[i] = d} = {}
      BY DEF JournalInit
    <2> QED
      BY <2>1, FS_EmptySet, JournalAssumption DEF SubmittedOn
  <1>2. ASSUME JournalTypeOK, DailyLimit, [JournalNext]_jvars PROVE DailyLimit'
    <2>1. CASE reservedOn' = reservedOn
      BY <1>2, <2>1 DEF DailyLimit, SubmittedOn
    <2>2. ASSUME NEW i \in Intents, NEW d \in 1..MaxDay, SubmittedOn(d) < MaxDaily,
                 reservedOn' = [reservedOn EXCEPT ![i] = d]
          PROVE  DailyLimit'
      <3> SUFFICES ASSUME NEW e \in 1..MaxDay PROVE SubmittedOn(e)' <= MaxDaily
        BY DEF DailyLimit
      <3> DEFINE Old == {j \in Intents : reservedOn[j] = e}
                 New == {j \in Intents : reservedOn'[j] = e}
      <3>1. IsFiniteSet(Old) /\ Cardinality(Old) \in Nat
        BY JournalAssumption, FS_Subset, FS_CardinalityType
      <3>2. CASE e = d
        <4>1. New \subseteq Old \cup {i}
          BY <1>2, <2>2 DEF JournalTypeOK
        <4>2. IsFiniteSet(Old \cup {i}) /\ Cardinality(Old \cup {i}) <= Cardinality(Old) + 1
          BY Zenon, <3>1, AddOne
        <4>3. Cardinality(New) <= Cardinality(Old \cup {i})
          BY <4>1, <4>2, FS_Subset
        <4>4. Cardinality(New) \in Nat /\ Cardinality(Old \cup {i}) \in Nat
          BY <4>1, <4>2, FS_Subset, FS_CardinalityType
        <4>5. Cardinality(Old) < MaxDaily
          BY <2>2, <3>2 DEF SubmittedOn
        <4> QED
          BY <3>1, <4>2, <4>3, <4>4, <4>5, JournalAssumption DEF SubmittedOn
      <3>3. CASE e # d
        <4>1. New \subseteq Old
          BY <1>2, <2>2, <3>3 DEF JournalTypeOK
        <4>2. Cardinality(New) <= Cardinality(Old) /\ Cardinality(New) \in Nat
          BY <3>1, <4>1, FS_Subset, FS_CardinalityType
        <4>3. Cardinality(Old) <= MaxDaily
          BY <1>2 DEF DailyLimit, SubmittedOn
        <4> QED
          BY <3>1, <4>2, <4>3, JournalAssumption DEF SubmittedOn
      <3> QED
        BY <3>2, <3>3
    <2> QED
      BY <1>2, <2>1, <2>2, ReservationStep
  <1> QED
    BY <1>1, <1>2, JournalTypes, PTL DEF JournalSpec

(* A row is only ever inserted for a decision that has none. *)
LEMMA InsertionStep ==
    ASSUME JournalTypeOK, [JournalNext]_jvars
    PROVE  \/ \A j \in Intents : state'[j] # "ABSENT" => state[j] # "ABSENT"
           \/ \E i \in Intents : CanInsert(i) /\ \A j \in Intents \ {i} : state'[j] = state[j]
  <1> USE DEF JournalTypeOK
  <1>1. ASSUME NEW i \in Intents, NEW s \in ExecutionStates, InsertIntent(i, s)
        PROVE  CanInsert(i) /\ \A j \in Intents \ {i} : state'[j] = state[j]
    BY <1>1 DEF InsertIntent
  <1>2. ASSUME NEW i \in Intents, NEW s, state[i] # "ABSENT", state' = [state EXCEPT ![i] = s]
        PROVE  \A j \in Intents : state'[j] # "ABSENT" => state[j] # "ABSENT"
    BY <1>2
  <1>3. CASE UNCHANGED state
    BY <1>3
  <1>4. ASSUME NEW i \in Intents, IntentStep(i)
        PROVE  \/ UNCHANGED state
               \/ \E s \in ExecutionStates : InsertIntent(i, s)
               \/ state[i] # "ABSENT" /\ \E s : state' = [state EXCEPT ![i] = s]
    BY <1>4 DEF IntentStep, CreateIntent, RecordLockedDemoAutoPreparation, RecordDemoAutoSafeLoss,
                Transition, MayTransition, RecordRiskDecision, RecordMt5Preflight,
                ExecutionStates, TerminalStates
  <1>5. ASSUME NEW i \in Intents, SubmissionStep(i)
        PROVE  \/ UNCHANGED state
               \/ state[i] # "ABSENT" /\ \E s : state' = [state EXCEPT ![i] = s]
    BY <1>5 DEF SubmissionStep, AuthorizeSubmissionEvidence, ReserveSubmission, MayReserve,
                FinalSubmissionGuard, ConsumeLease, ReleaseUnusedLease, LoseLease, intentVars
  <1>6. ASSUME NEW i \in Intents, OutcomeStep(i)
        PROVE  \/ UNCHANGED state
               \/ state[i] # "ABSENT" /\ \E s : state' = [state EXCEPT ![i] = s]
    BY <1>6 DEF OutcomeStep, RecordExecutionReceipt, MayRecordExecution, ApplyReconciliation,
                MayReconcile, RecordSubmissionNotSent, MayRecordNotSent,
                DemoAutoDispatchSettlement, CanSettle, ExecutionStates, GlobalExposureStates,
                TerminalStates
  <1>7. ControlStep => UNCHANGED state
    BY DEF ControlStep, ClaimExecutor, LeaseExpires, LatchKillSwitch,
           IssueResetAuthorization, ResetKillSwitch, NextDay, intentVars
  <1> QED
    BY <1>1, <1>2, <1>3, <1>4, <1>5, <1>6, <1>7 DEF JournalNext, jvars

(* A decision never backs two durable intents (the UNIQUE decision index,   *)
(* create_intent and the two DEMO_AUTO insertions).                         *)
THEOREM DecisionsBoundOnce == JournalSpec => []DecisionBoundOnce
  <1>1. JournalInit => DecisionBoundOnce
    BY DEF JournalInit, DecisionBoundOnce
  <1>2. ASSUME JournalTypeOK, DecisionBoundOnce, [JournalNext]_jvars PROVE DecisionBoundOnce'
    BY <1>2, InsertionStep DEF DecisionBoundOnce, CanInsert
  <1> QED
    BY <1>1, <1>2, JournalTypes, PTL DEF JournalSpec

-----------------------------------------------------------------------------
(* What a step may never do.                                                *)

(* The part of TerminalIsFinal about one intent. *)
Frozen(j) == state'[j] = state[j] /\ filled'[j] = filled[j] /\ receipts'[j] = receipts[j]

(* A row that reached RISK_REJECTED, REJECTED, EXPIRED or CLOSED is never   *)
(* touched again by any operation of the journal (_transition_locked).      *)
THEOREM TerminalRowsAreFinal == JournalSpec => TerminalIsFinal
  <1>1. ASSUME JournalTypeOK, [JournalNext]_jvars, NEW j \in Intents, state[j] \in TerminalStates
        PROVE  Frozen(j)
    <2> USE <1>1 DEF JournalTypeOK, Frozen, TerminalStates
    <2>1. ASSUME NEW i \in Intents, IntentStep(i) PROVE Frozen(j)
      <3>1. ASSUME NEW s, InsertIntent(i, s) PROVE Frozen(j)
        BY <3>1 DEF InsertIntent, CanInsert, sendVars
      <3>2. ASSUME NEW s, NEW t, Transition(i, s, t) PROVE Frozen(j)
        BY <3>2 DEF Transition, MayTransition, AllowedTransitions, sendVars
      <3>3. ASSUME NEW w, RecordRiskDecision(i, w) \/ RecordMt5Preflight(i, w) PROVE Frozen(j)
        BY Zenon, <3>3 DEF RecordRiskDecision, RecordMt5Preflight, sendVars
      <3> QED
        BY <2>1, <3>1, <3>2, <3>3
        DEF IntentStep, CreateIntent, RecordLockedDemoAutoPreparation, RecordDemoAutoSafeLoss
    <2>2. ASSUME NEW i \in Intents, SubmissionStep(i) PROVE Frozen(j)
      <3>1. ASSUME NEW p, AuthorizeSubmissionEvidence(i, p) PROVE Frozen(j)
        BY <3>1 DEF AuthorizeSubmissionEvidence, sendVars
      <3>2. ASSUME NEW p, NEW tok, NEW d, ReserveSubmission(i, p, tok, d) PROVE Frozen(j)
        BY <3>2 DEF ReserveSubmission, MayReserve, sendVars
      <3>3. ASSUME NEW p, NEW tok, NEW d, FinalSubmissionGuard(i, p, tok, d) PROVE Frozen(j)
        BY <3>3 DEF FinalSubmissionGuard, MayCommitGuard, AssertFinalSubmissionState, intentVars
      <3>4. ASSUME ReleaseUnusedLease(i) PROVE Frozen(j)
        BY <3>4 DEF ReleaseUnusedLease, UnusedLeaseProvable, intentVars
      <3>5. ASSUME ConsumeLease(i) \/ LoseLease(i) PROVE Frozen(j)
        BY Zenon, <3>5 DEF ConsumeLease, LoseLease, intentVars
      <3> QED
        BY <2>2, <3>1, <3>2, <3>3, <3>4, <3>5 DEF SubmissionStep
    <2>3. ASSUME NEW i \in Intents, OutcomeStep(i) PROVE Frozen(j)
      <3>1. ASSUME NEW t, NEW v, RecordExecutionReceipt(i, t, v) PROVE Frozen(j)
        BY <3>1 DEF RecordExecutionReceipt, MayRecordExecution
      <3>2. ASSUME NEW s, NEW t, NEW v, ApplyReconciliation(i, s, t, v) PROVE Frozen(j)
        BY <3>2 DEF ApplyReconciliation, MayReconcile
      <3>3. ASSUME RecordSubmissionNotSent(i) PROVE Frozen(j)
        BY <3>3 DEF RecordSubmissionNotSent, MayRecordNotSent
      <3>4. ASSUME DemoAutoDispatchSettlement(i) PROVE Frozen(j)
        BY <3>4 DEF DemoAutoDispatchSettlement, StateAfterSettlement, AbortableStates
      <3> QED
        BY <2>3, <3>1, <3>2, <3>3, <3>4 DEF OutcomeStep
    <2>4. ControlStep => Frozen(j)
      BY DEF ControlStep, ClaimExecutor, LeaseExpires, LatchKillSwitch,
             IssueResetAuthorization, ResetKillSwitch, NextDay, intentVars, sendVars
    <2>5. UNCHANGED jvars => Frozen(j)
      BY DEF jvars
    <2> QED
      BY Zenon, <2>1, <2>2, <2>3, <2>4, <2>5 DEF JournalNext
  <1>2. JournalTypeOK /\ [JournalNext]_jvars =>
          [\A i \in Intents : state[i] \in TerminalStates =>
             state'[i] = state[i] /\ filled'[i] = filled[i] /\ receipts'[i] = receipts[i]]_jvars
    BY <1>1 DEF Frozen
  <1> QED
    BY <1>2, JournalTypes, PTL DEF JournalSpec, TerminalIsFinal

(* A latched kill switch is cleared only under an authorization issued for  *)
(* that very latch (reset_kill_switch).                                     *)
THEOREM LatchesNeedTheirReset == JournalSpec => ResetMatchesLatch
  <1> DEFINE Cleared == kill.latched /\ ~kill'.latched
  <1>1. ASSUME JournalTypeOK, [JournalNext]_jvars, Cleared PROVE kill.at \in resetAuth
    <2>1. CASE ResetKillSwitch
      BY <2>1 DEF ResetKillSwitch, MayReset
    <2>2. CASE kill' = kill
      BY <1>1, <2>2
    <2>3. CASE LatchKillSwitch
      BY <1>1, <2>3 DEF LatchKillSwitch, Latched
    <2>4. ASSUME NEW i \in Intents, IntentStep(i) PROVE kill' = kill
      BY <2>4 DEF IntentStep, CreateIntent, RecordLockedDemoAutoPreparation, RecordDemoAutoSafeLoss,
         InsertIntent, Transition, RecordRiskDecision, RecordMt5Preflight, controlVars
    <2>5. ASSUME NEW i \in Intents, SubmissionStep(i) PROVE kill' = kill
      BY SMTT(30), <2>5 DEF SubmissionStep, AuthorizeSubmissionEvidence, ReserveSubmission,
         FinalSubmissionGuard, ConsumeLease, ReleaseUnusedLease, LoseLease, controlVars
    <2>6. ASSUME NEW i \in Intents, OutcomeStep(i) PROVE kill' = kill
      BY <2>6 DEF OutcomeStep, RecordExecutionReceipt, ApplyReconciliation,
         RecordSubmissionNotSent, DemoAutoDispatchSettlement, controlVars
    <2>7. CASE UNCHANGED jvars
      BY <2>2, <2>7 DEF jvars
    <2>8. ControlStep => kill' = kill \/ ResetKillSwitch \/ LatchKillSwitch
      BY DEF ControlStep, ClaimExecutor, LeaseExpires, IssueResetAuthorization, NextDay
    <2> QED
      BY <1>1, <2>1, <2>2, <2>3, <2>4, <2>5, <2>6, <2>7, <2>8 DEF JournalNext
  <1>2. JournalTypeOK /\ [JournalNext]_jvars =>
          [kill.latched /\ ~kill'.latched => kill.at \in resetAuth]_jvars
    BY <1>1
  <1> QED
    BY <1>2, JournalTypes, PTL DEF JournalSpec, ResetMatchesLatch

-----------------------------------------------------------------------------
(* What one operation may do to one row, whichever intent it is about.      *)

RestKept(j) == receipts'[j] = receipts[j] /\ slease'[j] = slease[j]
DayKept(j) == reservedOn'[j] = reservedOn[j]

(* Every way an operation may leave row j: untouched, created, moved on by a bare
   transition, submitted, guarded, its lease used or given back, an execution receipt,
   a reconciliation receipt, or an abort. *)
RowStep(j) ==
    \/ state'[j] = state[j] /\ RestKept(j) /\ DayKept(j)
    \/ /\ state[j] = "ABSENT" /\ state'[j] \in {"CREATED", "RISK_REJECTED", "EXPIRED"}
       /\ RestKept(j) /\ DayKept(j)
    \/ /\ state'[j] \in AllowedTransitions(state[j]) \ ({"SUBMITTING"} \cup BrokerConclusiveTargets)
       /\ RestKept(j) /\ DayKept(j)
    \/ /\ state[j] = "PREFLIGHT_PASSED" /\ state'[j] = "SUBMITTING"
       /\ reservedOn'[j] \in 1..MaxDay /\ RestKept(j)
    \/ /\ state[j] = "SUBMITTING" /\ state'[j] = "SUBMITTING" /\ DayKept(j)
       /\ "FINAL_SUBMISSION_GUARD" \notin receipts[j]
       /\ receipts'[j] = receipts[j] \cup {"FINAL_SUBMISSION_GUARD"} /\ slease'[j].st = "active"
    \/ /\ slease[j].st = "active" /\ slease'[j].st \in {"used", "dead"}
       /\ receipts'[j] \in {receipts[j], receipts[j] \cup {"SUBMISSION_LEASE_NOT_CONSUMED"}}
       /\ state'[j] = state[j] /\ DayKept(j)
    \/ /\ state[j] = "SUBMITTING" /\ state'[j] \in ExecutionTargets
       /\ slease[j].st = "used" /\ slease'[j] = slease[j] /\ DayKept(j)
       /\ receipts'[j] = receipts[j] \cup {"EXECUTION_RECEIPT"}
    \/ /\ state'[j] \in ReconciliationTargets
       /\ state'[j] \in AllowedTransitions(state[j]) \cup {state[j]}
       /\ receipts'[j] = receipts[j] \cup {"RECONCILIATION_RECEIPT"}
       /\ slease'[j] = slease[j] /\ DayKept(j)
    \/ /\ state[j] \in AbortableStates /\ state'[j] = "REJECTED"
       /\ receipts'[j] \in {receipts[j], receipts[j] \cup {"SUBMISSION_NOT_SENT"}}
       /\ slease'[j] = slease[j] /\ DayKept(j)

(* Creating an intent, the bare transition and the two evidence receipts.   *)
LEMMA IntentRows ==
    ASSUME JournalTypeOK, NEW i \in Intents, IntentStep(i), NEW j \in Intents
    PROVE  RowStep(j)
  <1>1. ASSUME NEW s \in {"CREATED", "RISK_REJECTED", "EXPIRED"}, InsertIntent(i, s) PROVE RowStep(j)
    <2>1. /\ state' = [state EXCEPT ![i] = s] /\ receipts' = receipts /\ slease' = slease
          /\ reservedOn' = reservedOn /\ state[i] = "ABSENT"
      BY <1>1 DEF InsertIntent, CanInsert, sendVars
    <2>2. state'[i] = s /\ (j # i => state'[j] = state[j])
      BY <2>1 DEF JournalTypeOK
    <2> QED
      BY Zenon, <1>1, <2>1, <2>2 DEF RowStep, RestKept, DayKept
  <1>2. ASSUME NEW s, NEW t \in AllowedTransitions(s), Transition(i, s, t) PROVE RowStep(j)
    <2>1. /\ state' = [state EXCEPT ![i] = t] /\ receipts' = receipts /\ slease' = slease
          /\ reservedOn' = reservedOn /\ state[i] = s /\ t \notin {"SUBMITTING"} \cup BrokerConclusiveTargets
      BY Zenon, <1>2 DEF Transition, MayTransition, sendVars
    <2>2. state'[i] = t /\ (j # i => state'[j] = state[j])
      BY <2>1 DEF JournalTypeOK
    <2> QED
      BY Zenon, <1>2, <2>1, <2>2 DEF RowStep, RestKept, DayKept
  <1>3. ASSUME NEW w, RecordRiskDecision(i, w) \/ RecordMt5Preflight(i, w) PROVE RowStep(j)
    BY Zenon, <1>3 DEF RecordRiskDecision, RecordMt5Preflight, sendVars, RowStep, RestKept, DayKept
  <1> QED
    BY Zenon, <1>1, <1>2, <1>3 DEF IntentStep, CreateIntent, RecordLockedDemoAutoPreparation,
       RecordDemoAutoSafeLoss

(* The submission boundary: one row is reserved, guarded, consumed or       *)
(* released.                                                                *)
LEMMA SubmissionRows ==
    ASSUME JournalTypeOK, NEW i \in Intents, SubmissionStep(i), NEW j \in Intents
    PROVE  RowStep(j)
  <1>1. ASSUME NEW p, AuthorizeSubmissionEvidence(i, p) PROVE RowStep(j)
    BY Zenon, <1>1 DEF AuthorizeSubmissionEvidence, sendVars, RowStep, RestKept, DayKept
  <1>2. ASSUME NEW p, NEW tok, NEW d \in StampDays, ReserveSubmission(i, p, tok, d) PROVE RowStep(j)
    <2>1. /\ state' = [state EXCEPT ![i] = "SUBMITTING"] /\ reservedOn' = [reservedOn EXCEPT ![i] = d]
          /\ receipts' = receipts /\ slease' = slease /\ state[i] = "PREFLIGHT_PASSED" /\ d \in 1..MaxDay
      BY Zenon, <1>2 DEF ReserveSubmission, MayReserve, StampDays, sendVars
    <2>2. /\ state'[i] = "SUBMITTING" /\ (j # i => state'[j] = state[j])
          /\ reservedOn'[i] = d /\ (j # i => reservedOn'[j] = reservedOn[j])
      BY <2>1 DEF JournalTypeOK
    <2> QED
      BY Zenon, <2>1, <2>2 DEF RowStep, RestKept, DayKept
  <1>3. ASSUME NEW p, NEW tok, NEW d, FinalSubmissionGuard(i, p, tok, d) PROVE RowStep(j)
    <2> DEFINE l == [st |-> "active", by |-> p, token |-> tok]
    <2>1. /\ receipts' = [receipts EXCEPT ![i] = @ \cup {"FINAL_SUBMISSION_GUARD"}]
          /\ slease' = [slease EXCEPT ![i] = l]
          /\ state' = state /\ reservedOn' = reservedOn
          /\ state[i] = "SUBMITTING" /\ "FINAL_SUBMISSION_GUARD" \notin receipts[i]
      BY Zenon, <1>3 DEF FinalSubmissionGuard, MayCommitGuard, AssertFinalSubmissionState, intentVars
    <2>2. l.st = "active"
      OBVIOUS
    <2> HIDE DEF l
    <2>3. /\ receipts'[i] = receipts[i] \cup {"FINAL_SUBMISSION_GUARD"} /\ slease'[i] = l
          /\ j # i => receipts'[j] = receipts[j] /\ slease'[j] = slease[j]
      BY <2>1 DEF JournalTypeOK
    <2> QED
      BY Zenon, <2>1, <2>2, <2>3 DEF RowStep, RestKept, DayKept
  <1>4. ASSUME NEW st \in {"used", "dead"}, slease[i].st = "active",
               slease' = [slease EXCEPT ![i].st = st], UNCHANGED intentVars,
               \/ receipts' = receipts
               \/ receipts' = [receipts EXCEPT ![i] = @ \cup {"SUBMISSION_LEASE_NOT_CONSUMED"}]
        PROVE  RowStep(j)
    <2>1. slease'[i].st = st /\ (j # i => slease'[j] = slease[j])
      BY <1>4 DEF JournalTypeOK
    <2>2. /\ receipts'[i] \in {receipts[i], receipts[i] \cup {"SUBMISSION_LEASE_NOT_CONSUMED"}}
          /\ j # i => receipts'[j] = receipts[j]
      BY <1>4 DEF JournalTypeOK
    <2>3. state' = state /\ reservedOn' = reservedOn
      BY Zenon, <1>4 DEF intentVars
    <2> QED
      BY Zenon, <1>4, <2>1, <2>2, <2>3 DEF RowStep, RestKept, DayKept
  <1>5. ConsumeLease(i) => RowStep(j)
    BY Zenon, <1>4 DEF ConsumeLease, MayConsume
  <1>6. ReleaseUnusedLease(i) => RowStep(j)
    <2> SUFFICES ASSUME ReleaseUnusedLease(i) PROVE RowStep(j)
      OBVIOUS
    <2>1. \/ receipts' = [receipts EXCEPT ![i] = @]
          \/ receipts' = [receipts EXCEPT ![i] = @ \cup {"SUBMISSION_LEASE_NOT_CONSUMED"}]
      BY Zenon DEF ReleaseUnusedLease
    <2>2. [receipts EXCEPT ![i] = @] = receipts
      BY DEF JournalTypeOK
    <2> QED
      BY Zenon, <1>4, <2>1, <2>2 DEF ReleaseUnusedLease
  <1>7. LoseLease(i) => RowStep(j)
    BY Zenon, <1>4 DEF LoseLease
  <1> QED
    BY Zenon, <1>1, <1>2, <1>3, <1>5, <1>6, <1>7 DEF SubmissionStep

(* The broker's answer, reconciliation, the not-sent proof and settlement.  *)
LEMMA OutcomeRows ==
    ASSUME JournalTypeOK, NEW i \in Intents, OutcomeStep(i), NEW j \in Intents
    PROVE  RowStep(j)
  <1>0. ASSUME NEW s, NEW r, state' = [state EXCEPT ![i] = s], receipts' = [receipts EXCEPT ![i] = @ \cup {r}]
        PROVE  /\ state'[i] = s /\ receipts'[i] = receipts[i] \cup {r}
               /\ j # i => state'[j] = state[j] /\ receipts'[j] = receipts[j]
    BY <1>0 DEF JournalTypeOK
  <1>1. ASSUME NEW t \in ExecutionTargets, NEW v, RecordExecutionReceipt(i, t, v) PROVE RowStep(j)
    <2>1. /\ receipts' = [receipts EXCEPT ![i] = @ \cup {"EXECUTION_RECEIPT"}]
          /\ state' = [state EXCEPT ![i] = t] /\ slease' = slease /\ reservedOn' = reservedOn
          /\ slease[i].st = "used" /\ state[i] = "SUBMITTING"
      BY Zenon, <1>1 DEF RecordExecutionReceipt, MayRecordExecution
    <2> QED
      BY Zenon, <1>0, <1>1, <2>1 DEF RowStep, RestKept, DayKept
  <1>2. ASSUME NEW s, NEW t, NEW v, ApplyReconciliation(i, s, t, v) PROVE RowStep(j)
    <2>1. /\ receipts' = [receipts EXCEPT ![i] = @ \cup {"RECONCILIATION_RECEIPT"}]
          /\ state' = [state EXCEPT ![i] = t] /\ slease' = slease /\ reservedOn' = reservedOn
          /\ state[i] = s /\ t \in ReconciliationTargets /\ t \in AllowedTransitions(s) \cup {s}
      BY Zenon, <1>2 DEF ApplyReconciliation, MayReconcile
    <2> QED
      BY Zenon, <1>0, <2>1 DEF RowStep, RestKept, DayKept
  <1>3. CASE RecordSubmissionNotSent(i)
    <2>1. /\ receipts' = [receipts EXCEPT ![i] = @ \cup {"SUBMISSION_NOT_SENT"}]
          /\ state' = [state EXCEPT ![i] = "REJECTED"] /\ slease' = slease /\ reservedOn' = reservedOn
          /\ state[i] \in AbortableStates
      BY Zenon, <1>3 DEF RecordSubmissionNotSent, MayRecordNotSent, AbortableStates
    <2> QED
      BY Zenon, <1>0, <2>1 DEF RowStep, RestKept, DayKept
  <1>4. CASE DemoAutoDispatchSettlement(i)
    <2>1. /\ state' = [state EXCEPT ![i] = StateAfterSettlement(i)]
          /\ receipts' = receipts /\ slease' = slease /\ reservedOn' = reservedOn
      BY Zenon, <1>4 DEF DemoAutoDispatchSettlement
    <2>2. state'[i] = StateAfterSettlement(i) /\ (j # i => state'[j] = state[j])
      BY <2>1 DEF JournalTypeOK
    <2>3. \/ StateAfterSettlement(i) = state[i]
          \/ state[i] \in AbortableStates /\ StateAfterSettlement(i) = "REJECTED"
      BY Zenon DEF StateAfterSettlement
    <2> QED
      BY Zenon, <2>1, <2>2, <2>3 DEF RowStep, RestKept, DayKept
  <1> QED
    BY Zenon, <1>1, <1>2, <1>3, <1>4 DEF OutcomeStep

(* Every operation changes every row by one of these. *)
LEMMA RowSteps ==
    ASSUME JournalTypeOK, [JournalNext]_jvars, NEW j \in Intents
    PROVE  RowStep(j)
  <1>1. ControlStep \/ UNCHANGED jvars => UNCHANGED <<state, receipts, slease, reservedOn>>
    BY Zenon DEF ControlStep, ClaimExecutor, LeaseExpires, LatchKillSwitch, IssueResetAuthorization,
       ResetKillSwitch, NextDay, intentVars, sendVars, jvars
  <1>2. UNCHANGED <<state, receipts, slease, reservedOn>> => RowStep(j)
    BY Zenon DEF RowStep, RestKept, DayKept
  <1> QED
    BY Zenon, <1>1, <1>2, IntentRows, SubmissionRows, OutcomeRows DEF JournalNext

-----------------------------------------------------------------------------
(* What a row says of the broker has a receipt behind it.                   *)

(* An exposed or guarded intent has its dated SUBMITTING row; accepted,     *)
(* filled and closed rows have a broker receipt; an execution receipt comes *)
(* from a consumed lease.                                                   *)
Supported(j) ==
    /\ state[j] \in GlobalExposureStates \/ slease[j].st # "none" => reservedOn[j] \in 1..MaxDay
    /\ state[j] \in BrokerConclusiveTargets => BrokerEvidence(j)
    /\ "EXECUTION_RECEIPT" \in receipts[j] => slease[j].st = "used"

(* Every operation keeps a row's support. *)
LEMMA SupportedStep ==
    ASSUME SendInv, [JournalNext]_jvars, NEW j \in Intents, Supported(j)
    PROVE  Supported(j)'
  <1>0. JournalTypeOK /\ SendBoundary(j)
    BY Zenon DEF SendInv
  <1>1. RowStep(j)
    BY Zenon, <1>0, RowSteps
  <1>2. state[j] \in ExecutionStates \cup {"ABSENT"}
    BY Zenon, <1>0 DEF JournalTypeOK
  <1> HIDE DEF JournalNext, jvars
  <1>3. ASSUME NEW t \in AllowedTransitions(state[j])
        PROVE  /\ t \in GlobalExposureStates /\ t # "SUBMITTING" => state[j] \in GlobalExposureStates
               /\ t \in ReconciliationTargets => state[j] \in GlobalExposureStates
    BY <1>2, <1>3 DEF AllowedTransitions, ExecutionStates, GlobalExposureStates, TerminalStates,
       ReconciliationTargets
  <1>4. (state[j] \in GlobalExposureStates \/ slease[j].st # "none" => reservedOn[j] \in 1..MaxDay)'
    BY <1>1, <1>3 DEF RowStep, RestKept, DayKept, Supported, AbortableStates,
       GlobalExposureStates, ReconciliationTargets
  <1>5. (state[j] \in BrokerConclusiveTargets => BrokerEvidence(j))'
    <2>1. state'[j] \in BrokerConclusiveTargets =>
              \/ state'[j] = state[j]
              \/ "EXECUTION_RECEIPT" \in receipts'[j] \/ "RECONCILIATION_RECEIPT" \in receipts'[j]
      BY Zenon, <1>1 DEF RowStep, RestKept, BrokerConclusiveTargets
    <2>2. receipts[j] \subseteq receipts'[j]
      BY Zenon, <1>1 DEF RowStep, RestKept
    <2> QED
      BY Zenon, <2>1, <2>2 DEF Supported, BrokerEvidence
  <1>6. ("EXECUTION_RECEIPT" \in receipts[j] => slease[j].st = "used")'
    <2>1. "FINAL_SUBMISSION_GUARD" \notin receipts[j] => slease[j].st = "none"
      BY Zenon, <1>0 DEF SendBoundary, Guarded
    <2>2. slease[j].st = "used" => slease'[j].st = "used"
      BY ZenonT(30), <1>1, <2>1 DEF RowStep, RestKept
    <2>3. "EXECUTION_RECEIPT" \in receipts'[j] => "EXECUTION_RECEIPT" \in receipts[j] \/ slease[j].st = "used"
      <3>1. \/ receipts'[j] = receipts[j]
            \/ receipts'[j] = receipts[j] \cup {"FINAL_SUBMISSION_GUARD"}
            \/ receipts'[j] = receipts[j] \cup {"SUBMISSION_LEASE_NOT_CONSUMED"}
            \/ receipts'[j] = receipts[j] \cup {"RECONCILIATION_RECEIPT"}
            \/ receipts'[j] = receipts[j] \cup {"SUBMISSION_NOT_SENT"}
            \/ slease[j].st = "used"
        BY Zenon, <1>1 DEF RowStep, RestKept
      <3> HIDE DEF RowStep, Supported
      <3> QED
        BY <3>1
    <2> QED
      BY Zenon, <2>2, <2>3 DEF Supported
  <1> QED
    BY Zenon, <1>4, <1>5, <1>6 DEF Supported

(* The inductive invariant: the send boundary together with every row's support. *)
RowsSupported == SendInv /\ \A i \in Intents : Supported(i)

(* The support of every row holds in every reachable state. *)
LEMMA SupportedAlways == JournalSpec => []RowsSupported
  <1>1. JournalInit => RowsSupported
    BY SendInit DEF JournalInit, NoLease, RowsSupported, Supported, BrokerEvidence, GlobalExposureStates,
       BrokerConclusiveTargets
  <1>2. RowsSupported /\ [JournalNext]_jvars => RowsSupported'
    BY Zenon, SupportedStep, SendStep DEF RowsSupported
  <1> QED
    BY <1>1, <1>2, PTL DEF JournalSpec

(* A row is ACKNOWLEDGED, PARTIAL, FILLED or CLOSED only on a broker        *)
(* receipt, and has an execution receipt only after its lease was consumed. *)
AcceptanceHasEvidence ==
    \A i \in Intents :
        /\ state[i] \in BrokerConclusiveTargets => BrokerEvidence(i)
        /\ "EXECUTION_RECEIPT" \in receipts[i] => slease[i].st = "used"

(* The journal never claims a broker outcome without a receipt for it,      *)
(* whatever its callers do (transition refuses the broker-conclusive        *)
(* targets; record_execution_receipt and apply_reconciliation write theirs).*)
THEOREM AcceptanceNeedsEvidence == JournalSpec => []AcceptanceHasEvidence
  <1>1. RowsSupported => AcceptanceHasEvidence
    BY Zenon DEF RowsSupported, Supported, AcceptanceHasEvidence
  <1> QED
    BY <1>1, SupportedAlways, PTL

(* Past the preflight: no operation takes a row back. *)
Past(i) == state[i] \notin {"ABSENT", "CREATED", "RISK_APPROVED"}

(* A row that passed its preflight stays past it. *)
LEMMA PastKept ==
    ASSUME JournalTypeOK, [JournalNext]_jvars, NEW j \in Intents, Past(j)
    PROVE  Past(j)'
  <1>1. RowStep(j)
    BY Zenon, RowSteps
  <1>2. state[j] \in ExecutionStates
    BY DEF JournalTypeOK, Past
  <1> HIDE DEF JournalNext, jvars, JournalTypeOK
  <1>3. ASSUME NEW t \in AllowedTransitions(state[j]) PROVE t \notin {"ABSENT", "CREATED", "RISK_APPROVED"}
    BY <1>2, <1>3 DEF AllowedTransitions, ExecutionStates, GlobalExposureStates, TerminalStates, Past
  <1> QED
    BY <1>1, <1>2, <1>3 DEF RowStep, Past, AbortableStates, ReconciliationTargets, ExecutionTargets

-----------------------------------------------------------------------------
(* A row that reports a fill says how much.                                 *)

FillStates == {"PARTIAL", "FILLED", "CLOSED"}

FillShown(j) == state[j] \in FillStates => filled[j] > 0

(* Every operation but the two that write a broker outcome. *)
PlainStep(i) ==
    \/ IntentStep(i) \/ SubmissionStep(i)
    \/ RecordSubmissionNotSent(i) \/ DemoAutoDispatchSettlement(i)

(* Such an operation records no volume, and moves no row to a filled state: *)
(* transition refuses the broker-conclusive targets, and the others set a   *)
(* state of their own.                                                      *)
LEMMA PlainRecordsNoFill ==
    ASSUME JournalTypeOK, NEW i \in Intents, PlainStep(i) \/ ControlStep \/ UNCHANGED jvars
    PROVE  filled' = filled /\ \A j \in Intents : state'[j] \in FillStates => state'[j] = state[j]
  <1>0. state \in [Intents -> ExecutionStates \cup {"ABSENT"}]
    BY Zenon DEF JournalTypeOK
  <1>1. ASSUME NEW s, s \notin FillStates \/ s = state[i], state' = [state EXCEPT ![i] = s]
        PROVE  \A j \in Intents : state'[j] \in FillStates => state'[j] = state[j]
    BY Zenon, <1>0, <1>1
  <1>2. CASE IntentStep(i)
    <2>1. filled' = filled
      BY Zenon, <1>2 DEF IntentStep, CreateIntent, RecordLockedDemoAutoPreparation, RecordDemoAutoSafeLoss,
         InsertIntent, Transition, RecordRiskDecision, RecordMt5Preflight
    <2>2. \/ state' = state
          \/ \E s \in {"CREATED", "RISK_REJECTED", "EXPIRED"} : state' = [state EXCEPT ![i] = s]
          \/ \E s : s \notin BrokerConclusiveTargets /\ state' = [state EXCEPT ![i] = s]
      BY Zenon, <1>2 DEF IntentStep, CreateIntent, RecordLockedDemoAutoPreparation, RecordDemoAutoSafeLoss,
         InsertIntent, Transition, MayTransition, RecordRiskDecision, RecordMt5Preflight
    <2>3. FillStates \subseteq BrokerConclusiveTargets /\ {"CREATED", "RISK_REJECTED", "EXPIRED"} \cap FillStates = {}
      BY DEF FillStates, BrokerConclusiveTargets
    <2> QED
      BY Zenon, <1>1, <2>1, <2>2, <2>3
  <1>3. CASE SubmissionStep(i)
    <2>1. filled' = filled
      BY Zenon, <1>3 DEF SubmissionStep, AuthorizeSubmissionEvidence, ReserveSubmission, FinalSubmissionGuard,
         ConsumeLease, ReleaseUnusedLease, LoseLease, intentVars
    <2>2. state' = state \/ state' = [state EXCEPT ![i] = "SUBMITTING"]
      BY Zenon, <1>3 DEF SubmissionStep, AuthorizeSubmissionEvidence, ReserveSubmission, FinalSubmissionGuard,
         ConsumeLease, ReleaseUnusedLease, LoseLease, intentVars
    <2>3. "SUBMITTING" \notin FillStates
      BY DEF FillStates
    <2> QED
      BY Zenon, <1>1, <2>1, <2>2, <2>3
  <1>4. CASE RecordSubmissionNotSent(i) \/ DemoAutoDispatchSettlement(i)
    <2>1. filled' = filled
      BY Zenon, <1>4 DEF RecordSubmissionNotSent, DemoAutoDispatchSettlement
    <2>2. state' = [state EXCEPT ![i] = "REJECTED"] \/ state' = [state EXCEPT ![i] = state[i]]
      BY Zenon, <1>4 DEF RecordSubmissionNotSent, DemoAutoDispatchSettlement, StateAfterSettlement
    <2>3. "REJECTED" \notin FillStates
      BY DEF FillStates
    <2> QED
      BY Zenon, <1>1, <2>1, <2>2, <2>3
  <1>5. CASE ControlStep \/ UNCHANGED jvars
    BY <1>5 DEF ControlStep, ClaimExecutor, LeaseExpires, LatchKillSwitch, IssueResetAuthorization,
       ResetKillSwitch, NextDay, intentVars, jvars
  <1> QED
    BY Zenon, <1>2, <1>3, <1>4, <1>5 DEF PlainStep

(* An execution receipt or a reconciliation never takes volume back, and a  *)
(* filled state comes with some: validation wants a positive volume for     *)
(* PARTIAL and FILLED, and CLOSED only of a recorded fill.                  *)
LEMMA OutcomeRecordsFill ==
    ASSUME JournalTypeOK, NEW i \in Intents, NEW s, NEW t, NEW v \in 0..Lot,
           \/ RecordExecutionReceipt(i, t, v) /\ t \in ExecutionTargets
           \/ ApplyReconciliation(i, s, t, v)
    PROVE  /\ state'[i] = t /\ (t \in FillStates => filled'[i] > 0)
           /\ filled'[i] \in {filled[i], v} /\ filled'[i] >= filled[i]
           /\ filled'[i] # filled[i] => t # "CLOSED"
           /\ \A j \in Intents \ {i} : state'[j] = state[j] /\ filled'[j] = filled[j]
  <1>0. /\ state \in [Intents -> ExecutionStates \cup {"ABSENT"}] /\ filled \in [Intents -> 0..Lot]
        /\ filled[i] \in Nat /\ v \in Nat
    BY JournalAssumption DEF JournalTypeOK
  <1>1. PICK f : /\ state' = [state EXCEPT ![i] = t] /\ filled' = [filled EXCEPT ![i] = f]
                 /\ f \in {filled[i], Larger(filled[i], v)}
                 /\ f # filled[i] => t # "CLOSED"
                 /\ t \in {"PARTIAL", "FILLED"} => f = Larger(filled[i], v) /\ v > 0
                 /\ t = "CLOSED" => filled[i] > 0 /\ f = filled[i]
    <2>1. CASE RecordExecutionReceipt(i, t, v) /\ t \in ExecutionTargets
      <3>1. t # "CLOSED"
        BY <2>1 DEF ExecutionTargets
      <3> QED
        BY Zenon, <2>1, <3>1 DEF RecordExecutionReceipt, VolumeFits
    <2>2. CASE ApplyReconciliation(i, s, t, v)
      <3>1. /\ state' = [state EXCEPT ![i] = t]
            /\ filled' = [filled EXCEPT ![i] = IF t \in {"PARTIAL", "FILLED"} THEN Larger(filled[i], v) ELSE filled[i]]
            /\ t \in {"PARTIAL", "FILLED"} => v > 0
            /\ t = "CLOSED" => filled[i] > 0
        BY Zenon, <2>2 DEF ApplyReconciliation, MayReconcile, VolumeFits
      <3>2. CASE t \in {"PARTIAL", "FILLED"}
        <4>1. filled' = [filled EXCEPT ![i] = Larger(filled[i], v)] /\ t # "CLOSED"
          BY Zenon, <3>1, <3>2
        <4> QED
          BY Zenon, <3>1, <4>1
      <3>3. CASE t \notin {"PARTIAL", "FILLED"}
        <4>1. filled' = [filled EXCEPT ![i] = filled[i]]
          BY Zenon, <3>1, <3>3
        <4> QED
          BY Zenon, <3>1, <3>3, <4>1
      <3> QED
        BY Zenon, <3>2, <3>3
    <2> QED
      BY Zenon, <2>1, <2>2
  <1>2. /\ state'[i] = t /\ filled'[i] = f
        /\ \A j \in Intents \ {i} : state'[j] = state[j] /\ filled'[j] = filled[j]
    BY Zenon, <1>0, <1>1
  <1>3. Larger(filled[i], v) \in {filled[i], v} /\ Larger(filled[i], v) >= filled[i] /\ Larger(filled[i], v) >= v
    BY <1>0 DEF Larger
  <1>4. f \in {filled[i], v} /\ f >= filled[i]
    BY <1>0, <1>1, <1>3
  <1>5. t \in FillStates => f > 0
    BY <1>0, <1>1, <1>3 DEF FillStates
  <1> QED
    BY Zenon, <1>1, <1>2, <1>4, <1>5

(* The rows' fills are shown in every reachable state. *)
LEMMA FillsAlwaysShown == JournalSpec => [](\A i \in Intents : FillShown(i))
  <1> DEFINE Shown == \A i \in Intents : FillShown(i)
  <1>1. JournalInit => Shown
    BY DEF JournalInit, FillShown, FillStates
  <1>2. ASSUME JournalTypeOK, Shown, [JournalNext]_jvars PROVE Shown'
    <2>1. ASSUME NEW i \in Intents, PlainStep(i) \/ ControlStep \/ UNCHANGED jvars, NEW j \in Intents
          PROVE  FillShown(j)'
      BY Zenon, <1>2, <2>1, PlainRecordsNoFill DEF FillShown
    <2>2. ASSUME NEW i \in Intents, NEW t \in ExecutionTargets, NEW v \in 0..Lot,
                 RecordExecutionReceipt(i, t, v), NEW j \in Intents
          PROVE  FillShown(j)'
      BY Zenon, <1>2, <2>2, OutcomeRecordsFill DEF FillShown
    <2>3. ASSUME NEW i \in Intents, NEW s, NEW t, NEW v \in 0..Lot,
                 ApplyReconciliation(i, s, t, v), NEW j \in Intents
          PROVE  FillShown(j)'
      BY Zenon, <1>2, <2>3, OutcomeRecordsFill DEF FillShown
    <2>4. ASSUME NEW i \in Intents, OutcomeStep(i), NEW j \in Intents PROVE FillShown(j)'
      BY Zenon, <2>1, <2>2, <2>3, <2>4 DEF OutcomeStep, PlainStep
    <2> QED
      BY Zenon, <1>2, <2>1, <2>4 DEF JournalNext, PlainStep
  <1> QED
    BY <1>1, <1>2, JournalTypes, PTL DEF JournalSpec
=============================================================================
