-------------------------- MODULE ExecutionRuntimeProofs --------------------------
EXTENDS ExecutionRuntime, ExecutionJournalProofs
(***************************************************************************)
(* The processes that run ExecutionCoordinator.execute_once, the gateway,  *)
(* the broker and the reconciler, composed over one journal, implement the *)
(* journal's specification, send every intent at most once, and never let  *)
(* a dispatch reservation say more than the journal proved.  The argument: *)
(* RuntimeInvariant ties what a process holds to what the journal says     *)
(* (Bound), and what was sent to the lease that was consumed (Agrees); one *)
(* lemma per action shows that the action keeps it and is a journal step.  *)
(* Most actions are Quiet: they neither send nor touch a lease.            *)
(* DispatchInvariant says which reservations can exist, and so which ones  *)
(* start-up recovery cannot settle.                                        *)
(***************************************************************************)

(* The labels of execute_once, of recovery and of the gateway. *)
Labels ==
    {"down", "recover", "recover_apply", "idle", "create", "safety", "risk", "loss_stop", "reject",
     "approve", "preflight", "pass", "guard", "authorize", "dispatch", "reserve", "mint",
     "final_guard", "submit", "adapter", "sending", "waiting", "record", "slippage", "uncertain",
     "not_sent", "settle", "apply"}

(* Where a call is not about an intent. *)
Free == {"down", "recover", "idle"}

Returns == [t : ExecutionTargets \cup {"none"}, v : 0..Lot]

ExRecord == [pc : Labels, cur : Intents \cup {"none"}, tok : 0..MaxToken,
             seen : ExecutionStates \cup {"none"}, ret : Returns,
             proof : SettlementStates \cup {"none"}, todo : SUBSET Intents]

ExTyped == ex \in [Procs -> ExRecord]

(* Process p is at label l with intent c, and nobody else moved. *)
Moves(p, l, c) ==
    /\ ex' \in [Procs -> ExRecord]
    /\ ex'[p].pc = l /\ ex'[p].cur = c
    /\ \A q \in Procs \ {p} : ex'[q] = ex[q]

(* A call that goes on at another label keeps its intent and its proof. *)
LEMMA GotoMoves ==
    ASSUME ExTyped, NEW p \in Procs, NEW l \in Labels, Goto(p, l)
    PROVE  Moves(p, l, Cur(p)) /\ ex'[p].proof = ex[p].proof
  BY DEF Goto, ExTyped, Moves, ExRecord, Cur

(* Overwriting a process's record moves that process and no other. *)
LEMMA PutMoves ==
    ASSUME ExTyped, NEW p \in Procs, NEW r \in ExRecord, ex' = [ex EXCEPT ![p] = r]
    PROVE  Moves(p, r.pc, r.cur) /\ ex'[p] = r
  BY DEF ExTyped, Moves, ExRecord

(* What an executor that holds token k looks like between calls. *)
LEMMA IdleTyped == ASSUME NEW k \in 0..MaxToken
  PROVE /\ Idle(k) \in ExRecord /\ Idle(k).pc = "idle" /\ Idle(k).cur = "none" /\ Idle(k).tok = k
        /\ Idle(k).seen = "none" /\ Idle(k).ret = NoReturn
  BY JournalAssumption DEF Idle, ExRecord, Labels, NoReturn, Returns

(* What a dead process looks like. *)
LEMMA DownTyped == Down \in ExRecord /\ Down.pc = "down" /\ Down.cur = "none"
 <1>1. 0 \in 0..MaxToken
   BY JournalAssumption
 <1>2. Down = [Idle(0) EXCEPT !.pc = "down"]
   BY DEF Down
 <1>3. QED BY <1>1, <1>2, IdleTyped DEF ExRecord, Labels

(* execute_once returns: the process is idle, with the token it had. *)
LEMMA ReturnMoves ==
    ASSUME ExTyped, NEW p \in Procs, Return(p)
    PROVE  Moves(p, "idle", "none")
  <1> DEFINE r == Idle(ex[p].tok)
  <1>1. ex[p].tok \in 0..MaxToken
    BY DEF ExTyped, ExRecord
  <1>2. r \in ExRecord /\ r.pc = "idle" /\ r.cur = "none"
    BY <1>1, IdleTyped
  <1>3. ex' = [ex EXCEPT ![p] = r]
    BY DEF Return
  <1> HIDE DEF r
  <1>4. Moves(p, r.pc, r.cur)
    BY Zenon, <1>2, <1>3, PutMoves
  <1> QED
    BY <1>2, <1>4

(* Setting one field of a process's record keeps the others (here pc). *)
LEMMA FieldPc ==
    ASSUME NEW r \in ExRecord, NEW x \in Labels
    PROVE  LET s == [r EXCEPT !.pc = x] IN
           /\ s \in ExRecord /\ s.pc = x /\ s.cur = r.cur /\ s.proof = r.proof
  BY DEF ExRecord

(* The same for the intent the call is about. *)
LEMMA FieldCur ==
    ASSUME NEW r \in ExRecord, NEW x \in Intents \cup {"none"}
    PROVE  LET s == [r EXCEPT !.cur = x] IN
           /\ s \in ExRecord /\ s.cur = x /\ s.pc = r.pc /\ s.proof = r.proof
  BY DEF ExRecord

(* The same for the settlement proof in hand. *)
LEMMA FieldProof ==
    ASSUME NEW r \in ExRecord, NEW x \in SettlementStates \cup {"none"}
    PROVE  LET s == [r EXCEPT !.proof = x] IN
           /\ s \in ExRecord /\ s.proof = x /\ s.pc = r.pc /\ s.cur = r.cur
  BY DEF ExRecord

(* The same for the intents startup recovery has yet to look at. *)
LEMMA FieldTodo ==
    ASSUME NEW r \in ExRecord, NEW x \in SUBSET Intents
    PROVE  LET s == [r EXCEPT !.todo = x] IN
           /\ s \in ExRecord /\ s.todo = x /\ s.pc = r.pc /\ s.cur = r.cur
  BY DEF ExRecord

(* The same for the state the call last read from the journal. *)
LEMMA FieldSeen ==
    ASSUME NEW r \in ExRecord, NEW x \in ExecutionStates
    PROVE  LET s == [r EXCEPT !.seen = x] IN
           /\ s \in ExRecord /\ s.seen = x /\ s.pc = r.pc /\ s.cur = r.cur
  BY DEF ExRecord

(* The same for the broker's answer. *)
LEMMA FieldRet ==
    ASSUME NEW r \in ExRecord, NEW x \in Returns
    PROVE  LET s == [r EXCEPT !.ret = x] IN
           /\ s \in ExRecord /\ s.ret = x /\ s.pc = r.pc /\ s.cur = r.cur
  BY DEF ExRecord

(* execute_once starts with the candidate's intent. *)
LEMMA BeginMoves ==
    ASSUME ExTyped, NEW p \in Procs, NEW i \in Intents, Begin(p, i)
    PROVE  Moves(p, "create", i)
  <1> DEFINE r == [ex[p] EXCEPT !.pc = "create"]
             s == [r EXCEPT !.cur = i]
  <1>1. ex' = [ex EXCEPT ![p] = s]
    BY Zenon DEF Begin
  <1>2. ex[p] \in ExRecord
    BY DEF ExTyped
  <1>3. r \in ExRecord /\ r.pc = "create"
    <2>1. "create" \in Labels
      BY DEF Labels
    <2> QED
      BY Zenon, <1>2, <2>1, FieldPc
  <1> HIDE DEF r
  <1>4. s \in ExRecord /\ s.pc = "create" /\ s.cur = i
    BY <1>3, FieldCur
  <1> HIDE DEF s
  <1> QED
    BY Zenon, <1>1, <1>4, PutMoves

(* The call goes on at another label with another state last seen. *)
Sees(p, l, x) == ex' = [ex EXCEPT ![p].pc = l, ![p].seen = x]

(* Reading the journal changes the label and what was read only. *)
LEMMA SeesMoves ==
    ASSUME ExTyped, NEW p \in Procs, NEW l \in Labels, NEW x \in ExecutionStates, Sees(p, l, x)
    PROVE  Moves(p, l, Cur(p))
  <1> DEFINE r == [ex[p] EXCEPT !.pc = l]
             s == [r EXCEPT !.seen = x]
  <1>1. ex' = [ex EXCEPT ![p] = s]
    BY Zenon DEF Sees
  <1>2. ex[p] \in ExRecord
    BY DEF ExTyped
  <1>3. r \in ExRecord /\ r.pc = l /\ r.cur = Cur(p)
    BY <1>2, FieldPc DEF Cur
  <1> HIDE DEF r
  <1>4. s \in ExRecord /\ s.pc = l /\ s.cur = Cur(p)
    BY <1>3, FieldSeen
  <1> HIDE DEF s
  <1> QED
    BY Zenon, <1>1, <1>4, PutMoves

(* A process that has claimed the fence starts recovering. *)
LEMMA BootMoves ==
    ASSUME ExTyped, NEW p \in Procs, Boot(p)
    PROVE  Moves(p, "recover", Cur(p))
  <1> DEFINE T == {i \in Intents : Unresolved(i)}
             r == [ex[p] EXCEPT !.pc = "recover"]
             s == [r EXCEPT !.todo = T]
  <1>1. ex' = [ex EXCEPT ![p] = s]
    BY Zenon DEF Boot
  <1>2. ex[p] \in ExRecord
    BY DEF ExTyped
  <1>3. r \in ExRecord /\ r.pc = "recover" /\ r.cur = Cur(p)
    <2>1. "recover" \in Labels
      BY DEF Labels
    <2> QED
      BY <1>2, <2>1, FieldPc DEF Cur
  <1>5. T \in SUBSET Intents
    OBVIOUS
  <1> HIDE DEF r, T
  <1>4. s \in ExRecord /\ s.pc = "recover" /\ s.cur = Cur(p)
    BY <1>3, <1>5, FieldTodo
  <1> HIDE DEF s
  <1> QED
    BY Zenon, <1>1, <1>4, PutMoves

(* The call holds a settlement proof of an intent. *)
Holding(p, l, i, x) == ex' = [ex EXCEPT ![p].pc = l, ![p].cur = i, ![p].proof = x]

(* Recovery takes up an intent together with its settlement proof. *)
LEMMA HoldingMoves ==
    ASSUME ExTyped, NEW p \in Procs, NEW l \in Labels, NEW i \in Intents,
           NEW x \in SettlementStates, Holding(p, l, i, x)
    PROVE  Moves(p, l, i) /\ ex'[p].proof = x
  <1> DEFINE r == [ex[p] EXCEPT !.pc = l]
             s == [r EXCEPT !.cur = i]
             t == [s EXCEPT !.proof = x]
  <1>1. ex' = [ex EXCEPT ![p] = t]
    BY Zenon DEF Holding
  <1>2. ex[p] \in ExRecord
    BY DEF ExTyped
  <1>3. r \in ExRecord /\ r.pc = l
    BY <1>2, FieldPc
  <1> HIDE DEF r
  <1>4. s \in ExRecord /\ s.pc = l /\ s.cur = i
    BY <1>3, FieldCur
  <1> HIDE DEF s
  <1>5. t \in ExRecord /\ t.pc = l /\ t.cur = i /\ t.proof = x
    BY <1>4, FieldProof
  <1> HIDE DEF t
  <1> QED
    BY Zenon, <1>1, <1>5, PutMoves

Proven(p, l, x) == ex' = [ex EXCEPT ![p].pc = l, ![p].proof = x]

(* A call that minted a settlement proof goes on holding it. *)
LEMMA ProvenMoves ==
    ASSUME ExTyped, NEW p \in Procs, NEW l \in Labels, NEW x \in SettlementStates, Proven(p, l, x)
    PROVE  Moves(p, l, Cur(p)) /\ ex'[p].proof = x
  <1> DEFINE r == [ex[p] EXCEPT !.pc = l]
             t == [r EXCEPT !.proof = x]
  <1>1. ex' = [ex EXCEPT ![p] = t]
    BY Zenon DEF Proven
  <1>2. ex[p] \in ExRecord
    BY DEF ExTyped
  <1>3. r \in ExRecord /\ r.pc = l /\ r.cur = Cur(p)
    BY <1>2, FieldPc DEF Cur
  <1> HIDE DEF r
  <1>5. t \in ExRecord /\ t.pc = l /\ t.cur = Cur(p) /\ t.proof = x
    BY <1>3, FieldProof
  <1> HIDE DEF t
  <1> QED
    BY Zenon, <1>1, <1>5, PutMoves

Answered(p, x) == ex' = [ex EXCEPT ![p].pc = "record", ![p].ret = x]

(* The broker's answer is what the call goes on to record. *)
LEMMA AnsweredMoves ==
    ASSUME ExTyped, NEW p \in Procs, NEW x \in Returns, Answered(p, x)
    PROVE  Moves(p, "record", Cur(p)) /\ ex'[p].ret = x
  <1> DEFINE r == [ex[p] EXCEPT !.pc = "record"]
             t == [r EXCEPT !.ret = x]
  <1>1. ex' = [ex EXCEPT ![p] = t]
    BY Zenon DEF Answered
  <1>2. ex[p] \in ExRecord
    BY DEF ExTyped
  <1>3. r \in ExRecord /\ r.pc = "record" /\ r.cur = Cur(p)
    BY Zenon, <1>2, FieldPc DEF Cur, Labels
  <1> HIDE DEF r
  <1>5. t \in ExRecord /\ t.pc = "record" /\ t.cur = Cur(p) /\ t.ret = x
    BY <1>3, FieldRet
  <1> HIDE DEF t
  <1> QED
    BY Zenon, <1>1, <1>5, PutMoves

Applied(p) == ex' = [ex EXCEPT ![p].pc = "recover", ![p].todo = @ \ {Cur(p)},
                               ![p].cur = "none", ![p].proof = "none"]

(* Recovery has applied a proof and goes back to its list. *)
LEMMA AppliedMoves ==
    ASSUME ExTyped, NEW p \in Procs, Applied(p)
    PROVE  Moves(p, "recover", "none")
  <1> DEFINE T == ex[p].todo \ {Cur(p)}
             r == [ex[p] EXCEPT !.pc = "recover"]
             s == [r EXCEPT !.todo = T]
             t == [s EXCEPT !.cur = "none"]
             u == [t EXCEPT !.proof = "none"]
  <1>2. ex[p] \in ExRecord
    BY DEF ExTyped
  <1>0. ex[p].todo \in SUBSET Intents /\ r.todo = ex[p].todo
    BY <1>2 DEF ExRecord
  <1>1. ex' = [ex EXCEPT ![p] = u]
    BY Zenon, <1>0 DEF Applied
  <1>3. r \in ExRecord /\ r.pc = "recover"
    <2>1. "recover" \in Labels
      BY DEF Labels
    <2> QED
      BY <1>2, <2>1, FieldPc
  <1>4. T \in SUBSET Intents
    BY <1>0
  <1> HIDE DEF r, T
  <1>5. s \in ExRecord /\ s.pc = "recover"
    BY <1>3, <1>4, FieldTodo
  <1> HIDE DEF s
  <1>6. t \in ExRecord /\ t.pc = "recover" /\ t.cur = "none"
    BY <1>5, FieldCur
  <1> HIDE DEF t
  <1>7. u \in ExRecord /\ u.pc = "recover" /\ u.cur = "none"
    BY <1>6, FieldProof
  <1> HIDE DEF u
  <1>8. Moves(p, u.pc, u.cur)
    BY Zenon, <1>1, <1>7, PutMoves
  <1> QED
    BY <1>7, <1>8

-----------------------------------------------------------------------------
(* The inductive invariant.                                                 *)

LeaseBound == lease.owner # "none" => lease.token > 0

BrokerRecord == [st : {"none", "sent", "working", "rejected", "open", "closed"},
                 vol : 0..Lot, closed : 0..Lot]

BrokerTyped == broker \in [Intents -> BrokerRecord] /\ \A i \in Intents : broker[i].closed <= broker[i].vol

Volumes == [Intents -> 0..Lot]

RcSet(R) == [pc : {"idle", "orders", "positions", "deals", "apply", "stopped"}, orders : SUBSET Intents,
             pos : Volumes, deals : Volumes, recs : R, critical : BOOLEAN]

RecsTyped(R) == \A i \in DOMAIN R : R[i].pos \in 0..Lot /\ R[i].exits \in 0..Lot

RcTyped == rc \in RcSet({rc.recs}) /\ RecsTyped(rc.recs)

(* What a process's place in execute_once says of the journal. *)
Bound(p) ==
    /\ ex[p].pc \notin Free => ex[p].cur \in Intents
    /\ ex[p].pc = "record" => ex[p].ret.t \in ExecutionTargets
    /\ ex[p].pc \in {"submit", "adapter"} =>
          slease[ex[p].cur].st = "active" /\ slease[ex[p].cur].by = p
    /\ ex[p].pc = "sending" =>
          slease[ex[p].cur].st = "used" /\ slease[ex[p].cur].by = p /\ ex[p].cur \notin sent
    /\ ex[p].pc \in {"recover_apply", "apply"} => ex[p].proof \in minted[ex[p].cur]

(* What was sent, what the broker knows and what the session store says of  *)
(* an intent agree with the journal.                                        *)
Agrees(i) ==
    /\ i \in sent => slease[i].st = "used"
    /\ broker[i].st # "none" => i \in sent
    /\ resv[i] \in {"none", "ACTIVE"} \cup minted[i]

RuntimeInvariant ==
    /\ SendInv /\ LeaseBound
    /\ ExTyped /\ BrokerTyped /\ RcTyped
    /\ resv \in [Intents -> {"none", "ACTIVE"} \cup SettlementStates] /\ sent \subseteq Intents
    /\ \A p \in Procs : Bound(p)
    /\ \A i \in Intents : Agrees(i)

(* Fencing tokens of held leases are positive. *)
LEMMA LeaseBoundStep ==
    ASSUME JournalTypeOK, LeaseBound, [JournalNext]_jvars
    PROVE  LeaseBound'
  <1>1. CASE lease' = lease
    BY <1>1 DEF LeaseBound
  <1>2. ASSUME NEW p \in Procs, ClaimExecutor(p) PROVE LeaseBound'
    <2>1. lease.token \in Nat
      BY DEF JournalTypeOK
    <2> QED
      BY <1>2, <2>1 DEF ClaimExecutor, LeaseBound
  <1>3. CASE LeaseExpires
    <2>1. lease'.owner = lease.owner /\ lease'.token = lease.token
      BY <1>3 DEF LeaseExpires, JournalTypeOK
    <2> QED
      BY <2>1 DEF LeaseBound
  <1>4. ASSUME NEW i \in Intents, IntentStep(i) PROVE lease' = lease
    BY <1>4 DEF IntentStep, CreateIntent, RecordLockedDemoAutoPreparation, RecordDemoAutoSafeLoss,
       InsertIntent, Transition, RecordRiskDecision, RecordMt5Preflight, controlVars
  <1>5. ASSUME NEW i \in Intents, SubmissionStep(i) PROVE lease' = lease
    BY <1>5 DEF SubmissionStep, AuthorizeSubmissionEvidence, ReserveSubmission, FinalSubmissionGuard,
       ConsumeLease, ReleaseUnusedLease, LoseLease, controlVars
  <1>6. ASSUME NEW i \in Intents, OutcomeStep(i) PROVE lease' = lease
    BY <1>6 DEF OutcomeStep, RecordExecutionReceipt, ApplyReconciliation, RecordSubmissionNotSent,
       DemoAutoDispatchSettlement, controlVars
  <1>7. CASE LatchKillSwitch \/ IssueResetAuthorization \/ ResetKillSwitch \/ NextDay
    BY <1>1, <1>7 DEF LatchKillSwitch, IssueResetAuthorization, ResetKillSwitch, NextDay
  <1>8. CASE UNCHANGED jvars
    BY <1>1, <1>8 DEF jvars
  <1> QED
    BY <1>1, <1>2, <1>3, <1>4, <1>5, <1>6, <1>7, <1>8 DEF JournalNext, ControlStep

(* A process that holds the executor's fence holds a token in range. *)
LEMMA HeldToken ==
    ASSUME RuntimeInvariant, NEW p \in Procs, lease.owner = p
    PROVE  lease.token \in 1..MaxToken
  <1>1. JournalTypeOK /\ LeaseBound
    BY Zenon DEF RuntimeInvariant, SendInv
  <1>2. lease.token \in 0..MaxToken
    BY Zenon, <1>1 DEF JournalTypeOK
  <1>3. lease.owner # "none"
    BY Zenon, JournalAssumption
  <1>4. lease.token > 0
    BY Zenon, <1>1, <1>3 DEF LeaseBound
  <1> HIDE DEF RuntimeInvariant
  <1> QED
    BY <1>2, <1>4, JournalAssumption

(* Settlement proofs are only ever added. *)
LEMMA MintedGrows ==
    ASSUME JournalTypeOK, [JournalNext]_jvars, NEW j \in Intents
    PROVE  minted[j] \subseteq minted'[j]
  <1>1. CASE minted' = minted
    BY <1>1
  <1>4. ASSUME NEW i \in Intents, IntentStep(i) PROVE minted' = minted
    BY <1>4 DEF IntentStep, CreateIntent, RecordLockedDemoAutoPreparation, RecordDemoAutoSafeLoss,
       InsertIntent, Transition, RecordRiskDecision, RecordMt5Preflight, sendVars
  <1>5. ASSUME NEW i \in Intents, SubmissionStep(i) PROVE minted' = minted
    BY <1>5 DEF SubmissionStep, AuthorizeSubmissionEvidence, ReserveSubmission, FinalSubmissionGuard,
       ConsumeLease, ReleaseUnusedLease, LoseLease, sendVars
  <1>6. ASSUME NEW i \in Intents, OutcomeStep(i) PROVE minted[j] \subseteq minted'[j]
    <2>1. CASE DemoAutoDispatchSettlement(i)
      BY <2>1 DEF DemoAutoDispatchSettlement, JournalTypeOK
    <2> QED
      BY <1>6, <2>1 DEF OutcomeStep, RecordExecutionReceipt, ApplyReconciliation, RecordSubmissionNotSent
  <1>7. CASE ControlStep
    BY <1>1, <1>7 DEF ControlStep, ClaimExecutor, LeaseExpires, LatchKillSwitch,
       IssueResetAuthorization, ResetKillSwitch, NextDay, sendVars
  <1>8. CASE UNCHANGED jvars
    BY <1>1, <1>8 DEF jvars
  <1> QED
    BY Zenon, <1>1, <1>4, <1>5, <1>6, <1>7, <1>8 DEF JournalNext

-----------------------------------------------------------------------------
(* Most steps leave the submission leases, the broker and the session store *)
(* alone.                                                                   *)

Plain == Labels \ {"submit", "adapter", "sending", "record", "apply", "recover_apply"}

Quiet(p) ==
    /\ [JournalNext]_jvars
    /\ UNCHANGED <<slease, resv, broker, sent, rc>>
    /\ \E l \in Plain, c \in Intents \cup {"none"} :
          Moves(p, l, c) /\ (l \notin Free => c \in Intents)

(* The step keeps the invariant and is one of the journal, or none. *)
Kept == RuntimeInvariant' /\ [JournalNext]_jvars

(* A step that neither sends nor touches a lease keeps the invariant. *)
LEMMA QuietKeeps ==
    ASSUME RuntimeInvariant, NEW p \in Procs, Quiet(p)
    PROVE  Kept
  <1>1. SendInv' /\ LeaseBound'
    BY SendStep, LeaseBoundStep DEF RuntimeInvariant, Quiet, SendInv
  <1>2. PICK l \in Plain, c \in Intents \cup {"none"} : Moves(p, l, c) /\ (l \notin Free => c \in Intents)
    BY DEF Quiet
  <1>3. ExTyped'
    BY <1>2 DEF Moves, ExTyped
  <1>4. BrokerTyped' /\ RcTyped' /\ resv' = resv /\ sent' = sent /\ slease' = slease /\ broker' = broker
    BY DEF Quiet, RuntimeInvariant, BrokerTyped, RcTyped
  <1>5. \A i \in Intents : minted[i] \subseteq minted'[i]
    BY MintedGrows DEF Quiet, RuntimeInvariant, SendInv
  <1>6. ASSUME NEW i \in Intents PROVE Agrees(i)'
    BY <1>4, <1>5 DEF RuntimeInvariant, Agrees
  <1>7. Bound(p)'
    BY Zenon, <1>2 DEF Moves, Bound, Plain, Free
  <1>8. ASSUME NEW q \in Procs \ {p} PROVE Bound(q)'
    <2>1. ex'[q] = ex[q] /\ Bound(q)
      BY <1>2 DEF Moves, RuntimeInvariant
    <2> QED
      BY <2>1, <1>4, <1>5 DEF Bound, Free
  <1> QED
    BY Zenon, <1>1, <1>3, <1>4, <1>6, <1>7, <1>8 DEF RuntimeInvariant, Kept, Quiet

Still == UNCHANGED <<slease, resv, broker, sent, rc>>

(* A process inside execute_once is about an intent. *)
LEMMA Busy ==
    ASSUME RuntimeInvariant, NEW p \in Procs, ex[p].pc \notin Free
    PROVE  Cur(p) \in Intents
  BY DEF RuntimeInvariant, Bound, Cur

(* Going on at a label that claims nothing of the journal is quiet. *)
LEMMA QuietGoto ==
    ASSUME RuntimeInvariant, NEW p \in Procs, NEW l \in Plain, Goto(p, l),
           ex[p].pc \notin Free, [JournalNext]_jvars, Still
    PROVE  Quiet(p)
  <1>1. Moves(p, l, Cur(p))
    BY GotoMoves DEF RuntimeInvariant, Plain
  <1> QED
    BY <1>1, Busy DEF Quiet, Still

(* Returning is quiet. *)
LEMMA QuietReturn ==
    ASSUME RuntimeInvariant, NEW p \in Procs, Return(p), [JournalNext]_jvars, Still
    PROVE  Quiet(p)
  <1>1. Moves(p, "idle", "none")
    BY ReturnMoves DEF RuntimeInvariant
  <1>2. "idle" \in Plain /\ "idle" \in Free
    BY DEF Plain, Labels, Free
  <1> QED
    BY <1>1, <1>2 DEF Quiet, Still

(* A process that dies without a lease in hand is a quiet step. *)
LEMMA QuietDown ==
    ASSUME RuntimeInvariant, NEW p \in Procs, ex' = [ex EXCEPT ![p] = Down], [JournalNext]_jvars, Still
    PROVE  Quiet(p)
  <1>1. Moves(p, Down.pc, Down.cur)
    BY Zenon, PutMoves, DownTyped DEF RuntimeInvariant
  <1>2. "down" \in Plain /\ "down" \in Free
    BY DEF Plain, Labels, Free
  <1> QED
    BY <1>1, <1>2, DownTyped DEF Quiet, Still

(* Reading the journal is quiet. *)
LEMMA QuietSees ==
    ASSUME RuntimeInvariant, NEW p \in Procs, NEW l \in Plain, NEW x \in ExecutionStates,
           Sees(p, l, x), ex[p].pc \notin Free, [JournalNext]_jvars, Still
    PROVE  Quiet(p)
  <1>1. Moves(p, l, Cur(p))
    BY SeesMoves DEF RuntimeInvariant, Plain
  <1> QED
    BY <1>1, Busy DEF Quiet, Still

(* Start-up and the lookup. *)
LEMMA StartQuiet ==
    ASSUME RuntimeInvariant, NEW p \in Procs,
           Boot(p) \/ Recovered(p) \/ Claim(p) \/ \E i \in Intents : Begin(p, i)
    PROVE  Quiet(p)
  <1>1. CASE Boot(p)
    <2>1. Moves(p, "recover", Cur(p))
      BY <1>1, BootMoves DEF RuntimeInvariant
    <2>2. Cur(p) \in Intents \cup {"none"}
      BY DEF RuntimeInvariant, ExTyped, ExRecord, Cur
    <2>3. "recover" \in Plain /\ "recover" \in Free
      BY DEF Plain, Labels, Free
    <2>4. UNCHANGED jvars /\ ExOnly
      BY <1>1, Zenon DEF Boot
    <2> QED
      BY <2>1, <2>2, <2>3, <2>4 DEF Quiet, ExOnly, jvars
  <1>2. CASE Recovered(p)
    <2>1. 0 \in 0..MaxToken
      BY JournalAssumption
    <2>2. Moves(p, Idle(0).pc, Idle(0).cur)
      BY Zenon, <1>2, <2>1, IdleTyped, PutMoves DEF RuntimeInvariant, Recovered
    <2>3. "idle" \in Plain /\ "idle" \in Free
      BY DEF Plain, Labels, Free
    <2> QED
      BY <1>2, <2>1, <2>2, <2>3, IdleTyped DEF Recovered, Quiet, ExOnly, jvars
  <1>3. CASE Claim(p)
    <2>1. lease.token + 1 \in 0..MaxToken
      BY <1>3, JournalAssumption DEF Claim, ClaimExecutor, RuntimeInvariant, SendInv, JournalTypeOK
    <2>2. Moves(p, "idle", Cur(p))
      BY <1>3, <2>1 DEF Claim, RuntimeInvariant, ExTyped, ExRecord, Moves, At, Cur
    <2>3. "idle" \in Plain /\ "idle" \in Free
      BY DEF Plain, Labels, Free
    <2>4. Cur(p) \in Intents \cup {"none"}
      BY DEF RuntimeInvariant, ExTyped, ExRecord, Cur
    <2>5. JournalNext /\ slease' = slease
      BY Zenon, <1>3 DEF Claim, ClaimExecutor, JournalNext, ControlStep, sendVars
    <2> QED
      BY <1>3, <2>2, <2>3, <2>4, <2>5 DEF Claim, Quiet, ExOnly
  <1>4. ASSUME NEW i \in Intents, Begin(p, i) PROVE Quiet(p)
    <2>1. Moves(p, "create", i)
      BY <1>4, BeginMoves DEF RuntimeInvariant
    <2>2. "create" \in Plain
      BY DEF Plain, Labels
    <2>3. UNCHANGED jvars /\ ExOnly
      BY <1>4, Zenon DEF Begin
    <2> QED
      BY <2>1, <2>2, <2>3 DEF Quiet, ExOnly, jvars
  <1> QED
    BY <1>1, <1>2, <1>3, <1>4

(* Labels at which nothing is claimed of the lease or a proof. *)
LEMMA PlainLabels ==
    {"down", "recover", "idle", "create", "safety", "risk", "loss_stop", "reject",
     "approve", "preflight", "pass", "guard", "authorize", "dispatch", "reserve", "mint",
     "final_guard", "waiting", "slippage", "uncertain", "not_sent", "settle"} \subseteq Plain
  BY DEF Plain, Labels

(* execute_once up to the reservation. *)
LEMMA CreateQuiet ==
    ASSUME RuntimeInvariant, NEW p \in Procs, Create(p)
    PROVE  Quiet(p)
  <1>1. ex[p].pc = "create" /\ ExOnly
    BY Zenon DEF Create, At
  <1>2. Cur(p) \in Intents /\ ex[p].pc \notin Free
    BY <1>1, Busy DEF Free
  <1>3. \/ CreateIntent(Cur(p)) /\ Sees(p, "safety", "CREATED")
        \/ UNCHANGED jvars /\ Sees(p, "safety", "CREATED")
        \/ UNCHANGED jvars /\ Return(p)
    BY Zenon DEF Create, Sees
  <1>4. [JournalNext]_jvars /\ Still
    BY <1>1, <1>2, <1>3 DEF Still, ExOnly, jvars, JournalNext, IntentStep, CreateIntent, InsertIntent, sendVars
  <1>5. "CREATED" \in ExecutionStates /\ "safety" \in Plain
    BY PlainLabels DEF ExecutionStates
  <1> QED
    BY <1>2, <1>3, <1>4, <1>5, QuietSees, QuietReturn

(* The generic transition is a journal step, or none when it repeats the    *)
(* state.                                                                   *)
LEMMA TransitionIsJournal ==
    ASSUME RuntimeInvariant, NEW i \in Intents, NEW s, NEW t, Transition(i, s, t)
    PROVE  [JournalNext]_jvars /\ slease' = slease
  <1>1. state[i] = s /\ state[i] # "ABSENT" /\ t \in AllowedTransitions(s) \cup {s}
    BY DEF Transition, MayTransition
  <1>2. state \in [Intents -> ExecutionStates \cup {"ABSENT"}]
    BY DEF RuntimeInvariant, SendInv, JournalTypeOK
  <1>3. s \in ExecutionStates \cap {state[i]}
    BY <1>1, <1>2
  <1>4. slease' = slease
    BY DEF Transition, sendVars
  <1>5. CASE t \in AllowedTransitions(s)
    <2>1. IntentStep(i)
      BY <1>3, <1>5 DEF IntentStep
    <2> QED
      BY <1>4, <2>1 DEF JournalNext
  <1>6. CASE t = s
    <2>1. state' = state
      BY <1>1, <1>2, <1>6 DEF Transition
    <2> QED
      BY <1>4, <2>1 DEF Transition, jvars, sendVars, controlVars
  <1> QED
    BY <1>1, <1>5, <1>6

(* Latching the kill switch is a journal step that moves no lease. *)
LEMMA LatchIsJournal ==
    ASSUME LatchKillSwitch
    PROVE  [JournalNext]_jvars /\ slease' = slease /\ minted' = minted
  BY DEF LatchKillSwitch, JournalNext, ControlStep, sendVars

(* So, trivially, is a step that leaves the journal alone. *)
LEMMA IdleIsJournal ==
    ASSUME UNCHANGED jvars
    PROVE  [JournalNext]_jvars /\ slease' = slease /\ minted' = minted
  BY DEF jvars

(* The evidence receipts are journal steps. *)
LEMMA EvidenceIsJournal ==
    ASSUME NEW i \in Intents, NEW w \in Procs \cup {"denied"},
           \/ RecordRiskDecision(i, w)
           \/ RecordMt5Preflight(i, w)
           \/ w \in Procs /\ AuthorizeSubmissionEvidence(i, w)
    PROVE  [JournalNext]_jvars /\ slease' = slease
  <1>1. CASE RecordRiskDecision(i, w) \/ RecordMt5Preflight(i, w)
    <2>1. IntentStep(i)
      BY <1>1 DEF IntentStep
    <2>2. slease' = slease
      BY <1>1 DEF RecordRiskDecision, RecordMt5Preflight, sendVars
    <2> QED
      BY <2>1, <2>2 DEF JournalNext
  <1>2. CASE w \in Procs /\ AuthorizeSubmissionEvidence(i, w)
    <2>1. SubmissionStep(i)
      BY <1>2 DEF SubmissionStep
    <2>2. slease' = slease
      BY <1>2 DEF AuthorizeSubmissionEvidence, sendVars
    <2> QED
      BY <2>1, <2>2 DEF JournalNext
  <1> QED
    BY <1>1, <1>2

(* A plain transition of the intent, refused or applied, is quiet. *)
LEMMA AdvanceQuiet ==
    ASSUME RuntimeInvariant, NEW p \in Procs, ex[p].pc \notin Free,
           NEW from, NEW to \in ExecutionStates, NEW l \in Plain, Advance(p, from, to, l)
    PROVE  Quiet(p)
  <1>1. Cur(p) \in Intents
    BY Busy
  <1>2. \/ Transition(Cur(p), from, to) /\ Sees(p, l, to)
        \/ UNCHANGED jvars /\ Return(p)
    BY Zenon DEF Advance, Sees
  <1>3. ExOnly
    BY Zenon DEF Advance
  <1>4. [JournalNext]_jvars /\ slease' = slease
    BY Zenon, <1>1, <1>2, TransitionIsJournal, IdleIsJournal
  <1>5. Still
    BY <1>3, <1>4 DEF Still, ExOnly
  <1> QED
    BY Zenon, <1>2, <1>4, <1>5, QuietSees, QuietReturn

(* Everything else before the reservation. *)
LEMMA PrepareQuiet ==
    ASSUME RuntimeInvariant, NEW p \in Procs,
           \/ Safety(p) \/ Reject(p) \/ CheckFails(p) \/ Risk(p) \/ LossStop(p) \/ Approve(p)
           \/ Preflight(p) \/ Pass(p) \/ SubmissionGuard(p) \/ Authorize(p)
    PROVE  Quiet(p)
  <1> USE PlainLabels
  <1>0. ex[p].pc \notin Free /\ Cur(p) \in Intents
    <2>1. ex[p].pc \notin Free
      BY DEF Safety, Reject, CheckFails, Risk, LossStop, Approve, Preflight, Pass, SubmissionGuard,
             Authorize, At, Free
    <2> QED
      BY Zenon, <2>1, Busy
  <1>1. CASE Safety(p)
    <2>1. [JournalNext]_jvars /\ Still /\ Goto(p, "risk")
      BY Zenon, <1>1, IdleIsJournal DEF Safety, Still
    <2> QED
      BY Zenon, <1>0, <2>1, QuietGoto
  <1>2. CASE Reject(p)
    <2>1. [JournalNext]_jvars /\ slease' = slease
      BY Zenon, <1>0, <1>2, IdleIsJournal, TransitionIsJournal DEF Reject
    <2> QED
      BY Zenon, <1>2, <2>1, QuietReturn DEF Reject, Still, ExOnly
  <1>3. CASE CheckFails(p)
    <2>1. [JournalNext]_jvars /\ Still /\ Goto(p, "reject")
      BY Zenon, <1>3, IdleIsJournal DEF CheckFails, Still, ExOnly
    <2> QED
      BY Zenon, <1>0, <2>1, QuietGoto
  <1>4. CASE Risk(p)
    <2>1. [JournalNext]_jvars /\ slease' = slease
      BY Zenon, <1>0, <1>4, EvidenceIsJournal, IdleIsJournal DEF Risk
    <2>2. Goto(p, "approve") \/ Goto(p, "reject") \/ Goto(p, "loss_stop") \/ Return(p)
      BY Zenon, <1>4 DEF Risk
    <2>3. Still
      BY Zenon, <1>4, <2>1 DEF Risk, Still, ExOnly
    <2> QED
      BY Zenon, <1>0, <2>1, <2>2, <2>3, QuietGoto, QuietReturn
  <1>5. CASE LossStop(p)
    <2>1. [JournalNext]_jvars /\ Still /\ Goto(p, "reject")
      BY Zenon, <1>5, LatchIsJournal DEF LossStop, Still, ExOnly
    <2> QED
      BY <1>0, <2>1, QuietGoto
  <1>6. CASE Approve(p)
    <2>1. "RISK_APPROVED" \in ExecutionStates
      BY DEF ExecutionStates
    <2> QED
      BY Zenon, <1>0, <1>6, <2>1, AdvanceQuiet DEF Approve
  <1>7. CASE Preflight(p)
    <2>1. [JournalNext]_jvars /\ slease' = slease
      BY Zenon, <1>0, <1>7, EvidenceIsJournal DEF Preflight
    <2>2. Goto(p, "pass") \/ Goto(p, "reject")
      BY <1>7 DEF Preflight
    <2>3. Still
      BY Zenon, <1>7, <2>1 DEF Preflight, Still, ExOnly
    <2> QED
      BY Zenon, <1>0, <2>1, <2>2, <2>3, QuietGoto
  <1>8. CASE Pass(p)
    <2>1. "PREFLIGHT_PASSED" \in ExecutionStates
      BY DEF ExecutionStates
    <2> QED
      BY Zenon, <1>0, <1>8, <2>1, AdvanceQuiet DEF Pass
  <1>9. CASE SubmissionGuard(p)
    <2>1. [JournalNext]_jvars /\ Still /\ Goto(p, "authorize")
      BY <1>9, IdleIsJournal DEF SubmissionGuard, Still, ExOnly
    <2> QED
      BY Zenon, <1>0, <2>1, QuietGoto
  <1>10. CASE Authorize(p)
    <2>1. [JournalNext]_jvars /\ slease' = slease
      BY Zenon, <1>0, <1>10, EvidenceIsJournal DEF Authorize
    <2>2. Goto(p, "dispatch") \/ Goto(p, "reserve")
      BY Zenon, <1>10 DEF Authorize
    <2>3. Still
      BY Zenon, <1>10, <2>1 DEF Authorize, Still, ExOnly
    <2> QED
      BY Zenon, <1>0, <2>1, <2>2, <2>3, QuietGoto
  <1> QED
    BY Zenon, <1>1, <1>2, <1>3, <1>4, <1>5, <1>6, <1>7, <1>8, <1>9, <1>10

ResvType == [Intents -> {"none", "ACTIVE"} \cup SettlementStates]

AtBoundary == {"submit", "adapter", "sending"}

(* What else an executor step has to show. *)
LEMMA ExecutorKeeps ==
    ASSUME RuntimeInvariant, NEW p \in Procs, NEW l, NEW c, Moves(p, l, c),
           [JournalNext]_jvars, rc' = rc, BrokerTyped', resv' \in ResvType, sent' \subseteq Intents,
           Bound(p)',
           \A i \in Intents : Agrees(i)',
           \A q \in Procs \ {p} : ex[q].pc \in AtBoundary =>
               slease'[Cur(q)] = slease[Cur(q)] /\ (Cur(q) \in sent' => Cur(q) \in sent)
    PROVE  Kept
  <1>1. SendInv' /\ LeaseBound'
    BY Zenon, SendStep, LeaseBoundStep DEF RuntimeInvariant, SendInv
  <1>2. ExTyped'
    BY Zenon DEF Moves, ExTyped
  <1>3. RcTyped'
    BY Zenon DEF RuntimeInvariant, RcTyped
  <1>4. \A i \in Intents : minted[i] \subseteq minted'[i]
    BY Zenon, MintedGrows DEF RuntimeInvariant, SendInv
  <1>5. ASSUME NEW q \in Procs \ {p} PROVE Bound(q)'
    <2>1. ex'[q] = ex[q] /\ Bound(q)
      BY Zenon DEF Moves, RuntimeInvariant
    <2>2. ex[q].pc \in AtBoundary =>
             slease'[ex[q].cur] = slease[ex[q].cur] /\ (ex[q].cur \in sent' => ex[q].cur \in sent)
      BY DEF Cur
    <2> QED
      BY Zenon, <2>1, <2>2, <1>4 DEF Bound, Free, AtBoundary
  <1> QED
    BY Zenon, <1>1, <1>2, <1>3, <1>5 DEF RuntimeInvariant, ResvType, Kept

(* No two processes are past the final guard of the same intent: its lease  *)
(* names the process it was given to.                                       *)
LEMMA Alone ==
    ASSUME RuntimeInvariant, NEW p \in Procs, NEW q \in Procs \ {p},
           ex[q].pc \in AtBoundary, slease[Cur(p)].by = p \/ slease[Cur(p)].st = "none"
    PROVE  Cur(q) # Cur(p)
  <1>1. slease[Cur(q)].by = q /\ slease[Cur(q)].st \in {"active", "used"}
    BY DEF RuntimeInvariant, Bound, Cur, AtBoundary
  <1> QED
    BY Zenon, <1>1

(* A step of the session store or of nothing but the process's own place. *)
LEMMA SameLeases ==
    ASSUME slease' = slease, sent' = sent
    PROVE  \A q \in Procs : ex[q].pc \in AtBoundary =>
               slease'[Cur(q)] = slease[Cur(q)] /\ (Cur(q) \in sent' => Cur(q) \in sent)
  OBVIOUS

(* From the reservation to the receipts. *)
LEMMA SubmitQuiet ==
    ASSUME RuntimeInvariant, NEW p \in Procs,
           Reserve(p) \/ Mint(p) \/ Record(p) \/ Slippage(p) \/ Uncertain(p) \/ NotSent(p)
    PROVE  Quiet(p)
  <1> USE PlainLabels
  <1>0. ex[p].pc \notin Free /\ Cur(p) \in Intents
    <2>1. ex[p].pc \notin Free
      BY DEF Reserve, Mint, Record, Slippage, Uncertain, NotSent, At, Free
    <2> QED
      BY Zenon, <2>1, Busy
  <1>1. CASE Reserve(p)
    <2>1. ASSUME NEW d \in StampDays, ReserveSubmission(Cur(p), p, ex[p].tok, d)
          PROVE  [JournalNext]_jvars /\ slease' = slease
      <3>1. lease.owner = p /\ lease.token = ex[p].tok
        BY Zenon, <2>1 DEF ReserveSubmission, MayReserve, HoldsFence
      <3>2. lease.token \in 1..MaxToken
        BY Zenon, <3>1, HeldToken
      <3>3. SubmissionStep(Cur(p))
        BY <2>1, <3>1, <3>2 DEF SubmissionStep
      <3>4. slease' = slease
        BY <2>1 DEF ReserveSubmission, sendVars
      <3> QED
        BY Zenon, <1>0, <3>3, <3>4 DEF JournalNext
    <2>2. [JournalNext]_jvars /\ slease' = slease
      BY <1>1, <2>1, IdleIsJournal DEF Reserve
    <2>3. Goto(p, "mint") \/ Goto(p, "settle") \/ Goto(p, "reject") \/ Return(p)
      BY <1>1 DEF Reserve
    <2>4. Still
      BY Zenon, <1>1, <2>2 DEF Reserve, Still, ExOnly
    <2> QED
      BY Zenon, <1>0, <2>2, <2>3, <2>4, QuietGoto, QuietReturn
  <1>2. CASE Mint(p)
    <2>1. [JournalNext]_jvars /\ Still
      BY Zenon, <1>2, IdleIsJournal DEF Mint, Still, ExOnly
    <2>2. Goto(p, "final_guard") \/ Goto(p, "not_sent") \/ Goto(p, "uncertain")
      BY <1>2 DEF Mint, HeldBeforeSend
    <2> QED
      BY Zenon, <1>0, <2>1, <2>2, QuietGoto
  <1>3. CASE Record(p)
    <2>1. ASSUME RecordExecutionReceipt(Cur(p), ex[p].ret.t, ex[p].ret.v)
          PROVE  [JournalNext]_jvars /\ slease' = slease
      <3>1. ex[p].ret.t \in ExecutionTargets
        BY <1>3 DEF Record, At, RuntimeInvariant, Bound
      <3>2. ex[p].ret.v \in 0..Lot
        BY Zenon DEF RuntimeInvariant, ExTyped, ExRecord, Returns
      <3>3. OutcomeStep(Cur(p))
        BY Zenon, <2>1, <3>1, <3>2 DEF OutcomeStep
      <3>4. slease' = slease
        BY Zenon, <2>1 DEF RecordExecutionReceipt
      <3> QED
        BY Zenon, <1>0, <3>3, <3>4 DEF JournalNext
    <2>2. [JournalNext]_jvars /\ slease' = slease
      BY Zenon, <1>3, <2>1, IdleIsJournal DEF Record
    <2>3. Goto(p, "settle") \/ Goto(p, "slippage") \/ Return(p)
      BY Zenon, <1>3 DEF Record
    <2>4. Still
      BY Zenon, <1>3, <2>2 DEF Record, Still, ExOnly
    <2> QED
      BY Zenon, <1>0, <2>2, <2>3, <2>4, QuietGoto, QuietReturn
  <1>4. CASE Slippage(p)
    <2>1. [JournalNext]_jvars /\ slease' = slease
      BY Zenon, <1>4, LatchIsJournal, IdleIsJournal DEF Slippage
    <2> QED
      BY Zenon, <1>4, <2>1, QuietReturn DEF Slippage, Still, ExOnly
  <1>5. CASE Uncertain(p)
    <2>1. [JournalNext]_jvars /\ slease' = slease
      BY Zenon, <1>0, <1>5, TransitionIsJournal, IdleIsJournal DEF Uncertain
    <2>2. Goto(p, "settle") \/ Return(p)
      BY <1>5 DEF Uncertain
    <2>3. Still
      BY Zenon, <1>5, <2>1 DEF Uncertain, Still, ExOnly
    <2> QED
      BY Zenon, <1>0, <2>1, <2>2, <2>3, QuietGoto, QuietReturn
  <1>6. CASE NotSent(p)
    <2>1. ASSUME RecordSubmissionNotSent(Cur(p)) PROVE [JournalNext]_jvars /\ slease' = slease
      BY Zenon, <1>0, <2>1 DEF RecordSubmissionNotSent, JournalNext, OutcomeStep
    <2>2. [JournalNext]_jvars /\ slease' = slease
      BY <1>6, <2>1, IdleIsJournal DEF NotSent
    <2>3. Goto(p, "settle") \/ Return(p)
      BY <1>6 DEF NotSent
    <2>4. Still
      BY <1>6, <2>2 DEF NotSent, Still, ExOnly
    <2> QED
      BY <1>0, <2>2, <2>3, <2>4, QuietGoto, QuietReturn
  <1> QED
    BY Zenon, <1>1, <1>2, <1>3, <1>4, <1>5, <1>6

(* Minting a settlement proof is a journal step that records the proof. *)
LEMMA MintingIsJournal ==
    ASSUME RuntimeInvariant, NEW i \in Intents, DemoAutoDispatchSettlement(i)
    PROVE  /\ [JournalNext]_jvars /\ slease' = slease
           /\ Settlement(i) \in minted'[i] /\ Settlement(i) \in SettlementStates
  <1>1. OutcomeStep(i)
    BY Zenon DEF OutcomeStep
  <1>2. Settlement(i) \in SettlementStates
    BY Zenon DEF DemoAutoDispatchSettlement, CanSettle, Settlement, SettlementStates
  <1>3. minted'[i] = minted[i] \cup {Settlement(i)}
    BY DEF DemoAutoDispatchSettlement, RuntimeInvariant, SendInv, JournalTypeOK
  <1> QED
    BY <1>1, <1>2, <1>3 DEF DemoAutoDispatchSettlement, JournalNext

(* What neither the broker nor the session store changes still agrees. *)
LEMMA StillAgrees ==
    ASSUME RuntimeInvariant, [JournalNext]_jvars, UNCHANGED <<slease, resv, broker, sent>>
    PROVE  /\ \A i \in Intents : Agrees(i)'
           /\ BrokerTyped' /\ resv' \in ResvType /\ sent' \subseteq Intents
  <1>1. \A i \in Intents : minted[i] \subseteq minted'[i]
    BY Zenon, MintedGrows DEF RuntimeInvariant, SendInv
  <1> QED
    BY <1>1 DEF RuntimeInvariant, Agrees, BrokerTyped, ResvType

(* Startup recovery mints a settlement proof of what it found. *)
LEMMA RecoverMintKeeps ==
    ASSUME RuntimeInvariant, NEW p \in Procs, RecoverMint(p)
    PROVE  Kept
  <1>1. ExOnly
    BY Zenon DEF RecoverMint
  <1>2. PICK i \in ex[p].todo :
          \/ DemoAutoDispatchSettlement(i) /\ Holding(p, "recover_apply", i, Settlement(i))
          \/ UNCHANGED jvars /\ ex' = [ex EXCEPT ![p] = Down]
    BY Zenon DEF RecoverMint, Holding
  <1>3. i \in Intents
    BY Zenon DEF RuntimeInvariant, ExTyped, ExRecord
  <1>4. CASE DemoAutoDispatchSettlement(i) /\ Holding(p, "recover_apply", i, Settlement(i))
    <2>1. /\ [JournalNext]_jvars /\ slease' = slease
          /\ Settlement(i) \in minted'[i] /\ Settlement(i) \in SettlementStates
      BY Zenon, <1>3, <1>4, MintingIsJournal
    <2>2. "recover_apply" \in Labels
      BY Zenon DEF Labels
    <2>3. Moves(p, "recover_apply", i) /\ ex'[p].proof = Settlement(i)
      BY Zenon, <1>3, <1>4, <2>1, <2>2, HoldingMoves DEF RuntimeInvariant
    <2>4. Bound(p)'
      BY Zenon, <1>3, <2>1, <2>3 DEF Bound, Moves, Free
    <2>5. sent' = sent /\ rc' = rc /\ UNCHANGED <<slease, resv, broker, sent>>
      BY Zenon, <1>1, <2>1 DEF ExOnly
    <2> QED
      BY Zenon, <2>1, <2>3, <2>4, <2>5, StillAgrees, SameLeases, ExecutorKeeps
  <1>5. CASE UNCHANGED jvars /\ ex' = [ex EXCEPT ![p] = Down]
    <2>1. [JournalNext]_jvars /\ Still
      BY <1>1, <1>5, IdleIsJournal DEF Still, ExOnly
    <2> QED
      BY Zenon, <1>5, <2>1, QuietDown, QuietKeeps
  <1> QED
    BY <1>2, <1>4, <1>5

(* A proof in hand is applied to the reservation of its intent. *)
LEMMA ApplyingAgrees ==
    ASSUME RuntimeInvariant, NEW p \in Procs, ex[p].pc \in {"recover_apply", "apply"},
           resv' = [resv EXCEPT ![Cur(p)] = ex[p].proof], UNCHANGED jvars,
           UNCHANGED <<broker, sent>>
    PROVE  /\ \A i \in Intents : Agrees(i)'
           /\ BrokerTyped' /\ resv' \in ResvType /\ sent' \subseteq Intents
  <1>1. Cur(p) \in Intents /\ ex[p].proof \in minted[Cur(p)]
    BY Zenon DEF RuntimeInvariant, Bound, Cur, Free
  <1>2. minted[Cur(p)] \subseteq SettlementStates
    BY Zenon, <1>1 DEF RuntimeInvariant, SendInv, JournalTypeOK
  <1>3. resv' \in ResvType
    BY Zenon, <1>1, <1>2 DEF RuntimeInvariant, ResvType
  <1>4. ASSUME NEW i \in Intents PROVE Agrees(i)'
    <2>1. resv \in ResvType /\ Agrees(i)
      BY Zenon DEF RuntimeInvariant, ResvType
    <2>2. resv'[i] \in {"none", "ACTIVE"} \cup minted[i]
      BY Zenon, <1>1, <2>1 DEF Agrees, ResvType
    <2> QED
      BY Zenon, <2>1, <2>2 DEF Agrees, jvars
  <1> QED
    BY <1>3, <1>4 DEF RuntimeInvariant, BrokerTyped

(* Startup recovery applies the proof it minted. *)
LEMMA RecoverApplyKeeps ==
    ASSUME RuntimeInvariant, NEW p \in Procs, RecoverApply(p)
    PROVE  Kept
  <1>1. ex[p].pc = "recover_apply" /\ UNCHANGED <<jvars, mutex, broker, sent, rc, crashes>>
    BY Zenon DEF RecoverApply, At
  <1>2. \/ resv' = [resv EXCEPT ![Cur(p)] = ex[p].proof] /\ Applied(p)
        \/ ex' = [ex EXCEPT ![p] = Down] /\ UNCHANGED resv
    BY Zenon DEF RecoverApply, Applied
  <1>3. CASE resv' = [resv EXCEPT ![Cur(p)] = ex[p].proof] /\ Applied(p)
    <2>1. Moves(p, "recover", "none")
      BY Zenon, <1>3, AppliedMoves DEF RuntimeInvariant
    <2>2. Bound(p)'
      BY Zenon, <2>1 DEF Bound, Moves, Free
    <2>3. [JournalNext]_jvars /\ slease' = slease /\ sent' = sent /\ rc' = rc
      BY Zenon, <1>1, IdleIsJournal
    <2>4. /\ \A i \in Intents : Agrees(i)'
          /\ BrokerTyped' /\ resv' \in ResvType /\ sent' \subseteq Intents
      BY Zenon, <1>1, <1>3, ApplyingAgrees
    <2> QED
      BY Zenon, <2>1, <2>2, <2>3, <2>4, SameLeases, ExecutorKeeps
  <1>4. CASE ex' = [ex EXCEPT ![p] = Down] /\ UNCHANGED resv
    <2>1. [JournalNext]_jvars /\ Still
      BY <1>1, <1>4, IdleIsJournal DEF Still
    <2> QED
      BY Zenon, <1>4, <2>1, QuietDown, QuietKeeps
  <1> QED
    BY Zenon, <1>2, <1>3, <1>4

(* After settling, the call returns or goes on to the slippage check. *)
LEMMA AfterSettlingMoves ==
    ASSUME RuntimeInvariant, NEW p \in Procs, ex[p].pc \notin Free, AfterSettling(p)
    PROVE  \E l \in Plain, c \in Intents \cup {"none"} :
              Moves(p, l, c) /\ (l \notin Free => c \in Intents)
  <1>1. CASE Return(p)
    <2>1. Moves(p, "idle", "none") /\ "idle" \in Plain /\ "idle" \in Free
      BY Zenon, <1>1, ReturnMoves, PlainLabels DEF RuntimeInvariant, Free
    <2> QED
      BY Zenon, <2>1
  <1>2. CASE Goto(p, "slippage")
    <2>1. Moves(p, "slippage", Cur(p)) /\ "slippage" \in Plain
      BY Zenon, <1>2, GotoMoves, PlainLabels DEF RuntimeInvariant, Plain
    <2> QED
      BY Zenon, <2>1, Busy
  <1> QED
    BY Zenon, <1>1, <1>2 DEF AfterSettling

(* A settlement proof of the dispatch is minted, or the switch latches. *)
LEMMA SettleKeeps ==
    ASSUME RuntimeInvariant, NEW p \in Procs, Settle(p)
    PROVE  Kept
  <1>1. ex[p].pc = "settle" /\ ExOnly
    BY Zenon DEF Settle, At
  <1>2. \/ DemoAutoDispatchSettlement(Cur(p)) /\ Proven(p, "apply", Settlement(Cur(p)))
        \/ LatchKillSwitch /\ AfterSettling(p)
    BY Zenon DEF Settle, Proven
  <1>3. Cur(p) \in Intents /\ ex[p].pc \notin Free
    BY Zenon, <1>1, Busy DEF Free
  <1>4. CASE DemoAutoDispatchSettlement(Cur(p)) /\ Proven(p, "apply", Settlement(Cur(p)))
    <2>1. /\ [JournalNext]_jvars /\ slease' = slease
          /\ Settlement(Cur(p)) \in minted'[Cur(p)] /\ Settlement(Cur(p)) \in SettlementStates
      BY Zenon, <1>3, <1>4, MintingIsJournal
    <2>2. "apply" \in Labels
      BY Zenon DEF Labels
    <2>3. Moves(p, "apply", Cur(p)) /\ ex'[p].proof = Settlement(Cur(p))
      BY Zenon, <1>3, <1>4, <2>1, <2>2, ProvenMoves DEF RuntimeInvariant
    <2>4. Bound(p)'
      BY Zenon, <1>3, <2>1, <2>3 DEF Bound, Moves, Free
    <2>5. sent' = sent /\ rc' = rc /\ UNCHANGED <<slease, resv, broker, sent>>
      BY <1>1, <2>1 DEF ExOnly
    <2> QED
      BY Zenon, <2>1, <2>3, <2>4, <2>5, StillAgrees, SameLeases, ExecutorKeeps
  <1>5. CASE LatchKillSwitch /\ AfterSettling(p)
    <2>1. [JournalNext]_jvars /\ UNCHANGED <<slease, resv, broker, sent, rc>>
      BY Zenon, <1>1, <1>5, LatchIsJournal DEF ExOnly
    <2>2. Quiet(p)
      BY Zenon, <1>3, <1>5, <2>1, AfterSettlingMoves DEF Quiet
    <2> QED
      BY Zenon, <2>2, QuietKeeps
  <1> QED
    BY <1>2, <1>4, <1>5

(* The proof in hand settles the reservation, or the switch latches. *)
LEMMA ApplyKeeps ==
    ASSUME RuntimeInvariant, NEW p \in Procs, Apply(p)
    PROVE  Kept
  <1>1. /\ ex[p].pc = "apply" /\ AfterSettling(p)
        /\ UNCHANGED <<mutex, broker, sent, rc, crashes>>
    BY Zenon DEF Apply, At
  <1>2. ex[p].pc \notin Free
    BY Zenon, <1>1 DEF Free
  <1>3. CASE resv' = [resv EXCEPT ![Cur(p)] = ex[p].proof] /\ UNCHANGED jvars
    <2>1. PICK l \in Plain, c \in Intents \cup {"none"} :
             Moves(p, l, c) /\ (l \notin Free => c \in Intents)
      BY Zenon, <1>1, <1>2, AfterSettlingMoves
    <2>2. Bound(p)'
      BY Zenon, <2>1 DEF Bound, Moves, Free, Plain
    <2>3. [JournalNext]_jvars /\ slease' = slease /\ sent' = sent /\ rc' = rc
      BY Zenon, <1>1, <1>3, IdleIsJournal
    <2>4. /\ \A i \in Intents : Agrees(i)'
          /\ BrokerTyped' /\ resv' \in ResvType /\ sent' \subseteq Intents
      BY Zenon, <1>1, <1>3, ApplyingAgrees
    <2> QED
      BY Zenon, <2>1, <2>2, <2>3, <2>4, SameLeases, ExecutorKeeps
  <1>4. CASE LatchKillSwitch /\ UNCHANGED resv
    <2>1. [JournalNext]_jvars /\ UNCHANGED <<slease, resv, broker, sent, rc>>
      BY <1>1, <1>4, LatchIsJournal
    <2>2. Quiet(p)
      BY <1>1, <1>2, <2>1, AfterSettlingMoves DEF Quiet
    <2> QED
      BY <2>2, QuietKeeps
  <1> QED
    BY Zenon, <1>3, <1>4 DEF Apply

(* The dispatch reservation is taken in the session store. *)
LEMMA DispatchKeeps ==
    ASSUME RuntimeInvariant, NEW p \in Procs, Dispatch(p)
    PROVE  Kept
  <1>1. /\ ex[p].pc = "dispatch" /\ Goto(p, "reserve") /\ resv' = [resv EXCEPT ![Cur(p)] = "ACTIVE"]
        /\ UNCHANGED <<jvars, mutex, broker, sent, rc, crashes>>
    BY Zenon DEF Dispatch, At
  <1>2. Cur(p) \in Intents /\ "reserve" \in Labels
    BY Zenon, <1>1, Busy, PlainLabels DEF Free, Plain
  <1>3. Moves(p, "reserve", Cur(p))
    BY Zenon, <1>1, <1>2, GotoMoves DEF RuntimeInvariant
  <1>4. Bound(p)'
    BY Zenon, <1>2, <1>3 DEF Bound, Moves, Free
  <1>5. [JournalNext]_jvars /\ slease' = slease /\ minted' = minted
    BY Zenon, <1>1, IdleIsJournal
  <1>6. BrokerTyped' /\ resv' \in ResvType /\ sent' \subseteq Intents
    BY Zenon, <1>1, <1>2 DEF RuntimeInvariant, BrokerTyped, ResvType
  <1>7. ASSUME NEW i \in Intents PROVE Agrees(i)'
    <2>1. resv \in ResvType /\ Agrees(i)
      BY Zenon DEF RuntimeInvariant, ResvType
    <2>2. resv'[i] \in {"none", "ACTIVE"} \cup minted[i]
      BY Zenon, <1>1, <1>2, <2>1 DEF Agrees, ResvType
    <2> QED
      BY Zenon, <1>1, <1>5, <2>1, <2>2 DEF Agrees
  <1> QED
    BY Zenon, <1>1, <1>3, <1>4, <1>5, <1>6, <1>7, SameLeases, ExecutorKeeps

(* Committing the final guard hands the intent's only lease to p. *)
LEMMA GuardingKeeps ==
    ASSUME RuntimeInvariant, NEW p \in Procs, ex[p].pc = "final_guard", NEW d \in StampDays,
           FinalSubmissionGuard(Cur(p), p, ex[p].tok, d), Goto(p, "submit"), ExOnly
    PROVE  Kept
  <1>1. Cur(p) \in Intents /\ "submit" \in Labels
    BY Zenon, Busy DEF Free, Labels
  <1>2. Moves(p, "submit", Cur(p))
    BY Zenon, <1>1, GotoMoves DEF RuntimeInvariant
  <1>3. lease.owner = p /\ lease.token = ex[p].tok
    BY Zenon DEF FinalSubmissionGuard, MayCommitGuard, AssertFinalSubmissionState, HoldsFence
  <1>4. lease.token \in 1..MaxToken
    BY Zenon, <1>3, HeldToken
  <1>5. SubmissionStep(Cur(p))
    BY Zenon, <1>3, <1>4 DEF SubmissionStep
  <1>6. [JournalNext]_jvars
    BY Zenon, <1>1, <1>5 DEF JournalNext
  <1>7. slease[Cur(p)].st = "none"
    BY Zenon, <1>1 DEF FinalSubmissionGuard, MayCommitGuard, RuntimeInvariant, SendInv, SendBoundary, Guarded
  <1>8. slease \in LeaseType
    BY Zenon DEF RuntimeInvariant, SendInv, JournalTypeOK, LeaseType
  <1>9. /\ slease'[Cur(p)].st = "active" /\ slease'[Cur(p)].by = p
        /\ \A i \in Intents \ {Cur(p)} : slease'[i] = slease[i]
    BY Zenon, <1>1, <1>8 DEF FinalSubmissionGuard, LeaseType
  <1>10. Bound(p)'
    BY Zenon, <1>1, <1>2, <1>9 DEF Bound, Moves, Free
  <1>11. UNCHANGED <<resv, broker, sent, rc>> /\ minted' = minted
    BY Zenon DEF ExOnly, FinalSubmissionGuard
  <1>12. ASSUME NEW i \in Intents PROVE Agrees(i)'
    <2>1. Agrees(i)
      BY Zenon DEF RuntimeInvariant
    <2>2. i \in sent => slease'[i] = slease[i]
      BY Zenon, <1>7, <1>9, <2>1 DEF Agrees
    <2> QED
      BY Zenon, <1>11, <2>1, <2>2 DEF Agrees
  <1>13. BrokerTyped' /\ resv' \in ResvType /\ sent' \subseteq Intents
    BY Zenon, <1>11 DEF RuntimeInvariant, BrokerTyped, ResvType
  <1>14. ASSUME NEW q \in Procs \ {p}, ex[q].pc \in AtBoundary
         PROVE  slease'[Cur(q)] = slease[Cur(q)]
    <2>1. Cur(q) # Cur(p)
      BY Zenon, <1>7, <1>14, Alone
    <2>2. Cur(q) \in Intents
      BY Zenon, <1>14, Busy DEF AtBoundary, Free
    <2> QED
      BY Zenon, <1>9, <2>1, <2>2
  <1> QED
    BY Zenon, <1>2, <1>6, <1>10, <1>11, <1>12, <1>13, <1>14, ExecutorKeeps

(* The final guard issues the send lease, or refuses. *)
LEMMA FinalGuardKeeps ==
    ASSUME RuntimeInvariant, NEW p \in Procs, FinalGuard(p)
    PROVE  Kept
  <1>1. ex[p].pc = "final_guard" /\ ExOnly
    BY Zenon DEF FinalGuard, At
  <1>2. ASSUME NEW d \in StampDays, FinalSubmissionGuard(Cur(p), p, ex[p].tok, d), Goto(p, "submit")
        PROVE  Kept
    BY Zenon, <1>1, <1>2, GuardingKeeps
  <1>3. CASE UNCHANGED jvars /\ (Return(p) \/ Goto(p, "not_sent") \/ Goto(p, "uncertain"))
    <2>1. [JournalNext]_jvars /\ Still
      BY Zenon, <1>1, <1>3, IdleIsJournal DEF Still, ExOnly
    <2>2. ex[p].pc \notin Free
      BY Zenon, <1>1 DEF Free
    <2>3. Quiet(p)
      BY Zenon, <1>3, <2>1, <2>2, PlainLabels, QuietGoto, QuietReturn
    <2> QED
      BY <2>3, QuietKeeps
  <1> QED
    BY Zenon, <1>2, <1>3 DEF FinalGuard, HeldBeforeSend

(* The reservation and the account are verified again before the send. *)
LEMMA VerifySendKeeps ==
    ASSUME RuntimeInvariant, NEW p \in Procs, VerifySend(p)
    PROVE  Kept
  <1>1. ex[p].pc = "submit" /\ Goto(p, "adapter") /\ UNCHANGED jvars /\ ExOnly
    BY Zenon DEF VerifySend, At
  <1>2. Cur(p) \in Intents /\ "adapter" \in Labels
    BY Zenon, <1>1, Busy DEF Free, Labels
  <1>3. Moves(p, "adapter", Cur(p))
    BY Zenon, <1>1, <1>2, GotoMoves DEF RuntimeInvariant
  <1>4. [JournalNext]_jvars /\ slease' = slease /\ UNCHANGED <<slease, resv, broker, sent>> /\ rc' = rc
    BY Zenon, <1>1, IdleIsJournal DEF ExOnly
  <1>5. slease[Cur(p)].st = "active" /\ slease[Cur(p)].by = p
    BY Zenon, <1>1 DEF RuntimeInvariant, Bound, Cur
  <1>6. Bound(p)'
    BY Zenon, <1>2, <1>3, <1>4, <1>5 DEF Bound, Moves, Free
  <1> QED
    BY Zenon, <1>3, <1>4, <1>6, StillAgrees, SameLeases, ExecutorKeeps

(* p retires the lease it holds: consumes it, releases it or dies with it. *)
LEMMA RetiringKeeps ==
    ASSUME RuntimeInvariant, NEW p \in Procs, ex[p].pc \in {"submit", "adapter"},
           NEW l, NEW c, Moves(p, l, c), Bound(p)',
           NEW st, slease' = [slease EXCEPT ![Cur(p)].st = st],
           [JournalNext]_jvars, minted' = minted, UNCHANGED <<resv, broker, sent, rc>>
    PROVE  Kept
  <1>1. Cur(p) \in Intents
    BY Zenon, Busy DEF Free
  <1>2. slease[Cur(p)].st = "active" /\ slease[Cur(p)].by = p
    BY DEF RuntimeInvariant, Bound, Cur
  <1>3. slease \in LeaseType
    BY DEF RuntimeInvariant, SendInv, JournalTypeOK, LeaseType
  <1>4. \A i \in Intents \ {Cur(p)} : slease'[i] = slease[i]
    BY Zenon, <1>1, <1>3 DEF LeaseType
  <1>5. ASSUME NEW i \in Intents PROVE Agrees(i)'
    <2>1. Agrees(i)
      BY DEF RuntimeInvariant
    <2>2. i \in sent => slease'[i] = slease[i]
      BY <1>2, <1>4, <2>1 DEF Agrees
    <2> QED
      BY Zenon, <2>1, <2>2 DEF Agrees
  <1>6. BrokerTyped' /\ resv' \in ResvType /\ sent' \subseteq Intents
    BY DEF RuntimeInvariant, BrokerTyped, ResvType
  <1>7. ASSUME NEW q \in Procs \ {p}, ex[q].pc \in AtBoundary
         PROVE  slease'[Cur(q)] = slease[Cur(q)]
    <2>1. Cur(q) # Cur(p)
      BY <1>2, <1>7, Alone
    <2>2. Cur(q) \in Intents
      BY <1>7, Busy DEF AtBoundary, Free
    <2> QED
      BY <1>4, <2>1, <2>2
  <1> QED
    BY Zenon, <1>5, <1>6, <1>7, ExecutorKeeps

(* The gateway consumes the lease: from here on the intent may be sent. *)
LEMMA ConsumeKeeps ==
    ASSUME RuntimeInvariant, NEW p \in Procs, Consume(p)
    PROVE  Kept
  <1>1. ex[p].pc = "adapter" /\ ConsumeLease(Cur(p)) /\ Goto(p, "sending") /\ ExOnly
    BY DEF Consume, At
  <1>2. Cur(p) \in Intents /\ "sending" \in Labels
    BY <1>1, Busy DEF Free, Labels
  <1>3. Moves(p, "sending", Cur(p))
    BY Zenon, <1>1, <1>2, GotoMoves DEF RuntimeInvariant
  <1>4. [JournalNext]_jvars /\ minted' = minted
    BY Zenon, <1>1, <1>2 DEF ConsumeLease, JournalNext, SubmissionStep
  <1>5. slease[Cur(p)].st = "active" /\ slease[Cur(p)].by = p /\ Cur(p) \notin sent
    BY <1>1, <1>2 DEF RuntimeInvariant, Bound, Cur, Agrees
  <1>6. slease' = [slease EXCEPT ![Cur(p)].st = "used"]
    BY <1>1 DEF ConsumeLease
  <1>7. slease'[Cur(p)].st = "used" /\ slease'[Cur(p)].by = p
    <2>1. slease \in LeaseType
      BY Zenon DEF RuntimeInvariant, SendInv, JournalTypeOK, LeaseType
    <2> QED
      BY Zenon, <1>2, <1>5, <1>6, <2>1 DEF LeaseType
  <1>8. UNCHANGED <<resv, broker, sent, rc>>
    BY Zenon, <1>1 DEF ExOnly
  <1>9. Bound(p)'
    BY Zenon, <1>2, <1>3, <1>5, <1>7, <1>8 DEF Bound, Moves, Free
  <1> QED
    BY Zenon, <1>1, <1>3, <1>4, <1>6, <1>8, <1>9, RetiringKeeps

(* A submission that is refused gives its unused lease back. *)
LEMMA SubmitRefusedKeeps ==
    ASSUME RuntimeInvariant, NEW p \in Procs, SubmitRefused(p)
    PROVE  Kept
  <1>1. ex[p].pc \in {"submit", "adapter"} /\ ReleaseUnusedLease(Cur(p)) /\ ExOnly
    BY DEF SubmitRefused
  <1>2. Cur(p) \in Intents /\ ex[p].pc \notin Free
    BY Zenon, <1>1, Busy DEF Free
  <1>3. Return(p) \/ Goto(p, "not_sent") \/ Goto(p, "uncertain")
    BY Zenon DEF SubmitRefused, HeldBeforeSend
  <1>4. PICK l \in Plain, c \in Intents \cup {"none"} : Moves(p, l, c) /\ (l \notin Free => c \in Intents)
    <2>1. CASE Return(p)
      <3>1. Moves(p, "idle", "none") /\ "idle" \in Plain /\ "idle" \in Free
        BY Zenon, <2>1, ReturnMoves, PlainLabels DEF RuntimeInvariant, Free
      <3> QED
        BY Zenon, <3>1
    <2>2. ASSUME NEW l \in {"not_sent", "uncertain"}, Goto(p, l)
          PROVE  Moves(p, l, Cur(p)) /\ l \in Plain
      BY Zenon, <2>2, GotoMoves, PlainLabels DEF RuntimeInvariant, Plain
    <2> QED
      BY Zenon, <1>2, <1>3, <2>1, <2>2
  <1>5. Bound(p)'
    BY <1>4 DEF Bound, Moves, Free, Plain
  <1>6. slease' = [slease EXCEPT ![Cur(p)].st = "dead"] /\ minted' = minted
    BY Zenon, <1>1 DEF ReleaseUnusedLease
  <1>7. [JournalNext]_jvars
    BY Zenon, <1>1, <1>2 DEF JournalNext, SubmissionStep
  <1>8. UNCHANGED <<resv, broker, sent, rc>>
    BY <1>1 DEF ExOnly
  <1> QED
    BY Zenon, <1>1, <1>4, <1>5, <1>6, <1>7, <1>8, RetiringKeeps

(* order_send: the one step that adds an intent to those sent. *)
LEMMA OrderSendKeeps ==
    ASSUME RuntimeInvariant, NEW p \in Procs, OrderSend(p)
    PROVE  Kept
  <1>1. /\ ex[p].pc = "sending" /\ broker' = [broker EXCEPT ![Cur(p)].st = "sent"]
        /\ sent' = sent \cup {Cur(p)} /\ Goto(p, "waiting")
        /\ UNCHANGED <<jvars, mutex, resv, rc, crashes>>
    BY DEF OrderSend, At
  <1>2. Cur(p) \in Intents /\ "waiting" \in Labels
    BY <1>1, Busy DEF Free, Labels
  <1>3. Moves(p, "waiting", Cur(p))
    BY Zenon, <1>1, <1>2, GotoMoves DEF RuntimeInvariant
  <1>4. Bound(p)'
    BY <1>2, <1>3 DEF Bound, Moves, Free
  <1>5. [JournalNext]_jvars /\ slease' = slease /\ minted' = minted
    BY Zenon, <1>1, IdleIsJournal
  <1>6. slease[Cur(p)].st = "used" /\ slease[Cur(p)].by = p
    BY <1>1 DEF RuntimeInvariant, Bound, Cur
  <1>7. broker \in [Intents -> BrokerRecord]
    BY DEF RuntimeInvariant, BrokerTyped
  <1>8. /\ broker' \in [Intents -> BrokerRecord]
        /\ \A i \in Intents : broker'[i].vol = broker[i].vol /\ broker'[i].closed = broker[i].closed
        /\ \A i \in Intents \ {Cur(p)} : broker'[i] = broker[i]
    BY Zenon, <1>1, <1>2, <1>7 DEF BrokerRecord
  <1>9. BrokerTyped'
    BY <1>8 DEF RuntimeInvariant, BrokerTyped
  <1>10. resv' \in ResvType /\ sent' \subseteq Intents
    BY Zenon, <1>1, <1>2 DEF RuntimeInvariant, ResvType
  <1>11. ASSUME NEW i \in Intents PROVE Agrees(i)'
    <2>1. Agrees(i)
      BY DEF RuntimeInvariant
    <2> QED
      BY Zenon, <1>1, <1>5, <1>6, <1>8, <2>1 DEF Agrees
  <1>12. ASSUME NEW q \in Procs \ {p}, ex[q].pc \in AtBoundary
         PROVE  slease'[Cur(q)] = slease[Cur(q)] /\ (Cur(q) \in sent' => Cur(q) \in sent)
    <2>1. Cur(q) # Cur(p)
      BY Zenon, <1>6, <1>12, Alone
    <2> QED
      BY Zenon, <1>1, <1>5, <2>1
  <1> QED
    BY Zenon, <1>1, <1>3, <1>4, <1>5, <1>9, <1>10, <1>11, <1>12, ExecutorKeeps

(* What the broker may answer is one of the recorded outcomes. *)
LEMMA ResultsTyped ==
    ASSUME NEW b \in BrokerRecord, NEW r \in ResultsOf(b)
    PROVE  r \in Returns /\ r.t \in ExecutionTargets
  <1>1. b.vol \in 0..Lot /\ 0 \in 0..Lot
    BY JournalAssumption DEF BrokerRecord
  <1>2. \/ r = [t |-> "UNCERTAIN", v |-> 0] \/ r = [t |-> "REJECTED", v |-> 0]
        \/ r = [t |-> "ACKNOWLEDGED", v |-> 0] \/ r = [t |-> "FILLED", v |-> b.vol]
        \/ r = [t |-> "PARTIAL", v |-> b.vol]
    BY DEF ResultsOf
  <1> QED
    BY <1>1, <1>2 DEF Returns, ExecutionTargets

(* order_send returns an answer or raises. *)
LEMMA SendReturnsKeeps ==
    ASSUME RuntimeInvariant, NEW p \in Procs, SendReturns(p)
    PROVE  Kept
  <1>1. ex[p].pc = "waiting" /\ UNCHANGED jvars /\ ExOnly
    BY Zenon DEF SendReturns, At
  <1>2. \/ \E r \in ResultsOf(broker[Cur(p)]) : Answered(p, r)
        \/ Goto(p, "uncertain")
    BY Zenon DEF SendReturns, Answered
  <1>3. Cur(p) \in Intents /\ ex[p].pc \notin Free
    BY Zenon, <1>1, Busy DEF Free
  <1>4. [JournalNext]_jvars /\ UNCHANGED <<slease, resv, broker, sent>> /\ rc' = rc
    BY Zenon, <1>1, IdleIsJournal DEF ExOnly
  <1>5. ASSUME NEW r \in ResultsOf(broker[Cur(p)]), Answered(p, r) PROVE Kept
    <2>1. r \in Returns /\ r.t \in ExecutionTargets
      BY Zenon, <1>3, ResultsTyped DEF RuntimeInvariant, BrokerTyped
    <2>2. Moves(p, "record", Cur(p)) /\ ex'[p].ret = r
      BY Zenon, <1>5, <2>1, AnsweredMoves DEF RuntimeInvariant
    <2>3. Bound(p)'
      BY Zenon, <1>3, <2>1, <2>2 DEF Bound, Moves, Free
    <2> QED
      BY Zenon, <1>4, <2>2, <2>3, StillAgrees, SameLeases, ExecutorKeeps
  <1>6. CASE Goto(p, "uncertain")
    <2>1. Quiet(p)
      BY Zenon, <1>3, <1>4, <1>6, QuietGoto, PlainLabels DEF Still
    <2> QED
      BY <2>1, QuietKeeps
  <1> QED
    BY Zenon, <1>2, <1>5, <1>6

(* A crash at any label: the lease of a submitting process is dead. *)
LEMMA CrashKeeps ==
    ASSUME RuntimeInvariant, NEW p \in Procs, Crash(p)
    PROVE  Kept
  <1>1. ex' = [ex EXCEPT ![p] = Down] /\ UNCHANGED <<resv, broker, sent, rc>>
    BY DEF Crash
  <1>2. CASE UNCHANGED jvars
    <2>1. [JournalNext]_jvars /\ Still
      BY <1>1, <1>2, IdleIsJournal DEF Still
    <2> QED
      BY Zenon, <1>1, <2>1, QuietDown, QuietKeeps
  <1>3. CASE ex[p].pc \in {"submit", "adapter"} /\ LoseLease(Cur(p))
    <2>1. Moves(p, Down.pc, Down.cur)
      BY Zenon, <1>1, PutMoves, DownTyped DEF RuntimeInvariant
    <2>2. Bound(p)'
      BY <2>1, DownTyped DEF Bound, Moves, Free
    <2>3. Cur(p) \in Intents
      BY <1>3, Busy DEF Free
    <2>4. [JournalNext]_jvars /\ minted' = minted /\ slease' = [slease EXCEPT ![Cur(p)].st = "dead"]
      BY Zenon, <1>3, <2>3 DEF LoseLease, JournalNext, SubmissionStep
    <2> QED
      BY Zenon, <1>1, <1>3, <2>1, <2>2, <2>4, RetiringKeeps
  <1> QED
    BY Zenon, <1>2, <1>3 DEF Crash

(* Every step of an executor keeps the invariant. *)
LEMMA ExecutorStepKeeps ==
    ASSUME RuntimeInvariant, NEW p \in Procs, ExecutorStep(p)
    PROVE  Kept
  BY Zenon, StartQuiet, CreateQuiet, PrepareQuiet, SubmitQuiet, QuietKeeps, RecoverMintKeeps,
     RecoverApplyKeeps, DispatchKeeps, FinalGuardKeeps, VerifySendKeeps, ConsumeKeeps,
     SubmitRefusedKeeps, OrderSendKeeps, SendReturnsKeeps, SettleKeeps, ApplyKeeps, CrashKeeps
  DEF ExecutorStep

-----------------------------------------------------------------------------
(* The broker and the reconciliation cycle.                                 *)

BrokerStates == {"none", "sent", "working", "rejected", "open", "closed"}

(* Setting one field of the broker's record keeps the others. *)
LEMMA BrokerFields ==
    ASSUME NEW r \in BrokerRecord
    PROVE  /\ \A x \in BrokerStates : LET s == [r EXCEPT !.st = x] IN
                 s \in BrokerRecord /\ s.vol = r.vol /\ s.closed = r.closed
           /\ \A x \in 0..Lot : LET s == [r EXCEPT !.vol = x] IN
                 s \in BrokerRecord /\ s.vol = x /\ s.closed = r.closed
           /\ \A x \in 0..Lot : LET s == [r EXCEPT !.closed = x] IN
                 s \in BrokerRecord /\ s.vol = r.vol /\ s.closed = x /\ s.st = r.st
  BY DEF BrokerRecord, BrokerStates

(* The broker only acts on what was sent and closes what was filled. *)
LEMMA BrokerStepsTyped ==
    ASSUME NEW r \in BrokerRecord, r.closed <= r.vol, NEW b \in BrokerSteps(r)
    PROVE  b \in BrokerRecord /\ b.closed <= b.vol /\ r.st # "none"
  <1>0. r.vol \in 0..Lot /\ r.closed \in 0..Lot /\ Lot \in Nat
    BY Zenon, JournalAssumption DEF BrokerRecord
  <1>1. CASE r.st = "sent"
    <2>1. PICK x \in BrokerStates : b = [r EXCEPT !.st = x]
      <3>1. b = [r EXCEPT !.st = "working"] \/ b = [r EXCEPT !.st = "rejected"]
        BY <1>1, Zenon DEF BrokerSteps
      <3> QED
        BY <3>1, Zenon DEF BrokerStates
    <2>2. b \in BrokerRecord /\ b.vol = r.vol /\ b.closed = r.closed
      BY <2>1, BrokerFields, Zenon
    <2> QED
      BY <1>1, <2>2
  <1>2. CASE r.st = "working"
    <2>1. \/ \E w \in r.vol + 1 .. Lot : b = [r EXCEPT !.vol = w]
          \/ b = [r EXCEPT !.st = IF r.vol > 0 THEN "open" ELSE "rejected"]
      BY <1>2, Zenon DEF BrokerSteps
    <2>2. ASSUME NEW w \in r.vol + 1 .. Lot, b = [r EXCEPT !.vol = w]
          PROVE  b \in BrokerRecord /\ b.closed <= b.vol
      <3>1. w \in 0..Lot /\ r.closed <= w
        BY <1>0
      <3>2. b \in BrokerRecord /\ b.vol = w /\ b.closed = r.closed
        BY <2>2, <3>1, BrokerFields, Zenon
      <3> QED
        BY Zenon, <3>1, <3>2
    <2>3. CASE b = [r EXCEPT !.st = IF r.vol > 0 THEN "open" ELSE "rejected"]
      <3> DEFINE x == IF r.vol > 0 THEN "open" ELSE "rejected"
      <3>1. x \in BrokerStates
        BY DEF BrokerStates
      <3>2. b = [r EXCEPT !.st = x]
        BY <2>3
      <3> HIDE DEF x
      <3>3. b \in BrokerRecord /\ b.vol = r.vol /\ b.closed = r.closed
        BY <3>1, <3>2, BrokerFields, Zenon
      <3> QED
        BY Zenon, <1>2, <3>3
    <2> QED
      BY Zenon, <1>2, <2>1, <2>2, <2>3
  <1>3. CASE r.st = "open"
    <2>1. PICK w \in r.closed + 1 .. r.vol :
             b = [r EXCEPT !.closed = w, !.st = IF w = r.vol THEN "closed" ELSE @]
      BY <1>3, Zenon DEF BrokerSteps
    <2> DEFINE s == [r EXCEPT !.closed = w]
               x == IF w = r.vol THEN "closed" ELSE s.st
    <2>2. b = [s EXCEPT !.st = x]
      BY Zenon, <2>1
    <2>3. w \in 0..Lot /\ w <= r.vol
      BY <1>0
    <2>4. s \in BrokerRecord /\ s.vol = r.vol /\ s.closed = w /\ s.st = r.st
      BY <2>3, BrokerFields, Zenon
    <2> HIDE DEF s
    <2>5. x \in BrokerStates
      BY <1>3, <2>4 DEF BrokerStates
    <2> HIDE DEF x
    <2>6. b \in BrokerRecord /\ b.vol = s.vol /\ b.closed = s.closed
      BY <2>2, <2>4, <2>5, BrokerFields, Zenon
    <2>7. b.vol = r.vol /\ b.closed = w
      BY <2>4, <2>6
    <2> QED
      BY Zenon, <1>3, <2>3, <2>6, <2>7
  <1>4. r.st \in {"sent", "working", "open"}
    BY Zenon DEF BrokerSteps
  <1> QED
    BY Zenon, <1>1, <1>2, <1>3, <1>4

(* A step of the broker: no intent it did not receive becomes known. *)
LEMMA BrokerStepKeeps ==
    ASSUME RuntimeInvariant, NEW i \in Intents, BrokerStep(i)
    PROVE  Kept
  <1>1. UNCHANGED <<jvars, ex, mutex, resv, sent, rc, crashes>>
    BY DEF BrokerStep
  <1>2. PICK b \in BrokerSteps(broker[i]) : broker' = [broker EXCEPT ![i] = b]
    BY Zenon DEF BrokerStep
  <1>3. broker[i] \in BrokerRecord /\ broker[i].closed <= broker[i].vol
    BY DEF RuntimeInvariant, BrokerTyped
  <1>4. b \in BrokerRecord /\ b.closed <= b.vol /\ broker[i].st # "none"
    BY <1>3, BrokerStepsTyped
  <1>5. BrokerTyped'
    BY Zenon, <1>2, <1>4 DEF RuntimeInvariant, BrokerTyped
  <1>6. \A j \in Intents : broker'[j].st # "none" => broker[j].st # "none"
    BY Zenon, <1>2, <1>4 DEF RuntimeInvariant, BrokerTyped
  <1>7. [JournalNext]_jvars /\ slease' = slease /\ minted' = minted
    BY Zenon, <1>1, IdleIsJournal
  <1>8. SendInv' /\ LeaseBound'
    BY Zenon, <1>7, SendStep, LeaseBoundStep DEF RuntimeInvariant, SendInv
  <1>9. ExTyped' /\ RcTyped' /\ \A p \in Procs : Bound(p)'
    BY Zenon, <1>1, <1>7 DEF RuntimeInvariant, ExTyped, RcTyped, Bound
  <1>10. \A j \in Intents : Agrees(j)'
    BY Zenon, <1>1, <1>6, <1>7 DEF RuntimeInvariant, Agrees
  <1> QED
    BY Zenon, <1>1, <1>5, <1>7, <1>8, <1>9, <1>10 DEF RuntimeInvariant, Kept

(* What a step of the cycle or of the environment has to show. *)
LEMMA CycleKeeps ==
    ASSUME RuntimeInvariant, RcTyped', UNCHANGED <<ex, resv, broker, sent>>,
           [JournalNext]_jvars, slease' = slease, minted' = minted
    PROVE  Kept
  <1>1. SendInv' /\ LeaseBound'
    BY Zenon, SendStep, LeaseBoundStep DEF RuntimeInvariant, SendInv
  <1>2. ExTyped' /\ BrokerTyped' /\ \A p \in Procs : Bound(p)'
    BY Zenon DEF RuntimeInvariant, ExTyped, BrokerTyped, Bound
  <1>3. \A j \in Intents : Agrees(j)'
    BY Zenon DEF RuntimeInvariant, Agrees
  <1> QED
    BY Zenon, <1>1, <1>2, <1>3 DEF RuntimeInvariant, Kept

(* Updating the cycle's record field by field. *)
LEMMA RcFields ==
    ASSUME NEW R, NEW r \in RcSet(R)
    PROVE  /\ \A x \in {"idle", "orders", "positions", "deals", "apply", "stopped"} :
                 [r EXCEPT !.pc = x] \in RcSet(R)
           /\ \A x \in SUBSET Intents : [r EXCEPT !.orders = x] \in RcSet(R)
           /\ \A x \in Volumes : [r EXCEPT !.pos = x] \in RcSet(R) /\ [r EXCEPT !.deals = x] \in RcSet(R)
           /\ \A x \in BOOLEAN : [r EXCEPT !.critical = x] \in RcSet(R)
           /\ \A x : [r EXCEPT !.recs = x] \in RcSet({x})
  BY Zenon DEF RcSet

(* What the reconciler looks like between cycles. *)
LEMMA RcIdleTyped == RcIdle \in RcSet({<<>>}) /\ RecsTyped(<<>>)
  <1>1. NoView \in Volumes
    BY JournalAssumption DEF NoView, Volumes
  <1>2. RecsTyped(<<>>)
    BY DEF RecsTyped
  <1> QED
    BY Zenon, <1>1, <1>2 DEF RcIdle, RcSet

(* A well-formed cycle record with well-formed records is typed. *)
LEMMA RcBecomes ==
    ASSUME NEW R, NEW r \in RcSet({R}), RecsTyped(R), rc' = r
    PROVE  RcTyped'
  <1>1. r.recs = R
    BY DEF RcSet
  <1> QED
    BY <1>1 DEF RcTyped

(* A cycle that stops because of the latch. *)
LEMMA StopLatchedKeeps ==
    ASSUME RuntimeInvariant, StopLatched, RcOnly
    PROVE  Kept
  <1>1. [JournalNext]_jvars /\ slease' = slease /\ minted' = minted
    BY LatchIsJournal, Zenon DEF StopLatched
  <1> DEFINE r == [RcIdle EXCEPT !.pc = "stopped"]
  <1>2. rc' = r
    BY Zenon DEF StopLatched
  <1>3. r \in RcSet({<<>>})
    BY RcIdleTyped, RcFields, Zenon
  <1> HIDE DEF r
  <1>4. RcTyped'
    BY Zenon, <1>2, <1>3, RcIdleTyped, RcBecomes
  <1> QED
    BY <1>1, <1>4, CycleKeeps DEF RcOnly

(* Reading the broker. *)
LEMMA ReadingKeeps ==
    ASSUME RuntimeInvariant, StartCycle \/ ReadOrders \/ ReadPositions
    PROVE  Kept
  <1>1. UNCHANGED jvars /\ RcOnly
    BY Zenon DEF StartCycle, ReadOrders, ReadPositions
  <1>2. [JournalNext]_jvars /\ slease' = slease /\ minted' = minted
    BY Zenon, <1>1, IdleIsJournal
  <1>3. rc \in RcSet({rc.recs}) /\ RecsTyped(rc.recs) /\ broker \in [Intents -> BrokerRecord]
    BY DEF RuntimeInvariant, RcTyped, BrokerTyped
  <1>4. ASSUME StartCycle PROVE RcTyped'
    <2> DEFINE D == [i \in Intents |-> ExitVolume(i)]
               r == [RcIdle EXCEPT !.pc = "orders"]
               s == [r EXCEPT !.deals = D]
    <2>1. rc' = s
      BY <1>4, Zenon DEF StartCycle
    <2>2. D \in Volumes
      BY <1>3 DEF Volumes, ExitVolume, BrokerRecord
    <2> HIDE DEF D
    <2>3. r \in RcSet({<<>>})
      BY RcIdleTyped, RcFields, Zenon
    <2> HIDE DEF r
    <2>4. s \in RcSet({<<>>})
      BY <2>2, <2>3, RcFields, Zenon
    <2> HIDE DEF s
    <2> QED
      BY Zenon, <2>1, <2>4, RcIdleTyped, RcBecomes
  <1>5. ASSUME ReadOrders PROVE RcTyped'
    <2> DEFINE r == [rc EXCEPT !.pc = "positions"]
               s == [r EXCEPT !.orders = OpenOrders]
    <2>1. rc' = s
      BY <1>5, Zenon DEF ReadOrders
    <2>2. OpenOrders \in SUBSET Intents
      BY DEF OpenOrders
    <2>3. r \in RcSet({rc.recs})
      BY <1>3, RcFields, Zenon
    <2> HIDE DEF r
    <2>4. s \in RcSet({rc.recs})
      BY <2>2, <2>3, RcFields, Zenon
    <2> HIDE DEF s
    <2> QED
      BY Zenon, <1>3, <2>1, <2>4, RcBecomes
  <1>6. ASSUME ReadPositions PROVE RcTyped'
    <2> DEFINE V == [i \in Intents |-> OpenVolume(i)]
               r == [rc EXCEPT !.pc = "deals"]
               s == [r EXCEPT !.pos = V]
    <2>1. rc' = s
      BY <1>6, Zenon DEF ReadPositions
    <2>2. V \in Volumes
      <3>1. ASSUME NEW i \in Intents PROVE OpenVolume(i) \in 0..Lot
        <4>1. /\ broker[i].vol \in 0..Lot /\ broker[i].closed \in 0..Lot
              /\ broker[i].closed <= broker[i].vol
          BY <1>3 DEF RuntimeInvariant, BrokerTyped, BrokerRecord
        <4> QED
          BY <4>1, JournalAssumption DEF OpenVolume
      <3> QED
        BY Zenon, <3>1 DEF Volumes
    <2> HIDE DEF V
    <2>3. r \in RcSet({rc.recs})
      BY <1>3, RcFields, Zenon
    <2> HIDE DEF r
    <2>4. s \in RcSet({rc.recs})
      BY <2>2, <2>3, RcFields, Zenon
    <2> HIDE DEF s
    <2> QED
      BY <1>3, <2>1, <2>4, RcBecomes
  <1>7. RcTyped'
    BY Zenon, <1>4, <1>5, <1>6
  <1> QED
    BY Zenon, <1>1, <1>2, <1>7, CycleKeeps DEF RcOnly

(* A cycle reads the deals and matches them with the active intents. *)
LEMMA ReadActiveKeeps ==
    ASSUME RuntimeInvariant, ReadActive
    PROVE  Kept
  <1>1. RcOnly /\ (LatchKillSwitch \/ UNCHANGED jvars)
    BY Zenon DEF ReadActive
  <1>2. [JournalNext]_jvars /\ slease' = slease /\ minted' = minted
    BY <1>1, LatchIsJournal, IdleIsJournal
  <1> DEFINE Recs(U) == [i \in ActiveIntents |->
                [s |-> state[i], f |-> filled[i], order |-> i \in rc.orders, pos |-> rc.pos[i],
                 exits |-> IF i \in U THEN 0 ELSE DealsInHistory(i)]]
             r == [RcIdle EXCEPT !.pc = "apply"]
             s == [r EXCEPT !.critical = Orphan]
  <1>3. PICK U \in SUBSET (ActiveIntents \ posTicket) : rc' = [s EXCEPT !.recs = Recs(U)]
    BY Zenon DEF ReadActive
  <1>4. rc.pos \in Volumes /\ rc.deals \in Volumes
    BY Zenon DEF RuntimeInvariant, RcTyped, RcSet
  <1>5. RecsTyped(Recs(U))
    <2>1. 0 \in 0..Lot
      BY JournalAssumption
    <2>2. ASSUME NEW i \in ActiveIntents
          PROVE  Recs(U)[i].pos \in 0..Lot /\ Recs(U)[i].exits \in 0..Lot
      <3>1. rc.pos[i] \in 0..Lot /\ DealsInHistory(i) \in 0..Lot
        BY Zenon, <1>4 DEF Volumes, DealsInHistory, ActiveIntents
      <3>2. Recs(U)[i].pos = rc.pos[i]
        BY Zenon
      <3>3. Recs(U)[i].exits = IF i \in U THEN 0 ELSE DealsInHistory(i)
        BY Zenon
      <3> QED
        BY Zenon, <2>1, <3>1, <3>2, <3>3
    <2>3. DOMAIN Recs(U) = ActiveIntents
      BY Zenon
    <2> QED
      BY Zenon, <2>2, <2>3 DEF RecsTyped
  <1>6. r \in RcSet({<<>>})
    BY RcIdleTyped, RcFields, Zenon
  <1>7. Orphan \in BOOLEAN
    BY DEF Orphan
  <1> HIDE DEF r, Recs
  <1>8. s \in RcSet({<<>>})
    BY <1>6, <1>7, RcFields, Zenon
  <1> HIDE DEF s
  <1> DEFINE t == [s EXCEPT !.recs = Recs(U)]
  <1>9. t \in RcSet({Recs(U)})
    BY <1>8, RcFields, Zenon
  <1>10. rc' = t
    BY <1>3
  <1> HIDE DEF t
  <1>11. RcTyped'
    BY <1>5, <1>9, <1>10, RcBecomes
  <1> QED
    BY Zenon, <1>1, <1>2, <1>11, CycleKeeps DEF RcOnly

(* Evidence never claims more than the requested volume. *)
LEMMA EvidenceTyped ==
    ASSUME NEW r, r.pos \in 0..Lot, r.exits \in 0..Lot, NEW e \in EvidenceFor(r)
    PROVE  e.v \in 0..Lot
  <1>0. 0 \in 0..Lot
    BY JournalAssumption
  <1>1. ASSUME NEW a, NEW t, NEW v, e = Evidence(a, t, v) PROVE e.v = v
    BY <1>1 DEF Evidence
  <1>2. Mismatch = Evidence("latch", "none", 0) /\ Leave = Evidence("leave", "none", 0)
    BY DEF Mismatch, Leave
  <1>3. \E a, t : \E v \in {0, r.pos, r.exits} : e = Evidence(a, t, v)
    BY Zenon, <1>2 DEF EvidenceFor, PositionEvidence, ExitEvidence, AbsenceEvidence
  <1> QED
    BY <1>0, <1>1, <1>3

(* Applying an outcome is a journal step that moves no lease. *)
LEMMA ReconcilingIsJournal ==
    ASSUME RuntimeInvariant, NEW i \in Intents, NEW s, NEW t, NEW v \in 0..Lot,
           ApplyReconciliation(i, s, t, v)
    PROVE  [JournalNext]_jvars /\ slease' = slease /\ minted' = minted
  <1>1. s \in ExecutionStates \cap {state[i]} /\ t \in ReconciliationTargets
    BY DEF ApplyReconciliation, MayReconcile
  <1>2. OutcomeStep(i)
    BY <1>1 DEF OutcomeStep
  <1> QED
    BY Zenon, <1>2 DEF ApplyReconciliation, JournalNext

(* The records that remain once one was applied. *)
LEMMA HandledTyped ==
    ASSUME RuntimeInvariant, NEW i
    PROVE  RecsTyped(Handled(i)) /\ [rc EXCEPT !.recs = Handled(i)] \in RcSet({Handled(i)})
  <1>1. rc \in RcSet({rc.recs}) /\ RecsTyped(rc.recs)
    BY Zenon DEF RuntimeInvariant, RcTyped
  <1>2. RecsTyped(Handled(i))
    BY <1>1 DEF RecsTyped, Handled
  <1> QED
    BY <1>1, <1>2, RcFields, Zenon

(* A cycle applies what it read of one intent. *)
LEMMA ApplyRecordKeeps ==
    ASSUME RuntimeInvariant, NEW i \in Intents, ApplyRecord(i)
    PROVE  Kept
  <1> DEFINE Plainly == rc' = [rc EXCEPT !.recs = Handled(i)]
             Gravely == rc' = [rc EXCEPT !.recs = Handled(i), !.critical = TRUE]
  <1>1. RcOnly /\ i \in DOMAIN rc.recs
    BY Zenon DEF ApplyRecord
  <1>2. PICK e \in EvidenceFor(rc.recs[i]) :
          \/ UNCHANGED jvars /\ Plainly
          \/ LatchKillSwitch /\ (Plainly \/ Gravely)
          \/ ApplyReconciliation(i, rc.recs[i].s, e.target, e.v) /\ Plainly
          \/ StopLatched
    BY Zenon DEF ApplyRecord
  <1>3. e.v \in 0..Lot
    <2>1. rc.recs[i].pos \in 0..Lot /\ rc.recs[i].exits \in 0..Lot
      BY Zenon, <1>1 DEF RuntimeInvariant, RcTyped, RecsTyped
    <2> QED
      BY Zenon, <2>1, EvidenceTyped
  <1>4. ASSUME Plainly PROVE RcTyped'
    <2> DEFINE t == [rc EXCEPT !.recs = Handled(i)]
    <2>1. t \in RcSet({Handled(i)}) /\ RecsTyped(Handled(i))
      BY HandledTyped
    <2>2. rc' = t
      BY <1>4
    <2> HIDE DEF t, Plainly, Gravely
    <2> QED
      BY <2>1, <2>2, RcBecomes
  <1>5. ASSUME Gravely PROVE RcTyped'
    <2> DEFINE t == [rc EXCEPT !.recs = Handled(i)]
               u == [t EXCEPT !.critical = TRUE]
    <2>1. t \in RcSet({Handled(i)}) /\ RecsTyped(Handled(i))
      BY HandledTyped
    <2>2. rc' = u
      BY <1>5
    <2> HIDE DEF t
    <2>3. u \in RcSet({Handled(i)})
      BY <2>1, RcFields, Zenon
    <2> HIDE DEF u, Plainly, Gravely
    <2> QED
      BY Zenon, <2>1, <2>2, <2>3, RcBecomes
  <1> HIDE DEF Plainly, Gravely
  <1>6. CASE StopLatched
    BY Zenon, <1>1, <1>6, StopLatchedKeeps
  <1>7. CASE ~StopLatched
    <2>1. RcTyped'
      BY Zenon, <1>2, <1>4, <1>5, <1>7
    <2>2. [JournalNext]_jvars /\ slease' = slease /\ minted' = minted
      BY Zenon, <1>2, <1>3, <1>7, IdleIsJournal, LatchIsJournal, ReconcilingIsJournal
    <2> QED
      BY Zenon, <1>1, <2>1, <2>2, CycleKeeps DEF RcOnly
  <1> QED
    BY <1>6, <1>7

(* A cycle ends. *)
LEMMA EndCycleKeeps ==
    ASSUME RuntimeInvariant, EndCycle
    PROVE  Kept
  <1>1. RcOnly /\ (LatchKillSwitch \/ UNCHANGED jvars)
    BY Zenon DEF EndCycle
  <1>2. [JournalNext]_jvars /\ slease' = slease /\ minted' = minted
    BY <1>1, LatchIsJournal, IdleIsJournal
  <1> DEFINE x == IF rc.critical \/ kill.latched THEN "stopped" ELSE "idle"
             r == [RcIdle EXCEPT !.pc = x]
  <1>3. rc' = r
    BY Zenon DEF EndCycle
  <1>4. x \in {"idle", "orders", "positions", "deals", "apply", "stopped"}
    OBVIOUS
  <1> HIDE DEF x
  <1>5. r \in RcSet({<<>>})
    BY <1>4, RcIdleTyped, RcFields, Zenon
  <1> HIDE DEF r
  <1>6. RcTyped'
    BY Zenon, <1>3, <1>5, RcIdleTyped, RcBecomes
  <1> QED
    BY Zenon, <1>1, <1>2, <1>6, CycleKeeps DEF RcOnly

(* A cycle dies with its process, and the reconciler is started again. *)
LEMMA RestartKeeps ==
    ASSUME RuntimeInvariant, CycleLost \/ Relaunch
    PROVE  Kept
  <1>1. UNCHANGED jvars /\ UNCHANGED <<ex, resv, broker, sent>> /\ rc' = RcIdle
    BY DEF CycleLost, Relaunch, RcOnly
  <1>2. RcTyped'
    BY Zenon, <1>1, RcIdleTyped, RcBecomes
  <1> QED
    BY Zenon, <1>1, <1>2, IdleIsJournal, CycleKeeps

(* Time, lease expiry, the operator's latch and its reset. *)
LEMMA EnvironmentKeeps ==
    ASSUME RuntimeInvariant, Environment
    PROVE  Kept
  <1>1. UNCHANGED <<ex, resv, broker, sent>> /\ rc' = rc
    BY DEF Environment, rvars
  <1>2. RcTyped'
    BY <1>1 DEF RuntimeInvariant, RcTyped
  <1>3. JournalNext
    BY DEF Environment, JournalNext, ControlStep
  <1>4. slease' = slease /\ minted' = minted
    BY DEF Environment, LeaseExpires, LatchKillSwitch, IssueResetAuthorization, ResetKillSwitch,
           NextDay, sendVars
  <1> QED
    BY Zenon, <1>1, <1>2, <1>3, <1>4, CycleKeeps

-----------------------------------------------------------------------------
(* The invariant holds when the journal and the ledger are empty. *)
LEMMA RuntimeInvariantInit == RuntimeInit => RuntimeInvariant
  <1> SUFFICES ASSUME RuntimeInit PROVE RuntimeInvariant
    OBVIOUS
  <1>1. SendInv /\ LeaseBound
    BY Zenon, SendInit DEF RuntimeInit, JournalInit, LeaseBound
  <1>2. ExTyped /\ \A p \in Procs : Bound(p)
    <2>1. ex = [p \in Procs |-> Down]
      BY Zenon DEF RuntimeInit
    <2> QED
      BY Zenon, <2>1, DownTyped DEF ExTyped, Bound, Free
  <1>3. BrokerTyped
    <2>1. broker = [i \in Intents |-> [st |-> "none", vol |-> 0, closed |-> 0]]
      BY Zenon DEF RuntimeInit
    <2> QED
      BY <2>1, JournalAssumption DEF BrokerTyped, BrokerRecord
  <1>4. RcTyped
    <2>1. rc = RcIdle
      BY Zenon DEF RuntimeInit
    <2>2. RcIdle.recs = <<>>
      BY Zenon DEF RcIdle
    <2> QED
      BY Zenon, <2>1, <2>2, RcIdleTyped DEF RcTyped
  <1>5. resv \in [Intents -> {"none", "ACTIVE"} \cup SettlementStates] /\ sent \subseteq Intents
    BY Zenon DEF RuntimeInit
  <1>6. ASSUME NEW i \in Intents PROVE Agrees(i)
    BY DEF RuntimeInit, Agrees
  <1> QED
    BY Zenon, <1>1, <1>2, <1>3, <1>4, <1>5, <1>6 DEF RuntimeInvariant

(* Every step of the runtime keeps the invariant and is a journal step. *)
LEMMA RuntimeStep ==
    ASSUME RuntimeInvariant, [RuntimeNext]_allvars
    PROVE  RuntimeInvariant' /\ [JournalNext]_jvars
  <1>1. CASE UNCHANGED allvars
    <2>1. UNCHANGED jvars /\ UNCHANGED <<ex, resv, broker, sent>> /\ rc' = rc
      BY Zenon, <1>1 DEF allvars, rvars
    <2>2. RcTyped'
      BY <2>1 DEF RuntimeInvariant, RcTyped
    <2> QED
      BY Zenon, <2>1, <2>2, IdleIsJournal, CycleKeeps DEF Kept
  <1>2. CycleFails => Kept
    BY StopLatchedKeeps DEF CycleFails
  <1>3. CycleStep => Kept
    BY Zenon, ReadingKeeps, ReadActiveKeeps, ApplyRecordKeeps, EndCycleKeeps DEF CycleStep
  <1>4. RuntimeNext => Kept
    BY Zenon, <1>2, <1>3, ExecutorStepKeeps, BrokerStepKeeps, RestartKeeps, EnvironmentKeeps DEF RuntimeNext
  <1> QED
    BY Zenon, <1>1, <1>4 DEF Kept

(* The invariant holds in every reachable state. *)
LEMMA RuntimeInvariantAlways == RuntimeSpec => []RuntimeInvariant
  BY RuntimeInvariantInit, RuntimeStep, PTL DEF RuntimeSpec

(* Every step of executors, broker, reconciliation and operators is one     *)
(* operation of the journal or leaves it unchanged, for any number of       *)
(* processes, intents, crashes and restarts.                                *)
THEOREM RuntimeImplementsJournal == RuntimeSpec => RefinesJournal
  <1>1. RuntimeInit => JournalInit
    BY DEF RuntimeInit
  <1>2. RuntimeInvariant /\ [RuntimeNext]_allvars => [JournalNext]_jvars
    BY RuntimeStep
  <1> QED
    BY <1>1, <1>2, RuntimeInvariantAlways, PTL DEF RuntimeSpec, RefinesJournal, JournalSpec

(* order_send is called at most once for an intent, whatever crashes, is    *)
(* retried or is taken over, although processes need not see each other's   *)
(* account fence: the lease of an intent is handed out once and names its   *)
(* holder, and it is consumed before the call.                              *)
THEOREM IntentsAreSentOnce == RuntimeSpec => []OneSendPerIntent
  <1>1. ASSUME RuntimeInvariant PROVE OneSendPerIntent
    <2>1. ASSUME NEW p \in Procs, At(p, "sending")
          PROVE  /\ Cur(p) \notin sent
                 /\ \A q \in Procs \ {p} : ~(At(q, "sending") /\ Cur(q) = Cur(p))
      <3>1. slease[Cur(p)].by = p /\ Cur(p) \notin sent
        BY Zenon, <1>1, <2>1 DEF RuntimeInvariant, Bound, At, Cur
      <3>2. ASSUME NEW q \in Procs \ {p}, At(q, "sending") PROVE Cur(q) # Cur(p)
        BY Zenon, <1>1, <3>1, <3>2, Alone DEF At, AtBoundary
      <3> QED
        BY Zenon, <3>1, <3>2
    <2> QED
      BY Zenon, <2>1 DEF OneSendPerIntent
  <1> QED
    BY <1>1, RuntimeInvariantAlways, PTL

(* A settled dispatch reservation tells the truth, although its proof is    *)
(* minted in the journal and applied later to the session store: whatever   *)
(* it says, the journal minted for that intent, and what the journal says   *)
(* of the send boundary stays true.                                         *)
THEOREM ReservationsTellTheTruth == RuntimeSpec => []ReservationIsTrue
  <1>1. ASSUME RuntimeInvariant, NEW i \in Intents
        PROVE  /\ resv[i] = "ABORTED_BEFORE_SEND" => i \notin sent /\ ~Exposed(i)
               /\ resv[i] \in {"COMPLETED", "RECONCILED"} =>
                     "FINAL_SUBMISSION_GUARD" \in receipts[i] /\ state[i] # "SUBMITTING"
    <2>1. Agrees(i) /\ SendBoundary(i)
      BY Zenon, <1>1 DEF RuntimeInvariant, SendInv
    <2>2. ASSUME resv[i] = "ABORTED_BEFORE_SEND" PROVE i \notin sent /\ ~Exposed(i)
      <3>1. slease[i].st # "used"
        BY Zenon, <2>1, <2>2 DEF Agrees, SendBoundary, Guarded, Unconsumed
      <3>2. i \notin sent /\ broker[i].st = "none"
        BY Zenon, <2>1, <3>1 DEF Agrees
      <3>3. ASSUME NEW p \in Procs, At(p, "sending") PROVE Cur(p) # i
        BY Zenon, <1>1, <3>1, <3>3 DEF RuntimeInvariant, Bound, At, Cur
      <3> QED
        BY Zenon, <3>2, <3>3 DEF Exposed, LiveAtBroker
    <2>3. ASSUME resv[i] \in {"COMPLETED", "RECONCILED"}
          PROVE  "FINAL_SUBMISSION_GUARD" \in receipts[i] /\ state[i] # "SUBMITTING"
      BY Zenon, <2>1, <2>3 DEF Agrees, SendBoundary, Guarded
    <2> QED
      BY Zenon, <2>2, <2>3
  <1>2. RuntimeInvariant => ReservationIsTrue
    BY <1>1 DEF ReservationIsTrue
  <1> QED
    BY <1>2, RuntimeInvariantAlways, PTL

(* What a consumed lease says of the state. *)
LEMMA UsedStates ==
    ASSUME SendInv, NEW i \in Intents, slease[i].st = "used"
    PROVE  state[i] \in GlobalExposureStates \cup {"REJECTED", "CLOSED"}
  BY Zenon DEF SendInv, SendBoundary

-----------------------------------------------------------------------------
(* What reaches the broker is within the journal's limits.                  *)

(* The orders that were sent are for different decisions, each under a      *)
(* dated reservation, and no UTC day has more than MAX_DAILY_SUBMISSIONS:   *)
(* idempotency and limit hold of order_send itself, not only of the rows.   *)
SentOrdersAreLimited ==
    /\ \A i, j \in sent : DecisionOf[i] = DecisionOf[j] => i = j
    /\ \A i \in sent : reservedOn[i] \in 1..MaxDay
    /\ \A d \in 1..MaxDay : Cardinality({i \in sent : reservedOn[i] = d}) <= MaxDaily

(* Every order_send is backed by a decision of its own and by a reservation *)
(* that counts against its day, whatever crashes, restarts or races.        *)
THEOREM OrdersStayWithinLimits == RuntimeSpec => []SentOrdersAreLimited
  <1>1. ASSUME RuntimeInvariant, DailyLimit, DecisionBoundOnce, RowsSupported
        PROVE  SentOrdersAreLimited
    <2>1. ASSUME NEW i \in sent
          PROVE  i \in Intents /\ slease[i].st = "used" /\ state[i] # "ABSENT" /\ reservedOn[i] \in 1..MaxDay
      <3>1. i \in Intents /\ slease[i].st = "used"
        BY Zenon, <1>1, <2>1 DEF RuntimeInvariant, Agrees
      <3>2. state[i] \in GlobalExposureStates \cup {"REJECTED", "CLOSED"}
        BY Zenon, <1>1, <3>1, UsedStates DEF RuntimeInvariant
      <3>3. state[i] # "ABSENT"
        BY <3>2 DEF GlobalExposureStates
      <3>4. slease[i].st # "none"
        BY <3>1
      <3> QED
        BY Zenon, <1>1, <3>1, <3>3, <3>4 DEF RowsSupported, Supported
    <2>2. \A i, j \in sent : DecisionOf[i] = DecisionOf[j] => i = j
      BY Zenon, <1>1, <2>1 DEF DecisionBoundOnce
    <2>3. ASSUME NEW d \in 1..MaxDay PROVE Cardinality({i \in sent : reservedOn[i] = d}) <= MaxDaily
      <3> DEFINE All == {i \in Intents : reservedOn[i] = d}
                 Out == {i \in sent : reservedOn[i] = d}
      <3>1. Out \subseteq All
        BY Zenon, <2>1
      <3>2. IsFiniteSet(All)
        BY JournalAssumption, FS_Subset
      <3>3. Cardinality(All) <= MaxDaily
        BY Zenon, <1>1 DEF DailyLimit, SubmittedOn
      <3> HIDE DEF All, Out
      <3>4. IsFiniteSet(Out) /\ Cardinality(Out) <= Cardinality(All)
        BY <3>1, <3>2, FS_Subset
      <3>5. Cardinality(Out) \in Nat /\ Cardinality(All) \in Nat
        BY <3>2, <3>4, FS_CardinalityType
      <3>6. Cardinality(Out) <= MaxDaily
        BY <3>3, <3>4, <3>5, JournalAssumption
      <3> QED
        BY <3>6 DEF Out
    <2> QED
      BY Zenon, <2>1, <2>2, <2>3 DEF SentOrdersAreLimited
  <1>2. RuntimeSpec => JournalSpec
    BY RuntimeImplementsJournal DEF RefinesJournal
  <1> QED
    BY <1>1, <1>2, RuntimeInvariantAlways, DailySubmissions, DecisionsBoundOnce, SupportedAlways, PTL

-----------------------------------------------------------------------------
(* Which reservations start-up recovery cannot settle.                      *)

NoDispatch == \A q \in Procs : ex'[q].pc = "dispatch" => ex'[q] = ex[q]

(* One process moves, and not to the dispatch. *)
LEMMA MovesNoDispatch ==
    ASSUME NEW p \in Procs, NEW l, NEW c, Moves(p, l, c), l # "dispatch"
    PROVE  NoDispatch
  BY Zenon DEF Moves, NoDispatch

(* The ways a step of execute_once ends. *)
LEMMA GoesNoDispatch ==
    ASSUME RuntimeInvariant, NEW p \in Procs,
           \/ \E l \in Labels \ {"dispatch"} : Goto(p, l)
           \/ \E l \in Labels \ {"dispatch"}, x \in ExecutionStates : Sees(p, l, x)
           \/ Return(p)
           \/ ex' = [ex EXCEPT ![p] = Down]
    PROVE  NoDispatch
  <1>0. ExTyped
    BY Zenon DEF RuntimeInvariant
  <1>1. ASSUME NEW l \in Labels \ {"dispatch"}, Goto(p, l) PROVE NoDispatch
    BY <1>0, <1>1, GotoMoves, MovesNoDispatch
  <1>2. ASSUME NEW l \in Labels \ {"dispatch"}, NEW x \in ExecutionStates, Sees(p, l, x) PROVE NoDispatch
    BY <1>0, <1>2, SeesMoves, MovesNoDispatch
  <1>3. CASE Return(p)
    BY <1>0, <1>3, ReturnMoves, MovesNoDispatch
  <1>4. CASE ex' = [ex EXCEPT ![p] = Down]
    <2>1. Moves(p, Down.pc, Down.cur)
      BY Zenon, <1>0, <1>4, DownTyped, PutMoves
    <2>2. Down.pc # "dispatch"
      BY DownTyped
    <2> QED
      BY Zenon, <2>1, <2>2, MovesNoDispatch
  <1> QED
    BY Zenon, <1>1, <1>2, <1>3, <1>4

(* Start-up and recovery never end at the dispatch. *)
LEMMA StartNoDispatch ==
    ASSUME RuntimeInvariant, NEW p \in Procs,
           \/ Boot(p) \/ RecoverMint(p) \/ RecoverApply(p) \/ Recovered(p) \/ Claim(p)
           \/ \E i \in Intents : Begin(p, i)
    PROVE  NoDispatch
  <1>0. ExTyped
    BY Zenon DEF RuntimeInvariant
  <1>1. CASE Boot(p)
    BY <1>0, <1>1, BootMoves, MovesNoDispatch
  <1>2. CASE RecoverMint(p)
    <2>1. PICK i \in ex[p].todo :
            \/ CanSettle(i) /\ DemoAutoDispatchSettlement(i) /\ Holding(p, "recover_apply", i, Settlement(i))
            \/ ex' = [ex EXCEPT ![p] = Down]
      BY Zenon, <1>2 DEF RecoverMint, Holding
    <2>2. i \in Intents
      BY Zenon, <1>0 DEF ExTyped, ExRecord
    <2>3. CASE DemoAutoDispatchSettlement(i) /\ Holding(p, "recover_apply", i, Settlement(i))
      <3>1. Settlement(i) \in SettlementStates
        BY Zenon, <2>2, <2>3, MintingIsJournal
      <3>2. "recover_apply" \in Labels
        BY Zenon DEF Labels
      <3>3. Moves(p, "recover_apply", i)
        BY Zenon, <1>0, <2>2, <2>3, <3>1, <3>2, HoldingMoves
      <3> QED
        BY <3>3, MovesNoDispatch
    <2> QED
      BY Zenon, <2>1, <2>3, GoesNoDispatch
  <1>3. CASE RecoverApply(p)
    <2>1. Applied(p) \/ ex' = [ex EXCEPT ![p] = Down]
      BY Zenon, <1>3 DEF RecoverApply, Applied
    <2>2. CASE Applied(p)
      BY Zenon, <1>0, <2>2, AppliedMoves, MovesNoDispatch
    <2> QED
      BY Zenon, <2>1, <2>2, GoesNoDispatch
  <1>4. CASE Recovered(p)
    <2>1. 0 \in 0..MaxToken
      BY JournalAssumption
    <2>2. Moves(p, Idle(0).pc, Idle(0).cur) /\ Idle(0).pc = "idle"
      BY Zenon, <1>0, <1>4, <2>1, IdleTyped, PutMoves DEF Recovered
    <2> QED
      BY <2>2, MovesNoDispatch
  <1>5. CASE Claim(p)
    <2>1. ex[p].pc = "idle" /\ ex' = [ex EXCEPT ![p].tok = lease.token + 1]
      BY Zenon, <1>5 DEF Claim, At
    <2> QED
      BY <1>0, <2>1 DEF ExTyped, ExRecord, NoDispatch
  <1>6. ASSUME NEW i \in Intents, Begin(p, i) PROVE NoDispatch
    BY <1>0, <1>6, BeginMoves, MovesNoDispatch
  <1> QED
    BY Zenon, <1>1, <1>2, <1>3, <1>4, <1>5, <1>6

(* Every step of execute_once but the authorization goes elsewhere. *)
LEMMA CallNoDispatch ==
    ASSUME RuntimeInvariant, NEW p \in Procs, ExecutorStep(p), ~Authorize(p)
    PROVE  NoDispatch
  <1>0. ExTyped
    BY Zenon DEF RuntimeInvariant
  <1>1. \A l \in {"reject", "loss_stop", "risk", "approve", "preflight", "pass", "guard", "authorize", "reserve",
                  "mint", "settle", "final_guard", "not_sent", "uncertain", "submit", "adapter", "sending",
                  "waiting", "slippage", "safety"} : l \in Labels \ {"dispatch"}
    BY DEF Labels
  <1>2. {"CREATED", "RISK_APPROVED", "PREFLIGHT_PASSED"} \subseteq ExecutionStates
    BY DEF ExecutionStates
  <1>3. CASE Create(p) \/ Approve(p) \/ Pass(p)
    <2>1. \/ Sees(p, "safety", "CREATED") \/ Sees(p, "preflight", "RISK_APPROVED")
          \/ Sees(p, "guard", "PREFLIGHT_PASSED") \/ Return(p)
      BY Zenon, <1>3 DEF Create, Approve, Pass, Advance, Sees
    <2> QED
      BY Zenon, <1>1, <1>2, <2>1, GoesNoDispatch
  <1>4. CASE \/ Safety(p) \/ Reject(p) \/ CheckFails(p) \/ Risk(p) \/ LossStop(p) \/ Preflight(p)
             \/ SubmissionGuard(p) \/ Dispatch(p)
    <2>1. \/ Goto(p, "risk") \/ Goto(p, "reject") \/ Goto(p, "approve") \/ Goto(p, "loss_stop")
          \/ Goto(p, "pass") \/ Goto(p, "authorize") \/ Goto(p, "reserve") \/ Return(p)
      BY Zenon, <1>4 DEF Safety, Reject, CheckFails, Risk, LossStop, Preflight, SubmissionGuard, Dispatch
    <2> QED
      BY Zenon, <1>1, <2>1, GoesNoDispatch
  <1>5. CASE \/ Reserve(p) \/ Mint(p) \/ FinalGuard(p) \/ VerifySend(p) \/ Consume(p) \/ SubmitRefused(p)
             \/ OrderSend(p)
    <2>1. \/ Goto(p, "mint") \/ Goto(p, "settle") \/ Goto(p, "reject") \/ Goto(p, "final_guard")
          \/ Goto(p, "not_sent") \/ Goto(p, "uncertain") \/ Goto(p, "submit") \/ Goto(p, "adapter")
          \/ Goto(p, "sending") \/ Goto(p, "waiting") \/ Return(p)
      BY Zenon, <1>5 DEF Reserve, Mint, FinalGuard, VerifySend, Consume, SubmitRefused, OrderSend,
         HeldBeforeSend
    <2> QED
      BY Zenon, <1>1, <2>1, GoesNoDispatch
  <1>6. CASE Record(p) \/ Slippage(p) \/ Uncertain(p) \/ NotSent(p) \/ Apply(p) \/ Crash(p)
    <2>1. \/ Goto(p, "settle") \/ Goto(p, "slippage") \/ Return(p) \/ ex' = [ex EXCEPT ![p] = Down]
      BY Zenon, <1>6 DEF Record, Slippage, Uncertain, NotSent, Apply, AfterSettling, Crash
    <2> QED
      BY Zenon, <1>1, <2>1, GoesNoDispatch
  <1>7. CASE SendReturns(p)
    <2>1. (\E r \in ResultsOf(broker[Cur(p)]) : Answered(p, r)) \/ Goto(p, "uncertain")
      BY Zenon, <1>7 DEF SendReturns, Answered
    <2>2. Cur(p) \in Intents
      <3>1. ex[p].pc \notin Free
        BY <1>7 DEF SendReturns, At, Free
      <3> QED
        BY <3>1, Busy
    <2>3. ASSUME NEW r \in ResultsOf(broker[Cur(p)]), Answered(p, r) PROVE NoDispatch
      <3>1. r \in Returns
        BY Zenon, <2>2, ResultsTyped DEF RuntimeInvariant, BrokerTyped
      <3>2. Moves(p, "record", Cur(p))
        BY Zenon, <1>0, <2>3, <3>1, AnsweredMoves
      <3> QED
        BY <3>2, MovesNoDispatch
    <2> QED
      BY Zenon, <1>1, <2>1, <2>3, GoesNoDispatch
  <1>8. CASE Settle(p)
    <2>1. \/ DemoAutoDispatchSettlement(Cur(p)) /\ Proven(p, "apply", Settlement(Cur(p)))
          \/ Goto(p, "slippage") \/ Return(p)
      BY Zenon, <1>8 DEF Settle, Proven, AfterSettling
    <2>2. Cur(p) \in Intents
      <3>1. ex[p].pc \notin Free
        BY <1>8 DEF Settle, At, Free
      <3> QED
        BY <3>1, Busy
    <2>3. CASE DemoAutoDispatchSettlement(Cur(p)) /\ Proven(p, "apply", Settlement(Cur(p)))
      <3>1. Settlement(Cur(p)) \in SettlementStates
        BY Zenon, <2>2, <2>3, MintingIsJournal
      <3>2. "apply" \in Labels
        BY Zenon DEF Labels
      <3>3. Moves(p, "apply", Cur(p))
        BY Zenon, <1>0, <2>3, <3>1, <3>2, ProvenMoves
      <3> QED
        BY <3>3, MovesNoDispatch
    <2> QED
      BY Zenon, <1>1, <2>1, <2>3, GoesNoDispatch
  <1> QED
    BY Zenon, <1>3, <1>4, <1>5, <1>6, <1>7, <1>8, StartNoDispatch DEF ExecutorStep

(* Only the dispatch makes a reservation. *)
LEMMA ReservedAtDispatch ==
    ASSUME RuntimeInvariant, NEW p \in Procs, ExecutorStep(p), NEW i \in Intents, resv'[i] # "none"
    PROVE  resv[i] # "none" \/ (ex[p].pc = "dispatch" /\ ex[p].cur = i)
  <1>1. CASE Dispatch(p)
    <2>1. ex[p].pc = "dispatch" /\ resv' = [resv EXCEPT ![ex[p].cur] = "ACTIVE"]
      BY Zenon, <1>1 DEF Dispatch, At, Cur
    <2> QED
      BY <2>1 DEF RuntimeInvariant
  <1>2. CASE RecoverApply(p) \/ Apply(p)
    <2>1. \/ CanApply(Cur(p)) /\ resv' = [resv EXCEPT ![Cur(p)] = ex[p].proof]
          \/ resv' = resv
      BY Zenon, <1>2 DEF RecoverApply, Apply
    <2>2. CanApply(Cur(p)) => resv[Cur(p)] # "none"
      BY DEF CanApply, Unresolved
    <2>3. resv \in [Intents -> {"none", "ACTIVE"} \cup SettlementStates]
      BY Zenon DEF RuntimeInvariant
    <2> HIDE DEF RuntimeInvariant
    <2> QED
      BY <2>1, <2>2, <2>3
  <1>3. CASE ~Dispatch(p) /\ ~RecoverApply(p) /\ ~Apply(p)
    <2>1. resv' = resv
      BY Zenon, <1>3 DEF ExecutorStep, ExOnly, Boot, RecoverMint, Recovered, Claim, Begin, Create, Safety,
         Reject, CheckFails, Risk, LossStop, Approve, Advance, Preflight, Pass, SubmissionGuard, Authorize,
         Reserve, Mint, FinalGuard, VerifySend, Consume, SubmitRefused, OrderSend, SendReturns, Record,
         Slippage, Uncertain, NotSent, Settle, Crash
    <2> QED
      BY <2>1
  <1> QED
    BY Zenon, <1>1, <1>2, <1>3

(* A reservation is made for a DEMO_AUTO intent past its preflight. *)
Dispatched(i) == i \in DemoAuto /\ Past(i)

DispatchInvariant ==
    /\ \A i \in Intents : resv[i] # "none" => Dispatched(i)
    /\ \A p \in Procs : ex[p].pc = "dispatch" => ex[p].cur \in Intents /\ Dispatched(ex[p].cur)

(* An executor's step keeps it. *)
LEMMA DispatchExecutor ==
    ASSUME RuntimeInvariant, DispatchInvariant, [JournalNext]_jvars, NEW p \in Procs, ExecutorStep(p)
    PROVE  DispatchInvariant'
  <1>0. JournalTypeOK
    BY Zenon DEF RuntimeInvariant, SendInv
  <1>1. \A i \in Intents : Dispatched(i) => Dispatched(i)'
    BY Zenon, <1>0, PastKept DEF Dispatched
  <1>2. ASSUME NEW i \in Intents, resv'[i] # "none" PROVE Dispatched(i)'
    BY Zenon, <1>1, <1>2, ReservedAtDispatch DEF DispatchInvariant
  <1>3. ASSUME NEW q \in Procs, ex'[q].pc = "dispatch", ex'[q] = ex[q]
        PROVE  \E i \in Intents : i = ex'[q].cur /\ Dispatched(i)'
    BY Zenon, <1>1, <1>3 DEF DispatchInvariant
  <1>4. ASSUME Authorize(p), NEW q \in Procs, ex'[q].pc = "dispatch"
        PROVE  \E i \in Intents : i = ex'[q].cur /\ Dispatched(i)'
    <2>1. PICK l \in {"dispatch", "reserve"} : Goto(p, l) /\ (l = "dispatch" => Cur(p) \in DemoAuto)
      BY Zenon, <1>4 DEF Authorize
    <2>2. Moves(p, l, Cur(p))
      <3>1. l \in Labels
        BY DEF Labels
      <3> QED
        BY Zenon, <2>1, <3>1, GotoMoves DEF RuntimeInvariant
    <2>3. CASE q # p
      BY Zenon, <1>3, <1>4, <2>2, <2>3 DEF Moves
    <2>4. CASE q = p
      <3>1. PICK i : i = Cur(p)
        OBVIOUS
      <3>2. i \in Intents
        <4>1. ex[p].pc \notin Free
          BY <1>4 DEF Authorize, At, Free
        <4> QED
          BY Zenon, <3>1, <4>1, Busy
      <3>3. state[i] = "PREFLIGHT_PASSED" /\ state' = state
        BY Zenon, <1>4, <3>1 DEF Authorize, AuthorizeSubmissionEvidence, MayAuthorize
      <3>4. Past(i)'
        BY <3>3 DEF Past
      <3>5. l = "dispatch" /\ i = ex'[q].cur
        BY Zenon, <1>4, <2>2, <2>4, <3>1 DEF Moves
      <3> QED
        BY Zenon, <2>1, <3>1, <3>2, <3>4, <3>5 DEF Dispatched
    <2> QED
      BY Zenon, <2>3, <2>4
  <1>5. ASSUME NEW q \in Procs, ex'[q].pc = "dispatch"
        PROVE  ex'[q].cur \in Intents /\ Dispatched(ex[q].cur)'
    <2>1. \E i \in Intents : i = ex'[q].cur /\ Dispatched(i)'
      BY Zenon, <1>3, <1>4, <1>5, CallNoDispatch DEF NoDispatch
    <2> QED
      BY Zenon, <2>1 DEF Dispatched, Past
  <1> QED
    BY Zenon, <1>2, <1>5 DEF DispatchInvariant

(* Other steps touch neither a call nor a reservation. *)
LEMMA DispatchOthers ==
    ASSUME RuntimeInvariant, DispatchInvariant, [JournalNext]_jvars, UNCHANGED <<ex, resv>>
    PROVE  DispatchInvariant'
  <1>0. JournalTypeOK
    BY Zenon DEF RuntimeInvariant, SendInv
  <1>1. \A i \in Intents : Past(i) => Past(i)'
    BY Zenon, <1>0, PastKept
  <1>2. ASSUME NEW q \in Procs, ex'[q].pc = "dispatch"
        PROVE  ex'[q].cur \in Intents /\ Dispatched(ex[q].cur)'
    BY Zenon, <1>1, <1>2 DEF DispatchInvariant, Dispatched, Past
  <1> QED
    BY Zenon, <1>1, <1>2 DEF DispatchInvariant, Dispatched

(* The reservations are those of intents past their preflight, always. *)
LEMMA DispatchAlways == RuntimeSpec => []DispatchInvariant
  <1>1. RuntimeInit => DispatchInvariant
    <2> SUFFICES ASSUME RuntimeInit PROVE DispatchInvariant
      OBVIOUS
    <2>1. \A p \in Procs : ex[p].pc = "down"
      BY Zenon, DownTyped DEF RuntimeInit
    <2>2. \A i \in Intents : resv[i] = "none"
      BY Zenon DEF RuntimeInit
    <2> QED
      BY <2>1, <2>2 DEF DispatchInvariant
  <1>2. ASSUME RuntimeInvariant, DispatchInvariant, [RuntimeNext]_allvars PROVE DispatchInvariant'
    <2>1. [JournalNext]_jvars
      BY Zenon, <1>2, RuntimeStep
    <2>2. (\E p \in Procs : ExecutorStep(p)) \/ UNCHANGED <<ex, resv>>
      BY Zenon, <1>2 DEF RuntimeNext, BrokerStep, CycleStep, StartCycle, ReadOrders, ReadPositions, ReadActive,
         ApplyRecord, EndCycle, CycleFails, CycleLost, Relaunch, Environment, RcOnly, rvars, allvars
    <2> QED
      BY Zenon, <1>2, <2>1, <2>2, DispatchExecutor, DispatchOthers
  <1> QED
    BY <1>1, <1>2, RuntimeInvariantAlways, PTL DEF RuntimeSpec

(* A reservation that start-up recovery cannot settle belongs to an intent  *)
(* that was not sent and has nothing at the broker: the reconciler wrote a  *)
(* receipt of it before its final guard, or although its lease was given    *)
(* back unused.                                                             *)
StuckWasNeverSent ==
    \A i \in Intents : Unresolved(i) /\ ~CanSettle(i) =>
        /\ "RECONCILIATION_RECEIPT" \in receipts[i] /\ NoSendBoundary(i)
        /\ i \notin sent /\ ~Exposed(i)

(* The one way recover_dispatch_reservations gets stuck: a reconciliation   *)
(* receipt of an intent that no order was sent for.  Every other unresolved *)
(* reservation can be settled from the journal.                             *)
THEOREM StuckReservationsAreUnsent == RuntimeSpec => []StuckWasNeverSent
  <1>1. ASSUME RuntimeInvariant, DispatchInvariant, RowsSupported,
               NEW i \in Intents, Unresolved(i), ~CanSettle(i)
        PROVE  /\ "RECONCILIATION_RECEIPT" \in receipts[i] /\ NoSendBoundary(i)
               /\ i \notin sent /\ ~Exposed(i)
    <2>1. i \in DemoAuto /\ Past(i)
      BY Zenon, <1>1 DEF DispatchInvariant, Dispatched, Unresolved
    <2>2. SendBoundary(i) /\ Supported(i) /\ Agrees(i)
      BY Zenon, <1>1 DEF RuntimeInvariant, SendInv, RowsSupported
    <2>3. state[i] \in ExecutionStates /\ Past(i)
      BY Zenon, <1>1, <2>1 DEF RuntimeInvariant, SendInv, JournalTypeOK, Past
    <2>4. Settlement(i) = "ERROR"
      BY ZenonT(40), <1>1, <2>1 DEF CanSettle, Past
    <2>5. "SUBMISSION_NOT_SENT" \notin receipts[i]
      BY <2>2, <2>4 DEF SendBoundary, SaidNotSent, Settlement
    <2>6. NoSendBoundary(i)
      BY <2>4, <2>5 DEF Settlement
    <2>7. BrokerEvidence(i)
      <3>1. ~BrokerEvidence(i) =>
                state[i] \in AbortableStates \cup {"RISK_REJECTED", "REJECTED", "EXPIRED"}
        <4>1. ~BrokerEvidence(i) => state[i] \notin BrokerConclusiveTargets
          BY Zenon, <2>2 DEF Supported
        <4> QED
          BY <2>3, <4>1 DEF Past, ExecutionStates, GlobalExposureStates, TerminalStates,
             BrokerConclusiveTargets, AbortableStates
      <3> QED
        BY <2>4, <2>5, <2>6, <3>1 DEF Settlement
    <2>8. slease[i].st # "used"
      BY Zenon, <2>2, <2>6 DEF SendBoundary, Guarded, Unconsumed, NoSendBoundary
    <2>9. "RECONCILIATION_RECEIPT" \in receipts[i]
      BY Zenon, <2>2, <2>7, <2>8 DEF Supported, BrokerEvidence
    <2>10. i \notin sent /\ broker[i].st = "none"
      BY Zenon, <2>2, <2>8 DEF Agrees
    <2>11. ASSUME NEW p \in Procs, At(p, "sending") PROVE Cur(p) # i
      BY Zenon, <1>1, <2>8, <2>11 DEF RuntimeInvariant, Bound, At, Cur
    <2>12. ~Exposed(i)
      BY Zenon, <2>10, <2>11 DEF Exposed, LiveAtBroker
    <2> QED
      BY Zenon, <2>6, <2>9, <2>10, <2>12
  <1>2. RuntimeInvariant /\ DispatchInvariant /\ RowsSupported => StuckWasNeverSent
    BY Zenon, <1>1 DEF StuckWasNeverSent
  <1>3. RuntimeSpec => JournalSpec
    BY RuntimeImplementsJournal DEF RefinesJournal
  <1> QED
    BY <1>2, <1>3, RuntimeInvariantAlways, DispatchAlways, SupportedAlways, PTL
=============================================================================
