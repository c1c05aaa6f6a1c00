------------------------ MODULE DecisionQueueProofs ------------------------
(* Proofs about the decision queue for any number of producers, consumers and
   decisions, any clock and any number of crashes and lost answers. *)
EXTENDS DecisionQueue, TLAPS

AtMost(a, b) == a.pub <= b.pub /\ a.con <= b.con
Total(c) == c.pub + c.con

(* What a call between its opening check and its export relies on. *)
CallAnchored(p) ==
    /\ call[p].pc \in {"publish", "consume"} =>
          /\ AtMost(call[p].prev, LocalHead)
          /\ call[p].prev = LocalHead => external = LocalHead
    /\ call[p].pc = "export" => AtMost(Successor(p), LocalHead)

(* The register is never ahead of the store, and nothing that may still reach it
   can put it ahead. *)
AnchorInvariant ==
    /\ AnchorWithinOne
    /\ \A p \in Procs : CallAnchored(p)
    /\ \A r \in late : AtMost(r.to, LocalHead) /\ Total(r.to) = Total(r.from) + 1

ItemTyped == \A p \in Producers : call[p].pc = "publish" => call[p].item \in Decisions

TypeInvariant == QueueTypeOK /\ ItemTyped

(* Sequences over a set stay so when a member is appended. *)
LEMMA SequenceTypes ==
    ASSUME NEW S
    PROVE  /\ <<>> \in Seq(S)
           /\ \A s \in Seq(S), x \in S : Append(s, x) \in Seq(S)
OBVIOUS

(* The elements of a sequence over a set are members of it. *)
LEMMA SequenceElements ==
    ASSUME NEW S, NEW s \in Seq(S)
    PROVE  \A n \in 1..Len(s) : s[n] \in S
OBVIOUS

(* Two checkpoints are equal when their counts are. *)
LEMMA CheckpointEquality ==
    ASSUME NEW a \in Checkpoints, NEW b \in Checkpoints
    PROVE  /\ a = b <=> a.pub = b.pub /\ a.con = b.con
           /\ a.pub \in Nat /\ a.con \in Nat
BY DEF Checkpoints

(* The local head is a checkpoint. *)
LEMMA LocalHeadTyped ==
    ASSUME QueueTypeOK
    PROVE  /\ LocalHead \in Checkpoints
           /\ LocalHead.pub = Len(log) /\ LocalHead.con = Len(disp)
           /\ Len(log) \in Nat /\ Len(disp) \in Nat
<1>1. Len(log) \in Nat /\ Len(disp) \in Nat
  BY DEF QueueTypeOK
<1>2. QED
  BY <1>1 DEF LocalHead, Checkpoints

(* What a step of p that replaces its locals does to the calls. *)
LEMMA Replaced ==
    ASSUME QueueTypeOK, NEW p \in Procs, NEW r, call' = [call EXCEPT ![p] = r]
    PROVE  /\ call'[p] = r
           /\ \A q \in Procs : q # p => call'[q] = call[q]
           /\ r \in CallRecords => call' \in [Procs -> CallRecords]
BY DEF QueueTypeOK

(* What a step of p to another label does to the calls. *)
LEMMA Moved ==
    ASSUME QueueTypeOK, NEW p \in Procs, NEW label, GoTo(p, label)
    PROVE  /\ call'[p].pc = label
           /\ call'[p].item = call[p].item /\ call'[p].prev = call[p].prev
           /\ call'[p].at = call[p].at /\ call'[p].until = call[p].until
           /\ \A q \in Procs : q # p => call'[q] = call[q]
           /\ label \in Labels => call' \in [Procs -> CallRecords]
<1> DEFINE r == [call[p] EXCEPT !.pc = label]
<1>1. call[p] \in CallRecords
  BY DEF QueueTypeOK
<1>2. call' = [call EXCEPT ![p] = r]
  BY DEF GoTo
<1>3. /\ r.pc = label /\ r.item = call[p].item /\ r.prev = call[p].prev
      /\ r.at = call[p].at /\ r.until = call[p].until
      /\ label \in Labels => r \in CallRecords
  BY <1>1 DEF CallRecords
<1> HIDE DEF r
<1>4. QED
  BY Zenon, <1>2, <1>3, Replaced

(* The locals of an idle process are well typed. *)
LEMMA IdleTyped ==
    /\ Idle \in CallRecords /\ Idle.pc = "idle"
    /\ Genesis \in Checkpoints
<1>1. Genesis \in Checkpoints
  BY DEF Genesis, Checkpoints
<1>2. QED
  BY <1>1 DEF Idle, Locals, CallRecords, Labels

(* A successor checkpoint commits to one row more. *)
LEMMA SuccessorTyped ==
    ASSUME QueueTypeOK, NEW p \in Procs
    PROVE  /\ call[p].prev \in Checkpoints
           /\ Successor(p) \in Checkpoints
           /\ Total(Successor(p)) = Total(call[p].prev) + 1
           /\ p \in Producers => Successor(p).pub = call[p].prev.pub + 1
                                 /\ Successor(p).con = call[p].prev.con
           /\ p \notin Producers => Successor(p).con = call[p].prev.con + 1
                                    /\ Successor(p).pub = call[p].prev.pub
<1>1. call[p].prev \in Checkpoints
  BY DEF QueueTypeOK, CallRecords
<1>2. QED
  BY <1>1 DEF Successor, Total, Checkpoints

(* Types are kept by the steps that write the two tables. *)
LEMMA CommitTyped ==
    ASSUME TypeInvariant, NEW p \in Procs,
           (p \in Producers /\ PublishCommit(p)) \/ (p \in Consumers /\ ConsumeCommit(p))
    PROVE  TypeInvariant'
<1> USE DEF TypeInvariant
<1>0. /\ call[p] \in CallRecords /\ call[p].at \in Nat
      /\ "export" \in Labels /\ Producers \subseteq Procs
  BY DEF QueueTypeOK, CallRecords, Labels, Procs
<1>1. CASE Return(p) /\ UNCHANGED durable
  <2>1. /\ call'[p] = Idle /\ call' \in [Procs -> CallRecords]
        /\ \A q \in Procs : q # p => call'[q] = call[q]
    BY Zenon, <1>1, Replaced, IdleTyped DEF Return
  <2>2. ItemTyped'
    BY <1>0, <2>1, IdleTyped DEF ItemTyped
  <2>3. QED
    BY <1>1, <2>1, <2>2 DEF QueueTypeOK, durable, register, PublishCommit, ConsumeCommit
<1>2. CASE GoTo(p, "export")
  <2>1. /\ call'[p].pc = "export" /\ call' \in [Procs -> CallRecords]
        /\ \A q \in Procs : q # p => call'[q] = call[q]
    BY <1>0, <1>2, Moved
  <2>2. ItemTyped'
    BY <1>0, <2>1 DEF ItemTyped
  <2>3. CASE p \in Producers /\ PublishCommit(p) /\ ~(Return(p) /\ UNCHANGED durable)
    <3>1. call[p].item \in Decisions
      BY <2>3 DEF PublishCommit, At, ItemTyped
    <3>2. /\ log' = Append(log, [decision |-> call[p].item, issued |-> call[p].at])
          /\ flag' = FALSE /\ UNCHANGED <<disp, latch>>
          /\ UNCHANGED <<clock, register, arm, emitted, crashes>>
      BY <2>3 DEF PublishCommit
    <3>3. log' \in Seq([decision : Decisions, issued : Nat])
      BY <1>0, <3>1, <3>2 DEF QueueTypeOK
    <3>4. QED
      BY Zenon, <2>1, <2>2, <3>2, <3>3 DEF QueueTypeOK, register
  <2>4. CASE p \in Consumers /\ ConsumeCommit(p) /\ ~(Return(p) /\ UNCHANGED durable)
    <3>1. /\ disp' = Append(disp, Disposition(p))
          /\ flag' = FALSE /\ UNCHANGED <<log, latch>>
          /\ UNCHANGED <<clock, register, arm, emitted, crashes>>
      BY <2>4 DEF ConsumeCommit
    <3>2. disp' \in Seq(Dispositions)
      BY <3>1 DEF QueueTypeOK, Disposition, Dispositions
    <3>3. QED
      BY Zenon, <2>1, <2>2, <3>1, <3>2 DEF QueueTypeOK, register
  <2>5. QED
    BY <1>1, <2>3, <2>4
<1>3. QED
  BY <1>1, <1>2 DEF PublishCommit, ConsumeCommit

(* Types are kept by the steps that only replace the locals of p, the register or
   the latch. *)
LEMMA OpeningTyped ==
    ASSUME TypeInvariant, NEW p \in Procs,
           \/ \E d \in Decisions, t \in 0 .. clock : PublishStart(p, d, t)
           \/ \E u \in 0 .. MaxTime + 1 : ConsumerEnter(p, u)
           \/ ConsumeStart(p)
    PROVE  TypeInvariant'
<1> USE DEF TypeInvariant
<1>0. /\ call[p] \in CallRecords /\ call[p].at \in Nat /\ call[p].until \in Nat
      /\ clock \in Nat /\ Producers \subseteq Procs
      /\ {"publish", "entered", "consume"} \subseteq Labels
      /\ Genesis \in Checkpoints /\ LocalHead \in Checkpoints
  BY LocalHeadTyped DEF QueueTypeOK, CallRecords, Labels, Procs, Genesis, Checkpoints
<1>1. \E r \in CallRecords : /\ call' = [call EXCEPT ![p] = r]
                             /\ r.pc = "publish" => r.item \in Decisions
  <2>1. ASSUME NEW d \in Decisions, NEW t \in 0 .. clock, PublishStart(p, d, t)
        PROVE  \E r \in CallRecords : /\ call' = [call EXCEPT ![p] = r]
                                      /\ r.pc = "publish" => r.item \in Decisions
    <3>1. t \in Nat /\ 0 \in Nat
      BY <1>0
    <3>2. /\ Locals("publish", d, t, 0, LocalHead) \in CallRecords
          /\ Locals("publish", d, t, 0, LocalHead).item = d
      BY <1>0, <3>1, IdleTyped DEF Locals, CallRecords
    <3>3. call' = [call EXCEPT ![p] = Locals("publish", d, t, 0, LocalHead)]
      BY <2>1 DEF PublishStart
    <3>4. QED
      BY Zenon, <3>2, <3>3
  <2>2. ASSUME NEW u \in 0 .. MaxTime + 1, ConsumerEnter(p, u)
        PROVE  \E r \in CallRecords : /\ call' = [call EXCEPT ![p] = r]
                                      /\ r.pc = "publish" => r.item \in Decisions
    <3>1. u \in Nat
      BY QueueAssumption
    <3>2. /\ Locals("entered", "none", clock, u, Genesis) \in CallRecords
          /\ Locals("entered", "none", clock, u, Genesis).pc = "entered"
      BY <1>0, <3>1, IdleTyped DEF Locals, CallRecords
    <3>3. call' = [call EXCEPT ![p] = Locals("entered", "none", clock, u, Genesis)]
      BY <2>2 DEF ConsumerEnter
    <3>4. QED
      BY Zenon, <3>2, <3>3
  <2>3. ASSUME ConsumeStart(p)
        PROVE  \E r \in CallRecords : /\ call' = [call EXCEPT ![p] = r]
                                      /\ r.pc = "publish" => r.item \in Decisions
    <3> DEFINE r == Locals("consume", "none", call[p].at, call[p].until, LocalHead)
    <3>1. r \in CallRecords /\ r.pc = "consume"
      BY <1>0, IdleTyped DEF Locals, CallRecords
    <3>2. Idle \in CallRecords /\ Idle.pc = "idle"
      BY IdleTyped
    <3>3. \/ call' = [call EXCEPT ![p] = r]
          \/ call' = [call EXCEPT ![p] = Idle]
      BY <2>3 DEF ConsumeStart, Return
    <3> HIDE DEF r
    <3>4. QED
      BY <3>1, <3>2, <3>3, SequenceTypes, Zenon
  <2>4. QED
    BY <2>1, <2>2, <2>3
<1>2. PICK r \in CallRecords : /\ call' = [call EXCEPT ![p] = r]
                               /\ r.pc = "publish" => r.item \in Decisions
  BY Zenon, <1>1
<1>3. /\ call'[p] = r /\ call' \in [Procs -> CallRecords]
      /\ \A q \in Procs : q # p => call'[q] = call[q]
  BY Zenon, <1>2, Replaced
<1>4. ItemTyped'
  BY <1>0, <1>2, <1>3 DEF ItemTyped
<1>5. UNCHANGED <<clock, durable, register, arm, emitted, crashes>>
  BY DEF PublishStart, ConsumerEnter, ConsumeStart
<1>6. QED
  BY <1>3, <1>4, <1>5 DEF QueueTypeOK, durable, register

(* Types are kept by the export, its readback and the latch. *)
LEMMA SharedTyped ==
    ASSUME TypeInvariant, NEW p \in Procs, SharedStep(p)
    PROVE  TypeInvariant'
<1> USE DEF TypeInvariant
<1>0. /\ call[p] \in CallRecords /\ Producers \subseteq Procs
      /\ call[p].prev \in Checkpoints /\ Successor(p) \in Checkpoints
      /\ {"readback", "latch", "final", "return"} \subseteq Labels
  BY SuccessorTyped DEF QueueTypeOK, Labels, Procs
<1>1. ASSUME NEW label \in {"readback", "latch", "final", "return"}, GoTo(p, label)
      PROVE  call' \in [Procs -> CallRecords] /\ ItemTyped'
  BY <1>0, <1>1, Moved DEF ItemTyped
<1>2. ASSUME Return(p) PROVE call' \in [Procs -> CallRecords] /\ ItemTyped'
  BY Zenon, <1>0, <1>2, Replaced, IdleTyped DEF Return, ItemTyped
<1>3. CASE ExportAcknowledged(p)
  BY <1>0, <1>1, <1>3 DEF ExportAcknowledged, QueueTypeOK, durable
<1>4. CASE ExportFails(p)
  <2>1. call' \in [Procs -> CallRecords] /\ ItemTyped'
    BY <1>1, <1>4 DEF ExportFails
  <2>2. [from |-> call[p].prev, to |-> Successor(p)] \in [from : Checkpoints, to : Checkpoints]
    BY <1>0
  <2>3. /\ external' \in Checkpoints
        /\ late' \subseteq [from : Checkpoints, to : Checkpoints]
    BY <1>0, <1>4, <2>2 DEF ExportFails, QueueTypeOK, register
  <2>4. QED
    BY <1>4, <2>1, <2>3 DEF ExportFails, QueueTypeOK, durable
<1>5. CASE Readback(p)
  BY <1>0, <1>1, <1>5 DEF Readback, QueueTypeOK, durable, register
<1>6. CASE LatchCritical(p)
  BY <1>0, <1>2, <1>6 DEF LatchCritical, QueueTypeOK, register
<1>7. CASE FinalReadState(p)
  <2> DEFINE r == [pc |-> "verify", item |-> call[p].item, at |-> call[p].at,
                   until |-> call[p].until, prev |-> call[p].prev,
                   seen |-> LocalHead, seenFlag |-> flag]
  <2>1. call' = [call EXCEPT ![p] = r]
    BY <1>7 DEF FinalReadState, QueueTypeOK
  <2>2. r \in CallRecords /\ r.pc = "verify"
    BY <1>0, LocalHeadTyped DEF CallRecords, QueueTypeOK, Labels
  <2> HIDE DEF r
  <2>3. call' \in [Procs -> CallRecords] /\ ItemTyped'
    BY Zenon, <1>0, <2>1, <2>2, Replaced DEF ItemTyped
  <2>4. QED
    BY <1>7, <2>3 DEF FinalReadState, QueueTypeOK, durable, register
<1>8. CASE FinalVerify(p)
  BY <1>0, <1>1, <1>2, <1>8 DEF FinalVerify, QueueTypeOK, durable, register
<1>9. QED
  BY <1>3, <1>4, <1>5, <1>6, <1>7, <1>8 DEF SharedStep

(* Every step keeps the types. *)
LEMMA TypeNext ==
    TypeInvariant /\ [QueueNext]_vars => TypeInvariant'
<1> SUFFICES ASSUME TypeInvariant, [QueueNext]_vars PROVE TypeInvariant'
  OBVIOUS
<1>0. Producers \subseteq Procs /\ Consumers \subseteq Procs
  BY DEF Procs
<1>1. ASSUME NEW p \in Procs, Return(p) PROVE call' \in [Procs -> CallRecords] /\ ItemTyped'
  BY Zenon, <1>0, <1>1, Replaced, IdleTyped DEF Return, ItemTyped, TypeInvariant
<1>2. ASSUME NEW p \in Producers, ProducerStep(p) PROVE TypeInvariant'
  BY <1>0, <1>2, OpeningTyped, CommitTyped DEF ProducerStep
<1>3. ASSUME NEW p \in Consumers, ConsumerReturn(p) PROVE TypeInvariant'
  <2>1. call' \in [Procs -> CallRecords] /\ ItemTyped'
    BY <1>0, <1>1, <1>3 DEF ConsumerReturn
  <2>2. call[p].prev.con \in Nat /\ clock \in Nat
    BY <1>0, SuccessorTyped, CheckpointEquality DEF TypeInvariant, QueueTypeOK
  <2>3. emitted' \in Seq([seq : Nat, at : Nat])
    <3>1. [seq |-> Taken(p), at |-> clock] \in [seq : Nat, at : Nat]
      BY <2>2 DEF Taken
    <3>2. emitted \in Seq([seq : Nat, at : Nat])
      BY DEF TypeInvariant, QueueTypeOK
    <3>3. \/ emitted' = emitted
          \/ emitted' = Append(emitted, [seq |-> Taken(p), at |-> clock])
      BY <1>3, Zenon DEF ConsumerReturn
    <3>4. QED
      BY <3>1, <3>2, <3>3, SequenceTypes, Zenon
  <2>4. QED
    BY <1>3, <2>1, <2>3 DEF ConsumerReturn, TypeInvariant, QueueTypeOK, durable, register
<1>4. ASSUME NEW p \in Consumers, ConsumerStep(p) PROVE TypeInvariant'
  BY <1>0, <1>3, <1>4, OpeningTyped, CommitTyped DEF ConsumerStep
<1>5. ASSUME NEW p \in Procs, Crash(p) PROVE TypeInvariant'
  BY <1>1, <1>5 DEF Crash, TypeInvariant, QueueTypeOK, durable, register
<1>6. ASSUME NEW r \in late, AcceptLate(r) PROVE TypeInvariant'
  <2>1. r.to \in Checkpoints /\ external \in Checkpoints
    BY DEF TypeInvariant, QueueTypeOK
  <2>2. external' \in Checkpoints /\ late' \subseteq late
    BY <1>6, <2>1 DEF AcceptLate
  <2>3. UNCHANGED <<clock, log, disp, flag, latch, arm, call, emitted, crashes>>
    BY <1>6 DEF AcceptLate, durable
  <2>4. QED
    BY <2>2, <2>3 DEF TypeInvariant, QueueTypeOK, ItemTyped
<1>7. CASE Tick
  BY <1>7 DEF Tick, TypeInvariant, QueueTypeOK, ItemTyped, durable, register
<1>8. CASE SwitchArm
  BY <1>8 DEF SwitchArm, TypeInvariant, QueueTypeOK, ItemTyped, durable, register
<1>9. CASE UNCHANGED vars
  BY <1>9 DEF vars, TypeInvariant, QueueTypeOK, ItemTyped, durable, register
<1>10. QED
  BY <1>2, <1>4, <1>5, <1>6, <1>7, <1>8, <1>9, SharedTyped DEF QueueNext

(* A provisioned queue is well typed. *)
LEMMA TypeInit ==
    QueueInit => TypeInvariant
<1> SUFFICES ASSUME QueueInit PROVE TypeInvariant
  OBVIOUS
<1>1. call \in [Procs -> CallRecords]
  BY IdleTyped DEF QueueInit
<1>2. ItemTyped
  <2>1. \A p \in Producers : call[p] = Idle
    BY DEF QueueInit, Procs
  <2>2. QED
    BY <2>1, IdleTyped DEF ItemTyped
<1>3. QueueTypeOK
  <2>1. emitted \in Seq([seq : Nat, at : Nat])
    BY SequenceTypes, Zenon DEF QueueInit
  <2>2. log \in Seq([decision : Decisions, issued : Nat]) /\ disp \in Seq(Dispositions)
    BY SequenceTypes, Zenon DEF QueueInit
  <2>3. QED
    BY Zenon, <1>1, <2>1, <2>2, IdleTyped DEF QueueInit, QueueTypeOK
<1>4. QED
  BY <1>2, <1>3 DEF TypeInvariant

(* The queue's state is of its type in every behaviour of publish, consume_next
   and their exports. *)
THEOREM QueueIsTyped ==
    QueueSpec => []QueueTypeOK
<1>1. TypeInvariant => QueueTypeOK
  BY DEF TypeInvariant
<1>2. QED
  BY <1>1, TypeInit, TypeNext, PTL DEF QueueSpec

(* A step that leaves tables and register alone, and takes p to a label where it
   relies on nothing, keeps the anchor invariant. *)
LEMMA RetreatAnchored ==
    ASSUME TypeInvariant, AnchorInvariant, NEW p \in Procs,
           UNCHANGED <<log, disp, external, late>>,
           \A q \in Procs : q # p => call'[q] = call[q],
           call'[p].pc \notin {"publish", "consume", "export"}
    PROVE  AnchorInvariant'
<1>1. LocalHead' = LocalHead
  BY DEF LocalHead
<1>2. ASSUME NEW q \in Procs PROVE CallAnchored(q)'
  <2>1. CASE q = p
    BY <2>1 DEF CallAnchored
  <2>2. CASE q # p
    BY <1>1, <2>2 DEF CallAnchored, AnchorInvariant, Successor
  <2>3. QED
    BY <2>1, <2>2
<1>3. QED
  BY <1>1, <1>2 DEF AnchorInvariant, AnchorWithinOne

(* The opening checks establish what the call relies on. *)
LEMMA OpeningAnchored ==
    ASSUME TypeInvariant, AnchorInvariant, NEW p \in Procs,
           UNCHANGED <<log, disp, external, late>>,
           \A q \in Procs : q # p => call'[q] = call[q],
           call'[p].pc \in {"publish", "consume"},
           call'[p].prev = LocalHead, external = LocalHead
    PROVE  AnchorInvariant'
<1>1. LocalHead' = LocalHead
  BY DEF LocalHead
<1>2. AtMost(LocalHead, LocalHead)
  BY LocalHeadTyped DEF AtMost, TypeInvariant
<1>3. ASSUME NEW q \in Procs PROVE CallAnchored(q)'
  <2>1. CASE q = p
    BY <1>1, <1>2, <2>1 DEF CallAnchored
  <2>2. CASE q # p
    BY <1>1, <2>2 DEF CallAnchored, AnchorInvariant, Successor
  <2>3. QED
    BY <2>1, <2>2
<1>4. QED
  BY <1>1, <1>3 DEF AnchorInvariant, AnchorWithinOne

(* A commit finds the register at the head it verified, so exactly its own row is
   unanchored afterwards, and every other open call is out of date. *)
LEMMA CommitAnchored ==
    ASSUME TypeInvariant, TypeInvariant', AnchorInvariant, NEW p \in Procs,
           UNCHANGED <<external, late>>,
           \A q \in Procs : q # p => call'[q] = call[q],
           call[p].pc \in {"publish", "consume"}, call[p].prev = LocalHead,
           call'[p].pc = "export", call'[p].prev = call[p].prev,
           \/ p \in Producers /\ Len(log') = Len(log) + 1 /\ disp' = disp
           \/ p \notin Producers /\ Len(disp') = Len(disp) + 1 /\ log' = log
    PROVE  AnchorInvariant'
<1>0. /\ LocalHead \in Checkpoints /\ LocalHead' \in Checkpoints /\ external \in Checkpoints
      /\ LocalHead.pub = Len(log) /\ LocalHead.con = Len(disp)
      /\ LocalHead'.pub = Len(log') /\ LocalHead'.con = Len(disp')
      /\ Len(log) \in Nat /\ Len(disp) \in Nat
  <2>1. Len(log') \in Nat /\ Len(disp') \in Nat
    BY DEF TypeInvariant, QueueTypeOK
  <2>2. QueueTypeOK /\ external \in Checkpoints
    BY DEF TypeInvariant, QueueTypeOK
  <2>3. QED
    BY <2>1, <2>2, LocalHeadTyped DEF LocalHead, Checkpoints
<1>1. external = LocalHead
  BY DEF AnchorInvariant, CallAnchored
<1>2. AnchorWithinOne'
  BY <1>0, <1>1 DEF AnchorWithinOne
<1>3. ASSUME NEW c \in Checkpoints, AtMost(c, LocalHead)
      PROVE  AtMost(c, LocalHead') /\ c # LocalHead'
  BY <1>0, <1>3, CheckpointEquality DEF AtMost
<1>4. CallAnchored(p)'
  <2>1. /\ Successor(p)'.pub = Len(log') /\ Successor(p)'.con = Len(disp')
    BY <1>0, SuccessorTyped DEF TypeInvariant, Successor
  <2>2. QED
    BY <1>0, <2>1 DEF CallAnchored, AtMost
<1>5. ASSUME NEW q \in Procs, q # p PROVE CallAnchored(q)'
  <2>1. call'[q] = call[q] /\ call[q].prev \in Checkpoints
    BY <1>5, SuccessorTyped DEF TypeInvariant
  <2>2. Successor(q)' = Successor(q) /\ Successor(q) \in Checkpoints
    BY <2>1, SuccessorTyped DEF Successor, TypeInvariant
  <2>3. QED
    BY <1>3, <2>1, <2>2 DEF CallAnchored, AnchorInvariant
<1>6. \A r \in late' : AtMost(r.to, LocalHead') /\ Total(r.to) = Total(r.from) + 1
  BY <1>3 DEF AnchorInvariant, TypeInvariant, QueueTypeOK
<1>7. QED
  BY <1>2, <1>4, <1>5, <1>6 DEF AnchorInvariant

(* A checkpoint that follows the register's by one row and is not ahead of the
   store is the local head: when the register accepts it, it is up to date. *)
LEMMA AcceptedIsHead ==
    ASSUME QueueTypeOK, AnchorWithinOne,
           NEW c \in Checkpoints, Total(c) = Total(external) + 1, AtMost(c, LocalHead)
    PROVE  c = LocalHead
<1>1. external \in Checkpoints /\ LocalHead \in Checkpoints
  BY LocalHeadTyped DEF QueueTypeOK
<1>2. /\ external.pub \in Nat /\ external.con \in Nat /\ c.pub \in Nat /\ c.con \in Nat
      /\ LocalHead.pub \in Nat /\ LocalHead.con \in Nat
  BY <1>1, CheckpointEquality
<1>3. c.pub = LocalHead.pub /\ c.con = LocalHead.con
  BY <1>2 DEF Total, AtMost, AnchorWithinOne
<1>4. QED
  BY <1>1, <1>3, CheckpointEquality

(* The register may move to the local head, and requests within the store may be
   added to the late ones. *)
LEMMA RegisterAnchored ==
    ASSUME TypeInvariant, AnchorInvariant,
           UNCHANGED <<log, disp>>,
           external' \in {external, LocalHead},
           \A r \in late' : AtMost(r.to, LocalHead) /\ Total(r.to) = Total(r.from) + 1,
           \A q \in Procs : call'[q] = call[q] \/ call'[q].pc \notin {"publish", "consume", "export"}
    PROVE  AnchorInvariant'
<1>1. LocalHead' = LocalHead
  BY DEF LocalHead
<1>2. ASSUME NEW q \in Procs PROVE CallAnchored(q)'
  <2>1. CASE call'[q] = call[q]
    BY <1>1, <2>1 DEF CallAnchored, AnchorInvariant, Successor
  <2>2. CASE call'[q].pc \notin {"publish", "consume", "export"}
    BY <2>2 DEF CallAnchored
  <2>3. QED
    BY <2>1, <2>2
<1>3. QED
  BY <1>1, <1>2 DEF AnchorInvariant, AnchorWithinOne

(* Every step keeps the anchor invariant. *)
LEMMA AnchorNext ==
    TypeInvariant /\ TypeInvariant' /\ AnchorInvariant /\ [QueueNext]_vars => AnchorInvariant'
<1> SUFFICES ASSUME TypeInvariant, TypeInvariant', AnchorInvariant, [QueueNext]_vars
             PROVE  AnchorInvariant'
  OBVIOUS
<1>0. /\ QueueTypeOK /\ Producers \subseteq Procs /\ Consumers \subseteq Procs
      /\ \A p \in Consumers : p \notin Producers
  BY QueueAssumption DEF TypeInvariant, Procs
<1>1. ASSUME NEW p \in Procs, Return(p), UNCHANGED <<log, disp, external, late>>
      PROVE  AnchorInvariant'
  <2>1. /\ call'[p] = Idle
        /\ \A q \in Procs : q # p => call'[q] = call[q]
    BY Zenon, <1>0, <1>1, Replaced DEF Return
  <2>2. QED
    BY <1>1, <2>1, RetreatAnchored, IdleTyped
<1>2. ASSUME NEW p \in Procs, NEW label \in {"readback", "latch", "final", "return"},
             GoTo(p, label), UNCHANGED <<log, disp, external, late>>
      PROVE  AnchorInvariant'
  <2>1. /\ call'[p].pc = label
        /\ \A q \in Procs : q # p => call'[q] = call[q]
    BY <1>0, <1>2, Moved
  <2>2. QED
    BY <1>2, <2>1, RetreatAnchored
<1>3. ASSUME NEW p \in Producers, NEW d \in Decisions, NEW t \in 0 .. clock, PublishStart(p, d, t)
      PROVE  AnchorInvariant'
  <2>1. /\ call'[p] = Locals("publish", d, t, 0, LocalHead)
        /\ \A q \in Procs : q # p => call'[q] = call[q]
    BY Zenon, <1>0, <1>3, Replaced DEF PublishStart
  <2>2. call'[p].pc = "publish" /\ call'[p].prev = LocalHead
    BY <2>1 DEF Locals
  <2>3. external = LocalHead /\ UNCHANGED <<log, disp, external, late>>
    BY <1>3 DEF PublishStart, Admits, durable, register
  <2>4. QED
    BY <1>0, <2>1, <2>2, <2>3, OpeningAnchored
<1>4. ASSUME NEW p \in Consumers, ConsumeStart(p)
      PROVE  AnchorInvariant'
  <2>0. UNCHANGED <<log, disp, external, late>>
    BY <1>4 DEF ConsumeStart, durable, register
  <2>1. CASE Return(p)
    BY <1>0, <1>1, <2>0, <2>1
  <2>2. CASE Admits /\ call' = [call EXCEPT ![p] =
                    Locals("consume", "none", call[p].at, call[p].until, LocalHead)]
    <3>1. /\ call'[p] = Locals("consume", "none", call[p].at, call[p].until, LocalHead)
          /\ \A q \in Procs : q # p => call'[q] = call[q]
      BY Zenon, <1>0, <2>2, Replaced
    <3>2. call'[p].pc = "consume" /\ call'[p].prev = LocalHead
      BY <3>1 DEF Locals
    <3>3. external = LocalHead
      BY <2>2 DEF Admits
    <3>4. QED
      BY <1>0, <2>0, <3>1, <3>2, <3>3, OpeningAnchored
  <2>3. QED
    BY <1>4, <2>1, <2>2 DEF ConsumeStart
<1>5. ASSUME NEW p \in Consumers, NEW u \in 0 .. MaxTime + 1, ConsumerEnter(p, u)
      PROVE  AnchorInvariant'
  <2>1. /\ call'[p] = Locals("entered", "none", clock, u, Genesis)
        /\ \A q \in Procs : q # p => call'[q] = call[q]
    BY Zenon, <1>0, <1>5, Replaced DEF ConsumerEnter
  <2>2. call'[p].pc = "entered"
    BY <2>1 DEF Locals
  <2>3. UNCHANGED <<log, disp, external, late>>
    BY <1>5 DEF ConsumerEnter, durable, register
  <2>4. QED
    BY <1>0, <2>1, <2>2, <2>3, RetreatAnchored
<1>6. ASSUME NEW p \in Producers, PublishCommit(p)
      PROVE  AnchorInvariant'
  <2>1. CASE Return(p) /\ UNCHANGED durable
    BY <1>0, <1>1, <1>6, <2>1 DEF PublishCommit, durable, register
  <2>2. CASE /\ ~PublishRefused(p) /\ GoTo(p, "export") /\ disp' = disp
             /\ log' = Append(log, [decision |-> call[p].item, issued |-> call[p].at])
    <3>1. /\ call'[p].pc = "export" /\ call'[p].prev = call[p].prev
          /\ \A q \in Procs : q # p => call'[q] = call[q]
      BY <1>0, <2>2, Moved
    <3>2. call[p].pc = "publish" /\ call[p].prev = LocalHead
      BY <1>6, <2>2 DEF PublishCommit, At, PublishRefused
    <3>3. Len(log') = Len(log) + 1
      BY <1>0, <2>2 DEF QueueTypeOK
    <3>4. UNCHANGED <<external, late>>
      BY <1>6 DEF PublishCommit, register
    <3>5. QED
      BY <1>0, <2>2, <3>1, <3>2, <3>3, <3>4, CommitAnchored
  <2>3. QED
    BY <1>6, <2>1, <2>2 DEF PublishCommit
<1>7. ASSUME NEW p \in Consumers, ConsumeCommit(p)
      PROVE  AnchorInvariant'
  <2>1. CASE Return(p) /\ UNCHANGED durable
    BY <1>0, <1>1, <1>7, <2>1 DEF ConsumeCommit, durable, register
  <2>2. CASE /\ ~ConsumeRefused(p) /\ GoTo(p, "export") /\ log' = log
             /\ disp' = Append(disp, Disposition(p))
    <3>1. /\ call'[p].pc = "export" /\ call'[p].prev = call[p].prev
          /\ \A q \in Procs : q # p => call'[q] = call[q]
      BY <1>0, <2>2, Moved
    <3>2. call[p].pc = "consume" /\ call[p].prev = LocalHead
      BY <1>7, <2>2 DEF ConsumeCommit, At, ConsumeRefused
    <3>3. Len(disp') = Len(disp) + 1
      BY <1>0, <2>2 DEF QueueTypeOK
    <3>4. UNCHANGED <<external, late>>
      BY <1>7 DEF ConsumeCommit, register
    <3>5. QED
      BY <1>0, <2>2, <3>1, <3>2, <3>3, <3>4, CommitAnchored
  <2>3. QED
    BY <1>7, <2>1, <2>2 DEF ConsumeCommit
<1>8. ASSUME NEW p \in Procs, ExportAcknowledged(p) \/ ExportFails(p)
      PROVE  AnchorInvariant'
  <2>1. /\ call[p].pc = "export" /\ UNCHANGED <<log, disp>>
        /\ \/ external' = external
           \/ external = call[p].prev /\ external' = Successor(p)
        /\ late' \in {late, late \cup {[from |-> call[p].prev, to |-> Successor(p)]}}
    BY <1>8 DEF ExportAcknowledged, ExportFails, At, Accepts, durable, register
  <2>2. /\ AtMost(Successor(p), LocalHead) /\ Successor(p) \in Checkpoints
        /\ Total(Successor(p)) = Total(call[p].prev) + 1
    BY <1>0, <2>1, SuccessorTyped DEF AnchorInvariant, CallAnchored
  <2>3. external = call[p].prev => Successor(p) = LocalHead
    BY <1>0, <2>2, AcceptedIsHead DEF AnchorInvariant
  <2>4. \A r \in late' : AtMost(r.to, LocalHead) /\ Total(r.to) = Total(r.from) + 1
    BY <2>1, <2>2 DEF AnchorInvariant
  <2>5. \A q \in Procs : call'[q] = call[q] \/ call'[q].pc \notin {"publish", "consume", "export"}
    BY <1>0, <1>8, Moved DEF ExportAcknowledged, ExportFails
  <2>6. QED
    BY <2>1, <2>3, <2>4, <2>5, RegisterAnchored
<1>9. ASSUME NEW p \in Procs, SharedStep(p)
      PROVE  AnchorInvariant'
  <2>1. CASE Readback(p)
    BY <1>2, <2>1 DEF Readback, durable, register
  <2>2. CASE LatchCritical(p)
    BY <1>1, <2>2 DEF LatchCritical, register
  <2>3. CASE FinalReadState(p)
    <3>1. /\ call'[p].pc = "verify"
          /\ \A q \in Procs : q # p => call'[q] = call[q]
      BY <1>0, <2>3 DEF FinalReadState, QueueTypeOK
    <3>2. QED
      BY <2>3, <3>1, RetreatAnchored DEF FinalReadState, durable, register
  <2>4. CASE FinalVerify(p)
    BY <1>1, <1>2, <2>4 DEF FinalVerify, durable, register
  <2>5. QED
    BY <1>8, <1>9, <2>1, <2>2, <2>3, <2>4 DEF SharedStep
<1>10. ASSUME NEW r \in late, AcceptLate(r)
       PROVE  AnchorInvariant'
  <2>1. /\ AtMost(r.to, LocalHead) /\ Total(r.to) = Total(r.from) + 1
        /\ r.to \in Checkpoints
    BY <1>0 DEF AnchorInvariant, QueueTypeOK
  <2>2. external = r.from => r.to = LocalHead
    BY <1>0, <2>1, AcceptedIsHead DEF AnchorInvariant
  <2>3. external' \in {external, LocalHead}
    BY <1>10, <2>2 DEF AcceptLate
  <2>4. late' \subseteq late /\ UNCHANGED <<log, disp, call>>
    BY <1>10 DEF AcceptLate, durable
  <2>5. QED
    BY <2>3, <2>4, RegisterAnchored DEF AnchorInvariant
<1>11. ASSUME NEW p \in Procs, Crash(p) \/ ConsumerReturn(p)
       PROVE  AnchorInvariant'
  BY <1>1, <1>11 DEF Crash, ConsumerReturn, durable, register
<1>12. ASSUME Tick \/ SwitchArm \/ UNCHANGED vars
       PROVE  AnchorInvariant'
  <2>1. UNCHANGED <<log, disp, external, late, call>>
    BY <1>12 DEF Tick, SwitchArm, vars, durable, register
  <2>2. QED
    BY <2>1, RegisterAnchored DEF AnchorInvariant
<1>13. QED
  BY <1>0, <1>3, <1>4, <1>5, <1>6, <1>7, <1>9, <1>10, <1>11, <1>12
     DEF QueueNext, ProducerStep, ConsumerStep

(* Both invariants hold in every reachable state of the queue. *)
LEMMA AnchorAlways ==
    QueueSpec => [](TypeInvariant /\ AnchorInvariant)
<1>1. QueueInit => AnchorInvariant
  <2> SUFFICES ASSUME QueueInit PROVE AnchorInvariant
    OBVIOUS
  <2>1. \A p \in Procs : call[p] = Idle
    BY DEF QueueInit
  <2>2. \A p \in Procs : CallAnchored(p)
    BY <2>1, IdleTyped DEF CallAnchored
  <2>3. external = LocalHead
    BY DEF QueueInit, Genesis, LocalHead
  <2>4. QED
    BY <2>2, <2>3 DEF AnchorInvariant, AnchorWithinOne, QueueInit
<1>2. QED
  BY <1>1, TypeInit, TypeNext, AnchorNext, PTL DEF QueueSpec

(* However publishers, consumers, crashes and lost or late answers interleave, the
   register holds the local head or the checkpoint right before it. *)
THEOREM AnchorStaysWithinOne ==
    QueueSpec => []AnchorWithinOne
<1>1. AnchorInvariant => AnchorWithinOne
  BY DEF AnchorInvariant
<1>2. QED
  BY <1>1, AnchorAlways, PTL

----------------------------------------------------------------------------
(* A consumer between its commit and its return holds the position it took. *)
HoldLabels == {"export", "readback", "final", "verify", "return"}
Holds(p) == call[p].pc \in HoldLabels

(* A position is held by at most one consumer, and by none once it was emitted. *)
HoldInvariant ==
    /\ Len(disp) <= Len(log)
    /\ \A p \in Consumers : call[p].pc = "consume" => call[p].prev.con < call[p].prev.pub
    /\ \A p \in Consumers : Holds(p) => Taken(p) \in 1..Len(disp)
    /\ \A p \in Consumers : Holds(p) => \A n \in DOMAIN emitted : emitted[n].seq # Taken(p)
    /\ \A p, q \in Consumers : Holds(p) /\ Holds(q) /\ p # q => Taken(p) # Taken(q)
    /\ \A n \in DOMAIN emitted : emitted[n].seq \in 1..Len(disp)
    /\ EmittedFresh

(* A step that keeps tables and emissions, and lets consumers only give up or
   keep what they hold, keeps the invariant. *)
LEMMA QuietHolds ==
    ASSUME HoldInvariant, UNCHANGED <<log, disp, emitted>>,
           \A q \in Consumers :
              \/ call'[q].pc \notin HoldLabels \cup {"consume"}
              \/ Holds(q) /\ call'[q].pc \in HoldLabels /\ call'[q].prev = call[q].prev
              \/ call'[q] = call[q]
              \/ call'[q].pc = "consume" /\ call'[q].prev.con < call'[q].prev.pub
    PROVE  HoldInvariant'
<1>1. \A q \in Consumers : Holds(q)' => Holds(q) /\ Taken(q)' = Taken(q)
  BY DEF Holds, Taken, HoldLabels
<1>2. \A q \in Consumers : (call[q].pc = "consume" => call[q].prev.con < call[q].prev.pub)'
  BY DEF HoldInvariant, HoldLabels
<1>3. EmittedFresh'
  BY DEF HoldInvariant, EmittedFresh, Expires
<1>4. QED
  BY <1>1, <1>2, <1>3 DEF HoldInvariant

(* Appending to the log changes no older entry, so no expiry. *)
LEMMA PublishHolds ==
    ASSUME TypeInvariant, HoldInvariant, NEW p \in Producers, PublishCommit(p)
    PROVE  HoldInvariant'
<1>0. p \in Procs /\ p \notin Consumers /\ Consumers \subseteq Procs /\ QueueTypeOK
  BY QueueAssumption DEF Procs, TypeInvariant
<1>1. \A q \in Consumers : call'[q] = call[q]
  <2>1. Return(p) \/ GoTo(p, "export")
    BY DEF PublishCommit
  <2>2. CASE Return(p)
    BY <1>0, <2>2, Replaced DEF Return
  <2>3. CASE GoTo(p, "export")
    BY <1>0, <2>3, Moved
  <2>4. QED
    BY <2>1, <2>2, <2>3
<1>2. CASE UNCHANGED durable
  BY <1>1, <1>2, QuietHolds DEF PublishCommit, durable
<1>3. CASE /\ disp' = disp
           /\ log' = Append(log, [decision |-> call[p].item, issued |-> call[p].at])
  <2>1. emitted' = emitted
    BY DEF PublishCommit
  <2>2. /\ Len(log') = Len(log) + 1 /\ Len(log) \in Nat /\ Len(disp) \in Nat
        /\ \A n \in 1..Len(log) : log'[n] = log[n]
    BY <1>0, <1>3 DEF QueueTypeOK
  <2>3. \A n \in DOMAIN emitted : emitted[n].seq \in 1..Len(log)
    BY <2>2 DEF HoldInvariant
  <2>4. EmittedFresh'
    BY <2>1, <2>2, <2>3 DEF HoldInvariant, EmittedFresh, Expires
  <2>5. \A q \in Consumers : Holds(q)' = Holds(q) /\ Taken(q)' = Taken(q)
    BY <1>1 DEF Holds, Taken
  <2>6. QED
    BY <1>1, <1>3, <2>1, <2>2, <2>4, <2>5 DEF HoldInvariant
<1>4. QED
  BY <1>2, <1>3 DEF PublishCommit

(* A consumer's commit takes the first position nobody has taken. *)
LEMMA ConsumeHolds ==
    ASSUME TypeInvariant, HoldInvariant, NEW p \in Consumers, ConsumeCommit(p)
    PROVE  HoldInvariant'
<1>0. p \in Procs /\ Consumers \subseteq Procs /\ QueueTypeOK
  BY DEF Procs, TypeInvariant
<1>1. CASE Return(p) /\ UNCHANGED durable
  <2>1. /\ call'[p] = Idle
        /\ \A q \in Procs : q # p => call'[q] = call[q]
    BY Zenon, <1>0, <1>1, Replaced DEF Return
  <2>2. "idle" \notin HoldLabels \cup {"consume"}
    BY DEF HoldLabels
  <2>3. QED
    BY <1>0, <1>1, <2>1, <2>2, IdleTyped, QuietHolds DEF ConsumeCommit, durable
<1>2. CASE /\ ~ConsumeRefused(p) /\ GoTo(p, "export") /\ log' = log
           /\ disp' = Append(disp, Disposition(p))
  <2>1. /\ call'[p].pc = "export" /\ call'[p].prev = call[p].prev
        /\ \A q \in Procs : q # p => call'[q] = call[q]
    BY <1>0, <1>2, Moved
  <2>2. /\ emitted' = emitted /\ call[p].pc = "consume"
    BY DEF ConsumeCommit, At
  <2>3. /\ Len(disp') = Len(disp) + 1 /\ Len(disp) \in Nat /\ Len(log) \in Nat
    BY <1>0, <1>2 DEF QueueTypeOK
  <2>4. call[p].prev.con = Len(disp) /\ call[p].prev.pub = Len(log)
    BY <1>2 DEF ConsumeRefused, LocalHead
  <2>5. Taken(p)' = Len(disp) + 1 /\ Holds(p)' /\ Len(disp) < Len(log)
    BY <2>1, <2>2, <2>4 DEF Taken, Holds, HoldLabels, HoldInvariant
  <2>6. \A q \in Consumers : q # p => call'[q] = call[q] /\ Holds(q)' = Holds(q) /\ Taken(q)' = Taken(q)
    BY <1>0, <2>1 DEF Holds, Taken
  <2>7. EmittedFresh'
    BY <1>2, <2>2 DEF HoldInvariant, EmittedFresh, Expires
  <2>8. \A q \in Consumers : (call[q].pc = "consume" => call[q].prev.con < call[q].prev.pub)'
    BY <2>1, <2>6 DEF HoldInvariant
  <2>9. \A q \in Consumers : (Holds(q) => Taken(q) \in 1..Len(disp))'
    BY <2>3, <2>5, <2>6 DEF HoldInvariant
  <2>10. \A q \in Consumers : (Holds(q) => \A n \in DOMAIN emitted : emitted[n].seq # Taken(q))'
    BY <2>2, <2>3, <2>5, <2>6 DEF HoldInvariant
  <2>11. \A q, r \in Consumers : (Holds(q) /\ Holds(r) /\ q # r => Taken(q) # Taken(r))'
    BY <2>3, <2>5, <2>6 DEF HoldInvariant
  <2>12. \A n \in DOMAIN emitted' : emitted'[n].seq \in 1..Len(disp')
    BY <2>2, <2>3 DEF HoldInvariant
  <2>13. Len(disp') <= Len(log')
    BY <1>2, <2>3, <2>5
  <2>14. QED
    BY <2>7, <2>8, <2>9, <2>10, <2>11, <2>12, <2>13 DEF HoldInvariant
<1>3. QED
  BY <1>1, <1>2 DEF ConsumeCommit

(* The position handed on is given up in the same step, and is fresh. *)
LEMMA ReturnHolds ==
    ASSUME TypeInvariant, HoldInvariant, NEW p \in Consumers, ConsumerReturn(p)
    PROVE  HoldInvariant'
<1>0. p \in Procs /\ Consumers \subseteq Procs /\ QueueTypeOK
  BY DEF Procs, TypeInvariant
<1>1. /\ call'[p].pc = "idle"
      /\ \A q \in Procs : q # p => call'[q] = call[q]
  BY Zenon, <1>0, Replaced, IdleTyped DEF ConsumerReturn, Return
<1>2. call[p].pc = "return" /\ UNCHANGED <<log, disp>>
  BY DEF ConsumerReturn, At, durable
<1>3. /\ ~Holds(p)' /\ Holds(p) /\ call'[p].pc # "consume"
      /\ \A q \in Consumers : q # p => Holds(q)' = Holds(q) /\ Taken(q)' = Taken(q)
  BY <1>0, <1>1, <1>2 DEF Holds, HoldLabels, Taken
<1>4. CASE emitted' = emitted
  <2>1. \A q \in Consumers : \/ call'[q].pc \notin HoldLabels \cup {"consume"}
                             \/ call'[q] = call[q]
    BY <1>0, <1>1 DEF HoldLabels
  <2>2. QED
    BY <1>2, <1>4, <2>1, QuietHolds
<1>5. CASE HandsOn(p) /\ emitted' = Append(emitted, [seq |-> Taken(p), at |-> clock])
  <2>1. emitted \in Seq([seq : Nat, at : Nat]) /\ Taken(p) \in 1..Len(disp)
    BY <1>0, <1>3 DEF HoldInvariant, QueueTypeOK
  <2>2. /\ DOMAIN emitted' = 1..(Len(emitted) + 1) /\ DOMAIN emitted = 1..Len(emitted)
        /\ \A n \in 1..Len(emitted) : emitted'[n] = emitted[n]
        /\ emitted'[Len(emitted) + 1].seq = Taken(p) /\ emitted'[Len(emitted) + 1].at = clock
        /\ Len(emitted) \in Nat
    BY <1>5, <2>1
  <2>3. clock < Expires(Taken(p))
    BY <1>5 DEF HandsOn
  <2>4. \A n \in DOMAIN emitted' : n \in DOMAIN emitted \/ n = Len(emitted) + 1
    BY <2>2
  <2>5. EmittedFresh'
    BY <1>2, <2>2, <2>3, <2>4 DEF HoldInvariant, EmittedFresh, Expires
  <2>6. \A q \in Consumers : (Holds(q) => \A n \in DOMAIN emitted : emitted[n].seq # Taken(q))'
    <3> SUFFICES ASSUME NEW q \in Consumers, Holds(q)', NEW n \in DOMAIN emitted'
                 PROVE  emitted'[n].seq # Taken(q)'
      OBVIOUS
    <3>1. q # p /\ Holds(q) /\ Taken(q)' = Taken(q)
      BY <1>3
    <3>2. CASE n \in DOMAIN emitted
      BY <2>2, <3>1, <3>2 DEF HoldInvariant
    <3>3. CASE n = Len(emitted) + 1
      BY <1>3, <2>2, <3>1, <3>3 DEF HoldInvariant
    <3>4. QED
      BY <2>4, <3>2, <3>3
  <2>7. \A n \in DOMAIN emitted' : emitted'[n].seq \in 1..Len(disp')
    BY <1>2, <2>1, <2>2, <2>4 DEF HoldInvariant
  <2>8. \A q \in Consumers : (call[q].pc = "consume" => call[q].prev.con < call[q].prev.pub)'
    BY <1>0, <1>1, <1>3 DEF HoldInvariant
  <2>9. /\ Len(disp') <= Len(log')
        /\ \A q \in Consumers : (Holds(q) => Taken(q) \in 1..Len(disp))'
        /\ \A q, r \in Consumers : (Holds(q) /\ Holds(r) /\ q # r => Taken(q) # Taken(r))'
    BY <1>2, <1>3 DEF HoldInvariant
  <2>10. QED
    BY <2>5, <2>6, <2>7, <2>8, <2>9 DEF HoldInvariant
<1>6. QED
  BY <1>4, <1>5 DEF ConsumerReturn

(* Every step keeps the invariant on positions. *)
LEMMA HoldNext ==
    TypeInvariant /\ HoldInvariant /\ [QueueNext]_vars => HoldInvariant'
<1> SUFFICES ASSUME TypeInvariant, HoldInvariant, [QueueNext]_vars PROVE HoldInvariant'
  OBVIOUS
<1>0. /\ QueueTypeOK /\ Producers \subseteq Procs /\ Consumers \subseteq Procs
      /\ \A p \in Producers : p \notin Consumers
      /\ \A l \in {"idle", "publish", "entered", "latch"} : l \notin HoldLabels \cup {"consume"}
  BY QueueAssumption DEF TypeInvariant, Procs, HoldLabels
<1>1. ASSUME NEW p \in Procs, UNCHANGED <<log, disp, emitted>>,
             \A q \in Procs : q # p => call'[q] = call[q],
             call'[p].pc \in {"idle", "publish", "entered", "latch"}
      PROVE  HoldInvariant'
  BY <1>0, <1>1, QuietHolds
<1>2. ASSUME NEW p \in Procs, Return(p), UNCHANGED <<log, disp, emitted>>
      PROVE  HoldInvariant'
  BY Zenon, <1>0, <1>1, <1>2, Replaced, IdleTyped DEF Return
<1>3. ASSUME NEW p \in Procs, Holds(p), UNCHANGED <<log, disp, emitted>>,
             \A q \in Procs : q # p => call'[q] = call[q],
             call'[p].pc \in HoldLabels, call'[p].prev = call[p].prev
      PROVE  HoldInvariant'
  BY <1>0, <1>3, QuietHolds
<1>4. ASSUME NEW p \in Producers, NEW d \in Decisions, NEW t \in 0 .. clock, PublishStart(p, d, t)
      PROVE  HoldInvariant'
  <2>1. /\ call'[p] = Locals("publish", d, t, 0, LocalHead)
        /\ \A q \in Procs : q # p => call'[q] = call[q]
    BY Zenon, <1>0, <1>4, Replaced DEF PublishStart
  <2>2. call'[p].pc = "publish"
    BY <2>1 DEF Locals
  <2>3. QED
    BY <1>0, <1>1, <1>4, <2>1, <2>2 DEF PublishStart, durable
<1>5. ASSUME NEW p \in Consumers, NEW u \in 0 .. MaxTime + 1, ConsumerEnter(p, u)
      PROVE  HoldInvariant'
  <2>1. /\ call'[p] = Locals("entered", "none", clock, u, Genesis)
        /\ \A q \in Procs : q # p => call'[q] = call[q]
    BY Zenon, <1>0, <1>5, Replaced DEF ConsumerEnter
  <2>2. call'[p].pc = "entered"
    BY <2>1 DEF Locals
  <2>3. QED
    BY <1>0, <1>1, <1>5, <2>1, <2>2 DEF ConsumerEnter, durable
<1>6. ASSUME NEW p \in Consumers, ConsumeStart(p)
      PROVE  HoldInvariant'
  <2>0. UNCHANGED <<log, disp, emitted>>
    BY <1>6 DEF ConsumeStart, durable
  <2>1. CASE Return(p)
    BY <1>0, <1>2, <2>0, <2>1
  <2>2. CASE NextIsReadable(p) /\ call' = [call EXCEPT ![p] =
                    Locals("consume", "none", call[p].at, call[p].until, LocalHead)]
    <3>1. /\ call'[p] = Locals("consume", "none", call[p].at, call[p].until, LocalHead)
          /\ \A q \in Procs : q # p => call'[q] = call[q]
      BY Zenon, <1>0, <2>2, Replaced
    <3>2. call'[p].pc = "consume" /\ call'[p].prev.con < call'[p].prev.pub
      BY <2>2, <3>1 DEF Locals, LocalHead, NextIsReadable
    <3>3. QED
      BY <1>0, <2>0, <3>1, <3>2, QuietHolds
  <2>3. QED
    BY <1>6, <2>1, <2>2 DEF ConsumeStart
<1>7. ASSUME NEW p \in Procs, SharedStep(p)
      PROVE  HoldInvariant'
  <2>1. CASE ExportAcknowledged(p)
    <3>1. /\ call'[p].pc = "readback" /\ call'[p].prev = call[p].prev
          /\ \A q \in Procs : q # p => call'[q] = call[q]
      BY <1>0, <2>1, Moved DEF ExportAcknowledged
    <3>2. Holds(p) /\ "readback" \in HoldLabels /\ UNCHANGED <<log, disp, emitted>>
      BY <2>1 DEF ExportAcknowledged, At, Holds, HoldLabels, durable
    <3>3. QED
      BY <1>3, <3>1, <3>2
  <2>2. CASE ExportFails(p)
    <3>1. /\ call'[p].pc = "latch"
          /\ \A q \in Procs : q # p => call'[q] = call[q]
      BY <1>0, <2>2, Moved DEF ExportFails
    <3>2. QED
      BY Zenon, <1>1, <2>2, <3>1 DEF ExportFails, durable
  <2>3. CASE Readback(p)
    <3>0. UNCHANGED <<log, disp, emitted>> /\ Holds(p)
      BY <2>3 DEF Readback, durable, At, Holds, HoldLabels
    <3>1. /\ call'[p].pc \in {"final", "latch"} /\ call'[p].prev = call[p].prev
          /\ \A q \in Procs : q # p => call'[q] = call[q]
      BY <1>0, <2>3, Moved DEF Readback
    <3>2. "final" \in HoldLabels
      BY DEF HoldLabels
    <3>3. QED
      BY <1>1, <1>3, <3>0, <3>1, <3>2
  <2>4. CASE LatchCritical(p)
    BY <1>2, <2>4 DEF LatchCritical
  <2>5. CASE FinalReadState(p)
    <3>1. /\ call'[p].pc = "verify" /\ call'[p].prev = call[p].prev
          /\ \A q \in Procs : q # p => call'[q] = call[q]
      BY <1>0, <2>5 DEF FinalReadState, QueueTypeOK
    <3>2. Holds(p) /\ "verify" \in HoldLabels /\ UNCHANGED <<log, disp, emitted>>
      BY <2>5 DEF FinalReadState, At, Holds, HoldLabels, durable
    <3>3. QED
      BY <1>3, <3>1, <3>2
  <2>6. CASE FinalVerify(p)
    <3>0. UNCHANGED <<log, disp, emitted>> /\ Holds(p) /\ "return" \in HoldLabels
      BY <2>6 DEF FinalVerify, durable, At, Holds, HoldLabels
    <3>1. CASE Return(p)
      BY <1>2, <3>0, <3>1
    <3>2. CASE GoTo(p, "return")
      BY <1>0, <1>3, <3>0, <3>2, Moved
    <3>3. QED
      BY <2>6, <3>1, <3>2 DEF FinalVerify
  <2>7. QED
    BY <1>7, <2>1, <2>2, <2>3, <2>4, <2>5, <2>6 DEF SharedStep
<1>8. ASSUME NEW p \in Procs, Crash(p) PROVE HoldInvariant'
  BY <1>2, <1>8 DEF Crash, durable
<1>9. ASSUME (\E r \in late : AcceptLate(r)) \/ Tick \/ SwitchArm \/ UNCHANGED vars
      PROVE  HoldInvariant'
  <2>1. UNCHANGED <<log, disp, call, emitted>>
    BY <1>9 DEF AcceptLate, Tick, SwitchArm, vars, durable
  <2>2. QED
    BY <2>1, QuietHolds
<1>10. QED
  BY <1>4, <1>5, <1>6, <1>7, <1>8, <1>9, PublishHolds, ConsumeHolds, ReturnHolds
     DEF QueueNext, ProducerStep, ConsumerStep

(* Both invariants hold throughout. *)
LEMMA HoldAlways ==
    QueueSpec => [](TypeInvariant /\ HoldInvariant)
<1>1. QueueInit => HoldInvariant
  <2> SUFFICES ASSUME QueueInit PROVE HoldInvariant
    OBVIOUS
  <2>1. \A p \in Consumers : call[p] = Idle
    BY DEF QueueInit, Procs
  <2>2. \A p \in Consumers : ~Holds(p) /\ call[p].pc # "consume"
    BY <2>1, IdleTyped DEF Holds, HoldLabels
  <2>3. DOMAIN emitted = {} /\ Len(disp) = 0 /\ Len(log) = 0
    BY DEF QueueInit
  <2>4. QED
    BY <2>2, <2>3 DEF HoldInvariant, EmittedFresh
<1>2. QED
  BY <1>1, TypeInit, TypeNext, HoldNext, PTL DEF QueueSpec

(* A decision reaches the risk pipeline only inside its window. *)
THEOREM EmissionsAreFresh ==
    QueueSpec => []EmittedFresh
<1>1. HoldInvariant => EmittedFresh
  BY DEF HoldInvariant
<1>2. QED
  BY <1>1, HoldAlways, PTL

(* A latch row refuses every call that is not yet past its opening check, also
   after a concurrent commit has cleared the state column. *)
THEOREM LatchRefusesLaterCalls ==
    QueueSpec => LatchStopsTheQueue
<1> DEFINE Stops == latch => \A p \in Procs :
              call'[p].pc \in {"publish", "consume"} => call'[p].pc = call[p].pc
<1>1. ASSUME TypeInvariant, [QueueNext]_vars PROVE [Stops]_vars
  <2> SUFFICES ASSUME latch, NEW q \in Procs, call'[q].pc \in {"publish", "consume"}
               PROVE  call'[q].pc = call[q].pc
    OBVIOUS
  <2>0. /\ QueueTypeOK /\ Producers \subseteq Procs /\ Consumers \subseteq Procs
        /\ ~Admits
    BY <1>1 DEF TypeInvariant, Procs, Admits, VerifyLatch
  <2>1. ASSUME NEW p \in Procs, Return(p) PROVE call'[q].pc = call[q].pc
    BY <2>0, <2>1, Replaced, IdleTyped DEF Return
  <2>2. ASSUME NEW p \in Procs, NEW label \in {"export", "readback", "latch", "final", "return"},
               GoTo(p, label)
        PROVE  call'[q].pc = call[q].pc
    BY <2>0, <2>2, Moved
  <2>3. ASSUME NEW p \in Producers, ProducerStep(p) PROVE call'[q].pc = call[q].pc
    <3>1. Return(p) \/ GoTo(p, "export")
      BY Zenon, <2>0, <2>3 DEF ProducerStep, PublishStart, PublishCommit
    <3>2. QED
      BY <2>0, <2>1, <2>2, <3>1
  <2>4. ASSUME NEW p \in Consumers, NEW u \in 0 .. MaxTime + 1, ConsumerEnter(p, u)
        PROVE  call'[q].pc = call[q].pc
    <3>1. /\ call'[p] = Locals("entered", "none", clock, u, Genesis)
          /\ \A r \in Procs : r # p => call'[r] = call[r]
      BY Zenon, <2>0, <2>4, Replaced DEF ConsumerEnter
    <3>2. call'[p].pc = "entered"
      BY <3>1 DEF Locals
    <3>3. QED
      BY <2>0, <3>1, <3>2
  <2>5. ASSUME NEW p \in Consumers, ConsumerStep(p) PROVE call'[q].pc = call[q].pc
    <3>1. CASE \E u \in 0 .. MaxTime + 1 : ConsumerEnter(p, u)
      BY <2>4, <3>1
    <3>2. CASE ConsumeStart(p)
      BY <2>0, <2>1, <3>2 DEF ConsumeStart
    <3>3. CASE ConsumeCommit(p)
      BY Zenon, <2>0, <2>1, <2>2, <3>3 DEF ConsumeCommit
    <3>4. CASE ConsumerReturn(p)
      BY <2>0, <2>1, <3>4 DEF ConsumerReturn
    <3>5. QED
      BY <2>5, <3>1, <3>2, <3>3, <3>4 DEF ConsumerStep
  <2>6. ASSUME NEW p \in Procs, SharedStep(p) PROVE call'[q].pc = call[q].pc
    <3>1. CASE FinalReadState(p)
      BY <2>0, <3>1 DEF FinalReadState, QueueTypeOK
    <3>2. CASE LatchCritical(p)
      BY <2>1, <3>2 DEF LatchCritical
    <3>3. CASE FinalVerify(p)
      BY <2>1, <2>2, <3>3 DEF FinalVerify
    <3>4. CASE Readback(p)
      BY <2>2, <3>4 DEF Readback
    <3>5. CASE ExportAcknowledged(p) \/ ExportFails(p)
      BY <2>2, <3>5 DEF ExportAcknowledged, ExportFails
    <3>6. QED
      BY <2>6, <3>1, <3>2, <3>3, <3>4, <3>5 DEF SharedStep
  <2>7. CASE \/ \E r \in late : AcceptLate(r)
             \/ Tick \/ SwitchArm \/ UNCHANGED vars
    BY <2>7 DEF AcceptLate, Tick, SwitchArm, vars
  <2>8. ASSUME NEW p \in Procs, Crash(p) PROVE call'[q].pc = call[q].pc
    BY <2>1, <2>8 DEF Crash
  <2>9. QED
    BY <1>1, <2>3, <2>5, <2>6, <2>7, <2>8 DEF QueueNext
<1>2. QED
  BY <1>1, TypeInit, TypeNext, PTL DEF QueueSpec, LatchStopsTheQueue

----------------------------------------------------------------------------
queueBar == [n \in DOMAIN log |-> log[n].decision]
usedBar == [n \in DOMAIN emitted |-> emitted[n].seq]

(* Projecting a field commutes with appending. *)
LEMMA ProjectDecision ==
    ASSUME NEW s \in Seq([decision : Decisions, issued : Nat]),
           NEW x \in [decision : Decisions, issued : Nat]
    PROVE  [n \in DOMAIN Append(s, x) |-> Append(s, x)[n].decision]
             = Append([n \in DOMAIN s |-> s[n].decision], x.decision)
<1> DEFINE f == [n \in DOMAIN s |-> s[n].decision]
<1>1. /\ Len(s) \in Nat /\ DOMAIN s = 1..Len(s) /\ DOMAIN Append(s, x) = 1..(Len(s) + 1)
      /\ \A n \in 1..Len(s) : Append(s, x)[n] = s[n]
      /\ Append(s, x)[Len(s) + 1] = x
  OBVIOUS
<1>2. f \in Seq(Decisions) /\ Len(f) = Len(s)
  <2>1. \A n \in 1..Len(s) : s[n] \in [decision : Decisions, issued : Nat]
    BY SequenceElements, Zenon
  <2>2. \A n \in 1..Len(s) : s[n].decision \in Decisions
    BY <2>1
  <2>3. QED
    BY <1>1, <2>2
<1>3. /\ DOMAIN Append(f, x.decision) = 1..(Len(s) + 1)
      /\ \A n \in 1..Len(s) : Append(f, x.decision)[n] = s[n].decision
      /\ Append(f, x.decision)[Len(s) + 1] = x.decision
  BY <1>1, <1>2
<1>4. QED
  BY <1>1, <1>3

(* The same for the positions that left. *)
LEMMA ProjectPosition ==
    ASSUME NEW s \in Seq([seq : Nat, at : Nat]), NEW x \in [seq : Nat, at : Nat]
    PROVE  [n \in DOMAIN Append(s, x) |-> Append(s, x)[n].seq]
             = Append([n \in DOMAIN s |-> s[n].seq], x.seq)
<1> DEFINE f == [n \in DOMAIN s |-> s[n].seq]
<1>1. /\ Len(s) \in Nat /\ DOMAIN s = 1..Len(s) /\ DOMAIN Append(s, x) = 1..(Len(s) + 1)
      /\ \A n \in 1..Len(s) : Append(s, x)[n] = s[n]
      /\ Append(s, x)[Len(s) + 1] = x
  OBVIOUS
<1>2. f \in Seq(Nat) /\ Len(f) = Len(s)
  <2>1. \A n \in 1..Len(s) : s[n] \in [seq : Nat, at : Nat]
    BY SequenceElements, Zenon
  <2>2. \A n \in 1..Len(s) : s[n].seq \in Nat
    BY <2>1
  <2>3. QED
    BY <1>1, <2>2
<1>3. /\ DOMAIN Append(f, x.seq) = 1..(Len(s) + 1)
      /\ \A n \in 1..Len(s) : Append(f, x.seq)[n] = s[n].seq
      /\ Append(f, x.seq)[Len(s) + 1] = x.seq
  BY <1>1, <1>2
<1>4. QED
  BY <1>1, <1>3

(* publish enters a decision that is not in the queue yet. *)
LEMMA PublishEnqueues ==
    ASSUME TypeInvariant, NEW p \in Producers, PublishCommit(p)
    PROVE  \/ UNCHANGED <<queueBar, disp, usedBar>>
           \/ \E d \in Decisions : Promise!Enqueue(d)
<1>1. CASE UNCHANGED durable
  BY <1>1 DEF PublishCommit, durable, queueBar, usedBar
<1>2. CASE /\ ~PublishRefused(p) /\ UNCHANGED disp
           /\ log' = Append(log, [decision |-> call[p].item, issued |-> call[p].at])
  <2> DEFINE x == [decision |-> call[p].item, issued |-> call[p].at]
  <2>1. call[p].item \in Decisions /\ call[p].at \in Nat
    BY DEF PublishCommit, At, TypeInvariant, ItemTyped, QueueTypeOK, CallRecords, Procs
  <2>2. x \in [decision : Decisions, issued : Nat] /\ x.decision = call[p].item
    BY <2>1
  <2>3. log \in Seq([decision : Decisions, issued : Nat]) /\ log' = Append(log, x)
    BY <1>2 DEF TypeInvariant, QueueTypeOK
  <2> HIDE DEF x
  <2>4. queueBar' = Append(queueBar, call[p].item)
    BY <2>2, <2>3, ProjectDecision DEF queueBar
  <2>5. \A n \in DOMAIN queueBar : queueBar[n] # call[p].item
    BY <1>2 DEF queueBar, PublishRefused
  <2>6. usedBar' = usedBar
    BY DEF PublishCommit, usedBar
  <2>7. PICK d \in Decisions : d = call[p].item
    BY <2>1
  <2>8. Promise!Enqueue(d)
    BY <1>2, <2>4, <2>5, <2>6, <2>7 DEF Promise!Enqueue, Promise!Entered, queueBar, usedBar
  <2>9. QED
    BY <2>8
<1>3. QED
  BY <1>1, <1>2 DEF PublishCommit

(* consume_next settles the next position. *)
LEMMA ConsumeSettles ==
    ASSUME TypeInvariant, HoldInvariant, NEW p \in Consumers, ConsumeCommit(p)
    PROVE  \/ UNCHANGED <<queueBar, disp, usedBar>>
           \/ \E o \in {"CONSUMED", "EXPIRED_DISCARDED"} : Promise!Settle(o)
<1>0. UNCHANGED <<queueBar, usedBar>>
  BY DEF ConsumeCommit, durable, queueBar, usedBar
<1>1. CASE UNCHANGED durable
  BY <1>0, <1>1 DEF durable
<1>2. CASE ~ConsumeRefused(p) /\ disp' = Append(disp, Disposition(p))
  <2>1. call[p].prev.con < call[p].prev.pub
    BY DEF ConsumeCommit, At, HoldInvariant
  <2>2. Len(disp) < Len(log)
    BY <1>2, <2>1 DEF ConsumeRefused, LocalHead
  <2>3. Len(queueBar) = Len(log)
    BY DEF queueBar, TypeInvariant, QueueTypeOK
  <2>4. Disposition(p) \in {"CONSUMED", "EXPIRED_DISCARDED"}
    BY DEF Disposition
  <2>5. Promise!Settle(Disposition(p))
    BY <1>0, <1>2, <2>2, <2>3 DEF Promise!Settle, queueBar, usedBar
  <2>6. QED
    BY <2>4, <2>5
<1>3. QED
  BY <1>1, <1>2 DEF ConsumeCommit

(* A position is handed on once, and only when it was settled as CONSUMED. *)
LEMMA ReturnLeaves ==
    ASSUME TypeInvariant, HoldInvariant, NEW p \in Consumers, ConsumerReturn(p)
    PROVE  \/ UNCHANGED <<queueBar, disp, usedBar>>
           \/ \E n \in DOMAIN disp : Promise!Leave(n)
<1>0. UNCHANGED <<queueBar, disp>>
  BY DEF ConsumerReturn, durable, queueBar
<1>1. CASE emitted' = emitted
  BY <1>0, <1>1 DEF usedBar
<1>2. CASE HandsOn(p) /\ emitted' = Append(emitted, [seq |-> Taken(p), at |-> clock])
  <2>1. Holds(p)
    BY DEF ConsumerReturn, At, Holds, HoldLabels
  <2>2. /\ Taken(p) \in 1..Len(disp) /\ Len(disp) \in Nat /\ DOMAIN disp = 1..Len(disp)
        /\ clock \in Nat /\ emitted \in Seq([seq : Nat, at : Nat])
    BY <2>1 DEF HoldInvariant, TypeInvariant, QueueTypeOK
  <2> DEFINE x == [seq |-> Taken(p), at |-> clock]
  <2>3. x \in [seq : Nat, at : Nat] /\ x.seq = Taken(p) /\ emitted' = Append(emitted, x)
    BY <1>2, <2>2
  <2> HIDE DEF x
  <2>4. usedBar' = Append(usedBar, Taken(p))
    BY <2>2, <2>3, ProjectPosition DEF usedBar
  <2>5. \A n \in DOMAIN usedBar : usedBar[n] # Taken(p)
    BY <2>1 DEF usedBar, HoldInvariant
  <2>6. disp[Taken(p)] = "CONSUMED"
    BY <1>2 DEF HandsOn
  <2>7. PICK n \in DOMAIN disp : n = Taken(p)
    BY <2>2
  <2>8. Promise!Leave(n)
    BY Zenon, <1>0, <2>4, <2>5, <2>6, <2>7 DEF Promise!Leave, Promise!Left, queueBar, usedBar
  <2>9. QED
    BY <2>8
<1>3. QED
  BY <1>1, <1>2 DEF ConsumerReturn

(* The store, with its races, crashes and lost answers, implements the at-most-once
   queue, for any number of producers and consumers. *)
THEOREM QueueIsAtMostOnce ==
    QueueSpec => ImplementsAtMostOnce
<1>1. QueueInit => Promise!AbstractInit
  BY DEF QueueInit, Promise!AbstractInit
<1>2. ASSUME TypeInvariant, HoldInvariant, [QueueNext]_vars
      PROVE  [Promise!AbstractNext]_(Promise!abstractVars)
  <2>1. ASSUME UNCHANGED <<log, disp, emitted>>
        PROVE  UNCHANGED Promise!abstractVars
    BY <2>1 DEF Promise!abstractVars
  <2>2. ASSUME UNCHANGED <<queueBar, disp, usedBar>>
        PROVE  UNCHANGED Promise!abstractVars
    BY <2>2 DEF Promise!abstractVars, queueBar, usedBar
  <2>3. ASSUME NEW p \in Producers, PublishCommit(p)
        PROVE  [Promise!AbstractNext]_(Promise!abstractVars)
    BY <1>2, <2>2, <2>3, PublishEnqueues DEF Promise!AbstractNext
  <2>4. ASSUME NEW p \in Consumers, ConsumeCommit(p)
        PROVE  [Promise!AbstractNext]_(Promise!abstractVars)
    BY <1>2, <2>2, <2>4, ConsumeSettles DEF Promise!AbstractNext
  <2>5. ASSUME NEW p \in Consumers, ConsumerReturn(p)
        PROVE  [Promise!AbstractNext]_(Promise!abstractVars)
    BY <1>2, <2>2, <2>5, ReturnLeaves DEF Promise!AbstractNext
  <2>6. \/ \E p \in Producers : PublishCommit(p)
        \/ \E p \in Consumers : ConsumeCommit(p) \/ ConsumerReturn(p)
        \/ UNCHANGED <<log, disp, emitted>>
    <3>1. ASSUME NEW p \in Procs, SharedStep(p) \/ Crash(p)
          PROVE  UNCHANGED <<log, disp, emitted>>
      BY <3>1 DEF SharedStep, ExportAcknowledged, ExportFails, Readback, LatchCritical,
                  FinalReadState, FinalVerify, Crash, durable
    <3>2. ASSUME NEW p \in Producers, ProducerStep(p), ~PublishCommit(p)
          PROVE  UNCHANGED <<log, disp, emitted>>
      BY <3>2 DEF ProducerStep, PublishStart, durable
    <3>3. ASSUME NEW p \in Consumers, ConsumerStep(p), ~ConsumeCommit(p), ~ConsumerReturn(p)
          PROVE  UNCHANGED <<log, disp, emitted>>
      BY <3>3 DEF ConsumerStep, ConsumerEnter, ConsumeStart, durable
    <3>4. ASSUME (\E r \in late : AcceptLate(r)) \/ Tick \/ SwitchArm \/ UNCHANGED vars
          PROVE  UNCHANGED <<log, disp, emitted>>
      BY <3>4 DEF AcceptLate, Tick, SwitchArm, vars, durable
    <3>5. QED
      BY <1>2, <3>1, <3>2, <3>3, <3>4 DEF QueueNext
  <2>7. QED
    BY <2>1, <2>3, <2>4, <2>5, <2>6
<1>3. QED
  BY <1>1, <1>2, HoldAlways, PTL DEF QueueSpec, ImplementsAtMostOnce, Promise!AbstractSpec

----------------------------------------------------------------------------
(* The queue under the register's custody: its rows, and the rows the register's
   checkpoint commits to. *)
Custody == INSTANCE AnchoredChain WITH
    length <- Len(log) + Len(disp),
    anchored <- external.pub + external.con

(* Rows are added one at a time and only while the register commits to all of them,
   and the register only ever moves on to the whole store: the same promise as the
   supervisor's receipt log. *)
QueueUnderCustody == Custody!ChainSpec

(* When the tables stay and the register moves by one row, if it moves, it moves to
   all of the store. *)
LEMMA RegisterAnchors ==
    ASSUME QueueTypeOK, QueueTypeOK', AnchorWithinOne, AnchorWithinOne',
           UNCHANGED <<log, disp>>,
           external' = external \/ Total(external') = Total(external) + 1
    PROVE  Custody!Anchor \/ UNCHANGED <<Len(log) + Len(disp), external.pub + external.con>>
<1>1. /\ LocalHead.pub = Len(log) /\ LocalHead.con = Len(disp)
      /\ Len(log) \in Nat /\ Len(disp) \in Nat /\ LocalHead' = LocalHead
  BY LocalHeadTyped DEF LocalHead
<1>2. /\ external.pub \in Nat /\ external.con \in Nat
      /\ external'.pub \in Nat /\ external'.con \in Nat
  BY DEF QueueTypeOK, Checkpoints
<1>3. CASE external' = external
  BY <1>3
<1>4. CASE Total(external') = Total(external) + 1
  <2>1. \/ Len(log) + Len(disp) = external.pub + external.con
        \/ Len(log) + Len(disp) = external.pub + external.con + 1
    <3>1. \/ external.pub = Len(log) /\ external.con = Len(disp)
          \/ external.pub + 1 = Len(log) /\ external.con = Len(disp)
          \/ external.pub = Len(log) /\ external.con + 1 = Len(disp)
      BY Zenon, <1>1 DEF AnchorWithinOne
    <3>2. PICK a \in Nat, b \in Nat, c \in Nat, d \in Nat :
              a = Len(log) /\ b = Len(disp) /\ c = external.pub /\ d = external.con
      BY Zenon, <1>1, <1>2
    <3>3. \/ c = a /\ d = b
          \/ c + 1 = a /\ d = b
          \/ c = a /\ d + 1 = b
      BY Zenon, <3>1, <3>2
    <3>4. a + b = c + d \/ a + b = c + d + 1
      BY <3>3
    <3>5. QED
      BY Zenon, <3>2, <3>4
  <2>3. \/ Len(log) + Len(disp) = external'.pub + external'.con
        \/ Len(log) + Len(disp) = external'.pub + external'.con + 1
    <3>1. \/ external'.pub = Len(log) /\ external'.con = Len(disp)
          \/ external'.pub + 1 = Len(log) /\ external'.con = Len(disp)
          \/ external'.pub = Len(log) /\ external'.con + 1 = Len(disp)
      BY Zenon, <1>1 DEF AnchorWithinOne
    <3>2. PICK a \in Nat, b \in Nat, c \in Nat, d \in Nat :
              a = Len(log) /\ b = Len(disp) /\ c = external'.pub /\ d = external'.con
      BY Zenon, <1>1, <1>2
    <3>3. \/ c = a /\ d = b
          \/ c + 1 = a /\ d = b
          \/ c = a /\ d + 1 = b
      BY Zenon, <3>1, <3>2
    <3>4. a + b = c + d \/ a + b = c + d + 1
      BY <3>3
    <3>5. QED
      BY Zenon, <3>2, <3>4
  <2>4. external'.pub + external'.con = Len(log) + Len(disp)
    BY <1>1, <1>2, <1>4, <2>1, <2>3 DEF Total
  <2>5. QED
    BY <2>4 DEF Custody!Anchor
<1>5. QED
  BY <1>3, <1>4

(* A commit adds one row to a store that the register commits to. *)
LEMMA CommitGrows ==
    ASSUME QueueTypeOK, AnchorInvariant, NEW p \in Procs,
           external' = external, call[p].pc \in {"publish", "consume"}, call[p].prev = LocalHead,
           \/ Len(log') = Len(log) + 1 /\ disp' = disp
           \/ Len(disp') = Len(disp) + 1 /\ log' = log
    PROVE  Custody!Grow
<1>1. external = LocalHead
  BY Zenon DEF AnchorInvariant, CallAnchored
<1>2. /\ LocalHead.pub = Len(log) /\ LocalHead.con = Len(disp)
      /\ Len(log) \in Nat /\ Len(disp) \in Nat
  BY LocalHeadTyped
<1>3. external.pub + external.con = Len(log) + Len(disp)
  BY <1>1, <1>2
<1>4. Len(log') + Len(disp') = Len(log) + Len(disp) + 1
  BY <1>2
<1>5. QED
  BY <1>3, <1>4 DEF Custody!Grow

(* A request the register takes up commits to one row more than it holds. *)
LEMMA RegisterMovesOn ==
    ASSUME QueueTypeOK, AnchorInvariant,
           \/ \E p \in Procs : SharedStep(p) \/ Crash(p)
           \/ \E r \in late : AcceptLate(r)
    PROVE  /\ UNCHANGED <<log, disp>>
           /\ external' = external \/ Total(external') = Total(external) + 1
<1>1. ASSUME NEW p \in Procs, ExportAcknowledged(p) \/ ExportFails(p)
      PROVE  /\ UNCHANGED <<log, disp>>
             /\ \/ external' = external
                \/ external = call[p].prev /\ external' = Successor(p)
  BY Zenon, <1>1 DEF ExportAcknowledged, ExportFails, Accepts, durable, register
<1>2. ASSUME NEW p \in Procs, Readback(p) \/ LatchCritical(p) \/ FinalReadState(p) \/ FinalVerify(p) \/ Crash(p)
      PROVE  UNCHANGED <<log, disp, external>>
  BY Zenon, <1>2 DEF Readback, LatchCritical, FinalReadState, FinalVerify, Crash, durable, register
<1>3. ASSUME NEW r \in late, AcceptLate(r)
      PROVE  /\ UNCHANGED <<log, disp>>
             /\ \/ external' = external
                \/ external = r.from /\ external' = r.to
  BY <1>3 DEF AcceptLate, durable
<1>4. \A p \in Procs : Total(Successor(p)) = Total(call[p].prev) + 1
  BY SuccessorTyped
<1>5. \A r \in late : Total(r.to) = Total(r.from) + 1
  BY Zenon DEF AnchorInvariant
<1>6. QED
  BY Zenon, <1>1, <1>2, <1>3, <1>4, <1>5 DEF SharedStep

(* The signed queue keeps the promise of a chain under external custody, however
   publishers, consumers, crashes and lost or late answers interleave. *)
THEOREM QueueStaysUnderCustody ==
    QueueSpec => QueueUnderCustody
<1>1. QueueInit => Custody!ChainInit
  BY DEF QueueInit, Genesis, Custody!ChainInit
<1>2. ASSUME TypeInvariant, TypeInvariant', AnchorInvariant, AnchorInvariant', [QueueNext]_vars
      PROVE  [Custody!Grow \/ Custody!Anchor]_<<Len(log) + Len(disp), external.pub + external.con>>
  <2>0. QueueTypeOK /\ QueueTypeOK' /\ AnchorWithinOne /\ AnchorWithinOne'
    BY Zenon, <1>2 DEF TypeInvariant, AnchorInvariant
  <2>1. ASSUME NEW p \in Producers, PublishCommit(p)
        PROVE  Custody!Grow \/ UNCHANGED <<log, disp, external>>
    <3>1. CASE PublishRefused(p)
      BY Zenon, <2>1, <3>1 DEF PublishCommit, durable, register
    <3>2. CASE ~PublishRefused(p)
      <4>1. /\ external' = external /\ call[p].pc = "publish" /\ call[p].prev = LocalHead /\ disp' = disp
            /\ log' = Append(log, [decision |-> call[p].item, issued |-> call[p].at])
        BY Zenon, <2>1, <3>2 DEF PublishCommit, PublishRefused, At, register
      <4>2. Len(log') = Len(log) + 1
        BY <2>0, <4>1 DEF QueueTypeOK
      <4>3. QED
        BY <1>2, <2>0, <4>1, <4>2, CommitGrows DEF Procs
    <3>3. QED
      BY <3>1, <3>2
  <2>2. ASSUME NEW p \in Consumers, ConsumeCommit(p)
        PROVE  Custody!Grow \/ UNCHANGED <<log, disp, external>>
    <3>1. CASE ConsumeRefused(p)
      BY Zenon, <2>2, <3>1 DEF ConsumeCommit, durable, register
    <3>2. CASE ~ConsumeRefused(p)
      <4>1. /\ external' = external /\ call[p].pc = "consume" /\ call[p].prev = LocalHead /\ log' = log
            /\ disp' = Append(disp, Disposition(p))
        BY Zenon, <2>2, <3>2 DEF ConsumeCommit, ConsumeRefused, At, register
      <4>2. Len(disp') = Len(disp) + 1
        BY <2>0, <4>1 DEF QueueTypeOK
      <4>3. QED
        BY <1>2, <2>0, <4>1, <4>2, CommitGrows DEF Procs
    <3>3. QED
      BY <3>1, <3>2
  <2>3. ASSUME NEW p \in Producers, ProducerStep(p), ~PublishCommit(p)
        PROVE  UNCHANGED <<log, disp, external>>
    BY <2>3 DEF ProducerStep, PublishStart, durable, register
  <2>4. ASSUME NEW p \in Consumers, ConsumerStep(p), ~ConsumeCommit(p)
        PROVE  UNCHANGED <<log, disp, external>>
    BY <2>4 DEF ConsumerStep, ConsumerEnter, ConsumeStart, ConsumerReturn, durable, register
  <2>5. ASSUME Tick \/ SwitchArm \/ UNCHANGED vars
        PROVE  UNCHANGED <<log, disp, external>>
    BY <2>5 DEF Tick, SwitchArm, vars, durable, register
  <2>6. \/ Custody!Grow
        \/ UNCHANGED <<log, disp>> /\ (external' = external \/ Total(external') = Total(external) + 1)
    BY Zenon, <1>2, <2>0, <2>1, <2>2, <2>3, <2>4, <2>5, RegisterMovesOn DEF QueueNext
  <2>7. QED
    BY Zenon, <2>0, <2>6, RegisterAnchors
<1>3. QED
  BY <1>1, <1>2, AnchorAlways, PTL DEF QueueSpec, QueueUnderCustody, Custody!ChainSpec

=============================================================================
