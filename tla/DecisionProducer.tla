-------------------------- MODULE DecisionProducer --------------------------
(* The brokerless decision producer of live_runtime/brokerless_decision_producer.py:
   the service that turns one finalized candle per lane into one published
   decision, and the cursor store that remembers, in a local SQLite chain and in
   an external compare-and-swap register, how far each lane has come.

   The register is written first and the local chain second, so after a crash the
   store imports the one successor it missed. A checkpoint is the chain of lane
   advances up to it. The queue is reduced to what its publish operation answers;
   DecisionQueue models its inside. *)
EXTENDS Naturals, Sequences

CONSTANTS
    Services,       \* producer processes
    Lanes,          \* the lanes, in the order run_cycle processes them
    Variants,       \* data a feed may carry for one lane and candle
    QuoteAt,        \* first_eligible_at of such data, counted from the candle's close
    BarLength,      \* TIMEFRAME_SECONDS
    EntryWindow,    \* ENTRY_WINDOW_SECONDS
    MaxLag,         \* maximum_processing_lag_ms
    EnvelopeTtl,    \* MAX_ENVELOPE_TTL
    MaxBar,         \* bound on the candles
    MaxFaults       \* bound on crashes and lost register answers

ASSUME ProducerAssumption ==
    /\ Lanes \in Seq(STRING) /\ Lanes # <<>>
    /\ EntryWindow \in Nat \ {0} /\ QuoteAt \in [Variants -> 1 .. EntryWindow]
    /\ BarLength \in Nat /\ BarLength > EntryWindow
    /\ MaxLag \in Nat /\ EnvelopeTtl \in Nat /\ MaxBar \in Nat /\ MaxFaults \in Nat

VARIABLES
    time,       \* the trusted clock; candle 1 closes at 0, candle 2 at BarLength, ...
    local,      \* decision_producer_checkpoints: the chain of advances
    external,   \* the chain the register's checkpoint commits to
    late,       \* requests whose client gave up on them, which the register may still accept
    queue,      \* the snapshots in the decision queue
    halted,     \* the queue refuses every call (latched, or left unanchored)
    svc,        \* each service's position and local variables
    faults

vars == <<time, local, external, late, queue, halted, svc, faults>>
store == <<local, external, late>>

MaxTime == BarLength * MaxBar - 1
(* The newest closed candle, and the time since it closed. *)
BarAt(t) == t \div BarLength + 1
Since(t) == t % BarLength

(* _normalize_and_hash_input: the quote is not in the future, and neither the entry
   window nor the allowed processing lag is over. *)
Passes(v, t) ==
    QuoteAt[v] <= Since(t) /\ Since(t) <= EntryWindow /\ Since(t) <= QuoteAt[v] + MaxLag

(* DecisionIPCEnvelope: an envelope issued then expires within the entry window. *)
EnvelopeFits(t) == Since(t) + EnvelopeTtl <= EntryWindow

(* The snapshot is a function of lane, candle and data (_build_snapshot). *)
Snapshot(lane, bar, v) == [lane |-> lane, bar |-> bar, data |-> v]

NoSnapshot == [lane |-> "none", bar |-> 0, data |-> "none"]
NoCursor == [snap |-> NoSnapshot, state |-> "none", issued |-> 0]

(* DecisionProducerCheckpoint.cursor: the last advance of the lane. *)
Cursor(chain, lane) ==
    LET mine == {n \in DOMAIN chain : chain[n].snap.lane = lane}
    IN  IF mine = {} THEN NoCursor
        ELSE chain[CHOOSE n \in mine : \A m \in mine : m <= n]

(* _verify_transition for the advance a after chain. *)
ValidAdvance(chain, a) ==
    LET old == Cursor(chain, a.snap.lane)
    IN  CASE old = NoCursor -> a.state = "PREPARED"
          [] old.state = "PREPARED" -> a.state = "PUBLISHED" /\ a.snap = old.snap
          [] OTHER -> a.state = "PREPARED" /\ a.snap.bar > old.snap.bar

Idle == [pc |-> "idle", now |-> 0, lane |-> 1, snap |-> NoSnapshot, goal |-> "none",
         prev |-> <<>>, issued |-> 0]

At(s, label) == svc[s].pc = label
GoTo(s, label) == svc' = [svc EXCEPT ![s].pc = label]
(* An integrity error is fatal to the process; a new one starts a new cycle. *)
Dies(s) == svc' = [svc EXCEPT ![s] = Idle]

(* The loop of run_cycle over the lanes. *)
NextLane(s) ==
    svc' = [svc EXCEPT ![s] =
        IF svc[s].lane < Len(Lanes)
        THEN [svc[s] EXCEPT !.lane = svc[s].lane + 1, !.pc = "lane"]
        ELSE Idle]

----------------------------------------------------------------------------
(* _synchronize_external: the register holds the local chain or its one valid
   successor, which is imported; anything else raises. *)
MissedSuccessor ==
    /\ Len(external) = Len(local) + 1
    /\ SubSeq(external, 1, Len(local)) = local
    /\ ValidAdvance(local, external[Len(external)])

InSync == external = local \/ MissedSuccessor

(* current_checkpoint leaves the local chain equal to the register. *)
Synchronize == /\ InSync
               /\ local' = external

(* Every call of current_checkpoint raises on anything else. *)
Unsynchronized(s) ==
    /\ svc[s].pc \in {"lane", "prepare", "record", "advance"}
    /\ ~InSync
    /\ Dies(s)
    /\ UNCHANGED <<time, store, queue, halted, faults>>

(* run_cycle: the checkpoint, then the one clock sample of the cycle. *)
Cycle(s) ==
    /\ At(s, "idle")
    /\ Synchronize
    /\ svc' = [svc EXCEPT ![s] = [Idle EXCEPT !.pc = "lane", !.now = time]]
    /\ UNCHANGED <<time, external, late, queue, halted, faults>>

(* The feed has nothing for the lane, or what it has does not pass
   _normalize_and_hash_input, among others for the times that Passes excludes. *)
NothingToPublish(s) ==
    /\ At(s, "lane")
    /\ NextLane(s)
    /\ UNCHANGED <<time, store, queue, halted, faults>>

(* Mutant: changed data for the reserved candle is not noticed. *)
VerdictIgnoresData(chain, snap) ==
    LET old == Cursor(chain, snap.lane)
    IN  IF old = NoCursor THEN "advance"
        ELSE IF snap.bar = old.snap.bar THEN old.state
        ELSE IF snap.bar < old.snap.bar \/ old.state # "PUBLISHED" THEN "raise"
        ELSE "advance"

(* Mutant: a newer candle replaces an unresolved prepared decision. *)
VerdictReplaces(chain, snap) ==
    LET old == Cursor(chain, snap.lane)
    IN  IF old = NoCursor THEN "advance"
        ELSE IF snap.bar = old.snap.bar THEN (IF snap = old.snap THEN old.state ELSE "raise")
        ELSE IF snap.bar < old.snap.bar THEN "raise"
        ELSE "advance"

(* What _process_lane and prepare_publication conclude from the lane's cursor. *)
Verdict(chain, snap) ==
    LET old == Cursor(chain, snap.lane)
    IN  IF old = NoCursor THEN "advance"
        ELSE IF snap.bar = old.snap.bar THEN (IF snap = old.snap THEN old.state ELSE "raise")
        ELSE IF snap.bar < old.snap.bar \/ old.state # "PUBLISHED" THEN "raise"
        ELSE "advance"

(* _process_lane up to the cursor store's prepare_publication. *)
Observe(s, v) ==
    LET snap == Snapshot(Lanes[svc[s].lane], BarAt(svc[s].now), v)
        verdict == Verdict(external, snap)
    IN  /\ At(s, "lane")
        /\ Passes(v, svc[s].now)
        /\ Synchronize
        /\ \/ verdict = "raise" /\ Dies(s)
           \/ verdict = "PUBLISHED" /\ NextLane(s)
           \/ /\ verdict \in {"PREPARED", "advance"}
              /\ svc' = [svc EXCEPT ![s].pc = "prepare", ![s].snap = snap]
        /\ UNCHANGED <<time, external, late, queue, halted, faults>>

(* prepare_publication: the same candle needs no second reservation. *)
Prepare(s) ==
    LET verdict == Verdict(external, svc[s].snap)
    IN  /\ At(s, "prepare")
        /\ Synchronize
        /\ \/ verdict = "raise" /\ Dies(s)
           \/ verdict \in {"PREPARED", "PUBLISHED"} /\ GoTo(s, "publish")
           \/ /\ verdict = "advance"
              /\ svc' = [svc EXCEPT ![s].pc = "advance", ![s].goal = "PREPARED"]
        /\ UNCHANGED <<time, external, late, queue, halted, faults>>

InQueue(snap) == \E n \in DOMAIN queue : queue[n] = snap

(* Mutant: a duplicate denial is as fatal as any other. *)
PublishDuplicateFatal(s) ==
    /\ At(s, "publish")
    /\ ~halted /\ EnvelopeFits(svc[s].now)
    /\ IF InQueue(svc[s].snap)
       THEN Dies(s) /\ UNCHANGED queue
       ELSE GoTo(s, "record") /\ queue' = Append(queue, svc[s].snap)
    /\ UNCHANGED <<time, store, halted, faults>>

(* The publish port returns, or denies a duplicate, which counts as recovery. The
   envelope is made, with the clock sample of the cycle, before either is decided. *)
Publish(s) ==
    /\ At(s, "publish")
    /\ ~halted /\ EnvelopeFits(svc[s].now)
    /\ queue' = IF InQueue(svc[s].snap) THEN queue ELSE Append(queue, svc[s].snap)
    /\ GoTo(s, "record")
    /\ UNCHANGED <<time, store, halted, faults>>

(* Every other error of the port is fatal. It refuses when the queue is halted, when
   the envelope would outlive the entry window, or when a consumer is busy with the
   queue; or the call fails after its commit, in the closing
   verification of an anchored queue, or earlier, and then the queue refuses
   every later call. *)
PublishRaises(s) ==
    /\ At(s, "publish")
    /\ \/ (halted \/ ~EnvelopeFits(svc[s].now)) /\ UNCHANGED <<queue, halted, faults>>
       \/ /\ ~halted /\ EnvelopeFits(svc[s].now)
          /\ faults < MaxFaults
          /\ faults' = faults + 1
          /\ \/ UNCHANGED <<queue, halted>>
             \/ /\ ~InQueue(svc[s].snap)
                /\ queue' = Append(queue, svc[s].snap)
                /\ halted' \in BOOLEAN
    /\ Dies(s)
    /\ UNCHANGED <<time, store>>

(* record_published: only the exact prepared decision is finalized. *)
Record(s) ==
    LET old == Cursor(external, svc[s].snap.lane)
    IN  /\ At(s, "record")
        /\ Synchronize
        /\ \/ (old = NoCursor \/ old.snap # svc[s].snap) /\ Dies(s)
           \/ old.snap = svc[s].snap /\ old.state = "PUBLISHED" /\ NextLane(s)
           \/ /\ old.snap = svc[s].snap /\ old.state = "PREPARED"
              /\ svc' = [svc EXCEPT ![s].pc = "advance", ![s].goal = "PUBLISHED"]
        /\ UNCHANGED <<time, external, late, queue, halted, faults>>

----------------------------------------------------------------------------
(* _advance_cursor reads the checkpoint again and issues its successor. *)
Advance(s) ==
    /\ At(s, "advance")
    /\ Synchronize
    /\ svc' = [svc EXCEPT ![s].pc = "cas", ![s].prev = external, ![s].issued = time]
    /\ UNCHANGED <<time, external, late, queue, halted, faults>>

Proposed(s) ==
    Append(svc[s].prev, [snap |-> svc[s].snap, state |-> svc[s].goal, issued |-> svc[s].issued])

Accepts(s) == external = svc[s].prev

CasAcknowledged(s) ==
    /\ At(s, "cas")
    /\ Accepts(s)
    /\ external' = Proposed(s)
    /\ GoTo(s, "readback")
    /\ UNCHANGED <<time, local, late, queue, halted, faults>>

(* Refused, lost, accepted without an answer, or left to be accepted later. *)
CasFails(s) ==
    /\ At(s, "cas")
    /\ \/ ~Accepts(s) /\ UNCHANGED <<external, late, faults>>
       \/ /\ faults < MaxFaults
          /\ faults' = faults + 1
          /\ \/ Accepts(s) /\ external' = Proposed(s) /\ UNCHANGED late
             \/ /\ late' \in {late, late \cup {[from |-> svc[s].prev, to |-> Proposed(s)]}}
                /\ UNCHANGED external
    /\ Dies(s)
    /\ UNCHANGED <<time, local, queue, halted>>

AcceptLate(r) ==
    /\ external = r.from
    /\ external' = r.to
    /\ UNCHANGED <<time, local, late, queue, halted, svc, faults>>

(* The exact successor must be read back. *)
Readback(s) ==
    /\ At(s, "readback")
    /\ IF external = Proposed(s) THEN GoTo(s, "append") ELSE Dies(s)
    /\ UNCHANGED <<time, store, queue, halted, faults>>

(* _append_local: the checkpoint must be the valid successor of the local head. *)
AppendLocal(s) ==
    LET fits == local = svc[s].prev /\ ValidAdvance(local, Proposed(s)[Len(Proposed(s))])
    IN  /\ At(s, "append")
        /\ IF fits
           THEN /\ local' = Proposed(s)
                /\ IF svc[s].goal = "PREPARED" THEN GoTo(s, "publish") ELSE NextLane(s)
           ELSE Dies(s) /\ UNCHANGED local
        /\ UNCHANGED <<time, external, late, queue, halted, faults>>

(* A service is started, also while another one still runs. *)
Launch(s) ==
    /\ At(s, "absent")
    /\ GoTo(s, "idle")
    /\ UNCHANGED <<time, store, queue, halted, faults>>

Crash(s) ==
    /\ svc[s].pc \notin {"absent", "idle"}
    /\ faults < MaxFaults
    /\ faults' = faults + 1
    /\ Dies(s)
    /\ UNCHANGED <<time, store, queue, halted>>

Tick ==
    /\ time < MaxTime
    /\ time' = time + 1
    /\ UNCHANGED <<store, queue, halted, svc, faults>>

ProducerInit ==
    /\ time = 0
    /\ local = <<>> /\ external = <<>> /\ late = {}
    /\ queue = <<>> /\ halted = FALSE
    /\ svc = [s \in Services |-> [Idle EXCEPT !.pc = "absent"]]
    /\ faults = 0

ServiceStep(s) ==
    \/ Cycle(s) \/ Unsynchronized(s) \/ NothingToPublish(s) \/ Prepare(s) \/ Publish(s) \/ PublishRaises(s) \/ Record(s)
    \/ \E v \in Variants : Observe(s, v)
    \/ Advance(s) \/ CasAcknowledged(s) \/ CasFails(s) \/ Readback(s) \/ AppendLocal(s)

ProducerNext ==
    \/ \E s \in Services : Launch(s) \/ ServiceStep(s) \/ Crash(s)
    \/ \E r \in late : AcceptLate(r)
    \/ Tick

ProducerSpec == ProducerInit /\ [][ProducerNext]_vars

(* The service loop runs on or is restarted, and input for the newest candle that passes
   the time checks again and again is also returned again and again by the feed. *)
FairProducerSpec ==
    /\ ProducerSpec
    /\ \A s \in Services :
        /\ WF_vars(ServiceStep(s))
        /\ \A v \in Variants : SF_vars(Observe(s, v))

----------------------------------------------------------------------------
(* FR-7: a lane has at most one decision per candle in the queue, across crashes,
   lost register answers, changed feed data and two services that overlap
   (the PREPARED cursor is anchored before publish is called). *)
OneDecisionPerCandle ==
    \A m, n \in DOMAIN queue :
        queue[m].lane = queue[n].lane /\ queue[m].bar = queue[n].bar => m = n

(* FR-11, restart after external CAS but before local append: wherever the service
   dies, the register holds the local chain or its one successor that
   _synchronize_external can import. Two things may break this for ever: a second
   service that prepares the same candle between the other's prepare_publication
   and its _advance_cursor, and a request left behind by its client that the
   register accepts when the next one has been read back but not yet appended. *)
CursorImportable ==
    late = {} /\ (\A s, r \in Services : At(s, "absent") \/ At(r, "absent") \/ s = r) => InSync

(* The lane's decision is in the queue and only its cursor is unfinished. *)
Unfinished(lane, bar) ==
    LET c == Cursor(external, lane)
    IN  c # NoCursor /\ c.snap.bar = bar /\ c.state = "PREPARED" /\ InQueue(c.snap)

Finished(lane, bar) ==
    LET c == Cursor(external, lane)
    IN  c # NoCursor /\ c.snap.bar >= bar /\ c.state = "PUBLISHED"

(* Input that was prepared is still accepted: it passes, and its envelope fits. *)
Acceptable(lane, bar) ==
    LET c == Cursor(external, lane)
    IN  c # NoCursor /\ BarAt(time) = bar /\ Passes(c.snap.data, time) /\ EnvelopeFits(time)

(* AC-5, for the time the code leaves it: an interrupted publication is finished by the
   duplicate denial of the queue, after any number of restarts, as long as its input is
   within the allowed processing lag and an envelope for it still ends within the entry
   window, unless the register may still accept a request that was given up. *)
RecoversWhileAcceptable ==
    \A n \in DOMAIN Lanes, bar \in 1 .. MaxBar :
        Unfinished(Lanes[n], bar) ~>
            \/ Finished(Lanes[n], bar) \/ halted \/ late # {}
            \/ ~Acceptable(Lanes[n], bar)
=============================================================================
