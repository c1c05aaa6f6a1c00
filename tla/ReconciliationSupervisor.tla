---------------------- MODULE ReconciliationSupervisor ----------------------
(* The reconciliation supervisor and its store,
   live_runtime/reconciliation_supervisor.py: watchers compete for one leased fence
   token, reconcile the broker's history in cycles and append a receipt per cycle.

   The service's reconcile_once reads the broker in one step, and does in another what
   live_runtime/reconciliation.py does to the journal row of each position: a watcher
   that has lost its lease in between still applies what it read. *)
EXTENDS Naturals, Sequences

CONSTANTS
    Watchers,       \* processes running ReconciliationSupervisor.run
    Owners,         \* owner_id arguments of run; two processes may share one
    Exposures,      \* intents that were sent and have a position at the broker
    LeaseTerm,      \* lease_seconds
    Lookback,       \* history_lookback
    MaxClock, MaxLeases, MaxCycles, MaxResets   \* bounds

ASSUME WatcherAssumption ==
    /\ "none" \notin Owners
    /\ LeaseTerm \in Nat \ {0} /\ Lookback \in Nat \ {0}
    /\ MaxClock \in Nat /\ MaxLeases \in Nat /\ MaxCycles \in Nat /\ MaxResets \in Nat

VARIABLES
    clock,      \* the UTC clock the processes share; exits happen from 1 on
    lease,      \* supervisor_lease: owner, fence_token, expires_at
    cycles,     \* reconciliation_cycles
    latched,    \* the journal's kill switch
    resets,     \* how often the operator has reset it
    exited,     \* when each position was closed at the broker, 0 while it is open
    rows,       \* the journal's row of each: its state and whether a fill is on record
    watcher     \* each process's position in run and its local variables

watchVars == <<clock, lease, cycles, latched, resets, exited, rows, watcher>>

Unread == [e \in Exposures |-> 0]

(* started holds the time read for the lease until the first cycle starts, saw what the
   broker's answers said of each position: when it was closed, 0 if it was open. *)
Asleep == [pc |-> "off", owner |-> "none", token |-> 0, started |-> 0, completed |-> 0,
           status |-> "NONE", saw |-> Unread]

WatcherAt(w, label) == watcher[w].pc = label
WatcherGoes(w, label) == watcher' = [watcher EXCEPT ![w].pc = label]
Sleeps(w) == watcher' = [watcher EXCEPT ![w] = Asleep]

(* The handler of an exception uses neither the status nor the end of the cycle. *)
CycleFails(w) ==
    watcher' = [watcher EXCEPT ![w].pc = "failing", ![w].completed = 0, ![w].status = "NONE",
                               ![w].saw = Unread]

----------------------------------------------------------------------------
(* run: the lease's clock is read before its transaction begins. *)
RunWatcher(w, owner) ==
    /\ WatcherAt(w, "off")
    /\ watcher' = [watcher EXCEPT ![w].pc = "claim", ![w].owner = owner, ![w].started = clock]
    /\ UNCHANGED <<clock, lease, cycles, latched, resets, exited, rows>>

(* Another owner holds a lease that the time read has not passed. *)
HeldByOther(w) ==
    /\ lease.expires > watcher[w].started
    /\ lease.owner # watcher[w].owner

ClaimLease(w) ==
    /\ WatcherAt(w, "claim")
    /\ ~HeldByOther(w)
    /\ lease.token < MaxLeases
    /\ lease' = [owner |-> watcher[w].owner, token |-> lease.token + 1,
                 expires |-> watcher[w].started + LeaseTerm]
    /\ watcher' = [watcher EXCEPT ![w].pc = "cycle", ![w].token = lease.token + 1]
    /\ UNCHANGED <<clock, cycles, latched, resets, exited, rows>>

(* SupervisorFenceError leaves run: nothing has been latched or recorded. *)
ClaimRefused(w) ==
    /\ WatcherAt(w, "claim")
    /\ HeldByOther(w)
    /\ Sleeps(w)
    /\ UNCHANGED <<clock, lease, cycles, latched, resets, exited, rows>>

BeginCycle(w) ==
    /\ WatcherAt(w, "cycle")
    /\ Len(cycles) < MaxCycles
    /\ watcher' = [watcher EXCEPT ![w].pc = "refresh", ![w].started = clock]
    /\ UNCHANGED <<clock, lease, cycles, latched, resets, exited, rows>>

(* Mutant: the owner is compared and the token is not. *)
FencedByOwner(w, now) == lease.owner = watcher[w].owner /\ lease.expires > now

Fenced(w, now) ==
    /\ lease.owner = watcher[w].owner
    /\ lease.token = watcher[w].token
    /\ lease.expires > now

(* refresh, with a time read between the start of the cycle and the transaction. *)
Refresh(w) ==
    /\ WatcherAt(w, "refresh")
    /\ \E now \in watcher[w].started..clock :
        \/ /\ Fenced(w, now)
           /\ lease' = [lease EXCEPT !.expires = now + LeaseTerm]
           /\ WatcherGoes(w, "read")
        \/ /\ ~Fenced(w, now)
           /\ CycleFails(w)
           /\ UNCHANGED lease
    /\ UNCHANGED <<clock, cycles, latched, resets, exited, rows>>

(* reconcile_once reads orders, positions and deals before the journal. *)
ReadBroker(w) ==
    /\ WatcherAt(w, "read")
    /\ watcher' = [watcher EXCEPT ![w].pc = "reconcile", ![w].saw = exited]
    /\ UNCHANGED <<clock, lease, cycles, latched, resets, exited, rows>>

(* The exit's deal lies between history_start_utc and now, as reconcile_once gets them. *)
InHistory(at, started) == at > 0 /\ at + Lookback >= started /\ at <= started

(* Mutant: a row that is UNCERTAIN already is not reported again. *)
FindingsForgetful(r, at, started) ==
    IF r.state = "CLOSED" THEN {IF at = 0 THEN "unexplained" ELSE "settled"}
    ELSE IF at = 0 THEN {"matched", "mismatch", "orphan"}
    ELSE IF r.state = "UNCERTAIN" THEN {"settled"} ELSE {"absent"}

(* What reconcile_broker_state may find for a row whose position was, as read, closed at
   time at (0: was open). No active row explains a position that another watcher has
   closed since. A position confirms the fill, fails a check, or has lost its comment
   and is an orphan. Exit deals close a row that has left SUBMITTING if they agree with
   the fill on record, and are a mismatch otherwise. Deals may be unmatched or not yet
   in the history: then, as without deals, the row's object is absent. Orders are
   fill-or-kill or immediate-or-cancel, so that no order outlives a position. *)
Findings(r, at, started) ==
    IF r.state = "CLOSED" THEN {IF at = 0 THEN "unexplained" ELSE "settled"}
    ELSE IF at = 0 THEN {"matched", "mismatch", "orphan"}
    ELSE {"absent"} \cup
         {f \in {"closed", "mismatch"} : /\ InHistory(at, started) /\ r.state # "SUBMITTING"
                                         /\ f = "closed" => r.filled}

(* A mismatch leaves the row as it is; an orphan is absent from its own row. *)
RowAfter(r, f) ==
    CASE f = "matched" -> [state |-> "FILLED", filled |-> TRUE]
      [] f = "closed" -> [r EXCEPT !.state = "CLOSED"]
      [] f \in {"absent", "orphan"} -> [r EXCEPT !.state = "UNCERTAIN"]
      [] OTHER -> r

Critical == {"mismatch", "orphan", "unexplained"}

(* The rows of done are handled, each with a finding that it allows. apply_reconciliation
   demands the state that active_intents has shown, and raises if it is another. *)
HandleRows(w, done, found) ==
    /\ \A e \in done : found[e] \in Findings(rows[e], watcher[w].saw[e], watcher[w].started)
    /\ rows' = [e \in Exposures |-> IF e \in done THEN RowAfter(rows[e], found[e]) ELSE rows[e]]
    /\ latched' \in IF \E e \in done : found[e] \in Critical THEN {TRUE} ELSE {latched, TRUE}

AllFindings == {"settled", "matched", "closed", "absent"} \cup Critical

(* reconcile_once answers. Intents without a position may be uncertain as well, and a
   kill switch that is found or was latched makes the cycle critical. *)
Reconcile(w) ==
    /\ WatcherAt(w, "reconcile")
    /\ \E found \in [Exposures -> AllFindings], status \in {"COMPLETE", "PENDING", "CRITICAL_HOLD"} :
        /\ HandleRows(w, Exposures, found)
        /\ status = "CRITICAL_HOLD" <=> latched'
        /\ (\E e \in Exposures : found[e] = "absent") => status # "COMPLETE"
        /\ watcher' = [watcher EXCEPT ![w].pc = "judge", ![w].status = status,
                                      ![w].saw = Unread]
    /\ UNCHANGED <<clock, lease, cycles, resets, exited>>

(* The adapter raises, *)
ReadRaises(w) ==
    /\ WatcherAt(w, "read")
    /\ CycleFails(w)
    /\ UNCHANGED <<clock, lease, cycles, latched, resets, exited, rows>>

(* or reconcile_broker_state does, with some of the rows handled. *)
ReconcileRaises(w) ==
    /\ WatcherAt(w, "reconcile")
    /\ \E done \in SUBSET Exposures, found \in [Exposures -> AllFindings] : HandleRows(w, done, found)
    /\ CycleFails(w)
    /\ UNCHANGED <<clock, lease, cycles, resets, exited>>

(* completed_at is read, and a critical result is latched before it is recorded. *)
Judge(w) ==
    /\ WatcherAt(w, "judge")
    /\ latched' = (latched \/ watcher[w].status = "CRITICAL_HOLD")
    /\ watcher' = [watcher EXCEPT ![w].pc = "append", ![w].completed = clock]
    /\ UNCHANGED <<clock, lease, cycles, resets, exited, rows>>

Receipt(w, status) ==
    [token |-> watcher[w].token, started |-> watcher[w].started,
     completed |-> watcher[w].completed, status |-> status]

NextCycle(w) ==
    watcher' = [watcher EXCEPT ![w] = [Asleep EXCEPT !.pc = "cycle", !.owner = watcher[w].owner,
                                                     !.token = watcher[w].token]]

(* append_cycle reads the clock inside its transaction. A critical cycle ends run,
   as does the last of max_cycles. *)
AppendCycle(w) ==
    /\ WatcherAt(w, "append")
    /\ Fenced(w, clock)
    /\ cycles' = Append(cycles, Receipt(w, watcher[w].status))
    /\ \/ watcher[w].status # "CRITICAL_HOLD" /\ NextCycle(w)
       \/ Sleeps(w)
    /\ UNCHANGED <<clock, lease, latched, resets, exited, rows>>

AppendRefused(w) ==
    /\ WatcherAt(w, "append")
    /\ ~Fenced(w, clock)
    /\ CycleFails(w)
    /\ UNCHANGED <<clock, lease, cycles, latched, resets, exited, rows>>

(* Mutant: the failure is recorded with the kill switch still to be latched. *)
LatchFailureLate(w) ==
    /\ WatcherAt(w, "failing")
    /\ watcher' = [watcher EXCEPT ![w].pc = "failed", ![w].completed = clock]
    /\ UNCHANGED <<clock, lease, cycles, latched, resets, exited, rows>>

(* Any exception of the cycle latches the kill switch. *)
LatchFailure(w) ==
    /\ WatcherAt(w, "failing")
    /\ latched' = TRUE
    /\ watcher' = [watcher EXCEPT ![w].pc = "failed", ![w].completed = clock]
    /\ UNCHANGED <<clock, lease, cycles, resets, exited, rows>>

(* The FAILED receipt is appended if the fence still holds; run returns either way. *)
RecordFailure(w) ==
    /\ WatcherAt(w, "failed")
    /\ \/ Fenced(w, clock) /\ cycles' = Append(cycles, Receipt(w, "FAILED"))
       \/ ~Fenced(w, clock) /\ UNCHANGED cycles
    /\ Sleeps(w)
    /\ UNCHANGED <<clock, lease, latched, resets, exited, rows>>

WatcherCrashes(w) ==
    /\ ~WatcherAt(w, "off")
    /\ Sleeps(w)
    /\ UNCHANGED <<clock, lease, cycles, latched, resets, exited, rows>>

----------------------------------------------------------------------------
(* The executor records the broker's answer, or that it has none. *)
AnswerRecorded(e) ==
    /\ rows[e].state = "SUBMITTING"
    /\ rows' \in {[rows EXCEPT ![e] = [state |-> t, filled |-> (t = "FILLED")]] :
                    t \in {"ACKNOWLEDGED", "FILLED", "UNCERTAIN"}}
    /\ UNCHANGED <<clock, lease, cycles, latched, resets, exited, watcher>>

PositionExits(e) ==
    /\ exited[e] = 0
    /\ exited' = [exited EXCEPT ![e] = clock]
    /\ UNCHANGED <<clock, lease, cycles, latched, resets, rows, watcher>>

OperatorResets ==
    /\ latched /\ resets < MaxResets
    /\ latched' = FALSE
    /\ resets' = resets + 1
    /\ UNCHANGED <<clock, lease, cycles, exited, rows, watcher>>

ClockTicks ==
    /\ clock < MaxClock
    /\ clock' = clock + 1
    /\ UNCHANGED <<lease, cycles, latched, resets, exited, rows, watcher>>

(* A new store: no lease row yet, which no owner has to wait for. *)
WatchInit ==
    /\ clock = 1
    /\ lease = [owner |-> "none", token |-> 0, expires |-> 0]
    /\ cycles = <<>> /\ latched = FALSE /\ resets = 0
    /\ exited = [e \in Exposures |-> 0]
    /\ rows = [e \in Exposures |-> [state |-> "SUBMITTING", filled |-> FALSE]]
    /\ watcher = [w \in Watchers |-> Asleep]

WatchNext ==
    \/ \E w \in Watchers :
        \/ \E o \in Owners : RunWatcher(w, o)
        \/ ClaimLease(w) \/ ClaimRefused(w) \/ BeginCycle(w)
        \/ Refresh(w) \/ ReadBroker(w) \/ ReadRaises(w)
        \/ Reconcile(w) \/ ReconcileRaises(w) \/ Judge(w)
        \/ AppendCycle(w) \/ AppendRefused(w) \/ LatchFailure(w) \/ RecordFailure(w)
        \/ WatcherCrashes(w)
    \/ \E e \in Exposures : AnswerRecorded(e) \/ PositionExits(e)
    \/ OperatorResets \/ ClockTicks

WatchSpec == WatchInit /\ [][WatchNext]_watchVars

----------------------------------------------------------------------------
(* The receipts of append_cycle form runs of one fence token each, in the order of
   the tokens, and a token's CRITICAL_HOLD or FAILED receipt is its last: a watcher
   that lost its lease, or stopped on an uncertain cycle, never writes again, also
   when its successor has the same owner_id. A cycle is recorded only if it began
   when every cycle recorded before it was over: receipts of two watchers never cover
   the same time. *)
CyclesFenced ==
    \A n \in DOMAIN cycles : \A m \in 1..(n - 1) :
        /\ \/ cycles[m].token < cycles[n].token
           \/ /\ cycles[m].token = cycles[n].token
              /\ cycles[m].status \in {"COMPLETE", "PENDING"}
        /\ cycles[m].completed <= cycles[n].started

(* While the operator has not reset the kill switch, a recorded CRITICAL_HOLD or
   FAILED cycle means that it is latched, wherever the watcher that wrote it stopped. *)
UncertaintyIsLatched ==
    (resets = 0 /\ \E n \in DOMAIN cycles : cycles[n].status \in {"CRITICAL_HOLD", "FAILED"})
        => latched

(* An exit the journal has not recorded is never passed over: no cycle that began after
   it is on record as COMPLETE, and once one is on record as PENDING the row has left
   SUBMITTING, so that exit deals can close it and no late answer of the executor
   rewrites it. It holds whether the exit was missed by an outage longer than
   history_lookback, by a broker answer that was never recorded, by deals that do not
   agree with the fill, by a cycle that raised half-way, or undone by a superseded
   watcher that applied an older read. *)
UnrecordedExitIsHeld ==
    \A e \in Exposures, n \in DOMAIN cycles :
        exited[e] > 0 /\ rows[e].state # "CLOSED" /\ cycles[n].started > exited[e] =>
            /\ cycles[n].status # "COMPLETE"
            /\ cycles[n].status = "PENDING" => rows[e].state # "SUBMITTING"

=============================================================================
