------------------ MODULE ReconciliationAndDeliveryProofs -------------------
(* Proofs about the store of the reconciliation supervisor, for any number of watchers,
   owners and exposures and every clock, and about the off-host delivery outbox, for any
   number of service processes, run ids and envelopes, any clock and any crashes. *)
EXTENDS ReconciliationSupervisor, OffHostDelivery, TLAPS

(* The reconciliation supervisor. *)
CycleLabels == {"refresh", "read", "reconcile", "judge", "append", "failing", "failed"}
WatcherLabels == CycleLabels \cup {"off", "claim", "cycle"}
Certain == {"COMPLETE", "PENDING"}
Answers == Certain \cup {"CRITICAL_HOLD"}
WatcherRecords == [pc : WatcherLabels, owner : Owners \cup {"none"}, token : Nat, started : Nat,
                   completed : Nat, status : Answers \cup {"NONE"}, saw : [Exposures -> Nat]]
Receipts == [token : Nat, started : Nat, completed : Nat, status : Answers \cup {"FAILED"}]
IntentRows == [state : {"SUBMITTING", "ACKNOWLEDGED", "FILLED", "UNCERTAIN", "CLOSED"}, filled : BOOLEAN]

WatchTyped ==
    /\ clock \in Nat /\ resets \in Nat /\ latched \in BOOLEAN
    /\ lease \in [owner : Owners \cup {"none"}, token : Nat, expires : Nat]
    /\ cycles \in Seq(Receipts)
    /\ exited \in [Exposures -> Nat] /\ rows \in [Exposures -> IntentRows]
    /\ watcher \in [Watchers -> WatcherRecords]

(* A watcher that holds, or has held, a fence token. *)
HasToken(x) == x.pc \in CycleLabels \cup {"cycle"}

(* A cycle that started then and answers so has not passed over an exit: the row is
   closed, or has left SUBMITTING behind a PENDING answer, or the answer is neither. *)
Held(started, status, exd, rws) ==
    \A e \in Exposures : exd[e] > 0 /\ rws[e].state # "CLOSED" /\ started > exd[e] =>
        status # "COMPLETE" /\ (status = "PENDING" => rws[e].state # "SUBMITTING")

(* What was read of the broker in a cycle that started then shows the exits before it. *)
Seen(started, saw, exd) == \A e \in Exposures : exd[e] < started => saw[e] = exd[e]

(* What may become of the rows: CLOSED is final, and SUBMITTING is left for good. *)
RowsMove ==
    \A e \in Exposures :
        /\ rows[e].state = "CLOSED" => rows'[e].state = "CLOSED"
        /\ rows[e].state # "SUBMITTING" => rows'[e].state # "SUBMITTING"

(* What a watcher knows of the store: its token has recorded nothing uncertain, and
   while the token is the current one nothing at all since the cycle began; what it has
   read shows the exits before the cycle; what it is about to record is latched, and
   passes over no exit. *)
WatcherOK(x, t, tok, cyc, lat, res, exd, rws) ==
    /\ x.started <= t /\ x.completed <= t
    /\ HasToken(x) => x.token <= tok /\ \A m \in 1..Len(cyc) : cyc[m].token = x.token => cyc[m].status \in Certain
    /\ x.pc \in CycleLabels /\ x.token = tok => \A m \in 1..Len(cyc) : cyc[m].completed <= x.started
    /\ x.pc = "reconcile" => Seen(x.started, x.saw, exd)
    /\ x.pc \in {"judge", "append"} => x.status \in Answers /\ Held(x.started, x.status, exd, rws)
    /\ res = 0 /\ (x.pc = "failed" \/ (x.pc = "append" /\ x.status = "CRITICAL_HOLD")) => lat

Fencing(cyc) ==
    \A n \in 1..Len(cyc) : \A m \in 1..(n - 1) :
        /\ \/ cyc[m].token < cyc[n].token
           \/ cyc[m].token = cyc[n].token /\ cyc[m].status \in Certain
        /\ cyc[m].completed <= cyc[n].started

CyclesOK(t, tok, cyc, lat, res, exd, rws) ==
    \A n \in 1..Len(cyc) :
        /\ cyc[n].token <= tok /\ cyc[n].started <= t /\ cyc[n].completed <= t
        /\ res = 0 /\ cyc[n].status \notin Certain => lat
        /\ Held(cyc[n].started, cyc[n].status, exd, rws)

OneHolderPerToken == \A v, w \in Watchers : HasToken(watcher[v]) /\ HasToken(watcher[w]) /\ v # w =>
                                               watcher[v].token # watcher[w].token

WatchInvariant ==
    /\ WatchTyped
    /\ Fencing(cycles)
    /\ CyclesOK(clock, lease.token, cycles, latched, resets, exited, rows)
    /\ \A w \in Watchers : WatcherOK(watcher[w], clock, lease.token, cycles, latched, resets, exited, rows)
    /\ OneHolderPerToken

----------------------------------------------------------------------------
(* Receipts and watchers are not disturbed while the token and the receipts stay: the
   clock moves on, exits are recorded, the kill switch is latched. *)
LEMMA WatchKept ==
    ASSUME WatchTyped, clock' \in Nat, clock <= clock', lease'.token = lease.token, cycles' = cycles,
           latched' \in BOOLEAN, resets' \in Nat, resets' = 0 => resets = 0 /\ (latched => latched'),
           \A s \in Nat : s <= clock => \A st : Held(s, st, exited, rows) => Held(s, st, exited', rows'),
           \A s \in Nat : s <= clock => \A saw : Seen(s, saw, exited) => Seen(s, saw, exited')
    PROVE  /\ CyclesOK(clock, lease.token, cycles, latched, resets, exited, rows) =>
                CyclesOK(clock', lease'.token, cycles', latched', resets', exited', rows')
           /\ \A x \in WatcherRecords :
                WatcherOK(x, clock, lease.token, cycles, latched, resets, exited, rows) =>
                    WatcherOK(x, clock', lease'.token, cycles', latched', resets', exited', rows')
<1>1. clock \in Nat /\ cycles \in Seq(Receipts)
  BY DEF WatchTyped
<1>2. ASSUME CyclesOK(clock, lease.token, cycles, latched, resets, exited, rows), NEW n \in 1..Len(cycles)
      PROVE  /\ cycles[n].token <= lease.token /\ cycles[n].started <= clock' /\ cycles[n].completed <= clock'
             /\ resets' = 0 /\ cycles[n].status \notin Certain => latched'
             /\ Held(cycles[n].started, cycles[n].status, exited', rows')
  <2>1. cycles[n] \in Receipts
    BY <1>1
  <2>2. cycles[n].started \in Nat /\ cycles[n].completed \in Nat
    BY <2>1 DEF Receipts
  <2>3. QED
    BY <1>1, <1>2, <2>2 DEF CyclesOK
<1>3. ASSUME NEW x \in WatcherRecords,
             WatcherOK(x, clock, lease.token, cycles, latched, resets, exited, rows)
      PROVE  WatcherOK(x, clock', lease.token, cycles, latched', resets', exited', rows')
  <2>1. x.started \in Nat /\ x.completed \in Nat
    BY DEF WatcherRecords
  <2>2. QED
    BY <1>1, <1>3, <2>1 DEF WatcherOK
<1>4. CyclesOK(clock, lease.token, cycles, latched, resets, exited, rows) =>
        CyclesOK(clock', lease'.token, cycles', latched', resets', exited', rows')
  BY <1>2 DEF CyclesOK
<1>5. QED
  BY <1>3, <1>4

(* What a step of one watcher has to show when it writes no receipt and takes no token. *)
LEMMA QuietWatch ==
    ASSUME WatchInvariant, NEW w \in Watchers, NEW x \in WatcherRecords,
           watcher' = [watcher EXCEPT ![w] = x],
           HasToken(x) => HasToken(watcher[w]) /\ x.token = watcher[w].token,
           lease' \in [owner : Owners \cup {"none"}, token : Nat, expires : Nat],
           lease'.token = lease.token, latched' \in BOOLEAN, latched => latched',
           UNCHANGED <<clock, cycles, resets, exited>>, rows' = rows \/ (rows' \in [Exposures -> IntentRows] /\ RowsMove),
           WatcherOK(x, clock, lease.token, cycles, latched', resets, exited, rows')
    PROVE  WatchInvariant'
<1>1. WatchTyped'
  BY DEF WatchInvariant, WatchTyped
<1>2. /\ clock \in Nat /\ lease.token \in Nat /\ cycles \in Seq(Receipts) /\ latched \in BOOLEAN
      /\ resets \in Nat /\ watcher \in [Watchers -> WatcherRecords]
  BY DEF WatchInvariant, WatchTyped
<1>3. /\ CyclesOK(clock', lease'.token, cycles', latched', resets', exited', rows')
      /\ \A y \in WatcherRecords :
            WatcherOK(y, clock, lease.token, cycles, latched, resets, exited, rows) =>
                WatcherOK(y, clock', lease'.token, cycles', latched', resets', exited', rows')
  <2>1. \A s \in Nat : s <= clock => \A st : Held(s, st, exited, rows) => Held(s, st, exited', rows')
    BY DEF Held, RowsMove
  <2>2. \A s \in Nat : s <= clock => \A saw : Seen(s, saw, exited) => Seen(s, saw, exited')
    BY DEF Seen
  <2>3. QED
    BY <1>2, <2>1, <2>2, WatchKept DEF WatchInvariant
<1>4. CyclesOK(clock', lease'.token, cycles', latched', resets', exited', rows')
  BY <1>3
<1>5. ASSUME NEW v \in Watchers
      PROVE  WatcherOK(watcher'[v], clock', lease'.token, cycles', latched', resets', exited', rows')
  <2>1. CASE v = w
    BY <1>2, <2>1
  <2>2. CASE v # w
    <3>1. /\ watcher'[v] = watcher[v] /\ watcher[v] \in WatcherRecords
          /\ WatcherOK(watcher[v], clock, lease.token, cycles, latched, resets, exited, rows)
      BY <1>2, <2>2 DEF WatchInvariant
    <3>2. QED
      BY <1>3, <3>1
  <2>3. QED
    BY <2>1, <2>2
<1>6. OneHolderPerToken'
  BY <1>2 DEF WatchInvariant, OneHolderPerToken
<1>7. QED
  BY <1>1, <1>4, <1>5, <1>6 DEF WatchInvariant

----------------------------------------------------------------------------
(* A watcher that has left run has nothing in progress. *)
LEMMA AsleepTyped ==
    /\ Asleep \in WatcherRecords /\ ~HasToken(Asleep)
    /\ \A t, tok, res \in Nat : \A cyc, lat, exd, rws : WatcherOK(Asleep, t, tok, cyc, lat, res, exd, rws)
<1>1. /\ Asleep \in WatcherRecords /\ Asleep.pc = "off" /\ Asleep.started = 0 /\ Asleep.completed = 0
  BY DEF Asleep, Unread, WatcherRecords, WatcherLabels, CycleLabels
<1>2. QED
  BY <1>1 DEF HasToken, WatcherOK, CycleLabels

(* A watcher that goes to another label keeps the rest. *)
LEMMA WatcherLabelled ==
    ASSUME NEW y \in WatcherRecords, NEW label \in WatcherLabels
    PROVE  LET x == [y EXCEPT !.pc = label]
           IN  /\ x \in WatcherRecords /\ x.pc = label /\ x.token = y.token /\ x.status = y.status
               /\ x.started = y.started /\ x.completed = y.completed
BY DEF WatcherRecords

----------------------------------------------------------------------------
(* What is known of one watcher and of the store. *)
LEMMA WatcherFacts ==
    ASSUME WatchInvariant, NEW w \in Watchers
    PROVE  /\ watcher[w] \in WatcherRecords /\ clock \in Nat /\ resets \in Nat /\ latched \in BOOLEAN
           /\ lease \in [owner : Owners \cup {"none"}, token : Nat, expires : Nat] /\ lease.token \in Nat
           /\ WatcherOK(watcher[w], clock, lease.token, cycles, latched, resets, exited, rows)
           /\ watcher[w].started \in Nat /\ watcher[w].completed \in Nat /\ watcher[w].token \in Nat
<1>1. watcher[w] \in WatcherRecords
  BY DEF WatchInvariant, WatchTyped
<1>2. QED
  BY <1>1 DEF WatchInvariant, WatchTyped, WatcherRecords

(* run begins, *)
LEMMA RunWatcherStep ==
    ASSUME WatchInvariant, NEW w \in Watchers, NEW o \in Owners, RunWatcher(w, o)
    PROVE  WatchInvariant'
<1> DEFINE x == [watcher[w] EXCEPT !.pc = "claim", !.owner = o, !.started = clock]
<1>1. x \in WatcherRecords /\ x.pc = "claim" /\ x.started = clock /\ x.completed = watcher[w].completed
  <2>1. watcher[w] \in WatcherRecords /\ clock \in Nat
    BY WatcherFacts
  <2>2. QED
    BY Zenon, <2>1 DEF WatcherRecords, WatcherLabels, CycleLabels
<1>2. watcher' = [watcher EXCEPT ![w] = x]
  BY Zenon DEF RunWatcher
<1> HIDE DEF x
<1>3. UNCHANGED <<clock, lease, cycles, latched, resets, exited, rows>>
  BY DEF RunWatcher
<1>4. ~HasToken(x)
  BY <1>1 DEF HasToken, CycleLabels
<1>5. WatcherOK(x, clock, lease.token, cycles, latched, resets, exited, rows)
  BY <1>1, <1>4, WatcherFacts DEF WatcherOK, CycleLabels
<1>6. QED
  BY Zenon, <1>1, <1>2, <1>3, <1>4, <1>5, WatcherFacts, QuietWatch

(* or a process leaves run, by a refused claim or a crash. *)
LEMMA SleepStep ==
    ASSUME WatchInvariant, NEW w \in Watchers, ClaimRefused(w) \/ WatcherCrashes(w)
    PROVE  WatchInvariant'
<1>1. watcher' = [watcher EXCEPT ![w] = Asleep] /\ UNCHANGED <<clock, lease, cycles, latched, resets, exited, rows>>
  BY DEF ClaimRefused, WatcherCrashes, Sleeps
<1>2. WatcherOK(Asleep, clock, lease.token, cycles, latched, resets, exited, rows)
  BY WatcherFacts, AsleepTyped
<1>3. QED
  BY Zenon, <1>1, <1>2, WatcherFacts, AsleepTyped, QuietWatch

(* A cycle begins at a time at which every receipt is complete. *)
LEMMA BeginCycleStep ==
    ASSUME WatchInvariant, NEW w \in Watchers, BeginCycle(w)
    PROVE  WatchInvariant'
<1> DEFINE x == [watcher[w] EXCEPT !.pc = "refresh", !.started = clock]
<1>1. /\ x \in WatcherRecords /\ x.pc = "refresh" /\ x.started = clock
      /\ x.completed = watcher[w].completed /\ x.token = watcher[w].token
  <2>1. watcher[w] \in WatcherRecords /\ clock \in Nat
    BY WatcherFacts
  <2>2. QED
    BY Zenon, <2>1 DEF WatcherRecords, WatcherLabels, CycleLabels
<1>2. watcher' = [watcher EXCEPT ![w] = x]
  BY Zenon DEF BeginCycle
<1> HIDE DEF x
<1>3. watcher[w].pc = "cycle" /\ UNCHANGED <<clock, lease, cycles, latched, resets, exited, rows>>
  BY DEF BeginCycle, WatcherAt
<1>4. HasToken(watcher[w])
  BY <1>3 DEF HasToken
<1>5. \A m \in 1..Len(cycles) : cycles[m].completed <= clock
  BY DEF WatchInvariant, CyclesOK
<1>6. WatcherOK(x, clock, lease.token, cycles, latched, resets, exited, rows)
  BY <1>1, <1>4, <1>5, WatcherFacts DEF WatcherOK
<1>7. QED
  BY Zenon, <1>1, <1>2, <1>3, <1>4, <1>6, WatcherFacts, QuietWatch

(* refresh renews the lease under the same token, and the cycle goes on. *)
LEMMA CycleGoesOn ==
    ASSUME WatchInvariant, NEW w \in Watchers, WatcherGoes(w, "read"), watcher[w].pc \in CycleLabels,
           lease' \in [owner : Owners \cup {"none"}, token : Nat, expires : Nat],
           lease'.token = lease.token, UNCHANGED <<clock, cycles, latched, resets, exited, rows>>
    PROVE  WatchInvariant'
<1> DEFINE x == [watcher[w] EXCEPT !.pc = "read"]
<1>1. /\ x \in WatcherRecords /\ x.pc = "read" /\ x.started = watcher[w].started
      /\ x.completed = watcher[w].completed /\ x.token = watcher[w].token
  <2>1. "read" \in WatcherLabels
    BY DEF WatcherLabels, CycleLabels
  <2>2. QED
    BY <2>1, WatcherFacts, WatcherLabelled
<1>2. watcher' = [watcher EXCEPT ![w] = x]
  BY Zenon DEF WatcherGoes
<1> HIDE DEF x
<1>3. HasToken(watcher[w])
  BY DEF HasToken
<1>4. WatcherOK(x, clock, lease.token, cycles, latched, resets, exited, rows)
  BY <1>1, <1>3, WatcherFacts DEF WatcherOK
<1>5. QED
  BY Zenon, <1>1, <1>2, <1>3, <1>4, WatcherFacts, QuietWatch

(* A cycle that fails owes nothing but the latch, whatever it has done to the rows. *)
LEMMA CycleFailing ==
    ASSUME WatchInvariant, NEW w \in Watchers, CycleFails(w), watcher[w].pc \in CycleLabels,
           latched' \in BOOLEAN, latched => latched',
           rows' = rows \/ (rows' \in [Exposures -> IntentRows] /\ RowsMove),
           UNCHANGED <<clock, lease, cycles, resets, exited>>
    PROVE  WatchInvariant'
<1> DEFINE x == [watcher[w] EXCEPT !.pc = "failing", !.completed = 0, !.status = "NONE", !.saw = Unread]
<1>1. /\ x \in WatcherRecords /\ x.pc = "failing" /\ x.started = watcher[w].started
      /\ x.completed = 0 /\ x.token = watcher[w].token
  <2>1. watcher[w] \in WatcherRecords /\ 0 \in Nat /\ Unread \in [Exposures -> Nat]
    BY WatcherFacts DEF Unread
  <2>2. QED
    BY Zenon, <2>1 DEF WatcherRecords, WatcherLabels, CycleLabels
<1>2. watcher' = [watcher EXCEPT ![w] = x]
  BY Zenon DEF CycleFails
<1> HIDE DEF x
<1>3. HasToken(watcher[w]) /\ 0 <= clock
  BY WatcherFacts DEF HasToken
<1>4. WatcherOK(x, clock, lease.token, cycles, latched', resets, exited, rows')
  BY <1>1, <1>3, WatcherFacts DEF WatcherOK
<1>5. QED
  BY Zenon, <1>1, <1>2, <1>3, <1>4, WatcherFacts, QuietWatch

(* refresh renews the lease, or fails the cycle. *)
LEMMA RefreshStep ==
    ASSUME WatchInvariant, NEW w \in Watchers, Refresh(w)
    PROVE  WatchInvariant'
<1>1. /\ watcher[w].pc \in CycleLabels /\ UNCHANGED <<clock, cycles, latched, resets, exited, rows>>
  BY DEF Refresh, WatcherAt, CycleLabels
<1>2. PICK at \in watcher[w].started..clock :
        \/ lease' = [lease EXCEPT !.expires = at + LeaseTerm] /\ WatcherGoes(w, "read")
        \/ lease' = lease /\ CycleFails(w)
  BY DEF Refresh
<1>3. CASE lease' = [lease EXCEPT !.expires = at + LeaseTerm] /\ WatcherGoes(w, "read")
  <2>1. at + LeaseTerm \in Nat
    BY WatcherFacts, WatcherAssumption
  <2>2. /\ lease' \in [owner : Owners \cup {"none"}, token : Nat, expires : Nat]
        /\ lease'.token = lease.token
    BY <1>3, <2>1, WatcherFacts
  <2>3. QED
    BY <1>1, <1>3, <2>2, CycleGoesOn
<1>4. CASE lease' = lease /\ CycleFails(w)
  BY <1>1, <1>4, WatcherFacts, CycleFailing
<1>5. QED
  BY <1>2, <1>3, <1>4

(* The broker is read: every exit so far is seen. *)
LEMMA ReadBrokerStep ==
    ASSUME WatchInvariant, NEW w \in Watchers, ReadBroker(w)
    PROVE  WatchInvariant'
<1> DEFINE x == [watcher[w] EXCEPT !.pc = "reconcile", !.saw = exited]
<1>1. /\ x \in WatcherRecords /\ x.pc = "reconcile" /\ x.started = watcher[w].started
      /\ x.completed = watcher[w].completed /\ x.token = watcher[w].token /\ x.saw = exited
  <2>1. watcher[w] \in WatcherRecords /\ exited \in [Exposures -> Nat]
    BY WatcherFacts DEF WatchInvariant, WatchTyped
  <2>2. QED
    BY Zenon, <2>1 DEF WatcherRecords, WatcherLabels, CycleLabels
<1>2. watcher' = [watcher EXCEPT ![w] = x]
  BY Zenon DEF ReadBroker
<1> HIDE DEF x
<1>3. watcher[w].pc = "read" /\ UNCHANGED <<clock, lease, cycles, latched, resets, exited, rows>>
  BY DEF ReadBroker, WatcherAt
<1>4. HasToken(watcher[w]) /\ watcher[w].pc \in CycleLabels
  BY <1>3 DEF HasToken, CycleLabels
<1>5. Seen(x.started, x.saw, exited)
  BY <1>1 DEF Seen
<1>6. WatcherOK(x, clock, lease.token, cycles, latched, resets, exited, rows)
  BY <1>1, <1>4, <1>5, WatcherFacts DEF WatcherOK
<1>7. QED
  BY Zenon, <1>1, <1>2, <1>3, <1>4, <1>6, WatcherFacts, QuietWatch

(* The adapter raises, or append_cycle refuses the receipt. *)
LEMMA AppendRefusedStep ==
    ASSUME WatchInvariant, NEW w \in Watchers, ReadRaises(w) \/ AppendRefused(w)
    PROVE  WatchInvariant'
<1>1. /\ watcher[w].pc \in CycleLabels /\ UNCHANGED <<clock, lease, cycles, latched, resets, exited, rows>>
      /\ CycleFails(w)
  BY DEF ReadRaises, AppendRefused, WatcherAt, CycleLabels
<1>2. QED
  BY <1>1, WatcherFacts, CycleFailing

(* What reconcile_broker_state does to the rows it handles: a row whose
   position was not read is
   closed, is left to a latched kill switch, or is absent and UNCERTAIN. *)
LEMMA RowsHandled ==
    ASSUME WatchInvariant, NEW w \in Watchers, NEW done \in SUBSET Exposures, NEW found,
           HandleRows(w, done, found)
    PROVE  /\ rows' \in [Exposures -> IntentRows] /\ RowsMove
           /\ latched' \in BOOLEAN /\ (latched => latched')
           /\ \A e \in done : watcher[w].saw[e] > 0 =>
                \/ rows'[e].state = "CLOSED"
                \/ found[e] = "mismatch" /\ latched'
                \/ found[e] = "absent" /\ rows'[e].state = "UNCERTAIN"
<1>1. /\ watcher[w].saw \in [Exposures -> Nat] /\ rows \in [Exposures -> IntentRows] /\ latched \in BOOLEAN
      /\ watcher[w].started \in Nat
  BY WatcherFacts DEF WatchInvariant, WatchTyped, WatcherRecords
<1>2. /\ \A e \in done : found[e] \in Findings(rows[e], watcher[w].saw[e], watcher[w].started)
      /\ rows' = [e \in Exposures |-> IF e \in done THEN RowAfter(rows[e], found[e]) ELSE rows[e]]
      /\ latched' \in IF \E e \in done : found[e] \in Critical THEN {TRUE} ELSE {latched, TRUE}
  BY DEF HandleRows
<1>3. latched' \in BOOLEAN /\ (latched => latched')
  BY Zenon, <1>1, <1>2
<1>4. \A e \in done : found[e] \in Critical => latched'
  BY Zenon, <1>2
<1>5. ASSUME NEW r \in IntentRows, NEW f
      PROVE  RowAfter(r, f) \in IntentRows /\ (r.state # "SUBMITTING" => RowAfter(r, f).state # "SUBMITTING")
  BY DEF RowAfter, IntentRows
<1>6. ASSUME NEW e \in done
      PROVE  /\ rows[e].state = "CLOSED" => rows'[e].state = "CLOSED"
             /\ watcher[w].saw[e] > 0 =>
                  \/ rows'[e].state = "CLOSED"
                  \/ found[e] = "mismatch" /\ latched' /\ rows'[e] = rows[e]
                  \/ found[e] = "absent" /\ rows'[e].state = "UNCERTAIN"
  <2> DEFINE r == rows[e]
             f == found[e]
  <2>1. r \in IntentRows /\ rows'[e] = RowAfter(r, f) /\ watcher[w].saw[e] \in Nat
    BY <1>1, <1>2
  <2>2. f \in Findings(r, watcher[w].saw[e], watcher[w].started)
    BY <1>2
  <2> HIDE DEF r, f
  <2>3. CASE r.state = "CLOSED"
    <3>1. f \in {"settled", "unexplained"}
      BY <2>2, <2>3 DEF Findings
    <3>2. rows'[e] = r
      BY <2>1, <3>1 DEF RowAfter
    <3>3. QED
      BY <2>3, <3>2 DEF r
  <2>4. CASE r.state # "CLOSED" /\ watcher[w].saw[e] > 0
    <3>1. f \in {"absent", "closed", "mismatch"}
      BY <2>1, <2>2, <2>4 DEF Findings
    <3>2. CASE f = "absent"
      BY <2>1, <2>4, <3>2 DEF RowAfter, IntentRows, r, f
    <3>3. CASE f = "closed"
      BY <2>1, <2>4, <3>3 DEF RowAfter, IntentRows, r
    <3>4. CASE f = "mismatch"
      <4>1. latched'
        BY Zenon, <1>4, <3>4 DEF Critical, f
      <4>2. rows'[e] = r
        BY <2>1, <3>4 DEF RowAfter
      <4>3. QED
        BY Zenon, <2>4, <3>4, <4>1, <4>2 DEF r, f
    <3>5. QED
      BY <3>1, <3>2, <3>3, <3>4
  <2>5. CASE r.state # "CLOSED" /\ ~(watcher[w].saw[e] > 0)
    BY <2>5 DEF r
  <2>6. QED
    BY <2>3, <2>4, <2>5
<1>7. rows' \in [Exposures -> IntentRows]
  BY <1>1, <1>2, <1>5
<1>8. \A e \in Exposures \ done : rows'[e] = rows[e]
  BY <1>2
<1>9. RowsMove
  <2>1. SUFFICES ASSUME NEW e \in Exposures
                 PROVE  /\ rows[e].state = "CLOSED" => rows'[e].state = "CLOSED"
                        /\ rows[e].state # "SUBMITTING" => rows'[e].state # "SUBMITTING"
    BY DEF RowsMove
  <2>2. CASE e \in done
    <3>1. rows[e] \in IntentRows /\ rows'[e] = RowAfter(rows[e], found[e])
      BY <1>1, <1>2, <2>2
    <3>2. rows[e].state # "SUBMITTING" => rows'[e].state # "SUBMITTING"
      BY Zenon, <1>5, <3>1
    <3>3. QED
      BY Zenon, <1>6, <2>2, <3>2
  <2>3. CASE e \notin done
    BY Zenon, <1>8, <2>3
  <2>4. QED
    BY <2>2, <2>3
<1>10. QED
  BY Zenon, <1>3, <1>6, <1>7, <1>9

(* reconcile_once raises with some of the rows handled. *)
LEMMA ReconcileRaisesStep ==
    ASSUME WatchInvariant, NEW w \in Watchers, ReconcileRaises(w)
    PROVE  WatchInvariant'
<1>1. /\ watcher[w].pc \in CycleLabels /\ CycleFails(w) /\ UNCHANGED <<clock, lease, cycles, resets, exited>>
  BY DEF ReconcileRaises, WatcherAt, CycleLabels
<1>2. PICK done \in SUBSET Exposures, found \in [Exposures -> AllFindings] : HandleRows(w, done, found)
  BY DEF ReconcileRaises
<1>3. /\ rows' \in [Exposures -> IntentRows] /\ RowsMove /\ latched' \in BOOLEAN /\ (latched => latched')
  BY Zenon, <1>2, RowsHandled
<1>4. QED
  BY Zenon, <1>1, <1>3, CycleFailing

(* reconcile_once answers. *)
LEMMA ReconcileStep ==
    ASSUME WatchInvariant, NEW w \in Watchers, Reconcile(w)
    PROVE  WatchInvariant'
<1>1. PICK found \in [Exposures -> AllFindings], st \in {"COMPLETE", "PENDING", "CRITICAL_HOLD"} :
        /\ HandleRows(w, Exposures, found)
        /\ st = "CRITICAL_HOLD" <=> latched'
        /\ (\E e \in Exposures : found[e] = "absent") => st # "COMPLETE"
        /\ watcher' = [watcher EXCEPT ![w].pc = "judge", ![w].status = st, ![w].saw = Unread]
  BY Zenon DEF Reconcile
<1> DEFINE x == [watcher[w] EXCEPT !.pc = "judge", !.status = st, !.saw = Unread]
<1>2. /\ x \in WatcherRecords /\ x.pc = "judge" /\ x.started = watcher[w].started /\ x.status = st
      /\ x.completed = watcher[w].completed /\ x.token = watcher[w].token
  <2>1. watcher[w] \in WatcherRecords /\ Unread \in [Exposures -> Nat]
    BY WatcherFacts DEF Unread
  <2>2. QED
    BY Zenon, <2>1 DEF WatcherRecords, WatcherLabels, CycleLabels, Answers, Certain
<1>3. watcher' = [watcher EXCEPT ![w] = x]
  BY Zenon, <1>1
<1> HIDE DEF x
<1>4. watcher[w].pc = "reconcile" /\ UNCHANGED <<clock, lease, cycles, resets, exited>>
  BY Zenon DEF Reconcile, WatcherAt
<1>5. HasToken(watcher[w]) /\ watcher[w].pc \in CycleLabels
  BY <1>4 DEF HasToken, CycleLabels
<1>6. /\ rows' \in [Exposures -> IntentRows] /\ RowsMove /\ latched' \in BOOLEAN /\ (latched => latched')
      /\ \A e \in Exposures : watcher[w].saw[e] > 0 =>
            \/ rows'[e].state = "CLOSED"
            \/ found[e] = "mismatch" /\ latched'
            \/ found[e] = "absent" /\ rows'[e].state = "UNCERTAIN"
  <2>1. Exposures \in SUBSET Exposures /\ HandleRows(w, Exposures, found)
    BY <1>1
  <2>2. QED
    BY <2>1, RowsHandled
<1>7. Held(x.started, x.status, exited, rows')
  <2>1. SUFFICES ASSUME NEW e \in Exposures, exited[e] > 0, rows'[e].state # "CLOSED", x.started > exited[e]
                 PROVE  st # "COMPLETE" /\ (st = "PENDING" => rows'[e].state # "SUBMITTING")
    BY <1>2 DEF Held
  <2>2. watcher[w].saw[e] > 0
    <3>1. Seen(watcher[w].started, watcher[w].saw, exited) /\ exited[e] \in Nat
      BY <1>4, WatcherFacts DEF WatcherOK, WatchInvariant, WatchTyped
    <3>2. exited[e] < watcher[w].started
      BY <1>2, <2>1, <3>1, WatcherFacts
    <3>3. QED
      BY <2>1, <3>1, <3>2 DEF Seen
  <2>3. CASE latched'
    <3>1. st = "CRITICAL_HOLD"
      BY Zenon, <1>1, <2>3
    <3>2. QED
      BY <3>1
  <2>4. CASE found[e] = "absent" /\ rows'[e].state = "UNCERTAIN"
    <3>1. st # "COMPLETE"
      BY Zenon, <1>1, <2>4
    <3>2. QED
      BY <2>4, <3>1
  <2>5. QED
    BY Zenon, <1>6, <2>1, <2>2, <2>3, <2>4
<1>8. WatcherOK(x, clock, lease.token, cycles, latched', resets, exited, rows')
  <2>1. x.status \in Answers
    BY <1>2 DEF Answers, Certain
  <2>2. QED
    BY <1>2, <1>5, <1>7, <2>1, WatcherFacts DEF WatcherOK, CycleLabels
<1>9. QED
  BY Zenon, <1>2, <1>3, <1>4, <1>5, <1>6, <1>8, WatcherFacts, QuietWatch

(* A cycle's end is read; what makes it critical or failed is latched first. *)
LEMMA CompletedStep ==
    ASSUME WatchInvariant, NEW w \in Watchers, Judge(w) \/ LatchFailure(w)
    PROVE  WatchInvariant'
<1>1. PICK label \in {"append", "failed"} :
          /\ watcher' = [watcher EXCEPT ![w].pc = label, ![w].completed = clock]
          /\ label = "append" => Judge(w)
          /\ label = "failed" => LatchFailure(w)
  BY DEF Judge, LatchFailure
<1> DEFINE x == [watcher[w] EXCEPT !.pc = label, !.completed = clock]
<1>2. /\ x \in WatcherRecords /\ x.pc = label /\ x.started = watcher[w].started
      /\ x.completed = clock /\ x.token = watcher[w].token /\ x.status = watcher[w].status
  <2>1. watcher[w] \in WatcherRecords /\ clock \in Nat
    BY WatcherFacts
  <2>2. QED
    BY Zenon, <2>1 DEF WatcherRecords, WatcherLabels, CycleLabels
<1>3. watcher' = [watcher EXCEPT ![w] = x]
  BY Zenon, <1>1
<1> HIDE DEF x
<1>4. UNCHANGED <<clock, lease, cycles, resets, exited, rows>>
  BY DEF Judge, LatchFailure
<1>5. HasToken(watcher[w]) /\ watcher[w].pc \in CycleLabels
  BY DEF HasToken, CycleLabels, Judge, LatchFailure, WatcherAt
<1>6. latched' \in BOOLEAN /\ (latched => latched')
  BY Zenon DEF Judge, LatchFailure, WatchInvariant, WatchTyped
<1>7. label = "append" => watcher[w].pc = "judge" /\ (watcher[w].status = "CRITICAL_HOLD" => latched')
  BY Zenon, <1>1 DEF Judge, WatcherAt
<1>8. label = "failed" => latched'
  BY Zenon, <1>1 DEF LatchFailure
<1>9. WatcherOK(x, clock, lease.token, cycles, latched', resets, exited, rows)
  BY <1>2, <1>5, <1>6, <1>7, <1>8, WatcherFacts DEF WatcherOK, CycleLabels
<1>10. QED
  BY Zenon, <1>2, <1>3, <1>4, <1>5, <1>6, <1>9, WatcherFacts, QuietWatch

(* The lease is taken: the new token is above all that are held or on record. *)
LEMMA ClaimLeaseStep ==
    ASSUME WatchInvariant, NEW w \in Watchers, ClaimLease(w)
    PROVE  WatchInvariant'
<1> DEFINE k == lease.token + 1
           x == [watcher[w] EXCEPT !.pc = "cycle", !.token = k]
<1>1. /\ lease.token \in Nat /\ k \in Nat /\ k > lease.token /\ cycles \in Seq(Receipts)
      /\ watcher \in [Watchers -> WatcherRecords]
  BY WatcherFacts DEF WatchInvariant, WatchTyped
<1>2. watcher' = [watcher EXCEPT ![w] = x]
  BY Zenon DEF ClaimLease
<1>3. lease' = [owner |-> watcher[w].owner, token |-> k, expires |-> watcher[w].started + LeaseTerm]
      /\ UNCHANGED <<clock, cycles, latched, resets, exited, rows>>
  BY DEF ClaimLease
<1> HIDE DEF k
<1>4. /\ x \in WatcherRecords /\ x.pc = "cycle" /\ x.started = watcher[w].started
      /\ x.completed = watcher[w].completed /\ x.token = k
  <2>1. watcher[w] \in WatcherRecords
    BY WatcherFacts
  <2>2. QED
    BY Zenon, <1>1, <2>1 DEF WatcherRecords, WatcherLabels, CycleLabels
<1> HIDE DEF x
<1>5. lease' \in [owner : Owners \cup {"none"}, token : Nat, expires : Nat] /\ lease'.token = k
  <2>1. watcher[w].owner \in Owners \cup {"none"}
    BY WatcherFacts DEF WatcherRecords
  <2>2. watcher[w].started + LeaseTerm \in Nat
    BY WatcherFacts, WatcherAssumption
  <2>3. QED
    BY <1>1, <1>3, <2>1, <2>2
<1>6. WatchTyped'
  BY <1>1, <1>2, <1>3, <1>4, <1>5 DEF WatchInvariant, WatchTyped
<1>7. \A m \in 1..Len(cycles) : cycles[m].token \in Nat /\ cycles[m].token <= lease.token
  <2>1. \A m \in 1..Len(cycles) : cycles[m] \in Receipts
    BY <1>1
  <2>2. QED
    BY <2>1 DEF WatchInvariant, CyclesOK, Receipts
<1>8. CyclesOK(clock, k, cycles, latched, resets, exited, rows)
  BY <1>1, <1>7 DEF WatchInvariant, CyclesOK
<1>9. ASSUME NEW v \in Watchers PROVE WatcherOK(watcher'[v], clock, k, cycles, latched, resets, exited, rows)
  <2>1. CASE v = w
    BY <1>1, <1>2, <1>4, <1>7, <2>1, WatcherFacts DEF WatcherOK, CycleLabels
  <2>2. CASE v # w
    <3>1. watcher'[v] = watcher[v]
      BY <1>1, <1>2, <2>2
    <3>2. watcher[v].pc \in CycleLabels => watcher[v].token # k
      BY <1>1, WatcherFacts DEF WatcherOK, HasToken
    <3>3. QED
      BY <1>1, <3>1, <3>2, WatcherFacts DEF WatcherOK
  <2>3. QED
    BY <2>1, <2>2
<1>10. OneHolderPerToken'
  <2>1. ASSUME NEW v \in Watchers, v # w, HasToken(watcher[v]) PROVE watcher[v].token # k
    BY <1>1, <2>1, WatcherFacts DEF WatcherOK
  <2>2. \A v \in Watchers : watcher'[v] = IF v = w THEN x ELSE watcher[v]
    BY <1>1, <1>2
  <2>3. QED
    BY <1>4, <2>1, <2>2 DEF WatchInvariant, OneHolderPerToken
<1>11. QED
  BY <1>3, <1>5, <1>6, <1>8, <1>9, <1>10 DEF WatchInvariant

----------------------------------------------------------------------------
(* A receipt of the token that holds the lease, and what its watcher does next. *)
LEMMA ReceiptStep ==
    ASSUME WatchInvariant, NEW w \in Watchers, NEW x \in WatcherRecords, NEW r \in Receipts,
           watcher[w].pc \in CycleLabels, watcher[w].token = lease.token,
           watcher' = [watcher EXCEPT ![w] = x], cycles' = Append(cycles, r),
           UNCHANGED <<clock, lease, latched, resets, exited, rows>>,
           r.token = watcher[w].token, r.started = watcher[w].started, r.completed = watcher[w].completed,
           resets = 0 /\ r.status \notin Certain => latched,
           Held(r.started, r.status, exited, rows),
           x.started <= clock, x.completed <= clock, x.pc \in {"off", "cycle"},
           x.pc = "cycle" => x.token = watcher[w].token /\ r.status \in Certain
    PROVE  WatchInvariant'
<1>1. /\ cycles \in Seq(Receipts) /\ Len(cycles) \in Nat /\ lease.token \in Nat
      /\ watcher \in [Watchers -> WatcherRecords] /\ clock \in Nat
  BY WatcherFacts DEF WatchInvariant, WatchTyped
<1> DEFINE new == Append(cycles, r)
<1>2. /\ new \in Seq(Receipts) /\ Len(new) = Len(cycles) + 1 /\ new[Len(cycles) + 1] = r
      /\ \A m \in 1..Len(cycles) : new[m] = cycles[m]
  BY <1>1
<1> HIDE DEF new
<1>3. cycles' = new
  BY DEF new
<1>4. WatchTyped'
  BY <1>1, <1>2, <1>3 DEF WatchInvariant, WatchTyped
<1>5. HasToken(watcher[w])
  BY DEF HasToken
<1>6. ASSUME NEW m \in 1..Len(cycles)
      PROVE  /\ cycles[m].token \in Nat
             /\ cycles[m].token < r.token \/ (cycles[m].token = r.token /\ cycles[m].status \in Certain)
             /\ cycles[m].completed <= r.started
  <2>1. cycles[m] \in Receipts /\ cycles[m].token <= lease.token
    BY <1>1 DEF WatchInvariant, CyclesOK
  <2>2. cycles[m].token \in Nat
    BY <2>1 DEF Receipts
  <2>3. QED
    BY <1>1, <1>5, <2>1, <2>2, WatcherFacts DEF WatcherOK
<1>7. Fencing(new)
  <2>1. SUFFICES ASSUME NEW n \in 1..Len(new), NEW m \in 1..(n - 1)
                 PROVE  /\ \/ new[m].token < new[n].token
                           \/ new[m].token = new[n].token /\ new[m].status \in Certain
                        /\ new[m].completed <= new[n].started
    BY DEF Fencing
  <2>2. m \in 1..Len(cycles) /\ new[m] = cycles[m]
    BY <1>1, <1>2
  <2>3. CASE n \in 1..Len(cycles)
    BY <1>2, <2>2, <2>3 DEF WatchInvariant, Fencing
  <2>4. CASE n = Len(cycles) + 1
    BY <1>2, <1>6, <2>2, <2>4
  <2>5. n \in 1..Len(cycles) \/ n = Len(cycles) + 1
    BY <1>1, <1>2
  <2>6. QED
    BY <2>3, <2>4, <2>5
<1>8. CyclesOK(clock, lease.token, new, latched, resets, exited, rows)
  <2>1. SUFFICES ASSUME NEW n \in 1..Len(new)
                 PROVE  /\ new[n].token <= lease.token /\ new[n].started <= clock /\ new[n].completed <= clock
                        /\ resets = 0 /\ new[n].status \notin Certain => latched
                        /\ Held(new[n].started, new[n].status, exited, rows)
    BY DEF CyclesOK
  <2>2. CASE n \in 1..Len(cycles)
    BY <1>2, <2>2 DEF WatchInvariant, CyclesOK
  <2>3. CASE n = Len(cycles) + 1
    BY <1>1, <1>2, <2>3, WatcherFacts DEF WatcherOK
  <2>4. QED
    BY <1>1, <1>2, <2>2, <2>3
<1>9. ASSUME NEW v \in Watchers
      PROVE  WatcherOK(watcher'[v], clock, lease.token, new, latched, resets, exited, rows)
  <2>1. \A m \in 1..Len(new) : new[m] = r \/ \E l \in 1..Len(cycles) : new[m] = cycles[l]
    BY <1>1, <1>2
  <2>2. CASE v = w
    <3>1. watcher'[v] = x
      BY <1>1, <2>2
    <3>2. x.pc = "cycle" => \A m \in 1..Len(new) : new[m].token = x.token => new[m].status \in Certain
      BY Zenon, <1>5, <2>1, WatcherFacts DEF WatcherOK
    <3>3. QED
      BY <1>1, <3>1, <3>2, WatcherFacts DEF WatcherOK, HasToken, CycleLabels
  <2>3. CASE v # w
    <3>1. watcher'[v] = watcher[v]
      BY <1>1, <2>3
    <3>2. HasToken(watcher[v]) => watcher[v].token # lease.token
      BY <1>5, <2>3 DEF WatchInvariant, OneHolderPerToken
    <3>3. HasToken(watcher[v]) => \A m \in 1..Len(new) : new[m].token = watcher[v].token => new[m].status \in Certain
      BY Zenon, <2>1, <3>2, WatcherFacts DEF WatcherOK
    <3>4. watcher[v].pc \in CycleLabels => HasToken(watcher[v])
      BY DEF HasToken
    <3>5. QED
      BY Zenon, <3>1, <3>2, <3>3, <3>4, WatcherFacts DEF WatcherOK
  <2>4. QED
    BY <2>2, <2>3
<1>10. OneHolderPerToken'
  <2>1. HasToken(x) => x.token = watcher[w].token
    BY DEF HasToken, CycleLabels
  <2>2. \A v \in Watchers : watcher'[v] = IF v = w THEN x ELSE watcher[v]
    BY <1>1
  <2>3. QED
    BY <1>5, <2>1, <2>2 DEF WatchInvariant, OneHolderPerToken
<1>11. QED
  BY <1>3, <1>4, <1>7, <1>8, <1>9, <1>10 DEF WatchInvariant

(* append_cycle writes the receipt of the cycle. *)
LEMMA AppendCycleStep ==
    ASSUME WatchInvariant, NEW w \in Watchers, AppendCycle(w)
    PROVE  WatchInvariant'
<1> DEFINE r == Receipt(w, watcher[w].status)
           y == [Asleep EXCEPT !.pc = "cycle", !.owner = watcher[w].owner, !.token = watcher[w].token]
<1>1. /\ watcher[w].pc = "append" /\ watcher[w].token = lease.token /\ cycles' = Append(cycles, r)
      /\ UNCHANGED <<clock, lease, latched, resets, exited, rows>>
  BY DEF AppendCycle, WatcherAt, Fenced
<1>2. watcher[w].pc \in CycleLabels /\ watcher[w].status \in Answers /\ watcher[w].owner \in Owners \cup {"none"}
      /\ Held(watcher[w].started, watcher[w].status, exited, rows)
      /\ (resets = 0 /\ watcher[w].status \notin Certain => latched)
  BY <1>1, WatcherFacts DEF WatcherOK, CycleLabels, Answers, WatcherRecords
<1>3. /\ r \in Receipts /\ r.token = watcher[w].token /\ r.started = watcher[w].started
      /\ r.completed = watcher[w].completed /\ r.status = watcher[w].status
  BY <1>2, WatcherFacts DEF Receipt, Receipts
<1> HIDE DEF r
<1>4. CASE watcher' = [watcher EXCEPT ![w] = Asleep]
  <2>1. Asleep.pc = "off" /\ Asleep.started = 0 /\ Asleep.completed = 0 /\ Asleep \in WatcherRecords
    BY AsleepTyped DEF Asleep
  <2>2. 0 <= clock
    BY WatcherFacts
  <2>3. QED
    BY Zenon, <1>1, <1>2, <1>3, <1>4, <2>1, <2>2, ReceiptStep
<1>5. CASE watcher[w].status # "CRITICAL_HOLD" /\ watcher' = [watcher EXCEPT ![w] = y]
  <2>1. y \in WatcherRecords /\ y.pc = "cycle" /\ y.token = watcher[w].token /\ y.started = 0 /\ y.completed = 0
    <3> DEFINE o == watcher[w].owner
               k == watcher[w].token
    <3>1. o \in Owners \cup {"none"} /\ k \in Nat
      BY <1>2, WatcherFacts
    <3> HIDE DEF o, k
    <3>2. y = [Asleep EXCEPT !.pc = "cycle", !.owner = o, !.token = k]
      BY Zenon DEF o, k
    <3> HIDE DEF y
    <3>3. y \in WatcherRecords /\ y.pc = "cycle" /\ y.token = k /\ y.started = 0 /\ y.completed = 0
      BY Zenon, <3>1, <3>2, AsleepTyped DEF WatcherRecords, WatcherLabels, CycleLabels, Asleep
    <3>4. QED
      BY <3>3 DEF k
  <2> HIDE DEF y
  <2>2. 0 <= clock /\ watcher[w].status \in Certain
    BY <1>2, <1>5, WatcherFacts DEF Answers
  <2>3. QED
    BY Zenon, <1>1, <1>2, <1>3, <1>5, <2>1, <2>2, ReceiptStep
<1>6. QED
  BY <1>4, <1>5 DEF AppendCycle, Sleeps, NextCycle

(* The FAILED receipt ends run, and so does its refusal. *)
LEMMA RecordFailureStep ==
    ASSUME WatchInvariant, NEW w \in Watchers, RecordFailure(w)
    PROVE  WatchInvariant'
<1> DEFINE r == Receipt(w, "FAILED")
<1>1. /\ watcher[w].pc = "failed" /\ watcher' = [watcher EXCEPT ![w] = Asleep]
      /\ UNCHANGED <<clock, lease, latched, resets, exited, rows>>
  BY DEF RecordFailure, WatcherAt, Sleeps
<1>2. watcher[w].pc \in CycleLabels /\ (resets = 0 => latched)
  BY <1>1, WatcherFacts DEF WatcherOK, CycleLabels
<1>3. /\ r \in Receipts /\ r.token = watcher[w].token /\ r.started = watcher[w].started
      /\ r.completed = watcher[w].completed /\ r.status = "FAILED"
  BY WatcherFacts DEF Receipt, Receipts
<1>4. Asleep.pc = "off" /\ Asleep.started = 0 /\ Asleep.completed = 0 /\ Asleep \in WatcherRecords
  BY AsleepTyped DEF Asleep
<1> HIDE DEF r
<1>5. CASE watcher[w].token = lease.token /\ cycles' = Append(cycles, r)
  <2>1. 0 <= clock
    BY WatcherFacts
  <2>2. Held(r.started, r.status, exited, rows)
    BY <1>3 DEF Held
  <2>3. QED
    BY Zenon, <1>1, <1>2, <1>3, <1>4, <1>5, <2>1, <2>2, ReceiptStep
<1>6. CASE UNCHANGED cycles
  <2>1. WatcherOK(Asleep, clock, lease.token, cycles, latched, resets, exited, rows)
    BY WatcherFacts, AsleepTyped
  <2>2. QED
    BY Zenon, <1>1, <1>6, <2>1, WatcherFacts, AsleepTyped, QuietWatch
<1>7. QED
  BY <1>5, <1>6 DEF RecordFailure, Fenced, r

(* The clock, the market, the executor and the operator. *)
LEMMA OutsideWatchSteps ==
    ASSUME WatchInvariant, (\E e \in Exposures : AnswerRecorded(e) \/ PositionExits(e)) \/ OperatorResets \/ ClockTicks
    PROVE  WatchInvariant'
<1>1. /\ clock \in Nat /\ resets \in Nat /\ latched \in BOOLEAN /\ exited \in [Exposures -> Nat]
      /\ rows \in [Exposures -> IntentRows] /\ watcher \in [Watchers -> WatcherRecords]
  BY DEF WatchInvariant, WatchTyped
<1>2. UNCHANGED <<lease, cycles, watcher>>
  BY DEF AnswerRecorded, PositionExits, OperatorResets, ClockTicks
<1>3. clock' \in Nat /\ clock <= clock'
  <2>1. clock' = clock \/ clock' = clock + 1
    BY DEF AnswerRecorded, PositionExits, OperatorResets, ClockTicks
  <2>2. QED
    BY <1>1, <2>1
<1>4. latched' \in BOOLEAN /\ resets' \in Nat /\ (resets' = 0 => resets = 0 /\ (latched => latched'))
  <2>1. CASE OperatorResets
    <3>1. latched' \in BOOLEAN
      BY Zenon, <2>1 DEF OperatorResets
    <3>2. resets' \in Nat /\ resets' # 0
      BY <1>1, <2>1 DEF OperatorResets
    <3>3. QED
      BY Zenon, <3>1, <3>2
  <2>2. CASE UNCHANGED <<latched, resets>>
    BY <1>1, <2>2
  <2>3. QED
    BY <2>1, <2>2 DEF AnswerRecorded, PositionExits, ClockTicks
<1>5. /\ exited' \in [Exposures -> Nat]
      /\ \A e \in Exposures : exited'[e] = exited[e] \/ (exited[e] = 0 /\ exited'[e] = clock)
  <2>1. CASE UNCHANGED exited
    BY <1>1, <2>1
  <2>2. CASE \E e \in Exposures : PositionExits(e)
    BY <1>1, <2>2 DEF PositionExits
  <2>3. QED
    BY <2>1, <2>2 DEF AnswerRecorded, OperatorResets, ClockTicks
<1>6. rows' \in [Exposures -> IntentRows] /\ \A e \in Exposures : rows'[e] # rows[e] => rows[e].state = "SUBMITTING"
  <2>1. CASE UNCHANGED rows
    BY <1>1, <2>1
  <2>2. ASSUME NEW e \in Exposures, AnswerRecorded(e)
        PROVE  rows' \in [Exposures -> IntentRows] /\ \A d \in Exposures : rows'[d] # rows[d] => rows[d].state = "SUBMITTING"
    <3>1. PICK t \in {"ACKNOWLEDGED", "FILLED", "UNCERTAIN"} :
            rows' = [rows EXCEPT ![e] = [state |-> t, filled |-> (t = "FILLED")]]
      BY <2>2 DEF AnswerRecorded
    <3>2. [state |-> t, filled |-> (t = "FILLED")] \in IntentRows
      BY <3>1 DEF IntentRows
    <3>3. rows[e].state = "SUBMITTING"
      BY <2>2 DEF AnswerRecorded
    <3>4. QED
      BY <1>1, <3>1, <3>2, <3>3
  <2>3. QED
    BY <2>1, <2>2 DEF PositionExits, OperatorResets, ClockTicks
<1>7. \A s \in Nat : s <= clock => \A st : Held(s, st, exited, rows) => Held(s, st, exited', rows')
  <2>1. SUFFICES ASSUME NEW s \in Nat, s <= clock, NEW st, Held(s, st, exited, rows),
                        NEW e \in Exposures, exited'[e] > 0, rows'[e].state # "CLOSED", s > exited'[e]
                 PROVE  st # "COMPLETE" /\ (st = "PENDING" => rows'[e].state # "SUBMITTING")
    BY DEF Held
  <2>2. exited'[e] = exited[e]
    BY <1>1, <1>5, <2>1
  <2>3. CASE rows'[e] = rows[e]
    BY <2>1, <2>2, <2>3 DEF Held
  <2>4. CASE rows[e].state = "SUBMITTING"
    <3>1. st # "COMPLETE" /\ st # "PENDING"
      BY <2>1, <2>2, <2>4 DEF Held
    <3>2. QED
      BY <3>1
  <2>5. QED
    BY <1>6, <2>3, <2>4
<1>8. \A s \in Nat : s <= clock => \A saw : Seen(s, saw, exited) => Seen(s, saw, exited')
  BY <1>1, <1>5 DEF Seen
<1>9. WatchTyped'
  BY <1>2, <1>3, <1>4, <1>5, <1>6 DEF WatchInvariant, WatchTyped
<1>10. QED
  BY <1>1, <1>2, <1>3, <1>4, <1>7, <1>8, <1>9, WatchKept DEF WatchInvariant, OneHolderPerToken

(* The invariant holds in every reachable state. *)
LEMMA WatchInductive == WatchSpec => []WatchInvariant
<1>1. WatchInit => WatchInvariant
  <2> SUFFICES ASSUME WatchInit PROVE WatchInvariant
    OBVIOUS
  <2>1. WatchTyped /\ cycles = <<>> /\ \A w \in Watchers : watcher[w] = Asleep
    <3>1. cycles = <<>> /\ cycles \in Seq(Receipts)
      BY DEF WatchInit
    <3>2. watcher \in [Watchers -> WatcherRecords] /\ \A w \in Watchers : watcher[w] = Asleep
      BY AsleepTyped DEF WatchInit
    <3>3. latched \in BOOLEAN
      BY Zenon DEF WatchInit
    <3>4. /\ clock \in Nat /\ resets \in Nat /\ exited \in [Exposures -> Nat]
          /\ rows \in [Exposures -> IntentRows]
          /\ lease \in [owner : Owners \cup {"none"}, token : Nat, expires : Nat]
      BY DEF WatchInit, IntentRows
    <3>5. QED
      BY <3>1, <3>2, <3>3, <3>4 DEF WatchTyped
  <2>2. Fencing(cycles) /\ CyclesOK(clock, lease.token, cycles, latched, resets, exited, rows)
    BY <2>1 DEF Fencing, CyclesOK
  <2>3. clock \in Nat /\ lease.token \in Nat /\ resets \in Nat
    BY <2>1 DEF WatchTyped
  <2>4. OneHolderPerToken
    BY <2>1, AsleepTyped DEF OneHolderPerToken
  <2>5. QED
    BY <2>1, <2>2, <2>3, <2>4, AsleepTyped DEF WatchInvariant
<1>2. WatchInvariant /\ [WatchNext]_watchVars => WatchInvariant'
  <2> SUFFICES ASSUME WatchInvariant, [WatchNext]_watchVars PROVE WatchInvariant'
    OBVIOUS
  <2>1. ASSUME NEW w \in Watchers,
               \/ \E o \in Owners : RunWatcher(w, o)
               \/ ClaimLease(w) \/ ClaimRefused(w) \/ BeginCycle(w)
               \/ Refresh(w) \/ ReadBroker(w) \/ ReadRaises(w)
               \/ Reconcile(w) \/ ReconcileRaises(w) \/ Judge(w)
               \/ AppendCycle(w) \/ AppendRefused(w) \/ LatchFailure(w) \/ RecordFailure(w)
               \/ WatcherCrashes(w)
        PROVE  WatchInvariant'
    BY <2>1, RunWatcherStep, ClaimLeaseStep, SleepStep, BeginCycleStep, RefreshStep, ReadBrokerStep, ReconcileStep,
       ReconcileRaisesStep, AppendRefusedStep, CompletedStep, AppendCycleStep, RecordFailureStep
  <2>2. CASE UNCHANGED watchVars
    BY <2>2 DEF watchVars, WatchInvariant, WatchTyped, OneHolderPerToken
  <2>3. QED
    BY <2>1, <2>2, OutsideWatchSteps DEF WatchNext
<1>3. QED
  BY <1>1, <1>2, PTL DEF WatchSpec

(* Receipts are fenced: tokens only grow, an uncertain receipt is its token's last,
   and receipts never cover the same time. *)
THEOREM ReceiptsInFenceOrder == WatchSpec => []CyclesFenced
<1>1. WatchInvariant => CyclesFenced
  <2> SUFFICES ASSUME WatchInvariant PROVE CyclesFenced
    OBVIOUS
  <2>1. DOMAIN cycles = 1..Len(cycles)
    BY DEF WatchInvariant, WatchTyped
  <2>2. Fencing(cycles)
    BY DEF WatchInvariant
  <2>3. QED
    BY <2>1, <2>2 DEF Fencing, CyclesFenced, Certain
<1>2. QED
  BY <1>1, WatchInductive, PTL

(* An uncertain receipt is on record only with the kill switch latched, until the
   operator resets it. *)
THEOREM UncertaintyLatchedFirst == WatchSpec => []UncertaintyIsLatched
<1>1. WatchInvariant => UncertaintyIsLatched
  <2> SUFFICES ASSUME WatchInvariant PROVE UncertaintyIsLatched
    OBVIOUS
  <2>1. DOMAIN cycles = 1..Len(cycles)
    BY DEF WatchInvariant, WatchTyped
  <2>2. \A n \in 1..Len(cycles) : resets = 0 /\ cycles[n].status \notin Certain => latched
    BY Zenon DEF WatchInvariant, CyclesOK
  <2>3. SUFFICES ASSUME resets = 0, NEW n \in DOMAIN cycles, cycles[n].status \in {"CRITICAL_HOLD", "FAILED"}
                 PROVE  latched
    BY Zenon DEF UncertaintyIsLatched
  <2>4. n \in 1..Len(cycles) /\ cycles[n].status \notin Certain
    BY <2>1, <2>3 DEF Certain
  <2>5. QED
    BY Zenon, <2>2, <2>3, <2>4
<1>2. QED
  BY <1>1, WatchInductive, PTL

(* An exit that is not recorded is behind no COMPLETE receipt, and behind a PENDING one
   only with its row out of SUBMITTING, although a superseded watcher may still apply
   what it read before. *)
THEOREM UnrecordedExitsAreHeld == WatchSpec => []UnrecordedExitIsHeld
<1>1. WatchInvariant => UnrecordedExitIsHeld
  <2> SUFFICES ASSUME WatchInvariant PROVE UnrecordedExitIsHeld
    OBVIOUS
  <2>1. DOMAIN cycles = 1..Len(cycles)
    BY DEF WatchInvariant, WatchTyped
  <2>2. \A n \in 1..Len(cycles) : Held(cycles[n].started, cycles[n].status, exited, rows)
    BY Zenon DEF WatchInvariant, CyclesOK
  <2>3. QED
    BY Zenon, <2>1, <2>2 DEF Held, UnrecordedExitIsHeld
<1>2. QED
  BY <1>1, WatchInductive, PTL

----------------------------------------------------------------------------
(* The off-host delivery outbox. *)
BeatLabels == {"off", "deliver", "again", "write", "ack", "store", "fail", "head", "enqueue"}

Envelopes == [run : Runs, seq : Nat \ {0}, at : Nat]
Rows == [env : Envelopes, state : {"PENDING", "ACKNOWLEDGED"}, last : Int, ack : Int]
Beats == [pc : BeatLabels, run : Runs \cup {"none"}, at : Nat, second : BOOLEAN, todo : SUBSET Nat,
          row : Nat, failed : BOOLEAN, seq : Nat, ack : Int]

DeliveryTyped ==
    /\ now \in Nat
    /\ outbox \in Seq(Rows)
    /\ acked \subseteq [env : Envelopes, at : Int]
    /\ beat \in [Hosts -> Beats]

(* The row n of box is the status s of the run. *)
IsStatus(box, n, run, s) == n \in 1..Len(box) /\ box[n].env.run = run /\ box[n].env.seq = s

(* What the outbox says, in the terms of both properties: rows verify, a successor
   follows an acknowledgement, and the statuses of a run have no gaps. *)
BoxOK(box) ==
    /\ \A n \in 1..Len(box) : Verifies(box[n])
    /\ \A m, n \in 1..Len(box) :
          m < n /\ box[m].env.run = box[n].env.run =>
              box[m].state = "ACKNOWLEDGED" /\ box[m].env.seq < box[n].env.seq
    /\ \A n \in 1..Len(box) : \A s \in Nat :
          0 < s /\ s < box[n].env.seq => \E m : IsStatus(box, m, box[n].env.run, s)

(* What a heartbeat in progress relies on: rows it names exist, the acknowledgement
   it is about to store was validated, and below the number it is about to use every
   status of its run exists and is acknowledged. *)
BeatOK(b, box) ==
    /\ b.pc # "off" => b.run \in Runs
    /\ b.todo \subseteq 1..Len(box)
    /\ b.pc \in {"write", "ack", "store", "fail"} => b.row \in 1..Len(box)
    /\ b.pc = "store" => box[b.row].env.at <= b.ack /\ b.ack <= b.at + AckFuture
    /\ b.pc = "enqueue" => b.seq # 0
    /\ b.pc = "enqueue" =>
          \A s \in Nat : 0 < s /\ s < b.seq =>
              \E m : IsStatus(box, m, b.run, s) /\ box[m].state = "ACKNOWLEDGED"

DeliveryInvariant ==
    /\ DeliveryTyped
    /\ BoxOK(outbox)
    /\ \A p \in Hosts : BeatOK(beat[p], outbox)

(* Rows stay, with their envelopes, and an acknowledged row stays acknowledged. *)
Kept(box, new) ==
    /\ Len(box) <= Len(new)
    /\ \A n \in 1..Len(box) :
          /\ new[n].env = box[n].env
          /\ box[n].state = "ACKNOWLEDGED" => new[n].state = "ACKNOWLEDGED"

----------------------------------------------------------------------------
(* A heartbeat in progress is not disturbed by what others write to the outbox. *)
LEMMA BeatKept ==
    ASSUME NEW box \in Seq(Rows), NEW new \in Seq(Rows), NEW b \in Beats,
           BeatOK(b, box), Kept(box, new)
    PROVE  BeatOK(b, new)
<1>1. Len(box) \in Nat /\ Len(new) \in Nat /\ 1..Len(box) \subseteq 1..Len(new)
  BY DEF Kept
<1>2. b.pc = "store" => new[b.row].env.at <= b.ack /\ b.ack <= b.at + AckFuture
  BY DEF BeatOK, Kept
<1>3. ASSUME b.pc = "enqueue", NEW s \in Nat, 0 < s, s < b.seq
      PROVE  \E m : IsStatus(new, m, b.run, s) /\ new[m].state = "ACKNOWLEDGED"
  <2>1. PICK m : IsStatus(box, m, b.run, s) /\ box[m].state = "ACKNOWLEDGED"
    BY <1>3 DEF BeatOK
  <2>2. IsStatus(new, m, b.run, s) /\ new[m].state = "ACKNOWLEDGED"
    BY <1>1, <2>1 DEF IsStatus, Kept
  <2>3. QED
    BY <2>2
<1>4. QED
  BY <1>1, <1>2, <1>3 DEF BeatOK

(* The outbox that is left alone is kept. *)
LEMMA KeptSame ==
    ASSUME NEW box \in Seq(Rows)
    PROVE  Kept(box, box)
BY DEF Kept

(* What a step of one heartbeat has to show. *)
LEMMA HeartbeatSteps ==
    ASSUME DeliveryInvariant, NEW p \in Hosts, NEW b \in Beats,
           beat' = [beat EXCEPT ![p] = b], UNCHANGED now,
           outbox' \in Seq(Rows), acked' \subseteq [env : Envelopes, at : Int],
           Kept(outbox, outbox'), BoxOK(outbox'), BeatOK(b, outbox')
    PROVE  DeliveryInvariant'
<1>1. DeliveryTyped'
  BY DEF DeliveryInvariant, DeliveryTyped
<1>2. ASSUME NEW q \in Hosts PROVE BeatOK(beat'[q], outbox')
  <2>1. CASE q = p
    BY <2>1 DEF DeliveryInvariant, DeliveryTyped
  <2>2. CASE q # p
    <3>1. beat'[q] = beat[q] /\ beat[q] \in Beats /\ BeatOK(beat[q], outbox) /\ outbox \in Seq(Rows)
      BY <2>2 DEF DeliveryInvariant, DeliveryTyped
    <3>2. BeatOK(beat[q], outbox')
      BY <3>1, BeatKept
    <3>3. QED
      BY <3>1, <3>2
  <2>3. QED
    BY <2>1, <2>2
<1>3. QED
  BY <1>1, <1>2 DEF DeliveryInvariant

(* The same for a step that leaves the outbox alone. *)
LEMMA QuietSteps ==
    ASSUME DeliveryInvariant, NEW p \in Hosts, NEW b \in Beats,
           beat' = [beat EXCEPT ![p] = b], UNCHANGED <<now, outbox, acked>>,
           BeatOK(b, outbox)
    PROVE  DeliveryInvariant'
<1>1. /\ outbox' = outbox /\ acked' = acked /\ outbox \in Seq(Rows)
      /\ acked \subseteq [env : Envelopes, at : Int] /\ BoxOK(outbox)
  BY DEF DeliveryInvariant, DeliveryTyped
<1>2. Kept(outbox, outbox)
  BY <1>1, KeptSame
<1>3. QED
  BY Zenon, <1>1, <1>2, HeartbeatSteps

----------------------------------------------------------------------------
(* A heartbeat that is over, or the process that died in it, names nothing. *)
LEMMA OverIsTyped ==
    /\ Off \in Beats
    /\ \A box \in Seq(Rows) : BeatOK(Off, box)
BY DEF Off, Beat, NoAck, Beats, BeatLabels, BeatOK

(* What is left of a heartbeat that goes to another label. *)
LEMMA GoesOn ==
    ASSUME DeliveryInvariant, NEW p \in Hosts, NEW label \in BeatLabels, Goes(p, label)
    PROVE  LET b == [beat[p] EXCEPT !.pc = label]
           IN  /\ b \in Beats /\ beat' = [beat EXCEPT ![p] = b]
               /\ b.pc = label /\ b.run = beat[p].run /\ b.todo = beat[p].todo
               /\ b.row = beat[p].row /\ b.seq = beat[p].seq /\ b.at = beat[p].at
<1>1. beat[p] \in Beats
  BY DEF DeliveryInvariant, DeliveryTyped
<1>2. QED
  BY <1>1 DEF Goes, Beats

(* ListPending names the pending rows, or ends the heartbeat. *)
LEMMA ListPendingStep ==
    ASSUME DeliveryInvariant, NEW p \in Hosts, NEW run \in Runs, NEW at \in Nat,
           NEW second \in BOOLEAN, ListPending(p, run, at, second)
    PROVE  DeliveryInvariant'
<1>1. CASE Over(p)
  BY <1>1, OverIsTyped, QuietSteps DEF ListPending, Over, DeliveryInvariant, DeliveryTyped
<1>2. CASE ~Over(p)
  <2> DEFINE b == Beat("deliver", run, at, second, Pending)
  <2>1. outbox \in Seq(Rows) /\ Len(outbox) \in Nat /\ Pending \subseteq 1..Len(outbox)
    BY DEF DeliveryInvariant, DeliveryTyped, Pending
  <2>2. b \in Beats /\ b.pc = "deliver" /\ b.run = run /\ b.todo = Pending
    BY <2>1 DEF Beat, NoAck, Beats, BeatLabels
  <2>3. BeatOK(b, outbox)
    BY Zenon, <2>1, <2>2 DEF BeatOK
  <2>4. beat' = [beat EXCEPT ![p] = b] /\ UNCHANGED <<now, outbox, acked>>
    BY <1>2 DEF ListPending
  <2>5. QED
    BY Zenon, <2>2, <2>3, <2>4, QuietSteps
<1>3. QED
  BY <1>1, <1>2

(* Taking up the next envelope, _write_exclusive. *)
LEMMA CreateDropStep ==
    ASSUME DeliveryInvariant, NEW p \in Hosts, CreateDrop(p)
    PROVE  DeliveryInvariant'
<1>1. PICK n \in beat[p].todo, label \in {"write", "ack", "fail"} : Takes(p, n, label)
  BY DEF CreateDrop
<1> DEFINE b == [beat[p] EXCEPT !.pc = label, !.row = n, !.todo = beat[p].todo \ {n}]
<1>2. beat[p] \in Beats /\ BeatOK(beat[p], outbox) /\ beat[p].pc = "deliver"
  BY DEF DeliveryInvariant, DeliveryTyped, CreateDrop, BeatAt
<1>3. n \in 1..Len(outbox) /\ n \in Nat /\ beat[p].run \in Runs
  BY <1>2 DEF BeatOK, Beats
<1>4. b \in Beats /\ b.pc = label /\ b.run = beat[p].run /\ b.row = n /\ b.todo \subseteq beat[p].todo
  BY Zenon, <1>2, <1>3 DEF Beats, BeatLabels
<1>5. BeatOK(b, outbox)
  BY <1>2, <1>3, <1>4 DEF BeatOK
<1>6. beat' = [beat EXCEPT ![p] = b]
  BY Zenon, <1>1 DEF Takes
<1> HIDE DEF b
<1>7. QED
  BY Zenon, <1>4, <1>5, <1>6, QuietSteps DEF CreateDrop

(* The write to the drop. *)
LEMMA WriteDropStep ==
    ASSUME DeliveryInvariant, NEW p \in Hosts, WriteDrop(p)
    PROVE  DeliveryInvariant'
<1>1. PICK label \in {"ack", "fail"} : Goes(p, label)
  BY DEF WriteDrop
<1>2. BeatOK(beat[p], outbox) /\ beat[p].pc = "write"
  BY DEF DeliveryInvariant, WriteDrop, BeatAt
<1> DEFINE b == [beat[p] EXCEPT !.pc = label]
<1>6. label \in BeatLabels
  BY DEF BeatLabels
<1>3. /\ b \in Beats /\ beat' = [beat EXCEPT ![p] = b]
      /\ b.pc = label /\ b.run = beat[p].run /\ b.todo = beat[p].todo /\ b.row = beat[p].row
  BY Zenon, <1>1, <1>6, GoesOn
<1> HIDE DEF b
<1>4. BeatOK(b, outbox)
  BY <1>2, <1>3 DEF BeatOK
<1>5. QED
  BY Zenon, <1>3, <1>4, QuietSteps DEF WriteDrop

(* The report of deliver_pending. *)
LEMMA ReportStep ==
    ASSUME DeliveryInvariant, NEW p \in Hosts, Report(p)
    PROVE  DeliveryInvariant'
<1>1. CASE Over(p)
  BY <1>1, OverIsTyped, QuietSteps DEF Report, Over, DeliveryInvariant, DeliveryTyped
<1>2. CASE Goes(p, "head")
  <2>1. BeatOK(beat[p], outbox) /\ beat[p].pc = "deliver"
    BY DEF DeliveryInvariant, Report, BeatAt
  <2> DEFINE b == [beat[p] EXCEPT !.pc = "head"]
  <2>2. /\ b \in Beats /\ beat' = [beat EXCEPT ![p] = b]
        /\ b.pc = "head" /\ b.run = beat[p].run /\ b.todo = beat[p].todo
    BY Zenon, <1>2, GoesOn DEF BeatLabels
  <2>3. BeatOK(b, outbox)
    BY <2>1, <2>2 DEF BeatOK
  <2>4. QED
    BY Zenon, <2>2, <2>3, QuietSteps DEF Report
<1>3. QED
  BY ZenonT(20), <1>1, <1>2 DEF Report

(* The acknowledgement is validated against envelope and attempt. *)
LEMMA ReadAckStep ==
    ASSUME DeliveryInvariant, NEW p \in Hosts, ReadAck(p)
    PROVE  DeliveryInvariant'
<1>1. beat[p] \in Beats /\ BeatOK(beat[p], outbox) /\ beat[p].pc = "ack"
  BY DEF DeliveryInvariant, DeliveryTyped, ReadAck, BeatAt
<1>2. CASE Goes(p, "fail")
  <2> DEFINE b == [beat[p] EXCEPT !.pc = "fail"]
  <2>1. "fail" \in BeatLabels
    BY DEF BeatLabels
  <2>2. /\ b \in Beats /\ beat' = [beat EXCEPT ![p] = b]
        /\ b.pc = "fail" /\ b.run = beat[p].run /\ b.todo = beat[p].todo /\ b.row = beat[p].row
    BY Zenon, <1>2, <2>1, GoesOn
  <2> HIDE DEF b
  <2>3. BeatOK(b, outbox)
    BY <1>1, <2>2 DEF BeatOK
  <2>4. QED
    BY Zenon, <2>2, <2>3, QuietSteps DEF ReadAck
<1>3. CASE \E a \in acked :
            /\ a.env = Envelope(p) /\ a.env.at <= a.at /\ a.at <= beat[p].at + AckFuture
            /\ beat' = [beat EXCEPT ![p].pc = "store", ![p].ack = a.at]
  <2>1. PICK a \in acked :
            /\ a.env = Envelope(p) /\ a.env.at <= a.at /\ a.at <= beat[p].at + AckFuture
            /\ beat' = [beat EXCEPT ![p].pc = "store", ![p].ack = a.at]
    BY Zenon, <1>3
  <2> DEFINE b == [beat[p] EXCEPT !.pc = "store", !.ack = a.at]
  <2>2. a.at \in Int
    BY DEF DeliveryInvariant, DeliveryTyped
  <2>3. /\ b \in Beats /\ b.pc = "store" /\ b.run = beat[p].run /\ b.todo = beat[p].todo
        /\ b.row = beat[p].row /\ b.at = beat[p].at /\ b.ack = a.at
    BY Zenon, <1>1, <2>2 DEF Beats, BeatLabels
  <2>4. beat' = [beat EXCEPT ![p] = b]
    BY Zenon, <2>1
  <2> HIDE DEF b
  <2>5. BeatOK(b, outbox)
    BY <1>1, <2>1, <2>3 DEF BeatOK, Envelope
  <2>6. QED
    BY Zenon, <2>3, <2>4, <2>5, QuietSteps DEF ReadAck
<1>4. QED
  BY <1>2, <1>3 DEF ReadAck

(* A row that is rewritten with its envelope, verifies, and was pending or stays
   acknowledged leaves the outbox in order. *)
LEMMA RowRewritten ==
    ASSUME NEW box \in Seq(Rows), BoxOK(box), NEW n \in 1..Len(box), NEW row \in Rows,
           row.env = box[n].env, Verifies(row),
           box[n].state = "ACKNOWLEDGED" => row.state = "ACKNOWLEDGED"
    PROVE  LET new == [box EXCEPT ![n] = row]
           IN  new \in Seq(Rows) /\ Kept(box, new) /\ BoxOK(new)
<1> DEFINE new == [box EXCEPT ![n] = row]
<1>1. new \in Seq(Rows) /\ Len(new) = Len(box) /\ Len(box) \in Nat
  OBVIOUS
<1>2. \A m \in 1..Len(box) : new[m] = IF m = n THEN row ELSE box[m]
  OBVIOUS
<1> HIDE DEF new
<1>3. Kept(box, new)
  BY <1>1, <1>2 DEF Kept
<1>4. \A m \in 1..Len(new) : Verifies(new[m])
  BY <1>1, <1>2 DEF BoxOK
<1>5. \A l, m \in 1..Len(new) :
          l < m /\ new[l].env.run = new[m].env.run =>
              new[l].state = "ACKNOWLEDGED" /\ new[l].env.seq < new[m].env.seq
  BY <1>1, <1>3 DEF BoxOK, Kept
<1>6. ASSUME NEW m \in 1..Len(new), NEW s \in Nat, 0 < s, s < new[m].env.seq
      PROVE  \E l : IsStatus(new, l, new[m].env.run, s)
  <2>1. PICK l : IsStatus(box, l, box[m].env.run, s)
    BY <1>1, <1>3, <1>6 DEF BoxOK, Kept
  <2>2. IsStatus(new, l, new[m].env.run, s)
    BY <1>1, <1>3, <2>1 DEF IsStatus, Kept
  <2>3. QED
    BY <2>2
<1>7. BoxOK(new)
  BY <1>4, <1>5, <1>6 DEF BoxOK
<1>8. QED
  BY <1>1, <1>3, <1>7 DEF new

(* A stored acknowledgement sends the heartbeat to its next envelope. *)
LEMMA BeatDelivers ==
    ASSUME NEW b \in Beats, NEW x \in Int
    PROVE  LET c == [b EXCEPT !.pc = "deliver", !.row = 0, !.ack = x]
           IN  c \in Beats /\ c.pc = "deliver" /\ c.run = b.run /\ c.todo = b.todo
BY Zenon DEF Beats, BeatLabels

(* record_failure marks the delivery as failed. *)
LEMMA BeatFails ==
    ASSUME NEW b \in Beats
    PROVE  LET c == [b EXCEPT !.pc = "deliver", !.row = 0, !.failed = TRUE]
           IN  c \in Beats /\ c.pc = "deliver" /\ c.run = b.run /\ c.todo = b.todo
BY Zenon DEF Beats, BeatLabels

(* The head gives the heartbeat its sequence number. *)
LEMMA BeatNumbered ==
    ASSUME NEW b \in Beats, NEW k \in Nat
    PROVE  LET c == [b EXCEPT !.pc = "enqueue", !.seq = k]
           IN  /\ c \in Beats /\ c.pc = "enqueue" /\ c.run = b.run /\ c.todo = b.todo
               /\ c.seq = k
BY Zenon DEF Beats, BeatLabels

(* An attempt is recorded in a row. *)
LEMMA RowAttempted ==
    ASSUME NEW r \in Rows, NEW x \in Int
    PROVE  LET q == [r EXCEPT !.last = x]
           IN  q \in Rows /\ q.env = r.env /\ q.state = r.state
BY DEF Rows

(* The validated acknowledgement is stored, unless another process has done so. *)
LEMMA StoreAckStep ==
    ASSUME DeliveryInvariant, NEW p \in Hosts, StoreAck(p)
    PROVE  DeliveryInvariant'
<1> DEFINE n == beat[p].row
           row == [outbox[n] EXCEPT !.state = "ACKNOWLEDGED", !.last = beat[p].at, !.ack = beat[p].ack]
           b == [beat[p] EXCEPT !.pc = "deliver", !.row = 0, !.ack = NoAck]
<1>1. /\ beat[p] \in Beats /\ BeatOK(beat[p], outbox) /\ beat[p].pc = "store"
      /\ outbox \in Seq(Rows) /\ BoxOK(outbox) /\ acked \subseteq [env : Envelopes, at : Int]
  BY DEF DeliveryInvariant, DeliveryTyped, StoreAck, BeatAt
<1>2. n \in 1..Len(outbox) /\ outbox[n] \in Rows
  BY <1>1 DEF BeatOK
<1>3. b \in Beats /\ b.pc = "deliver" /\ b.run = beat[p].run /\ b.todo = beat[p].todo
  <2>1. NoAck \in Int
    BY DEF NoAck
  <2>2. QED
    BY Zenon, <1>1, <2>1, BeatDelivers
<1>4. beat' = [beat EXCEPT ![p] = b] /\ UNCHANGED <<now, acked>>
  BY Zenon DEF StoreAck
<1> HIDE DEF b
<1>5. BeatOK(b, outbox)
  BY <1>1, <1>3 DEF BeatOK
<1>6. CASE outbox' = outbox
  BY Zenon, <1>3, <1>4, <1>5, <1>6, QuietSteps
<1>7. CASE outbox' = [outbox EXCEPT ![n] = row]
  <2>1. /\ row \in Rows /\ row.env = outbox[n].env /\ row.state = "ACKNOWLEDGED"
        /\ row.last = beat[p].at /\ row.ack = beat[p].ack
    <3>1. beat[p].at \in Int /\ beat[p].ack \in Int
      BY <1>1 DEF Beats
    <3>2. QED
      <4> DEFINE x == beat[p].at
                 y == beat[p].ack
                 r == outbox[n]
      <4>1. row = [r EXCEPT !.state = "ACKNOWLEDGED", !.last = x, !.ack = y]
        BY Zenon
      <4>2. r \in Rows /\ x \in Int /\ y \in Int
        BY <1>2, <3>1
      <4> HIDE DEF x, y, r, row
      <4>3. row \in Rows /\ row.env = r.env /\ row.state = "ACKNOWLEDGED" /\ row.last = x /\ row.ack = y
        BY Zenon, <4>1, <4>2 DEF Rows
      <4>4. QED
        BY Zenon, <4>3 DEF x, y, r
  <2> HIDE DEF row
  <2>2. Verifies(row)
    BY <1>1, <2>1 DEF BeatOK, Verifies
  <2> HIDE DEF n
  <2>3. outbox' \in Seq(Rows) /\ Kept(outbox, outbox') /\ BoxOK(outbox')
    BY Zenon, <1>1, <1>2, <1>7, <2>1, <2>2, RowRewritten
  <2>4. BeatOK(b, outbox')
    BY <1>1, <1>3, <1>5, <2>3, BeatKept
  <2>5. QED
    BY Zenon, <1>1, <1>3, <1>4, <2>3, <2>4, HeartbeatSteps
<1>8. QED
  BY <1>6, <1>7 DEF StoreAck

(* record_failure, on a row that is still pending. *)
LEMMA RecordAttemptStep ==
    ASSUME DeliveryInvariant, NEW p \in Hosts, RecordAttempt(p)
    PROVE  DeliveryInvariant'
<1> DEFINE n == beat[p].row
           row == [outbox[n] EXCEPT !.last = beat[p].at]
           b == [beat[p] EXCEPT !.pc = "deliver", !.row = 0, !.failed = TRUE]
<1>1. /\ beat[p] \in Beats /\ BeatOK(beat[p], outbox) /\ beat[p].pc = "fail"
      /\ outbox \in Seq(Rows) /\ BoxOK(outbox) /\ acked \subseteq [env : Envelopes, at : Int]
  BY ZenonT(20) DEF DeliveryInvariant, DeliveryTyped, RecordAttempt, BeatAt
<1>2. n \in 1..Len(outbox) /\ outbox[n] \in Rows
  BY <1>1 DEF BeatOK
<1>3. CASE outbox[n].state # "PENDING"
  BY <1>3, OverIsTyped, QuietSteps DEF RecordAttempt, Over, DeliveryInvariant, DeliveryTyped
<1>4. CASE outbox[n].state = "PENDING"
  <2>1. b \in Beats /\ b.pc = "deliver" /\ b.run = beat[p].run /\ b.todo = beat[p].todo
    BY Zenon, <1>1, BeatFails
  <2>2. beat' = [beat EXCEPT ![p] = b] /\ UNCHANGED <<now, acked>>
    BY Zenon, <1>4 DEF RecordAttempt
  <2> HIDE DEF b
  <2>3. BeatOK(b, outbox)
    BY <1>1, <2>1 DEF BeatOK
  <2>4. row \in Rows /\ row.env = outbox[n].env /\ row.state = "PENDING"
    <3>1. beat[p].at \in Int
      BY <1>1 DEF Beats
    <3>2. QED
      BY <1>2, <1>4, <3>1, RowAttempted
  <2>5. Verifies(row)
    BY <2>4 DEF Verifies
  <2>6. outbox' = [outbox EXCEPT ![n] = row]
    BY <1>4 DEF RecordAttempt
  <2> HIDE DEF row, n
  <2>7. outbox' \in Seq(Rows) /\ Kept(outbox, outbox') /\ BoxOK(outbox')
    BY Zenon, <1>1, <1>2, <1>4, <2>4, <2>5, <2>6, RowRewritten
  <2>8. BeatOK(b, outbox')
    BY <1>1, <2>1, <2>3, <2>7, BeatKept
  <2>9. QED
    BY Zenon, <1>1, <2>1, <2>2, <2>7, <2>8, HeartbeatSteps
<1>5. QED
  BY <1>3, <1>4

(* _durable_heartbeat_head finds the run's statuses to be one acknowledged chain. *)
LEMMA DurableHeadStep ==
    ASSUME DeliveryInvariant, NEW p \in Hosts, DurableHead(p)
    PROVE  DeliveryInvariant'
<1>1. /\ beat[p] \in Beats /\ BeatOK(beat[p], outbox) /\ beat[p].pc = "head"
      /\ outbox \in Seq(Rows)
  BY DEF DeliveryInvariant, DeliveryTyped, DurableHead, BeatAt
<1>2. CASE Over(p)
  BY Zenon, <1>2, OverIsTyped, QuietSteps DEF DurableHead, Over, DeliveryInvariant, DeliveryTyped
<1>3. CASE ~Over(p)
  <2>1. PICK k \in 0..Len(outbox) :
            Chained(p, k) /\ beat' = [beat EXCEPT ![p].pc = "enqueue", ![p].seq = k + 1]
    BY <1>3 DEF DurableHead
  <2>2. \A m \in Mine(p) : outbox[m].state = "ACKNOWLEDGED"
    BY <1>3 DEF DurableHead
  <2> DEFINE b == [beat[p] EXCEPT !.pc = "enqueue", !.seq = k + 1]
  <2>3. k \in Nat
    BY <1>1
  <2>4. /\ b \in Beats /\ b.pc = "enqueue" /\ b.run = beat[p].run /\ b.todo = beat[p].todo
        /\ b.seq = k + 1
    <3>1. k + 1 \in Nat
      BY <2>3
    <3>2. QED
      BY Zenon, <1>1, <3>1, BeatNumbered
  <2>5. beat' = [beat EXCEPT ![p] = b]
    BY Zenon, <2>1
  <2> HIDE DEF b
  <2>6. ASSUME NEW s \in Nat, 0 < s, s < b.seq
        PROVE  \E m : IsStatus(outbox, m, b.run, s) /\ outbox[m].state = "ACKNOWLEDGED"
    <3>1. s \in 1..k
      BY <2>3, <2>4, <2>6
    <3>2. PICK m \in Mine(p) : outbox[m].env.seq = s
      BY <2>1, <3>1 DEF Chained
    <3>3. IsStatus(outbox, m, b.run, s) /\ outbox[m].state = "ACKNOWLEDGED"
      BY <1>1, <2>2, <2>4, <3>2 DEF Mine, IsStatus
    <3>4. QED
      BY <3>3
  <2>7. BeatOK(b, outbox)
    BY <1>1, <2>3, <2>4, <2>6 DEF BeatOK
  <2>8. QED
    BY Zenon, <2>4, <2>5, <2>7, QuietSteps DEF DurableHead
<1>4. QED
  BY <1>2, <1>3

(* The status that is enqueued is the next one of its run. *)
LEMMA NextStatus ==
    ASSUME NEW box \in Seq(Rows), BoxOK(box), NEW b \in Beats, BeatOK(b, box), b.pc = "enqueue",
           \A n \in 1..Len(box) : ~(box[n].env.run = b.run /\ box[n].env.seq = b.seq),
           NEW n \in 1..Len(box), box[n].env.run = b.run
    PROVE  box[n].state = "ACKNOWLEDGED" /\ box[n].env.seq < b.seq
<1>1. /\ box[n] \in Rows /\ box[n].env.seq \in Nat \ {0} /\ b.seq \in Nat /\ b.seq # 0
      /\ Len(box) \in Nat
  <2>1. box[n] \in Rows /\ Len(box) \in Nat
    OBVIOUS
  <2>2. box[n].env.seq \in Nat \ {0}
    BY SMTT(30), <2>1 DEF Rows, Envelopes
  <2>3. b.seq \in Nat /\ b.seq # 0
    BY DEF Beats, BeatOK
  <2>4. QED
    BY <2>1, <2>2, <2>3
<1>2. box[n].env.seq < b.seq
  <2>1. SUFFICES ASSUME b.seq < box[n].env.seq PROVE FALSE
    <3>1. box[n].env.seq # b.seq
      OBVIOUS
    <3>2. QED
      BY <1>1, <3>1
  <2>2. PICK m : IsStatus(box, m, b.run, b.seq)
    BY <1>1, <2>1 DEF BoxOK
  <2>3. QED
    BY <2>2 DEF IsStatus
<1>3. PICK m : IsStatus(box, m, b.run, box[n].env.seq) /\ box[m].state = "ACKNOWLEDGED"
  BY <1>1, <1>2 DEF BeatOK
<1>4. m \in 1..Len(box) /\ box[m].env.run = box[n].env.run /\ box[m].env.seq = box[n].env.seq
  BY <1>3 DEF IsStatus
<1>5. m = n
  BY <1>1, <1>4 DEF BoxOK
<1>6. QED
  BY <1>2, <1>3, <1>5

(* Appending the next pending status of a run leaves the outbox in order. *)
LEMMA RowAppended ==
    ASSUME NEW box \in Seq(Rows), BoxOK(box), NEW b \in Beats, BeatOK(b, box), b.pc = "enqueue",
           \A n \in 1..Len(box) : ~(box[n].env.run = b.run /\ box[n].env.seq = b.seq),
           NEW row \in Rows, row.env.run = b.run, row.env.seq = b.seq, row.state = "PENDING"
    PROVE  Append(box, row) \in Seq(Rows) /\ Kept(box, Append(box, row)) /\ BoxOK(Append(box, row))
<1> DEFINE new == Append(box, row)
<1>1. new \in Seq(Rows) /\ Len(new) = Len(box) + 1 /\ Len(box) \in Nat
  OBVIOUS
<1>2. (\A n \in 1..Len(box) : new[n] = box[n]) /\ new[Len(box) + 1] = row
  OBVIOUS
<1> HIDE DEF new
<1>3. Kept(box, new)
  BY <1>1, <1>2 DEF Kept
<1>4. ASSUME NEW n \in 1..Len(new) PROVE Verifies(new[n])
  <2>1. CASE n \in 1..Len(box)
    BY <1>2, <2>1 DEF BoxOK
  <2>2. CASE n = Len(box) + 1
    BY <1>2, <2>2 DEF Verifies
  <2>3. QED
    BY <1>1, <2>1, <2>2
<1>5. ASSUME NEW m \in 1..Len(new), NEW n \in 1..Len(new), m < n, new[m].env.run = new[n].env.run
      PROVE  new[m].state = "ACKNOWLEDGED" /\ new[m].env.seq < new[n].env.seq
  <2>1. m \in 1..Len(box)
    BY SMTT(30), <1>1, <1>5
  <2>2. CASE n \in 1..Len(box)
    BY ZenonT(20), <1>2, <1>5, <2>1, <2>2 DEF BoxOK
  <2>3. CASE n = Len(box) + 1
    <3>1. new[m] = box[m] /\ new[n] = row
      BY Zenon, <1>2, <2>1, <2>3
    <3>2. QED
      BY <1>5, <2>1, <3>1, NextStatus
  <2>4. QED
    BY <1>1, <2>2, <2>3
<1>6. ASSUME NEW n \in 1..Len(new), NEW s \in Nat, 0 < s, s < new[n].env.seq
      PROVE  \E m : IsStatus(new, m, new[n].env.run, s)
  <2>1. \E m : IsStatus(box, m, new[n].env.run, s)
    <3>1. CASE n \in 1..Len(box)
      BY SMTT(30), <1>2, <1>6, <3>1 DEF BoxOK
    <3>2. CASE n = Len(box) + 1
      BY <1>2, <1>6, <3>2 DEF BeatOK
    <3>3. QED
      BY <1>1, <3>1, <3>2
  <2>2. PICK m : IsStatus(box, m, new[n].env.run, s)
    BY <2>1
  <2>3. IsStatus(new, m, new[n].env.run, s)
    BY SMTT(30), <1>1, <1>2, <2>2 DEF IsStatus
  <2>4. QED
    BY <2>3
<1>7. BoxOK(new)
  BY Zenon, <1>4, <1>5, <1>6 DEF BoxOK
<1>8. QED
  BY <1>1, <1>3, <1>7 DEF new

(* enqueue: a new row, the row that is there already, or a refusal. *)
LEMMA EnqueueStep ==
    ASSUME DeliveryInvariant, NEW p \in Hosts, Enqueue(p)
    PROVE  DeliveryInvariant'
<1>1. /\ beat[p] \in Beats /\ BeatOK(beat[p], outbox) /\ beat[p].pc = "enqueue"
      /\ outbox \in Seq(Rows) /\ BoxOK(outbox) /\ acked \subseteq [env : Envelopes, at : Int]
  BY Zenon DEF DeliveryInvariant, DeliveryTyped, Enqueue, BeatAt
<1> DEFINE e == [run |-> beat[p].run, seq |-> beat[p].seq, at |-> beat[p].at]
           row == [env |-> e, state |-> "PENDING", last |-> NoAck, ack |-> NoAck]
           old == {n \in DOMAIN outbox : outbox[n].env.run = e.run /\ outbox[n].env.seq = e.seq}
           b == [beat[p] EXCEPT !.pc = "again"]
<1>2. CASE Over(p) /\ UNCHANGED outbox
  BY Zenon, <1>2, OverIsTyped, QuietSteps DEF Enqueue, Over, DeliveryInvariant, DeliveryTyped
<1>3. ASSUME Goes(p, "again")
      PROVE  /\ b \in Beats /\ beat' = [beat EXCEPT ![p] = b] /\ BeatOK(b, outbox)
  <2>1. "again" \in BeatLabels
    BY DEF BeatLabels
  <2>2. /\ b \in Beats /\ beat' = [beat EXCEPT ![p] = b]
        /\ b.pc = "again" /\ b.run = beat[p].run /\ b.todo = beat[p].todo
    BY Zenon, <1>3, <2>1, GoesOn
  <2> HIDE DEF b
  <2>3. BeatOK(b, outbox)
    BY SMTT(30), <1>1, <2>2 DEF BeatOK
  <2>4. QED
    BY <2>2, <2>3
<1>4. CASE Goes(p, "again") /\ UNCHANGED outbox
  <2> HIDE DEF b
  <2>1. QED
    BY Zenon, <1>3, <1>4, QuietSteps DEF Enqueue
<1>5. CASE Goes(p, "again") /\ old = {} /\ outbox' = Append(outbox, row)
  <2>1. \A n \in 1..Len(outbox) :
            ~(outbox[n].env.run = beat[p].run /\ outbox[n].env.seq = beat[p].seq)
    <3>1. DOMAIN outbox = 1..Len(outbox) /\ e.run = beat[p].run /\ e.seq = beat[p].seq
      BY <1>1
    <3> HIDE DEF e, row, b
    <3>2. QED
      BY Zenon, <1>5, <3>1
  <2>2. /\ row \in Rows /\ row.env.run = beat[p].run /\ row.env.seq = beat[p].seq
        /\ row.state = "PENDING"
    <3>1. beat[p].run \in Runs /\ beat[p].seq # 0
      BY Zenon, <1>1 DEF BeatOK
    <3>2. beat[p].seq \in Nat /\ beat[p].at \in Nat
      BY <1>1 DEF Beats
    <3>3. e \in Envelopes /\ e.run = beat[p].run /\ e.seq = beat[p].seq
      BY <3>1, <3>2 DEF Envelopes
    <3> HIDE DEF e
    <3>4. row \in Rows /\ row.env = e /\ row.state = "PENDING"
      BY <3>3 DEF Rows, NoAck
    <3> HIDE DEF row
    <3>5. QED
      BY Zenon, <3>3, <3>4
  <2> HIDE DEF row, old, b
  <2>3. outbox' \in Seq(Rows) /\ Kept(outbox, outbox') /\ BoxOK(outbox')
    BY Zenon, <1>1, <1>5, <2>1, <2>2, RowAppended
  <2>4. BeatOK(b, outbox')
    BY Zenon, <1>1, <1>3, <1>5, <2>3, BeatKept
  <2>5. UNCHANGED <<now, acked>>
    BY DEF Enqueue
  <2>6. QED
    BY Zenon, <1>1, <1>3, <1>5, <2>3, <2>4, <2>5, HeartbeatSteps
<1>6. QED
  BY ZenonT(20), <1>2, <1>4, <1>5 DEF Enqueue

(* A delivery that begins names rows that exist. *)
LEMMA Delivers ==
    ASSUME DeliveryInvariant, NEW p \in Hosts, HostStep(p)
    PROVE  DeliveryInvariant'
<1>1. CASE Crashes(p)
  BY <1>1, OverIsTyped, QuietSteps DEF Crashes, DeliveryInvariant, DeliveryTyped
<1>2. CASE \E r \in Runs : Heartbeat(p, r)
  BY Zenon, <1>2, ListPendingStep DEF Heartbeat, DeliveryInvariant, DeliveryTyped
<1>3. CASE DeliverAgain(p)
  BY Zenon, <1>3, ListPendingStep DEF DeliverAgain, BeatAt, DeliveryInvariant, DeliveryTyped, BeatOK, Beats
<1>4. QED
  BY <1>1, <1>2, <1>3, CreateDropStep, WriteDropStep, ReadAckStep, StoreAckStep, RecordAttemptStep,
     ReportStep, DurableHeadStep, EnqueueStep DEF HostStep

(* What is in the drop is an envelope of the outbox, so what the receiver
   acknowledges is one. *)
DropTyped == drop \subseteq [env : Envelopes, whole : BOOLEAN]

(* A row of the outbox holds an envelope. *)
LEMMA RowEnvelope ==
    ASSUME NEW box \in Seq(Rows), NEW n \in 1..Len(box)
    PROVE  box[n].env \in Envelopes
<1>1. box[n] \in Rows
  OBVIOUS
<1>2. QED
  BY <1>1 DEF Rows

(* A file in the drop, complete or not, names one. *)
LEMMA FileTyped ==
    ASSUME NEW e \in Envelopes, NEW w \in BOOLEAN
    PROVE  [env |-> e, whole |-> w] \in [env : Envelopes, whole : BOOLEAN]
OBVIOUS

(* Steps of a heartbeat put envelopes of the outbox in the drop, and nothing else. *)
LEMMA DropStep ==
    ASSUME DeliveryInvariant, DropTyped, NEW p \in Hosts, HostStep(p)
    PROVE  DropTyped'
<1>1. outbox \in Seq(Rows) /\ beat[p] \in Beats /\ BeatOK(beat[p], outbox)
  BY DEF DeliveryInvariant, DeliveryTyped
<1>2. CASE CreateDrop(p)
  <2>1. PICK n \in beat[p].todo : drop' = drop \/ drop' = drop \cup {[env |-> outbox[n].env, whole |-> FALSE]}
    BY <1>2 DEF CreateDrop
  <2>2. outbox[n].env \in Envelopes
    <3>1. n \in 1..Len(outbox)
      BY <1>1 DEF BeatOK
    <3>2. QED
      BY <1>1, <3>1, RowEnvelope
  <2>3. [env |-> outbox[n].env, whole |-> FALSE] \in [env : Envelopes, whole : BOOLEAN]
    BY <2>2, FileTyped
  <2>4. QED
    BY Zenon, <2>1, <2>3 DEF DropTyped
<1>3. CASE WriteDrop(p)
  <2>1. Envelope(p) \in Envelopes
    <3>1. beat[p].row \in 1..Len(outbox)
      BY <1>1, <1>3 DEF WriteDrop, BeatAt, BeatOK
    <3>2. QED
      BY Zenon, <1>1, <3>1, RowEnvelope DEF Envelope
  <2>2. drop' \subseteq drop \cup {[env |-> Envelope(p), whole |-> TRUE]}
    BY <1>3 DEF WriteDrop
  <2>3. [env |-> Envelope(p), whole |-> TRUE] \in [env : Envelopes, whole : BOOLEAN]
    BY <2>1, FileTyped
  <2>4. QED
    BY Zenon, <2>2, <2>3 DEF DropTyped
<1>4. CASE UNCHANGED drop
  BY <1>4 DEF DropTyped
<1>5. QED
  BY Zenon, <1>2, <1>3, <1>4 DEF HostStep, DeliverAgain, Heartbeat, ListPending, ReadAck, StoreAck,
     RecordAttempt, Report, DurableHead, Enqueue, Crashes

(* The receiver and the clock leave the outbox and the heartbeats alone. *)
LEMMA OutsideSteps ==
    ASSUME DeliveryInvariant, DropTyped, (\E d \in drop : Acknowledge(d.env)) \/ ClockTick
    PROVE  DeliveryInvariant' /\ DropTyped'
<1>1. UNCHANGED <<outbox, drop, beat>>
  BY Zenon DEF Acknowledge, ClockTick
<1>2. now' \in Nat
  <2>1. now \in Nat
    BY DEF DeliveryInvariant, DeliveryTyped
  <2>2. now' = now \/ now' = now + 1
    BY Zenon DEF Acknowledge, ClockTick
  <2>3. QED
    BY <2>1, <2>2
<1>3. acked' \subseteq [env : Envelopes, at : Int]
  <2>1. CASE ClockTick
    BY <2>1 DEF ClockTick, DeliveryInvariant, DeliveryTyped
  <2>2. CASE \E d \in drop : Acknowledge(d.env)
    <3>1. PICK d \in drop : Acknowledge(d.env)
      BY <2>2
    <3>2. PICK t \in Nat : acked' = acked \cup {[env |-> d.env, at |-> t]}
      BY <3>1 DEF Acknowledge
    <3>3. d.env \in Envelopes
      BY DEF DropTyped
    <3>4. QED
      BY <3>2, <3>3 DEF DeliveryInvariant, DeliveryTyped
  <2>3. QED
    BY <2>1, <2>2
<1>4. QED
  BY <1>1, <1>2, <1>3 DEF DeliveryInvariant, DeliveryTyped, DropTyped

(* The invariant holds in every reachable state. *)
LEMMA DeliveryInductive == DeliverySpec => [](DeliveryInvariant /\ DropTyped)
<1>1. DeliveryInit => DeliveryInvariant /\ DropTyped
  <2> SUFFICES ASSUME DeliveryInit PROVE DeliveryInvariant /\ DropTyped
    OBVIOUS
  <2>1. outbox \in Seq(Rows) /\ Len(outbox) = 0
    BY DEF DeliveryInit
  <2>2. BoxOK(outbox)
    BY <2>1 DEF BoxOK
  <2>3. QED
    BY Zenon, <2>1, <2>2, OverIsTyped DEF DeliveryInit, DeliveryInvariant, DeliveryTyped, DropTyped
<1>2. DeliveryInvariant /\ DropTyped /\ [DeliveryNext]_deliveryVars => (DeliveryInvariant /\ DropTyped)'
  <2> SUFFICES ASSUME DeliveryInvariant, DropTyped, [DeliveryNext]_deliveryVars
               PROVE  (DeliveryInvariant /\ DropTyped)'
    OBVIOUS
  <2>1. CASE \E p \in Hosts : HostStep(p)
    BY <2>1, Delivers, DropStep
  <2>2. CASE (\E d \in drop : Acknowledge(d.env)) \/ ClockTick
    BY <2>2, OutsideSteps
  <2>3. CASE UNCHANGED deliveryVars
    BY <2>3 DEF deliveryVars, DeliveryInvariant, DeliveryTyped, DropTyped
  <2>4. QED
    BY <2>1, <2>2, <2>3 DEF DeliveryNext
<1>3. QED
  BY <1>1, <1>2, PTL DEF DeliverySpec

(* No interleaving of deliveries, crashes and acknowledgements leaves an outbox that
   a later heartbeat refuses to verify. *)
THEOREM OutboxAlwaysVerifies == DeliverySpec => []OutboxVerifies
<1>1. DeliveryInvariant => OutboxVerifies
  BY SMTT(30) DEF DeliveryInvariant, DeliveryTyped, BoxOK, OutboxVerifies
<1>2. QED
  BY <1>1, DeliveryInductive, PTL

(* A status follows the acknowledgement of every earlier status of its run. *)
THEOREM SuccessorsFollowAcks == DeliverySpec => []SuccessorAfterAck
<1>1. DeliveryInvariant => SuccessorAfterAck
  BY DEF DeliveryInvariant, DeliveryTyped, BoxOK, SuccessorAfterAck
<1>2. QED
  BY <1>1, DeliveryInductive, PTL

=============================================================================
