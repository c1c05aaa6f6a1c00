----------------------------- MODULE RiskLedger -----------------------------
(* The durable risk ledger of live_runtime/risk_ledger.py: an append-only event
   chain, the risk state materialized beside it in the same transaction, and the
   receipt of the chain that external custody holds against a restored backup.

   An event's binding, signature and source receipt are taken as verified; a
   source or upstream receipt belongs to one event, so its reuse is the reuse of
   the event's id. Symbols are left out. *)
EXTENDS Integers, Sequences, FiniteSets

CONSTANTS
    Days, Weeks,        \* baseline identifiers of the session calendar
    Intents,            \* entry ids
    Trades, Snapshots,  \* ids of closed-trade and snapshot events
    Equities,           \* account equities
    MaxAt,              \* bound on event timestamps
    MaxEvents,          \* bound on the chain
    MaxKept,            \* bound on the chains backups and custody keep
    MaxRestores         \* bound on how often a backup is put back

ASSUME LedgerAssumption ==
    /\ Equities \subseteq Nat \ {0}
    /\ MaxAt \in Nat /\ MaxEvents \in Nat /\ MaxKept \in Nat /\ MaxRestores \in Nat

VARIABLES
    events,     \* risk_events
    state,      \* risk_state, and before the first event NoState
    backup,     \* a copy of the database file
    custody,    \* the chain the externally kept RiskStateReceipt commits to
    restores    \* how often a backup has been put back

lvars == <<events, state, backup, custody, restores>>

Outcomes == {"WIN", "LOSS", "BREAKEVEN"}
LossLatchCount == 2

SnapshotEvents == [kind : {"ACCOUNT_SNAPSHOT"}, id : Snapshots, intent : {"none"}, day : Days,
                   week : Weeks, at : 1..MaxAt, equity : Equities, outcome : {"none"}]
EntryEvents == [kind : {"ENTRY"}, id : Intents, intent : Intents, day : Days,
                week : Weeks, at : 1..MaxAt, equity : {0}, outcome : {"none"}]
CloseEvents == [kind : {"CLOSED_TRADE"}, id : Trades, intent : Intents, day : Days,
                week : Weeks, at : 1..MaxAt, equity : {0}, outcome : Outcomes]

NoState == [at |-> 0, day |-> "none", week |-> "none", dayBase |-> 0, weekBase |-> 0,
            equity |-> 0, high |-> 0, entries |-> 0, losses |-> 0, latch |-> FALSE]

IsKind(chain, n, kind) == n \in DOMAIN chain /\ chain[n].kind = kind
Has(chain, kind, intent) ==
    \E n \in DOMAIN chain : chain[n].kind = kind /\ chain[n].intent = intent
Max2(a, b) == IF a >= b THEN a ELSE b

----------------------------------------------------------------------------
(* The refusals _append and _apply_event share for every event. *)
Admissible(e) ==
    /\ Len(events) < MaxEvents
    /\ \A n \in DOMAIN events : events[n].id # e.id
    /\ e.at >= state.at

(* A baseline may only be the current one or one never seen (only snapshots bring
   new ones, so the days of all events are the days of the snapshots). *)
SnapshotAllowed(e) ==
    /\ e.day # state.day => \A n \in DOMAIN events : events[n].day # e.day
    /\ e.week # state.week => \A n \in DOMAIN events : events[n].week # e.week

AfterSnapshot(e) ==
    [at |-> e.at, day |-> e.day, week |-> e.week,
     dayBase |-> IF e.day = state.day THEN state.dayBase ELSE e.equity,
     weekBase |-> IF e.week = state.week THEN state.weekBase ELSE e.equity,
     equity |-> e.equity, high |-> Max2(state.high, e.equity),
     entries |-> IF e.day = state.day THEN state.entries ELSE 0,
     losses |-> state.losses, latch |-> state.latch]

(* Entries and closes belong to the current baselines. *)
Current(e) == events # <<>> /\ e.day = state.day /\ e.week = state.week

(* The state an entry or a close leaves: it never touches baselines and equity. *)
Derived(e, entries, losses, latch) ==
    [at |-> e.at, day |-> state.day, week |-> state.week,
     dayBase |-> state.dayBase, weekBase |-> state.weekBase,
     equity |-> state.equity, high |-> state.high,
     entries |-> entries, losses |-> losses, latch |-> latch]

AfterEntry(e) == Derived(e, state.entries + 1, state.losses, state.latch)

(* consecutive_losses after a close. *)
LossesAfter(e) == IF e.outcome = "LOSS" THEN state.losses + 1 ELSE 0

(* Mutant: only the loss after the second one sets the latch. *)
AfterCloseLatchingLate(e) ==
    Derived(e, state.entries, LossesAfter(e),
            state.latch \/ LossesAfter(e) > LossLatchCount)

AfterClose(e) ==
    Derived(e, state.entries, LossesAfter(e),
            state.latch \/ LossesAfter(e) >= LossLatchCount)

(* _append: event and state in one transaction. *)
Commit(e, next) == /\ events' = Append(events, e)
                   /\ state' = next
                   /\ UNCHANGED <<backup, custody, restores>>

AppendSnapshot(e) ==
    /\ Admissible(e) /\ SnapshotAllowed(e)
    /\ Commit(e, AfterSnapshot(e))

AppendEntry(e) ==
    /\ Admissible(e) /\ Current(e)
    /\ e.id = e.intent
    /\ Commit(e, AfterEntry(e))

AppendClose(e) ==
    /\ Admissible(e) /\ Current(e)
    /\ Has(events, "ENTRY", e.intent)
    /\ ~Has(events, "CLOSED_TRADE", e.intent)
    /\ Commit(e, AfterClose(e))

----------------------------------------------------------------------------
(* Mutant: only the sequence numbers are compared. *)
MatchesBySequence(chain) == Len(events) >= Len(chain)

(* _verify_checkpoint: the ledger is no older than the receipt, and the event at
   the receipt's sequence has its HMAC, which commits to all events before it. *)
MatchesReceipt(chain) ==
    /\ Len(events) >= Len(chain)
    /\ SubSeq(events, 1, Len(chain)) = chain

(* _verify_risk: the supervisor takes the current receipt into custody. The ledger
   itself may be opened, and appended to, without an expected receipt. *)
TakeIntoCustody ==
    /\ events # <<>> /\ Len(events) <= MaxKept
    /\ MatchesReceipt(custody)
    /\ custody' = events
    /\ UNCHANGED <<events, state, backup, restores>>

(* A copy of the file is made at some time, and put back at a later one. *)
TakeBackup ==
    /\ restores < MaxRestores /\ Len(events) <= MaxKept
    /\ backup' = [events |-> events, state |-> state]
    /\ UNCHANGED <<events, state, custody, restores>>

RestoreBackup ==
    /\ restores < MaxRestores
    /\ restores' = restores + 1
    /\ events' = backup.events /\ state' = backup.state
    /\ UNCHANGED <<backup, custody>>

LedgerInit ==
    /\ events = <<>> /\ state = NoState
    /\ backup = [events |-> <<>>, state |-> NoState]
    /\ custody = <<>>
    /\ restores = 0

LedgerNext ==
    \/ \E e \in SnapshotEvents : AppendSnapshot(e)
    \/ \E e \in EntryEvents : AppendEntry(e)
    \/ \E e \in CloseEvents : AppendClose(e)
    \/ TakeIntoCustody \/ TakeBackup \/ RestoreBackup

LedgerSpec == LedgerInit /\ [][LedgerNext]_lvars

----------------------------------------------------------------------------
(* Types: the chain holds well-formed events and the state its counters. *)
LedgerTypeOK ==
    /\ events \in Seq(SnapshotEvents \cup EntryEvents \cup CloseEvents)
    /\ state \in [at : 0..MaxAt, day : Days \cup {"none"}, week : Weeks \cup {"none"},
                  dayBase : Nat, weekBase : Nat, equity : Nat, high : Nat,
                  entries : Nat, losses : Nat, latch : BOOLEAN]
    /\ restores \in 0..MaxRestores

(* What the chain says of the loss latch: two losses with no other close between. *)
TwoLosses(chain) ==
    \E m, n \in DOMAIN chain :
        /\ m < n
        /\ IsKind(chain, m, "CLOSED_TRADE") /\ chain[m].outcome = "LOSS"
        /\ IsKind(chain, n, "CLOSED_TRADE") /\ chain[n].outcome = "LOSS"
        /\ \A k \in (m + 1)..(n - 1) : chain[k].kind # "CLOSED_TRADE"

(* The materialized loss latch is set exactly when two losses in a row are in the
   chain, however many wins, days and weeks follow them. *)
LatchIsTwoLosses == state.latch <=> TwoLosses(events)

(* entries_today counts exactly the entries of the current day's baseline, also
   when snapshots of the same day follow them. *)
EntriesTodayCounts ==
    state.entries = Cardinality({n \in DOMAIN events : events[n].kind = "ENTRY"
                                                       /\ events[n].day = state.day})

(* The high-water mark is reached by a snapshot of the chain and exceeded by none;
   it does not restart with a day or a week. *)
HighWaterIsMax ==
    /\ \A n \in DOMAIN events : events[n].equity <= state.high
    /\ events # <<>> => \E n \in DOMAIN events : events[n].equity = state.high

(* The materialized state that the sizing of the next entry reads is what the chain
   says, however appends of _apply_event are ordered and backups restored. *)
StateIsDerived == LatchIsTwoLosses /\ EntriesTodayCounts /\ HighWaterIsMax

(* A restored or forked ledger never replaces what custody holds: the custodied
   chain is only ever extended, so a loss latch once in custody stays there. *)
CustodyOnlyExtends ==
    [][/\ Len(custody') >= Len(custody)
       /\ SubSeq(custody', 1, Len(custody)) = custody
       /\ TwoLosses(custody) => TwoLosses(custody')]_lvars

=============================================================================
