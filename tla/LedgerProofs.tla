---------------------------- MODULE LedgerProofs ----------------------------
(* Proofs about the three append-only ledgers that decide whether a run may trade: the
   risk ledger, for every calendar, every set of intents and chains of every length;
   one-use stage authorizations, for any number of processes, authorizations, claims and
   restored registries; and the DEMO_AUTO session store, for any number of callers,
   orders and leases. *)
EXTENDS RiskLedger, StageAuthorization, DemoAutoSession, FiniteSetTheorems, TLAPS

(* The risk ledger. *)
Events == SnapshotEvents \cup EntryEvents \cup CloseEvents

States == [at : 0..MaxAt, day : Days \cup {"none"}, week : Weeks \cup {"none"},
           dayBase : Nat, weekBase : Nat, equity : Nat, high : Nat,
           entries : Nat, losses : Nat, latch : BOOLEAN]

TodaysEntries(chain, day) ==
    {n \in DOMAIN chain : chain[n].kind = "ENTRY" /\ chain[n].day = day}

(* The last close of the chain is a loss. *)
EndsInLoss(chain) ==
    \E m \in DOMAIN chain :
        /\ chain[m].kind = "CLOSED_TRADE" /\ chain[m].outcome = "LOSS"
        /\ \A k \in (m + 1)..Len(chain) : chain[k].kind # "CLOSED_TRADE"

(* A state is the one the chain determines. *)
Sound(chain, st) ==
    /\ chain \in Seq(Events) /\ st \in States
    /\ st.latch <=> TwoLosses(chain)
    /\ st.losses > 0 <=> EndsInLoss(chain)
    /\ st.entries = Cardinality(TodaysEntries(chain, st.day))
    /\ \A n \in DOMAIN chain : chain[n].equity <= st.high
    /\ chain # <<>> => \E n \in DOMAIN chain : chain[n].equity = st.high
    /\ chain = <<>> => st.high = 0

LedgerInvariant ==
    /\ Sound(events, state)
    /\ Sound(backup.events, backup.state)
    /\ custody \in Seq(Events)
    /\ restores \in 0..MaxRestores

(* What appending an event does to the chain: the old events stay at their
   places and the new one comes last. *)
LEMMA AppendFacts ==
    ASSUME NEW chain \in Seq(Events), NEW e \in Events
    PROVE  /\ Append(chain, e) \in Seq(Events)
           /\ Len(Append(chain, e)) = Len(chain) + 1
           /\ DOMAIN Append(chain, e) = 1..(Len(chain) + 1)
           /\ DOMAIN chain = 1..Len(chain)
           /\ \A n \in 1..Len(chain) : Append(chain, e)[n] = chain[n]
           /\ Append(chain, e)[Len(chain) + 1] = e
           /\ Append(chain, e) # <<>>
           /\ Len(chain) \in Nat
OBVIOUS

(* An event that is no close changes neither of the two facts on losses. *)
LEMMA NoCloseKeepsLosses ==
    ASSUME NEW chain \in Seq(Events), NEW e \in Events, e.kind # "CLOSED_TRADE"
    PROVE  /\ TwoLosses(Append(chain, e)) <=> TwoLosses(chain)
           /\ EndsInLoss(Append(chain, e)) <=> EndsInLoss(chain)
<1> DEFINE longer == Append(chain, e)
<1>1. /\ Len(longer) = Len(chain) + 1
      /\ DOMAIN longer = 1..(Len(chain) + 1) /\ DOMAIN chain = 1..Len(chain)
      /\ \A n \in 1..Len(chain) : longer[n] = chain[n]
      /\ longer[Len(chain) + 1] = e
      /\ Len(chain) \in Nat
  BY AppendFacts
<1> HIDE DEF longer
<1>2. TwoLosses(longer) => TwoLosses(chain)
  BY <1>1 DEF TwoLosses, IsKind
<1>3. TwoLosses(chain) => TwoLosses(longer)
  BY <1>1 DEF TwoLosses, IsKind
<1>4. EndsInLoss(longer) => EndsInLoss(chain)
  BY <1>1 DEF EndsInLoss
<1>5. EndsInLoss(chain) => EndsInLoss(longer)
  BY <1>1 DEF EndsInLoss
<1>6. QED
  BY <1>2, <1>3, <1>4, <1>5 DEF longer

(* A close ends the chain in a loss when it is one, and completes a pair of losses
   when the chain already ended in one. *)
LEMMA CloseCountsLosses ==
    ASSUME NEW chain \in Seq(Events), NEW e \in Events, e.kind = "CLOSED_TRADE"
    PROVE  /\ TwoLosses(Append(chain, e)) <=>
                  TwoLosses(chain) \/ (e.outcome = "LOSS" /\ EndsInLoss(chain))
           /\ EndsInLoss(Append(chain, e)) <=> e.outcome = "LOSS"
<1> DEFINE longer == Append(chain, e)
<1>1. /\ Len(longer) = Len(chain) + 1
      /\ DOMAIN longer = 1..(Len(chain) + 1) /\ DOMAIN chain = 1..Len(chain)
      /\ \A n \in 1..Len(chain) : longer[n] = chain[n]
      /\ longer[Len(chain) + 1] = e
      /\ Len(chain) \in Nat
  BY AppendFacts
<1> HIDE DEF longer
<1>2. TwoLosses(longer) => TwoLosses(chain) \/ (e.outcome = "LOSS" /\ EndsInLoss(chain))
  <2> SUFFICES ASSUME NEW m \in DOMAIN longer, NEW n \in DOMAIN longer, m < n,
                      longer[m].kind = "CLOSED_TRADE", longer[m].outcome = "LOSS",
                      longer[n].kind = "CLOSED_TRADE", longer[n].outcome = "LOSS",
                      \A k \in (m + 1)..(n - 1) : longer[k].kind # "CLOSED_TRADE"
               PROVE  TwoLosses(chain) \/ (e.outcome = "LOSS" /\ EndsInLoss(chain))
    BY DEF TwoLosses, IsKind
  <2>1. CASE n = Len(chain) + 1
    <3>1. m \in DOMAIN chain /\ chain[m].kind = "CLOSED_TRADE" /\ chain[m].outcome = "LOSS"
      BY <1>1, <2>1
    <3>2. \A k \in (m + 1)..Len(chain) : chain[k].kind # "CLOSED_TRADE"
      BY <1>1, <2>1
    <3>3. QED
      BY <1>1, <2>1, <3>1, <3>2 DEF EndsInLoss
  <2>2. CASE n \in 1..Len(chain)
    BY <1>1, <2>2 DEF TwoLosses, IsKind
  <2>3. QED
    BY <1>1, <2>1, <2>2
<1>3. TwoLosses(chain) => TwoLosses(longer)
  BY <1>1 DEF TwoLosses, IsKind
<1>4. ASSUME e.outcome = "LOSS", EndsInLoss(chain) PROVE TwoLosses(longer)
  <2>1. PICK m \in DOMAIN chain :
              /\ chain[m].kind = "CLOSED_TRADE" /\ chain[m].outcome = "LOSS"
              /\ \A k \in (m + 1)..Len(chain) : chain[k].kind # "CLOSED_TRADE"
    BY <1>4 DEF EndsInLoss
  <2>2. /\ m \in DOMAIN longer /\ Len(chain) + 1 \in DOMAIN longer /\ m < Len(chain) + 1
        /\ longer[m] = chain[m]
    BY <1>1
  <2>3. \A k \in (m + 1)..(Len(chain) + 1 - 1) : longer[k].kind # "CLOSED_TRADE"
    BY <1>1, <2>1
  <2>4. QED
    BY <1>1, <1>4, <2>1, <2>2, <2>3 DEF TwoLosses, IsKind
<1>5. EndsInLoss(longer) <=> e.outcome = "LOSS"
  BY <1>1 DEF EndsInLoss
<1>6. QED
  BY <1>2, <1>3, <1>4, <1>5 DEF longer

(* An entry of the day is one more of the day's entries; any other event none. *)
LEMMA EntriesOfTheDay ==
    ASSUME NEW chain \in Seq(Events), NEW e \in Events, NEW day
    PROVE  /\ Cardinality(TodaysEntries(chain, day)) \in Nat
           /\ e.kind # "ENTRY" =>
                 TodaysEntries(Append(chain, e), day) = TodaysEntries(chain, day)
           /\ e.kind = "ENTRY" /\ e.day = day =>
                 Cardinality(TodaysEntries(Append(chain, e), day))
                     = Cardinality(TodaysEntries(chain, day)) + 1
<1> DEFINE longer == Append(chain, e)
           last == Len(chain) + 1
<1>1. /\ Len(longer) = Len(chain) + 1
      /\ DOMAIN longer = 1..(Len(chain) + 1) /\ DOMAIN chain = 1..Len(chain)
      /\ \A n \in 1..Len(chain) : longer[n] = chain[n]
      /\ longer[last] = e
      /\ Len(chain) \in Nat
  BY AppendFacts
<1> HIDE DEF longer
<1>2. IsFiniteSet(TodaysEntries(chain, day))
  <2>1. IsFiniteSet(1..Len(chain))
    BY <1>1, FS_Interval
  <2>2. QED
    BY <1>1, <2>1, FS_Subset DEF TodaysEntries
<1>3. Cardinality(TodaysEntries(chain, day)) \in Nat
  BY <1>2, FS_CardinalityType
<1>4. e.kind # "ENTRY" => TodaysEntries(longer, day) = TodaysEntries(chain, day)
  BY <1>1 DEF TodaysEntries
<1>5. ASSUME e.kind = "ENTRY", e.day = day
      PROVE  Cardinality(TodaysEntries(longer, day)) = Cardinality(TodaysEntries(chain, day)) + 1
  <2>1. TodaysEntries(longer, day) = TodaysEntries(chain, day) \cup {last}
    BY <1>1, <1>5 DEF TodaysEntries
  <2>2. last \notin TodaysEntries(chain, day)
    BY <1>1 DEF TodaysEntries
  <2>3. QED
    BY Zenon, <1>2, <2>1, <2>2, FS_AddElement
<1>6. QED
  BY <1>3, <1>4, <1>5 DEF longer

(* Every event has an equity, a kind of its own and a time within the bound. *)
LEMMA EventTypes ==
    ASSUME NEW e \in Events
    PROVE  e.equity \in Nat /\ e.at \in 0..MaxAt
<1>1. CASE e \in SnapshotEvents
  <2>1. e.equity \in Equities /\ e.at \in 1..MaxAt
    BY <1>1 DEF SnapshotEvents
  <2>2. e.equity \in Nat
    BY <2>1, LedgerAssumption, Zenon
  <2>3. QED
    BY <2>1, <2>2, LedgerAssumption
<1>2. CASE e \in EntryEvents
  BY <1>2, LedgerAssumption DEF EntryEvents
<1>3. CASE e \in CloseEvents
  BY <1>3, LedgerAssumption DEF CloseEvents
<1>4. QED
  BY <1>1, <1>2, <1>3 DEF Events

(* append_account_snapshot leaves the state the one the chain determines: a day
   that has been left cannot return, so the new day starts with no entries. *)
LEMMA SnapshotSound ==
    ASSUME LedgerInvariant, NEW e \in SnapshotEvents, AppendSnapshot(e)
    PROVE  Sound(events', state')
<1> DEFINE longer == Append(events, e)
<1>0. /\ e \in Events /\ events \in Seq(Events) /\ state \in States
      /\ e.kind = "ACCOUNT_SNAPSHOT" /\ e.equity \in Nat
      /\ e.day \in Days /\ e.week \in Weeks /\ e.at \in 0..MaxAt
      /\ events' = longer /\ state' = AfterSnapshot(e)
  <2>1. e \in Events
    BY DEF Events
  <2>2. e.kind = "ACCOUNT_SNAPSHOT" /\ e.day \in Days /\ e.week \in Weeks
    BY DEF SnapshotEvents
  <2>3. QED
    BY <2>1, <2>2, EventTypes DEF LedgerInvariant, Sound, AppendSnapshot, Commit
<1>1. /\ longer \in Seq(Events) /\ longer # <<>>
      /\ DOMAIN longer = 1..(Len(events) + 1) /\ DOMAIN events = 1..Len(events)
      /\ \A n \in 1..Len(events) : longer[n] = events[n]
      /\ longer[Len(events) + 1] = e
      /\ Len(events) \in Nat
  BY <1>0, AppendFacts
<1>2. /\ state'.latch = state.latch /\ state'.losses = state.losses
      /\ state'.day = e.day /\ state'.high = Max2(state.high, e.equity)
      /\ state'.entries = IF e.day = state.day THEN state.entries ELSE 0
      /\ state' \in States
  BY <1>0 DEF AfterSnapshot, States, Max2
<1> HIDE DEF longer
<1>3. state'.latch <=> TwoLosses(longer)
  BY <1>0, <1>2, NoCloseKeepsLosses DEF LedgerInvariant, Sound, longer
<1>4. state'.losses > 0 <=> EndsInLoss(longer)
  BY <1>0, <1>2, NoCloseKeepsLosses DEF LedgerInvariant, Sound, longer
<1>5. state'.entries = Cardinality(TodaysEntries(longer, e.day))
  <2>1. TodaysEntries(longer, e.day) = TodaysEntries(events, e.day)
    BY <1>0, EntriesOfTheDay DEF longer
  <2>2. CASE e.day = state.day
    BY <1>2, <2>1, <2>2 DEF LedgerInvariant, Sound
  <2>3. CASE e.day # state.day
    <3>1. TodaysEntries(events, e.day) = {}
      BY <2>3 DEF AppendSnapshot, SnapshotAllowed, TodaysEntries
    <3>2. QED
      BY <1>2, <2>1, <2>3, <3>1, FS_EmptySet
  <2>4. QED
    BY <2>2, <2>3
<1>6. /\ \A n \in DOMAIN longer : longer[n].equity <= state'.high
      /\ \E n \in DOMAIN longer : longer[n].equity = state'.high
  <2>1. /\ \A n \in DOMAIN events : events[n].equity <= state.high /\ events[n].equity \in Nat
        /\ events # <<>> => \E n \in DOMAIN events : events[n].equity = state.high
        /\ state.high \in Nat
    <3>1. \A n \in DOMAIN events : events[n] \in Events
      BY <1>0
    <3>2. QED
      BY Zenon, <1>0, <3>1, EventTypes DEF LedgerInvariant, Sound, States
  <2>2. events = <<>> => state'.high = e.equity
    <3>1. events = <<>> => state.high = 0
      BY DEF LedgerInvariant, Sound
    <3>2. QED
      BY <1>0, <1>2, <2>1, <3>1 DEF Max2
  <2>3. QED
    BY <1>0, <1>1, <1>2, <2>1, <2>2 DEF Max2
<1>7. QED
  BY <1>0, <1>1, <1>2, <1>3, <1>4, <1>5, <1>6 DEF Sound

(* append_entry leaves the state the one the chain determines. *)
LEMMA EntrySound ==
    ASSUME LedgerInvariant, NEW e \in EntryEvents, AppendEntry(e)
    PROVE  Sound(events', state')
<1> DEFINE longer == Append(events, e)
<1>0. /\ e \in Events /\ events \in Seq(Events) /\ state \in States
      /\ e.kind = "ENTRY" /\ e.equity = 0 /\ e.at \in 0..MaxAt
      /\ events # <<>> /\ e.day = state.day
      /\ events' = longer /\ state' = AfterEntry(e)
  <2>1. e \in Events
    BY DEF Events
  <2>2. e.kind = "ENTRY" /\ e.equity = 0
    BY DEF EntryEvents
  <2>3. QED
    BY <2>1, <2>2, EventTypes DEF LedgerInvariant, Sound, AppendEntry, Current, Commit
<1>1. /\ longer \in Seq(Events) /\ longer # <<>>
      /\ DOMAIN longer = 1..(Len(events) + 1) /\ DOMAIN events = 1..Len(events)
      /\ \A n \in 1..Len(events) : longer[n] = events[n]
      /\ longer[Len(events) + 1] = e
      /\ Len(events) \in Nat
  BY <1>0, AppendFacts
<1>2. /\ state'.latch = state.latch /\ state'.losses = state.losses
      /\ state'.day = state.day /\ state'.high = state.high
      /\ state'.entries = state.entries + 1
      /\ state' \in States
  BY <1>0 DEF AfterEntry, Derived, States
<1> HIDE DEF longer
<1>3. /\ state'.latch <=> TwoLosses(longer)
      /\ state'.losses > 0 <=> EndsInLoss(longer)
  BY <1>0, <1>2, NoCloseKeepsLosses DEF LedgerInvariant, Sound, longer
<1>4. state'.entries = Cardinality(TodaysEntries(longer, state'.day))
  BY <1>0, <1>2, EntriesOfTheDay DEF LedgerInvariant, Sound, longer
<1>5. /\ \A n \in DOMAIN longer : longer[n].equity <= state'.high
      /\ \E n \in DOMAIN longer : longer[n].equity = state'.high
  <2>1. /\ \A n \in DOMAIN events : events[n].equity <= state.high
        /\ \E n \in DOMAIN events : events[n].equity = state.high
        /\ state.high \in Nat
    BY <1>0 DEF LedgerInvariant, Sound, States
  <2>2. QED
    BY <1>0, <1>1, <1>2, <2>1
<1>6. QED
  BY <1>0, <1>1, <1>2, <1>3, <1>4, <1>5 DEF Sound

(* append_closed_trade leaves the state the one the chain determines: the counter
   is positive exactly when the last close was a loss, so a second loss latches. *)
LEMMA CloseSound ==
    ASSUME LedgerInvariant, NEW e \in CloseEvents, AppendClose(e)
    PROVE  Sound(events', state')
<1> DEFINE longer == Append(events, e)
<1>0. /\ e \in Events /\ events \in Seq(Events) /\ state \in States
      /\ e.kind = "CLOSED_TRADE" /\ e.equity = 0 /\ e.at \in 0..MaxAt
      /\ events # <<>>
      /\ events' = longer /\ state' = AfterClose(e)
  <2>1. e \in Events
    BY DEF Events
  <2>2. e.kind = "CLOSED_TRADE" /\ e.equity = 0
    BY DEF CloseEvents
  <2>3. QED
    BY <2>1, <2>2, EventTypes DEF LedgerInvariant, Sound, AppendClose, Current, Commit
<1>1. /\ longer \in Seq(Events) /\ longer # <<>>
      /\ DOMAIN longer = 1..(Len(events) + 1) /\ DOMAIN events = 1..Len(events)
      /\ \A n \in 1..Len(events) : longer[n] = events[n]
      /\ longer[Len(events) + 1] = e
      /\ Len(events) \in Nat
  BY <1>0, AppendFacts
<1>2. /\ state'.losses = IF e.outcome = "LOSS" THEN state.losses + 1 ELSE 0
      /\ state'.latch = (state.latch \/ state'.losses >= 2)
      /\ state'.day = state.day /\ state'.high = state.high
      /\ state'.entries = state.entries
      /\ state' \in States
      /\ state.losses \in Nat /\ state.latch \in BOOLEAN
  BY <1>0 DEF AfterClose, LossesAfter, Derived, States, LossLatchCount
<1> HIDE DEF longer
<1>3. /\ TwoLosses(longer) <=> TwoLosses(events) \/ (e.outcome = "LOSS" /\ EndsInLoss(events))
      /\ EndsInLoss(longer) <=> e.outcome = "LOSS"
      /\ state.latch <=> TwoLosses(events)
      /\ state.losses > 0 <=> EndsInLoss(events)
  BY <1>0, CloseCountsLosses DEF LedgerInvariant, Sound, longer
<1>4. /\ state'.latch <=> TwoLosses(longer)
      /\ state'.losses > 0 <=> EndsInLoss(longer)
  <2>1. state'.losses >= 2 <=> e.outcome = "LOSS" /\ state.losses > 0
    BY <1>2
  <2>2. state'.losses > 0 <=> e.outcome = "LOSS"
    BY <1>2
  <2>3. state'.latch <=> state.latch \/ state'.losses >= 2
    BY Zenon, <1>2
  <2>4. QED
    BY <1>3, <2>1, <2>2, <2>3, Zenon
<1>5. state'.entries = Cardinality(TodaysEntries(longer, state'.day))
  <2>1. e.kind # "ENTRY"
    BY <1>0
  <2>2. TodaysEntries(longer, state.day) = TodaysEntries(events, state.day)
    BY <1>0, <2>1, EntriesOfTheDay DEF longer
  <2>3. state.entries = Cardinality(TodaysEntries(events, state.day))
    BY DEF LedgerInvariant, Sound
  <2>4. QED
    BY <1>2, <2>2, <2>3
<1>6. /\ \A n \in DOMAIN longer : longer[n].equity <= state'.high
      /\ \E n \in DOMAIN longer : longer[n].equity = state'.high
  <2>1. /\ \A n \in DOMAIN events : events[n].equity <= state.high
        /\ \E n \in DOMAIN events : events[n].equity = state.high
        /\ state.high \in Nat
    BY <1>0 DEF LedgerInvariant, Sound, States
  <2>2. QED
    BY <1>0, <1>1, <1>2, <2>1
<1>7. QED
  BY <1>0, <1>1, <1>2, <1>4, <1>5, <1>6 DEF Sound

(* A pair of losses in a prefix is one in the chain. *)
LEMMA PrefixLosses ==
    ASSUME NEW prefix \in Seq(Events), NEW chain \in Seq(Events),
           Len(chain) >= Len(prefix), SubSeq(chain, 1, Len(prefix)) = prefix,
           TwoLosses(prefix)
    PROVE  TwoLosses(chain)
<1>1. \A n \in 1..Len(prefix) : SubSeq(chain, 1, Len(prefix))[n] = chain[n]
  OBVIOUS
<1>2. DOMAIN prefix = 1..Len(prefix) /\ DOMAIN chain = 1..Len(chain)
  OBVIOUS
<1>3. QED
  BY <1>1, <1>2 DEF TwoLosses, IsKind

(* The invariant holds of an empty ledger. *)
LEMMA InvariantInit ==
    LedgerInit => LedgerInvariant
<1> SUFFICES ASSUME LedgerInit PROVE LedgerInvariant
  OBVIOUS
<1>1. Sound(<<>>, NoState)
  <2>1. NoState \in States
    BY LedgerAssumption DEF NoState, States
  <2>2. TodaysEntries(<<>>, NoState.day) = {}
    BY DEF TodaysEntries
  <2>3. ~TwoLosses(<<>>) /\ ~EndsInLoss(<<>>)
    BY DEF TwoLosses, EndsInLoss
  <2>4. NoState.latch = FALSE /\ NoState.losses = 0 /\ NoState.entries = 0 /\ NoState.high = 0
    BY DEF NoState
  <2>5. Cardinality(TodaysEntries(<<>>, NoState.day)) = 0
    BY Zenon, <2>2, FS_EmptySet
  <2>6. QED
    BY <2>1, <2>3, <2>4, <2>5 DEF Sound
<1>2. QED
  BY <1>1, LedgerAssumption DEF LedgerInit, LedgerInvariant

(* Every step of the ledger, restoring a backup included, keeps the invariant. *)
LEMMA InvariantNext ==
    LedgerInvariant /\ [LedgerNext]_lvars => LedgerInvariant'
<1> SUFFICES ASSUME LedgerInvariant, [LedgerNext]_lvars PROVE LedgerInvariant'
  OBVIOUS
<1>1. ASSUME NEW e \in SnapshotEvents, AppendSnapshot(e) PROVE LedgerInvariant'
  BY <1>1, SnapshotSound DEF LedgerInvariant, AppendSnapshot, Commit
<1>2. ASSUME NEW e \in EntryEvents, AppendEntry(e) PROVE LedgerInvariant'
  BY <1>2, EntrySound DEF LedgerInvariant, AppendEntry, Commit
<1>3. ASSUME NEW e \in CloseEvents, AppendClose(e) PROVE LedgerInvariant'
  BY <1>3, CloseSound DEF LedgerInvariant, AppendClose, Commit
<1>4. CASE TakeIntoCustody
  <2>1. events \in Seq(Events)
    BY DEF LedgerInvariant, Sound
  <2>2. QED
    BY <1>4, <2>1 DEF LedgerInvariant, TakeIntoCustody
<1>5. CASE TakeBackup
  BY <1>5 DEF LedgerInvariant, TakeBackup
<1>6. CASE RestoreBackup
  BY <1>6, LedgerAssumption DEF LedgerInvariant, RestoreBackup
<1>7. CASE UNCHANGED lvars
  BY <1>7 DEF LedgerInvariant, lvars
<1>8. QED
  BY <1>1, <1>2, <1>3, <1>4, <1>5, <1>6, <1>7 DEF LedgerNext

(* The invariant holds throughout. *)
LEMMA InvariantAlways ==
    LedgerSpec => []LedgerInvariant
BY InvariantInit, InvariantNext, PTL DEF LedgerSpec

(* The materialized state is of its type whatever events are appended. *)
THEOREM LedgerIsTyped ==
    LedgerSpec => []LedgerTypeOK
<1>1. LedgerInvariant => LedgerTypeOK
  BY DEF LedgerInvariant, Sound, LedgerTypeOK, Events, States
<1>2. QED
  BY <1>1, InvariantAlways, PTL

(* The loss latch of _apply_event is set exactly when two losses in a row are in
   the chain, for every chain and after every restore. *)
THEOREM LatchMeansTwoLosses ==
    LedgerSpec => []LatchIsTwoLosses
<1>1. LedgerInvariant => LatchIsTwoLosses
  BY DEF LedgerInvariant, Sound, LatchIsTwoLosses
<1>2. QED
  BY <1>1, InvariantAlways, PTL

(* entries_today is the number of the current day's entries: the refusal of a
   daily baseline that was left before is what makes the reset to 0 right. *)
THEOREM EntriesTodayIsACount ==
    LedgerSpec => []EntriesTodayCounts
<1>1. LedgerInvariant => EntriesTodayCounts
  BY DEF LedgerInvariant, Sound, EntriesTodayCounts, TodaysEntries
<1>2. QED
  BY <1>1, InvariantAlways, PTL

(* high_water_equity is the largest equity any snapshot of the chain reported. *)
THEOREM HighWaterIsTheMaximum ==
    LedgerSpec => []HighWaterIsMax
<1>1. LedgerInvariant => HighWaterIsMax
  BY DEF LedgerInvariant, Sound, HighWaterIsMax
<1>2. QED
  BY <1>1, InvariantAlways, PTL

(* The whole materialized state is what the chain says, for every chain. *)
THEOREM StateIsTheChains ==
    LedgerSpec => []StateIsDerived
<1>1. LedgerInvariant => StateIsDerived
  BY DEF LedgerInvariant, Sound, StateIsDerived, LatchIsTwoLosses, EntriesTodayCounts,
         TodaysEntries, HighWaterIsMax
<1>2. QED
  BY <1>1, InvariantAlways, PTL

(* _verify_checkpoint lets custody only be extended: no restored or forked ledger
   can take a loss latch out of it. *)
THEOREM CustodyIsExtended ==
    LedgerSpec => CustodyOnlyExtends
<1> DEFINE Extends == /\ Len(custody') >= Len(custody)
                      /\ SubSeq(custody', 1, Len(custody)) = custody
                      /\ TwoLosses(custody) => TwoLosses(custody')
<1>1. ASSUME LedgerInvariant, [LedgerNext]_lvars PROVE [Extends]_lvars
  <2>0. custody \in Seq(Events) /\ events \in Seq(Events)
    BY <1>1 DEF LedgerInvariant, Sound
  <2>1. CASE TakeIntoCustody
    BY <2>0, <2>1, PrefixLosses DEF TakeIntoCustody, MatchesReceipt
  <2>2. CASE custody' = custody
    BY <2>0, <2>2
  <2>3. QED
    BY <1>1, <2>1, <2>2 DEF LedgerNext, lvars, AppendSnapshot, AppendEntry, AppendClose,
                            Commit, TakeBackup, RestoreBackup
<1>2. QED
  BY <1>1, InvariantAlways, PTL DEF LedgerSpec, CustodyOnlyExtends

-----------------------------------------------------------------------------
(* The stage authorization registry. *)
AuthorizationChains == Seq(Authorizations)

StarterLabels == {"off", "seen", "verify", "consume", "seal", "confirm", "startup"}

(* A start that has passed the check of the presented checkpoint. *)
PastCheckpoint == {"consume", "seal", "confirm", "startup"}

StarterRecords ==
    [pc : StarterLabels, auth : Authorizations \cup {"none"}, presented : AuthorizationChains,
     sealed : AuthorizationChains, token : Nat]

StartupRecords == [auth : Authorizations, presented : AuthorizationChains, sealed : AuthorizationChains]

StageTyped ==
    /\ registry \in AuthorizationChains /\ offhost \in SUBSET AuthorizationChains /\ copy \in AuthorizationChains
    /\ rollbacks \in Nat /\ fence \in Nat
    /\ startups \in Seq(StartupRecords)
    /\ starter \in [Starters -> StarterRecords]
    /\ \A p \in Starters : starter[p].pc # "off" => starter[p].auth \in Authorizations

(* Only one start in progress holds the newest token. *)
TokensDiffer ==
    /\ \A p \in Starters : starter[p].token <= fence
    /\ \A p, q \in Starters :
          /\ starter[p].pc # "off" /\ starter[q].pc # "off"
          /\ starter[p].token = starter[q].token
          => p = q

NoncesDiffer ==
    \A m, n \in 1..Len(registry) : NonceOf[registry[m]] = NonceOf[registry[n]] => m = n

(* What a start in progress relies on: its checkpoints lie on the registry's chain,
   and while it is not fenced off they include what every earlier start sealed. *)
StarterOnChain(p) ==
    LET s == starter[p] IN
    /\ s.pc \in PastCheckpoint => Begins(s.presented, registry)
    /\ s.pc \in {"confirm", "startup"} => Begins(s.sealed, registry)
    /\ s.pc = "startup" => s.sealed = Append(s.presented, s.auth)
    /\ s.pc \in PastCheckpoint /\ s.token = fence =>
          \A n \in 1..Len(startups) : Begins(startups[n].sealed, s.presented)

StartupsOnChain ==
    \A n \in 1..Len(startups) :
        /\ Begins(startups[n].sealed, registry)
        /\ startups[n].sealed = Append(startups[n].presented, startups[n].auth)
        /\ \A m \in 1..(n - 1) : Begins(startups[m].sealed, startups[n].presented)

StartsOnce ==
    \A m, n \in 1..Len(startups) : startups[m].auth = startups[n].auth => m = n

OnChain ==
    /\ NoncesDiffer /\ StartupsOnChain
    /\ \A p \in Starters : StarterOnChain(p)

StageInvariant ==
    /\ StageTyped /\ TokensDiffer
    /\ StartsOnce
    /\ rollbacks = 0 => OnChain

----------------------------------------------------------------------------
(* A chain begins with itself. *)
LEMMA BeginsItself ==
    ASSUME NEW s \in AuthorizationChains
    PROVE  Begins(s, s)
BY DEF Begins, AuthorizationChains

(* A chain that begins another one also begins what is appended to that. *)
LEMMA BeginsLonger ==
    ASSUME NEW s \in AuthorizationChains, NEW t \in AuthorizationChains, NEW a \in Authorizations, Begins(s, t)
    PROVE  Begins(s, Append(t, a))
BY DEF Begins, AuthorizationChains

(* Beginnings of beginnings are beginnings. *)
LEMMA BeginsTransitive ==
    ASSUME NEW r \in AuthorizationChains, NEW s \in AuthorizationChains, NEW t \in AuthorizationChains, Begins(r, s), Begins(s, t)
    PROVE  Begins(r, t)
BY DEF Begins, AuthorizationChains

(* OwnSuccessor on one chain: the sealed checkpoint is the presented one and the
   start's own authorization. *)
LEMMA SuccessorIsAppend ==
    ASSUME NEW s \in AuthorizationChains, NEW t \in AuthorizationChains, NEW a \in Authorizations,
           Begins(s, t), Len(t) = Len(s) + 1, t[Len(t)] = a
    PROVE  t = Append(s, a)
<1>1. Append(s, a) \in AuthorizationChains /\ Len(Append(s, a)) = Len(t)
  BY DEF AuthorizationChains
<1>2. \A k \in 1..Len(t) : t[k] = Append(s, a)[k]
  BY DEF Begins, AuthorizationChains
<1>3. QED
  BY <1>1, <1>2 DEF AuthorizationChains

(* The stage fields of every STARTUP receipt are of their types. *)
LEMMA StartupTypes ==
    ASSUME StageTyped
    PROVE  /\ Len(startups) \in Nat
           /\ \A n \in 1..Len(startups) :
                 /\ startups[n].auth \in Authorizations
                 /\ startups[n].presented \in AuthorizationChains /\ startups[n].sealed \in AuthorizationChains
<1>1. Len(startups) \in Nat /\ \A n \in 1..Len(startups) : startups[n] \in StartupRecords
  BY DEF StageTyped
<1>2. QED
  BY <1>1 DEF StartupRecords

(* What a step of p to another label leaves of its locals. *)
LEMMA Advanced ==
    ASSUME StageTyped, NEW p \in Starters, NEW label \in StarterLabels, StarterGoes(p, label)
    PROVE  /\ starter' \in [Starters -> StarterRecords]
           /\ starter'[p].pc = label /\ starter'[p].auth = starter[p].auth
           /\ starter'[p].presented = starter[p].presented
           /\ starter'[p].sealed = starter[p].sealed
           /\ starter'[p].token = starter[p].token
           /\ \A q \in Starters : q # p => starter'[q] = starter[q]
<1>1. starter[p] \in StarterRecords
  BY DEF StageTyped
<1>2. [starter[p] EXCEPT !.pc = label]
        = [pc |-> label, auth |-> starter[p].auth, presented |-> starter[p].presented,
           sealed |-> starter[p].sealed, token |-> starter[p].token]
  BY <1>1 DEF StarterRecords
<1>3. starter' = [starter EXCEPT ![p] = [starter[p] EXCEPT !.pc = label]]
  BY DEF StarterGoes
<1>4. [starter[p] EXCEPT !.pc = label] \in StarterRecords
  BY <1>1, <1>2 DEF StarterRecords
<1>5. QED
  BY <1>2, <1>3, <1>4 DEF StageTyped

(* What a step that ends p's start does. *)
LEMMA Ended ==
    ASSUME StageTyped, NEW p \in Starters, Gone(p)
    PROVE  /\ starter' \in [Starters -> StarterRecords]
           /\ starter'[p] = NotStarting
           /\ \A q \in Starters : q # p => starter'[q] = starter[q]
<1>1. NotStarting \in StarterRecords
  BY DEF NotStarting, StarterRecords, StarterLabels, AuthorizationChains
<1>2. QED
  BY <1>1 DEF Gone, StageTyped

(* A step that moves only p, to a label that is not yet past the check of its
   checkpoint or whose own part is shown, keeps what the others rely on. *)
LEMMA OthersStay ==
    ASSUME StageInvariant, NEW p \in Starters,
           UNCHANGED <<registry, offhost, copy, rollbacks, fence, startups>>,
           starter' \in [Starters -> StarterRecords],
           \A q \in Starters : q # p => starter'[q] = starter[q],
           starter'[p].pc # "off" =>
              /\ starter'[p].auth \in Authorizations
              /\ starter[p].pc # "off" /\ starter'[p].token = starter[p].token,
           starter'[p].token <= fence,
           rollbacks = 0 /\ OnChain => StarterOnChain(p)'
    PROVE  StageInvariant'
<1>1. StageTyped'
  BY DEF StageInvariant, StageTyped
<1>2. TokensDiffer'
  BY DEF StageInvariant, TokensDiffer
<1>3. StartsOnce'
  BY DEF StageInvariant, StartsOnce
<1>4. ASSUME rollbacks' = 0 PROVE OnChain'
  <2>1. OnChain
    BY <1>4 DEF StageInvariant
  <2>2. NoncesDiffer' /\ StartupsOnChain'
    BY <2>1 DEF OnChain, NoncesDiffer, StartupsOnChain
  <2>3. ASSUME NEW q \in Starters PROVE StarterOnChain(q)'
    <3>1. CASE q = p
      BY ZenonT(20), <1>4, <2>1, <3>1
    <3>2. CASE q # p
      BY <2>1, <3>2 DEF OnChain, StarterOnChain
    <3>3. QED
      BY <3>1, <3>2
  <2>4. QED
    BY <2>2, <2>3 DEF OnChain
<1>5. QED
  BY <1>1, <1>2, <1>3, <1>4 DEF StageInvariant

(* A claim gives the newest token to p alone, so no start in progress stays unfenced. *)
LEMMA ClaimStep ==
    ASSUME StageInvariant, NEW p \in Starters, NEW a \in Authorizations, NEW c \in offhost,
           ClaimStart(p, a, c)
    PROVE  StageInvariant'
<1> DEFINE r == [pc |-> "seen", auth |-> a, presented |-> c, sealed |-> <<>>, token |-> fence + 1]
<1>1. /\ r \in StarterRecords
      /\ starter' = [starter EXCEPT ![p] = r]
      /\ fence' = fence + 1 /\ fence \in Nat
      /\ UNCHANGED <<registry, offhost, copy, rollbacks, startups>>
  BY DEF StageInvariant, StageTyped, StarterRecords, StarterLabels, ClaimStart, AuthorizationChains
<1>2. /\ starter'[p] = r
      /\ \A q \in Starters : q # p => starter'[q] = starter[q]
      /\ starter' \in [Starters -> StarterRecords]
  BY <1>1 DEF StageInvariant, StageTyped
<1>3. StageTyped'
  BY <1>1, <1>2 DEF StageInvariant, StageTyped
<1>4. \A q \in Starters : starter[q].token \in Nat /\ starter[q].token <= fence
  BY DEF StageInvariant, StageTyped, StarterRecords, TokensDiffer
<1>5. TokensDiffer'
  BY <1>1, <1>2, <1>4 DEF StageInvariant, TokensDiffer
<1>6. StartsOnce'
  BY <1>1 DEF StageInvariant, StartsOnce
<1>7. ASSUME rollbacks' = 0 PROVE OnChain'
  <2>1. OnChain
    BY <1>1, <1>7 DEF StageInvariant
  <2>2. NoncesDiffer' /\ StartupsOnChain'
    BY <1>1, <2>1 DEF OnChain, NoncesDiffer, StartupsOnChain
  <2>3. ASSUME NEW q \in Starters PROVE StarterOnChain(q)'
    <3>1. CASE q = p
      BY <1>2, <3>1 DEF StarterOnChain, PastCheckpoint
    <3>2. CASE q # p
      BY <1>1, <1>2, <1>4, <2>1, <3>2 DEF OnChain, StarterOnChain
    <3>3. QED
      BY <3>1, <3>2
  <2>4. QED
    BY <2>2, <2>3 DEF OnChain
<1>8. QED
  BY ZenonT(20), <1>3, <1>5, <1>6, <1>7 DEF StageInvariant

(* The receipts are looked through: only p's label changes. *)
LEMMA CheckSeenStep ==
    ASSUME StageInvariant, NEW p \in Starters, CheckSeen(p)
    PROVE  StageInvariant'
<1>1. StageTyped /\ StarterGoes(p, "verify") /\ starter[p].pc = "seen"
  BY DEF StageInvariant, CheckSeen, StarterAt
<1>2. "verify" \in StarterLabels
  BY DEF StarterLabels
<1>3. StarterOnChain(p)'
  BY <1>1, <1>2, Advanced DEF StarterOnChain, PastCheckpoint
<1>4. QED
  BY <1>1, <1>2, <1>3, Advanced, OthersStay
     DEF StageInvariant, StageTyped, TokensDiffer, CheckSeen

(* The presented checkpoint is the registry's chain, which holds all sealed ones. *)
LEMMA VerifyStep ==
    ASSUME StageInvariant, NEW p \in Starters, VerifyPresented(p)
    PROVE  StageInvariant'
<1>1. StageTyped /\ StarterGoes(p, "consume") /\ starter[p].pc = "verify"
  BY DEF StageInvariant, VerifyPresented, StarterAt
<1>2. "consume" \in StarterLabels
  BY ZenonT(40) DEF StarterLabels
<1>3. ASSUME OnChain PROVE StarterOnChain(p)'
  <2>1. starter'[p].presented = registry /\ starter'[p].pc = "consume"
    BY <1>1, <1>2, Advanced DEF VerifyPresented, IsCurrent
  <2>2. Begins(registry, registry)
    BY BeginsItself DEF StageInvariant, StageTyped
  <2>3. \A n \in 1..Len(startups) : Begins(startups[n].sealed, registry)
    BY <1>3 DEF OnChain, StartupsOnChain
  <2>4. QED
    BY ZenonT(40), <2>1, <2>2, <2>3 DEF StarterOnChain, VerifyPresented
<1>4. QED
  BY <1>1, <1>2, <1>3, Advanced, OthersStay
     DEF StageInvariant, StageTyped, TokensDiffer, VerifyPresented

(* A consumption extends the registry by a nonce it does not hold; every chain that
   began it still does. *)
LEMMA ConsumeStep ==
    ASSUME StageInvariant, NEW p \in Starters, Consume(p)
    PROVE  StageInvariant'
<1> DEFINE a == starter[p].auth
<1>1. StageTyped /\ StarterGoes(p, "seal") /\ starter[p].pc = "consume"
  BY DEF StageInvariant, Consume, StarterAt
<1>2. "seal" \in StarterLabels
  BY DEF StarterLabels
<1>3. a \in Authorizations /\ registry \in AuthorizationChains
  BY <1>1 DEF StageTyped
<1>4. /\ registry' = Append(registry, a) /\ ~Replayed(a)
      /\ UNCHANGED <<offhost, copy, rollbacks, fence, startups>>
  BY DEF Consume
<1>5. registry' \in AuthorizationChains
  BY <1>3, <1>4 DEF AuthorizationChains
<1>6. /\ starter' \in [Starters -> StarterRecords]
      /\ starter'[p].pc = "seal" /\ starter'[p].auth = a
      /\ starter'[p].presented = starter[p].presented
      /\ starter'[p].sealed = starter[p].sealed
      /\ starter'[p].token = starter[p].token
      /\ \A q \in Starters : q # p => starter'[q] = starter[q]
  BY <1>1, <1>2, Advanced
<1>7. StageTyped'
  BY <1>1, <1>3, <1>4, <1>5, <1>6 DEF StageTyped
<1>8. TokensDiffer'
  BY <1>1, <1>4, <1>6 DEF StageInvariant, TokensDiffer
<1>9. StartsOnce'
  BY <1>4 DEF StageInvariant, StartsOnce
<1>10. ASSUME rollbacks' = 0 PROVE OnChain'
  <2>1. OnChain
    BY <1>4, <1>10 DEF StageInvariant
  <2>2. NoncesDiffer'
    <3>1. /\ Len(registry') = Len(registry) + 1 /\ Len(registry) \in Nat
          /\ registry'[Len(registry) + 1] = a
          /\ \A k \in 1..Len(registry) : registry'[k] = registry[k]
      BY <1>3, <1>4 DEF AuthorizationChains
    <3>2. \A k \in 1..Len(registry) : NonceOf[registry[k]] # NonceOf[a]
      BY <1>3, <1>4 DEF Replayed, AuthorizationChains
    <3>3. QED
      BY <2>1, <3>1, <3>2 DEF OnChain, NoncesDiffer
  <2>3. \A s \in AuthorizationChains : Begins(s, registry) => Begins(s, registry')
    BY <1>3, <1>4, BeginsLonger
  <2>4. \A n \in 1..Len(startups) : startups[n].sealed \in AuthorizationChains
    BY <1>1, StartupTypes
  <2>5. StartupsOnChain'
    BY <1>4, <2>1, <2>3, <2>4 DEF OnChain, StartupsOnChain
  <2>6. ASSUME NEW q \in Starters PROVE StarterOnChain(q)'
    <3>1. starter[q].presented \in AuthorizationChains /\ starter[q].sealed \in AuthorizationChains
      BY <1>1 DEF StageTyped, StarterRecords
    <3>2. StarterOnChain(q)
      BY ZenonT(40), <2>1 DEF OnChain
    <3>3. CASE q = p
      BY ZenonT(40), <1>1, <1>4, <1>6, <2>3, <3>1, <3>2, <3>3 DEF StarterOnChain, PastCheckpoint
    <3>4. CASE q # p
      BY <1>4, <1>6, <2>3, <3>1, <3>2, <3>4 DEF StarterOnChain
    <3>5. QED
      BY <3>3, <3>4
  <2>7. QED
    BY <2>2, <2>5, <2>6 DEF OnChain
<1>11. QED
  BY <1>7, <1>8, <1>9, <1>10 DEF StageInvariant

(* The checkpoint sealed after the consumption is the registry's chain. *)
LEMMA SealStep ==
    ASSUME StageInvariant, NEW p \in Starters, Seal(p)
    PROVE  StageInvariant'
<1> DEFINE r == [pc |-> "confirm", auth |-> starter[p].auth, presented |-> starter[p].presented,
                 sealed |-> registry, token |-> starter[p].token]
<1>1. /\ StageTyped /\ registry \in AuthorizationChains /\ starter[p] \in StarterRecords
      /\ starter[p].pc = "seal" /\ starter[p].auth \in Authorizations
  BY DEF StageInvariant, StageTyped, Seal, StarterAt
<1>2. r \in StarterRecords /\ starter' = [starter EXCEPT ![p] = r]
  BY <1>1 DEF StarterRecords, StarterLabels, Seal
<1>3. /\ starter' \in [Starters -> StarterRecords] /\ starter'[p] = r
      /\ \A q \in Starters : q # p => starter'[q] = starter[q]
  BY <1>1, <1>2 DEF StageTyped
<1>4. ASSUME OnChain PROVE StarterOnChain(p)'
  BY ZenonT(40), <1>1, <1>3, <1>4, BeginsItself DEF OnChain, StarterOnChain, PastCheckpoint, Seal
<1>5. starter'[p].auth = starter[p].auth /\ starter'[p].token = starter[p].token
  BY <1>3
<1>6. starter[p].token <= fence
  BY Zenon DEF StageInvariant, TokensDiffer
<1>7. QED
  BY <1>1, <1>3, <1>4, <1>5, <1>6, OthersStay DEF Seal

(* The sealed checkpoint is confirmed as the presented one and the start's own
   authorization: both lie on the registry's chain, and their lengths differ by one. *)
LEMMA ConfirmStep ==
    ASSUME StageInvariant, NEW p \in Starters, Confirm(p)
    PROVE  StageInvariant'
<1>1. /\ StageTyped /\ StarterGoes(p, "startup") /\ starter[p].pc = "confirm"
      /\ starter[p] \in StarterRecords /\ starter[p].auth \in Authorizations
      /\ starter[p].sealed = registry
  BY DEF StageInvariant, StageTyped, Confirm, StarterAt, IsCurrent
<1>2. "startup" \in StarterLabels
  BY DEF StarterLabels
<1>3. ASSUME OnChain PROVE StarterOnChain(p)'
  <2>1. StarterOnChain(p) /\ Begins(starter[p].presented, registry)
    BY ZenonT(20), <1>1, <1>3 DEF OnChain, StarterOnChain, PastCheckpoint
  <2>2. starter[p].sealed = Append(starter[p].presented, starter[p].auth)
    BY <1>1, <2>1, SuccessorIsAppend DEF StarterRecords, Confirm, OwnSuccessor
  <2>3. QED
    BY Zenon, <1>1, <1>2, <2>1, <2>2, Advanced DEF StarterOnChain, PastCheckpoint, Confirm
<1>4. QED
  BY ZenonT(40), <1>1, <1>2, <1>3, Advanced, OthersStay DEF StageInvariant, TokensDiffer, Confirm

(* A start that is not fenced off records itself behind every earlier one; no other
   start in progress holds its token, so none can still record itself unfenced. *)
LEMMA RecordStep ==
    ASSUME StageInvariant, NEW p \in Starters, RecordStartup(p)
    PROVE  StageInvariant'
<1> DEFINE s == starter[p]
           r == [auth |-> s.auth, presented |-> s.presented, sealed |-> s.sealed]
           last == Len(startups) + 1
<1>1. /\ StageTyped /\ s \in StarterRecords /\ s.pc = "startup"
      /\ s.auth \in Authorizations /\ s.token = fence /\ Gone(p)
      /\ startups' = Append(startups, r)
      /\ UNCHANGED <<registry, offhost, copy, rollbacks, fence>>
  BY DEF StageInvariant, StageTyped, RecordStartup, StarterAt
<1>2. r \in StartupRecords /\ startups \in Seq(StartupRecords)
  BY <1>1 DEF StartupRecords, StarterRecords, StageTyped
<1>3. /\ startups' \in Seq(StartupRecords)
      /\ Len(startups') = last /\ Len(startups) \in Nat
      /\ \A n \in 1..Len(startups) : startups'[n] = startups[n]
      /\ startups'[last] = r
  <2> HIDE DEF r
  <2>1. QED
    BY <1>1, <1>2
<1>4. /\ startups'[last].auth = s.auth /\ startups'[last].presented = s.presented
      /\ startups'[last].sealed = s.sealed
  BY <1>3
<1> HIDE DEF r
<1>5. /\ starter' \in [Starters -> StarterRecords] /\ starter'[p] = NotStarting
      /\ \A q \in Starters : q # p => starter'[q] = starter[q]
  BY <1>1, Ended
<1>6. StageTyped'
  BY <1>1, <1>3, <1>5 DEF StageTyped, NotStarting
<1>7. TokensDiffer'
  <2>1. starter'[p].pc = "off" /\ starter'[p].token = 0 /\ fence \in Nat /\ fence' = fence
    BY <1>1, <1>5 DEF NotStarting, StageTyped
  <2>2. QED
    BY <1>5, <2>1 DEF StageInvariant, TokensDiffer
<1>8. StartsOnce'
  <2>1. \A n \in 1..Len(startups) : startups[n].auth # s.auth
    BY <1>2 DEF RecordStartup, SeenBefore
  <2>2. QED
    BY <1>3, <1>4, <2>1 DEF StageInvariant, StartsOnce
<1>9. ASSUME rollbacks' = 0 PROVE OnChain'
  <2>1. OnChain /\ StarterOnChain(p)
    BY <1>1, <1>9 DEF StageInvariant, OnChain
  <2>2. NoncesDiffer'
    BY <1>1, <2>1 DEF OnChain, NoncesDiffer
  <2>3. /\ Begins(s.sealed, registry) /\ s.sealed = Append(s.presented, s.auth)
        /\ \A n \in 1..Len(startups) : Begins(startups[n].sealed, s.presented)
    BY <1>1, <2>1 DEF StarterOnChain, PastCheckpoint
  <2>4. StartupsOnChain'
    <3>1. ASSUME NEW n \in 1..Len(startups)
          PROVE  /\ Begins(startups'[n].sealed, registry')
                 /\ startups'[n].sealed = Append(startups'[n].presented, startups'[n].auth)
                 /\ \A m \in 1..(n - 1) : Begins(startups'[m].sealed, startups'[n].presented)
      BY <1>1, <1>3, <2>1 DEF OnChain, StartupsOnChain
    <3>2. /\ Begins(startups'[last].sealed, registry')
          /\ startups'[last].sealed = Append(startups'[last].presented, startups'[last].auth)
          /\ \A m \in 1..(last - 1) : Begins(startups'[m].sealed, startups'[last].presented)
      BY <1>1, <1>3, <1>4, <2>3
    <3>3. \A n \in 1..last : n \in 1..Len(startups) \/ n = last
      BY <1>3
    <3>4. QED
      BY Zenon, <1>3, <3>1, <3>2, <3>3 DEF StartupsOnChain
  <2>5. ASSUME NEW q \in Starters PROVE StarterOnChain(q)'
    <3>1. CASE q = p
      BY <1>5, <3>1 DEF StarterOnChain, NotStarting, PastCheckpoint
    <3>2. CASE q # p
      <4>1. ~(starter[q].pc \in PastCheckpoint /\ starter[q].token = fence)
        BY <1>1, <3>2 DEF StageInvariant, TokensDiffer, PastCheckpoint
      <4>2. StarterOnChain(q)
        BY ZenonT(40), <2>1 DEF OnChain
      <4>3. QED
        BY ZenonT(40), <1>1, <1>5, <3>2, <4>1, <4>2 DEF StarterOnChain
    <3>3. QED
      BY <3>1, <3>2
  <2>6. QED
    BY <2>2, <2>4, <2>5 DEF OnChain
<1>10. QED
  BY <1>6, <1>7, <1>8, <1>9 DEF StageInvariant

(* A start that ends, whatever it has consumed, keeps what the others rely on. *)
LEMMA FailStep ==
    ASSUME StageInvariant, NEW p \in Starters, StartFails(p)
    PROVE  StageInvariant'
<1>1. /\ starter' \in [Starters -> StarterRecords] /\ starter'[p] = NotStarting
      /\ \A q \in Starters : q # p => starter'[q] = starter[q]
  BY Ended DEF StageInvariant, StartFails
<1>2. StarterOnChain(p)'
  BY <1>1 DEF StarterOnChain, NotStarting, PastCheckpoint
<1>3. starter'[p].pc = "off" /\ starter'[p].token = 0 /\ fence \in Nat
  BY <1>1 DEF NotStarting, StageInvariant, StageTyped
<1>4. QED
  BY <1>1, <1>2, <1>3, OthersStay DEF StartFails

(* Every step of processes, custody and operators preserves the invariant. *)
LEMMA StageInvariantNext ==
    ASSUME StageInvariant, [StageNext]_stageVars
    PROVE  StageInvariant'
<1>1. CASE CarryOffhost \/ CopyRegistry
  <2>1. StageTyped'
    BY <1>1 DEF StageInvariant, StageTyped, CarryOffhost, CopyRegistry
  <2>2. UNCHANGED <<registry, rollbacks, fence, startups, starter>>
    BY <1>1 DEF CarryOffhost, CopyRegistry
  <2>3. QED
    BY ZenonT(20), <2>1, <2>2 DEF StageInvariant, TokensDiffer, StartsOnce, OnChain, NoncesDiffer,
                      StartupsOnChain, StarterOnChain
<1>2. CASE RollBackRegistry
  <2>1. StageTyped' /\ rollbacks' # 0
    BY <1>2 DEF StageInvariant, StageTyped, RollBackRegistry
  <2>2. TokensDiffer' /\ StartsOnce'
    BY Zenon, <1>2 DEF StageInvariant, TokensDiffer, StartsOnce, RollBackRegistry
  <2>3. QED
    BY Zenon, <2>1, <2>2 DEF StageInvariant
<1>3. CASE UNCHANGED stageVars
  BY <1>3 DEF StageInvariant, StageTyped, TokensDiffer, StartsOnce, OnChain, NoncesDiffer,
              StartupsOnChain, StarterOnChain, stageVars
<1>4. CASE \E p \in Starters :
              \/ \E a \in Authorizations, c \in offhost : ClaimStart(p, a, c)
              \/ CheckSeen(p) \/ VerifyPresented(p) \/ Consume(p) \/ Seal(p) \/ Confirm(p)
              \/ RecordStartup(p) \/ StartFails(p)
  <2>1. PICK p \in Starters :
              \/ \E a \in Authorizations, c \in offhost : ClaimStart(p, a, c)
              \/ CheckSeen(p) \/ VerifyPresented(p) \/ Consume(p) \/ Seal(p) \/ Confirm(p)
              \/ RecordStartup(p) \/ StartFails(p)
    BY <1>4
  <2>2. QED
    BY <2>1, ClaimStep, CheckSeenStep, VerifyStep, ConsumeStep, SealStep, ConfirmStep,
       RecordStep, FailStep
<1>5. QED
  BY ZenonT(40), <1>1, <1>2, <1>3, <1>4 DEF StageNext

(* A new registry and store satisfy the invariant. *)
LEMMA StageInvariantInit ==
    ASSUME StageInit
    PROVE  StageInvariant
<1>1. NotStarting \in StarterRecords
  BY DEF NotStarting, StarterRecords, StarterLabels, AuthorizationChains
<1>2. StageTyped
  BY <1>1 DEF StageInit, StageTyped, AuthorizationChains, NotStarting
<1>3. TokensDiffer /\ StartsOnce
  <2>1. \A p \in Starters : starter[p].pc = "off" /\ starter[p].token = 0
    BY DEF StageInit, NotStarting
  <2>2. fence = 0 /\ Len(startups) = 0
    BY DEF StageInit
  <2>3. TokensDiffer
    BY <2>1, <2>2 DEF TokensDiffer
  <2>4. StartsOnce
    BY <2>2 DEF StartsOnce
  <2>5. QED
    BY Zenon, <2>3, <2>4
<1>4. OnChain
  BY DEF StageInit, OnChain, NoncesDiffer, StartupsOnChain, StarterOnChain, NotStarting, PastCheckpoint
<1>5. QED
  BY <1>2, <1>3, <1>4 DEF StageInvariant

(* The invariant holds throughout. *)
LEMMA StageInvariantAlways ==
    StageSpec => []StageInvariant
BY StageInvariantInit, StageInvariantNext, PTL DEF StageSpec

(* Every start's checkpoints lie on one chain: what one start sealed is part of what
   is presented to the next, for any number of overlapping and fenced starts. *)
THEOREM StartsFormOneChain ==
    StageSpec => []StartsAreOneChain
<1>1. StageInvariant => StartsAreOneChain
  BY DEF StageInvariant, StageTyped, OnChain, StartupsOnChain, StartsAreOneChain
<1>2. QED
  BY <1>1, StageInvariantAlways, PTL

(* No authorization starts a second runtime, and without a restored registry no nonce
   does: each sealed checkpoint ends with its own start's authorization, at its own
   place of a registry in which all nonces differ. *)
THEOREM AuthorizationsStartOnce ==
    StageSpec => []OneStart
<1>1. ASSUME StageInvariant PROVE OneStart
  <2>1. Len(startups) \in Nat /\ DOMAIN startups = 1..Len(startups)
    BY <1>1 DEF StageInvariant, StageTyped
  <2>2. ASSUME rollbacks = 0, NEW n \in 1..Len(startups)
        PROVE  /\ Len(startups[n].sealed) = Len(startups[n].presented) + 1
               /\ Len(startups[n].presented) \in Nat
               /\ Len(startups[n].sealed) \in 1..Len(registry)
               /\ registry[Len(startups[n].sealed)] = startups[n].auth
    <3>1. /\ startups[n].presented \in AuthorizationChains /\ startups[n].auth \in Authorizations
          /\ registry \in AuthorizationChains
      BY <1>1, StartupTypes DEF StageInvariant, StageTyped
    <3>2. /\ Begins(startups[n].sealed, registry)
          /\ startups[n].sealed = Append(startups[n].presented, startups[n].auth)
      BY <1>1, <2>2 DEF StageInvariant, OnChain, StartupsOnChain
    <3>3. QED
      BY <3>1, <3>2 DEF Begins, AuthorizationChains
  <2>3. ASSUME rollbacks = 0, NEW m \in 1..Len(startups), NEW n \in 1..Len(startups), m < n
        PROVE  NonceOf[startups[m].auth] # NonceOf[startups[n].auth]
    <3>1. Len(startups[m].sealed) <= Len(startups[n].presented)
      <4>1. m \in 1..(n - 1)
        BY <2>1, <2>3
      <4>2. Begins(startups[m].sealed, startups[n].presented)
        BY <1>1, <2>3, <4>1 DEF StageInvariant, OnChain, StartupsOnChain
      <4>3. QED
        BY <4>2 DEF Begins
    <3>2. Len(startups[m].sealed) # Len(startups[n].sealed)
      BY <2>2, <2>3, <3>1
    <3>3. NoncesDiffer
      BY <1>1, <2>3 DEF StageInvariant, OnChain
    <3>4. /\ Len(startups[m].sealed) \in 1..Len(registry)
          /\ Len(startups[n].sealed) \in 1..Len(registry)
          /\ registry[Len(startups[m].sealed)] = startups[m].auth
          /\ registry[Len(startups[n].sealed)] = startups[n].auth
      BY <2>2, <2>3
    <3>5. QED
      BY <3>2, <3>3, <3>4 DEF NoncesDiffer
  <2>4. ASSUME rollbacks = 0, NEW m \in 1..Len(startups), NEW n \in 1..Len(startups),
               NonceOf[startups[m].auth] = NonceOf[startups[n].auth]
        PROVE  m = n
    BY <2>1, <2>3, <2>4
  <2>5. QED
    BY <1>1, <2>1, <2>4 DEF StageInvariant, StartsOnce, OneStart
<1>2. QED
  BY <1>1, StageInvariantAlways, PTL

----------------------------------------------------------------------------
(* The DEMO_AUTO session store. *)
SupCheckpoints == {0, 1} \cup 1..MaxSup
SessionLeases == [seq : Nat, ev : {"none", "CREATE", "RENEW"}, sup : SupCheckpoints, by : Users \cup {"none"}]
Chains == Seq(SessionLeases)
CallLabels == {"ready", "renew", "renew_issue", "append", "export", "verified", "reserved", "submitting"}
Calls == [pc : CallLabels, prior : Chains, new : SessionLeases, order : Orders \cup {"none"},
          held : SessionLeases]
ReservationStates == {"none", "ACTIVE", "ABORTED_BEFORE_SEND", "COMPLETED",
                      "RECONCILIATION_REQUIRED", "RECONCILED"}

SessionTyped ==
    /\ ledger \in Chains /\ external \in Chains /\ sup \in SupCheckpoints
    /\ reservation \in [Orders -> [st : ReservationStates, under : Chains]]
    /\ user \in [Users -> Calls]

(* One chain is a prefix of the other, by positions. *)
IsPrefixOf(s, t) == Len(s) <= Len(t) /\ \A i \in 1..Len(s) : s[i] = t[i]

(* What a call in progress relies on: the chain it has read is anchored for good, and
   the lease it has committed is in the ledger for good. *)
CallOK(c, led, ext) ==
    /\ c.pc \in CallLabels \ {"ready", "export"} => IsPrefixOf(c.prior, ext)
    /\ c.pc = "export" => IsPrefixOf(Append(c.prior, c.new), led)

SessionInvariant ==
    /\ SessionTyped
    /\ IsPrefixOf(external, ledger) /\ Len(ledger) <= Len(external) + 1
    /\ \A u \in Users : CallOK(user[u], ledger, external)
    /\ \A o \in Orders : reservation[o].st # "none" => IsPrefixOf(reservation[o].under, external)
    /\ \A o, q \in Orders : OpenReservation(o) /\ OpenReservation(q) => o = q

----------------------------------------------------------------------------
(* A chain that begins another is its subsequence from the first position on. *)
LEMMA BeginsSubSeq ==
    ASSUME NEW s \in Chains, NEW t \in Chains, IsPrefixOf(s, t)
    PROVE  s = SubSeq(t, 1, Len(s)) /\ Len(s) \in 0..Len(t)
<1>1. Len(s) \in Nat /\ Len(t) \in Nat /\ Len(s) <= Len(t)
  BY DEF Chains, IsPrefixOf
<1>2. s = [i \in 1..Len(s) |-> s[i]]
  BY DEF Chains
<1>3. SubSeq(t, 1, Len(s)) = [i \in 1..Len(s) |-> t[i]]
  BY <1>1 DEF Chains
<1>4. QED
  BY <1>1, <1>2, <1>3 DEF IsPrefixOf

(* A chain begins with itself, *)
LEMMA BeginsSame ==
    ASSUME NEW s \in Chains
    PROVE  IsPrefixOf(s, s)
BY DEF IsPrefixOf, Chains

(* with what its beginning begins with, *)
LEMMA BeginsOn ==
    ASSUME NEW r \in Chains, NEW s \in Chains, NEW t \in Chains, IsPrefixOf(r, s), IsPrefixOf(s, t)
    PROVE  IsPrefixOf(r, t)
<1>1. Len(r) \in Nat /\ Len(s) \in Nat /\ Len(t) \in Nat
  BY DEF Chains
<1>2. QED
  BY <1>1 DEF IsPrefixOf

(* and two that begin each other are one. *)
LEMMA BeginsBoth ==
    ASSUME NEW s \in Chains, NEW t \in Chains, IsPrefixOf(s, t), IsPrefixOf(t, s)
    PROVE  s = t
<1>1. Len(s) = Len(t) /\ Len(s) \in Nat
  BY DEF IsPrefixOf, Chains
<1>2. s = [i \in 1..Len(s) |-> s[i]] /\ t = [i \in 1..Len(t) |-> t[i]]
  BY DEF Chains
<1>3. QED
  BY <1>1, <1>2 DEF IsPrefixOf

(* A lease appended to a chain leaves the chain a beginning of it. *)
LEMMA BeginsAppend ==
    ASSUME NEW s \in Chains, NEW x \in SessionLeases
    PROVE  /\ Append(s, x) \in Chains /\ IsPrefixOf(s, Append(s, x)) /\ Len(Append(s, x)) = Len(s) + 1
           /\ Len(s) \in Nat
BY DEF IsPrefixOf, Chains

(* What a call relies on survives the growth of ledger and register. *)
LEMMA CallKept ==
    ASSUME NEW c \in Calls, NEW led \in Chains, NEW ext \in Chains, NEW led2 \in Chains, NEW ext2 \in Chains,
           CallOK(c, led, ext), IsPrefixOf(led, led2), IsPrefixOf(ext, ext2)
    PROVE  CallOK(c, led2, ext2)
<1>1. c.prior \in Chains /\ c.new \in SessionLeases
  BY DEF Calls
<1>2. Append(c.prior, c.new) \in Chains
  BY ZenonT(20), <1>1, BeginsAppend
<1>3. c.pc = "export" => IsPrefixOf(Append(c.prior, c.new), led2)
  BY <1>2, BeginsOn DEF CallOK
<1>4. c.pc \in CallLabels \ {"ready", "export"} => IsPrefixOf(c.prior, ext2)
  BY ZenonT(40), <1>1, BeginsOn DEF CallOK
<1>5. QED
  BY <1>3, <1>4 DEF CallOK

(* What a step of one call has to show when it leaves the reservations alone. *)
LEMMA CallSteps ==
    ASSUME SessionInvariant, NEW u \in Users, NEW c \in Calls,
           user' = [user EXCEPT ![u] = c], UNCHANGED <<sup, reservation>>,
           ledger' \in Chains, external' \in Chains, IsPrefixOf(ledger, ledger'), IsPrefixOf(external, external'),
           IsPrefixOf(external', ledger'), Len(ledger') <= Len(external') + 1, CallOK(c, ledger', external')
    PROVE  SessionInvariant'
<1>1. SessionTyped'
  BY DEF SessionInvariant, SessionTyped
<1>2. ASSUME NEW v \in Users PROVE CallOK(user'[v], ledger', external')
  <2>1. CASE v = u
    BY <2>1 DEF SessionInvariant, SessionTyped
  <2>2. CASE v # u
    <3>1. /\ user'[v] = user[v] /\ user[v] \in Calls /\ CallOK(user[v], ledger, external)
          /\ ledger \in Chains /\ external \in Chains
      BY <2>2 DEF SessionInvariant, SessionTyped
    <3>2. QED
      BY <3>1, CallKept
  <2>3. QED
    BY <2>1, <2>2
<1>3. ASSUME NEW o \in Orders, reservation'[o].st # "none" PROVE IsPrefixOf(reservation'[o].under, external')
  <2>1. IsPrefixOf(reservation[o].under, external) /\ reservation[o].under \in Chains /\ external \in Chains
    BY <1>3 DEF SessionInvariant, SessionTyped
  <2>2. QED
    BY <2>1, BeginsOn
<1>4. (\A o, q \in Orders : OpenReservation(o) /\ OpenReservation(q) => o = q)'
  BY DEF SessionInvariant, OpenReservation
<1>5. QED
  BY <1>1, <1>2, <1>3, <1>4 DEF SessionInvariant

(* The same for a step that leaves the whole store alone. *)
LEMMA QuietCalls ==
    ASSUME SessionInvariant, NEW u \in Users, NEW c \in Calls,
           user' = [user EXCEPT ![u] = c], UNCHANGED <<ledger, external, sup, reservation>>,
           CallOK(c, ledger, external)
    PROVE  SessionInvariant'
<1>1. /\ ledger \in Chains /\ external \in Chains /\ IsPrefixOf(external, ledger)
      /\ Len(ledger) <= Len(external) + 1
  BY DEF SessionInvariant, SessionTyped
<1>2. IsPrefixOf(ledger, ledger) /\ IsPrefixOf(external, external)
  BY <1>1, BeginsSame
<1>3. ledger' = ledger /\ external' = external
  OBVIOUS
<1>4. QED
  BY Zenon, <1>1, <1>2, <1>3, CallSteps

----------------------------------------------------------------------------
(* The call that ends names nothing. *)
LEMMA ReadyTyped ==
    /\ Ready \in Calls /\ NoLeaseHeld \in SessionLeases
    /\ \A led, ext \in Chains : CallOK(Ready, led, ext)
<1>1. NoLeaseHeld \in SessionLeases
  BY DEF NoLeaseHeld, SessionLeases, SupCheckpoints
<1>2. Ready \in Calls /\ Ready.pc = "ready"
  <2> HIDE DEF NoLeaseHeld
  <2>1. <<>> \in Chains
    BY DEF Chains
  <2>2. QED
    BY <1>1, <2>1 DEF Ready, Calls, CallLabels
<1>3. QED
  BY <1>1, <1>2 DEF CallOK

(* The head of the ledger is a lease. *)
LEMMA HeadTyped ==
    ASSUME SessionInvariant
    PROVE  HeadLease \in SessionLeases
<1>1. ledger \in Seq(SessionLeases)
  BY DEF SessionInvariant, SessionTyped, Chains
<1>2. ledger # <<>> => ledger[Len(ledger)] \in SessionLeases
  BY <1>1
<1>3. QED
  BY <1>2, ReadyTyped DEF HeadLease

(* The fields of a call after each update. *)
LEMMA CallAppends ==
    ASSUME NEW c \in Calls, NEW s \in Chains, NEW l \in SessionLeases
    PROVE  LET d == [c EXCEPT !.pc = "append", !.prior = s, !.new = l]
           IN  d \in Calls /\ d.pc = "append" /\ d.prior = s
BY Zenon DEF Calls, CallLabels

(* RenewRead keeps the chain and the head. *)
LEMMA CallReads ==
    ASSUME NEW c \in Calls, NEW s \in Chains, NEW l \in SessionLeases
    PROVE  LET d == [c EXCEPT !.pc = "renew", !.prior = s, !.held = l]
           IN  d \in Calls /\ d.pc = "renew" /\ d.prior = s
BY Zenon DEF Calls, CallLabels

(* RenewIssue makes the next lease. *)
LEMMA CallIssues ==
    ASSUME NEW c \in Calls, NEW l \in SessionLeases
    PROVE  LET d == [c EXCEPT !.pc = "append", !.new = l]
           IN  d \in Calls /\ d.pc = "append" /\ d.prior = c.prior
BY Zenon DEF Calls, CallLabels

(* A call that goes to another label keeps the rest. *)
LEMMA CallGoes ==
    ASSUME NEW c \in Calls, NEW label \in CallLabels
    PROVE  LET d == [c EXCEPT !.pc = label]
           IN  d \in Calls /\ d.pc = label /\ d.prior = c.prior /\ d.new = c.new
BY DEF Calls

(* create issues the first lease of an anchored, empty ledger. *)
LEMMA CreateStep ==
    ASSUME SessionInvariant, NEW u \in Users, Create(u)
    PROVE  SessionInvariant'
<1> DEFINE l == [seq |-> 1, ev |-> "CREATE", sup |-> sup, by |-> u]
           c == [user[u] EXCEPT !.pc = "append", !.prior = ledger, !.new = l]
<1>1. user[u] \in Calls /\ ledger \in Chains /\ external = ledger /\ sup \in SupCheckpoints
  BY DEF SessionInvariant, SessionTyped, Create, CanCreate, Anchored
<1>2. l \in SessionLeases
  BY <1>1 DEF SessionLeases
<1> HIDE DEF l
<1>3. c \in Calls /\ c.pc = "append" /\ c.prior = ledger
  BY Zenon, <1>1, <1>2, CallAppends
<1>4. user' = [user EXCEPT ![u] = c]
  BY Zenon DEF Create, l
<1> HIDE DEF c
<1>5. CallOK(c, ledger, external)
  BY <1>1, <1>3, BeginsSame DEF CallOK
<1>6. QED
  BY Zenon, <1>3, <1>4, <1>5, QuietCalls DEF Create, StoreUnchanged

(* renew reads the anchored ledger, *)
LEMMA RenewReadStep ==
    ASSUME SessionInvariant, NEW u \in Users, RenewRead(u)
    PROVE  SessionInvariant'
<1> DEFINE c == [user[u] EXCEPT !.pc = "renew", !.prior = ledger, !.held = HeadLease]
<1>1. user[u] \in Calls /\ ledger \in Chains /\ external = ledger
  BY DEF SessionInvariant, SessionTyped, RenewRead, Anchored
<1>2. c \in Calls /\ c.pc = "renew" /\ c.prior = ledger
  BY Zenon, <1>1, HeadTyped, CallReads
<1>3. user' = [user EXCEPT ![u] = c]
  BY Zenon DEF RenewRead
<1> HIDE DEF c
<1>4. CallOK(c, ledger, external)
  BY <1>1, <1>2, BeginsSame DEF CallOK
<1>5. QED
  BY Zenon, <1>2, <1>3, <1>4, QuietCalls DEF RenewRead, StoreUnchanged

(* and issues the successor of the lease it has read. *)
LEMMA RenewIssueStep ==
    ASSUME SessionInvariant, NEW u \in Users, RenewIssue(u)
    PROVE  SessionInvariant'
<1> DEFINE l == [seq |-> user[u].held.seq + 1, ev |-> "RENEW", sup |-> sup, by |-> u]
           c == [user[u] EXCEPT !.pc = "append", !.new = l]
<1>1. /\ user[u] \in Calls /\ ledger \in Chains /\ sup \in SupCheckpoints
      /\ CallOK(user[u], ledger, external) /\ user[u].pc = "renew_issue"
  BY DEF SessionInvariant, SessionTyped, RenewIssue, UserAt
<1>2. l \in SessionLeases
  <2>1. user[u].held \in SessionLeases
    BY <1>1 DEF Calls
  <2>2. user[u].held.seq + 1 \in Nat
    BY <2>1 DEF SessionLeases
  <2>3. QED
    BY <1>1, <2>2 DEF SessionLeases
<1> HIDE DEF l
<1>3. c \in Calls /\ c.pc = "append" /\ c.prior = user[u].prior
  BY Zenon, <1>1, <1>2, CallIssues
<1>4. user' = [user EXCEPT ![u] = c]
  BY Zenon DEF RenewIssue, l
<1> HIDE DEF c
<1>5. CallOK(c, ledger, external)
  BY <1>1, <1>3 DEF CallOK, CallLabels
<1>6. QED
  BY Zenon, <1>3, <1>4, <1>5, QuietCalls DEF RenewIssue, StoreUnchanged

(* The other steps that write nothing but the label of their call. *)
LEMMA CheckStep ==
    ASSUME SessionInvariant, NEW u \in Users, RenewCheck(u) \/ VerifyReservedDispatch(u)
    PROVE  SessionInvariant'
<1>1. PICK label \in {"renew_issue", "submitting"} : Step(u, label)
  BY DEF RenewCheck, VerifyReservedDispatch
<1> DEFINE c == [user[u] EXCEPT !.pc = label]
<1>2. user[u] \in Calls /\ CallOK(user[u], ledger, external) /\ user[u].pc \in {"renew", "reserved"}
  <2>1. user[u].pc \in {"renew", "reserved"}
    BY DEF RenewCheck, VerifyReservedDispatch, UserAt
  <2>2. QED
    BY <2>1 DEF SessionInvariant, SessionTyped
<1>3. label \in CallLabels
  BY DEF CallLabels
<1>4. c \in Calls /\ c.pc = label /\ c.prior = user[u].prior
  BY <1>2, <1>3, CallGoes
<1>5. user' = [user EXCEPT ![u] = c]
  BY Zenon, <1>1 DEF Step
<1> HIDE DEF c
<1>6. CallOK(c, ledger, external)
  BY <1>2, <1>4 DEF CallOK, CallLabels
<1>7. QED
  BY Zenon, <1>4, <1>5, <1>6, QuietCalls DEF RenewCheck, VerifyReservedDispatch, StoreUnchanged

(* A dispatch verification is of the anchored chain. *)
LEMMA IssueVerificationStep ==
    ASSUME SessionInvariant, NEW u \in Users, NEW o \in Orders, IssueDispatchVerification(u, o)
    PROVE  SessionInvariant'
<1> DEFINE c == [user[u] EXCEPT !.pc = "verified", !.prior = ledger, !.order = o, !.held = HeadLease]
<1>1. user[u] \in Calls /\ ledger \in Chains /\ external = ledger
  BY DEF SessionInvariant, SessionTyped, IssueDispatchVerification, Verified, Anchored
<1>2. c \in Calls /\ c.pc = "verified" /\ c.prior = ledger
  BY Zenon, <1>1, HeadTyped DEF Calls, CallLabels
<1>3. user' = [user EXCEPT ![u] = c]
  BY Zenon DEF IssueDispatchVerification
<1> HIDE DEF c
<1>4. CallOK(c, ledger, external)
  BY <1>1, <1>2, BeginsSame DEF CallOK
<1>5. QED
  BY Zenon, <1>2, <1>3, <1>4, QuietCalls DEF IssueDispatchVerification, StoreUnchanged

(* The local compare-and-swap: the chain the call has read is all of the ledger, and
   so is what the register holds, which is between the two. *)
LEMMA AppendLeaseStep ==
    ASSUME SessionInvariant, NEW u \in Users, AppendLease(u)
    PROVE  SessionInvariant'
<1> DEFINE c == [user[u] EXCEPT !.pc = "export"]
<1>1. /\ user[u] \in Calls /\ ledger \in Chains /\ external \in Chains /\ IsPrefixOf(external, ledger)
      /\ CallOK(user[u], ledger, external)
  BY DEF SessionInvariant, SessionTyped
<1>2. /\ user[u].pc = "append" /\ user[u].prior = ledger
      /\ ledger' = Append(ledger, user[u].new) /\ UNCHANGED <<external, sup, reservation>>
  BY DEF AppendLease, MayAppend, UserAt
<1>3. IsPrefixOf(ledger, external)
  BY <1>1, <1>2 DEF CallOK, CallLabels
<1>4. external = ledger
  BY <1>1, <1>3, BeginsBoth
<1>5. user[u].new \in SessionLeases
  BY <1>1 DEF Calls
<1>6. /\ ledger' \in Chains /\ IsPrefixOf(ledger, ledger') /\ Len(ledger') = Len(ledger) + 1
      /\ Len(ledger) \in Nat /\ IsPrefixOf(ledger', ledger')
  BY <1>1, <1>2, <1>5, BeginsAppend, BeginsSame
<1>7. c \in Calls /\ c.pc = "export" /\ c.prior = user[u].prior /\ c.new = user[u].new
  <2>1. "export" \in CallLabels
    BY DEF CallLabels
  <2>2. QED
    BY <1>1, <2>1, CallGoes
<1>8. user' = [user EXCEPT ![u] = c]
  BY Zenon DEF AppendLease, Step
<1> HIDE DEF c
<1>9. CallOK(c, ledger', external')
  BY <1>2, <1>6, <1>7 DEF CallOK
<1>10. IsPrefixOf(external, external) /\ external' = external /\ IsPrefixOf(external', ledger')
       /\ Len(ledger') <= Len(external') + 1
  BY <1>1, <1>2, <1>4, <1>6, BeginsSame
<1>11. QED
  BY Zenon, <1>1, <1>2, <1>6, <1>7, <1>8, <1>9, <1>10, CallSteps

(* The external compare-and-swap: the register moves on to a chain that the ledger
   has begun with since the commit. *)
LEMMA ExportStep ==
    ASSUME SessionInvariant, NEW u \in Users, Export(u)
    PROVE  SessionInvariant'
<1>1. /\ user[u] \in Calls /\ ledger \in Chains /\ external \in Chains
      /\ CallOK(user[u], ledger, external) /\ Len(ledger) <= Len(external) + 1
  BY DEF SessionInvariant, SessionTyped
<1>2. /\ user[u].pc = "export" /\ external = user[u].prior
      /\ external' = Append(external, user[u].new) /\ ledger' = ledger /\ UNCHANGED <<sup, reservation>>
      /\ user' = [user EXCEPT ![u] = Ready]
  BY DEF Export, UserAt
<1>3. user[u].new \in SessionLeases
  BY <1>1 DEF Calls
<1>4. /\ external' \in Chains /\ IsPrefixOf(external, external') /\ Len(external') = Len(external) + 1
      /\ Len(external) \in Nat /\ IsPrefixOf(ledger, ledger')
  BY <1>1, <1>2, <1>3, BeginsAppend, BeginsSame
<1>5. IsPrefixOf(external', ledger')
  BY <1>1, <1>2 DEF CallOK
<1>6. Len(ledger') <= Len(external') + 1
  <2>1. Len(ledger) \in Nat
    BY <1>1 DEF Chains
  <2>2. QED
    BY <1>1, <1>2, <1>4, <2>1
<1>7. CallOK(Ready, ledger', external') /\ Ready \in Calls
  BY <1>1, <1>2, <1>4, ReadyTyped
<1>8. QED
  BY Zenon, <1>1, <1>2, <1>4, <1>5, <1>6, <1>7, CallSteps

(* A call may end anywhere. *)
LEMMA CallEndsStep ==
    ASSUME SessionInvariant, NEW u \in Users, CallEnds(u)
    PROVE  SessionInvariant'
<1>1. CallOK(Ready, ledger, external) /\ Ready \in Calls
  BY ZenonT(40), ReadyTyped DEF SessionInvariant, SessionTyped
<1>2. QED
  BY Zenon, <1>1, QuietCalls DEF CallEnds, StoreUnchanged

(* A reservation that is written under an anchored chain while no other is open. *)
LEMMA ReservationSteps ==
    ASSUME SessionInvariant, NEW o \in Orders, NEW r \in [st : ReservationStates, under : Chains],
           reservation' = [reservation EXCEPT ![o] = r], IsPrefixOf(r.under, external),
           \A q \in Orders : OpenReservation(q) => q = o, UNCHANGED <<ledger, external, sup>>,
           user' \in [Users -> Calls], \A u \in Users : CallOK(user'[u], ledger, external)
    PROVE  SessionInvariant'
<1>1. SessionTyped'
  BY DEF SessionInvariant, SessionTyped
<1>2. ASSUME NEW q \in Orders, q # o PROVE reservation'[q] = reservation[q]
  BY <1>2 DEF SessionInvariant, SessionTyped
<1>3. reservation'[o] = r
  BY DEF SessionInvariant, SessionTyped
<1>4. (\A q \in Orders : reservation[q].st # "none" => IsPrefixOf(reservation[q].under, external))'
  BY <1>2, <1>3 DEF SessionInvariant
<1>5. \A q \in Orders : OpenReservation(q)' => q = o
  BY <1>2 DEF OpenReservation
<1>6. QED
  BY <1>1, <1>4, <1>5 DEF SessionInvariant

(* A dispatch is reserved in the transaction that finds the ledger as it was read. *)
LEMMA ReserveStep ==
    ASSUME SessionInvariant, NEW u \in Users, ReserveDispatchVerification(u)
    PROVE  SessionInvariant'
<1> DEFINE o == user[u].order
           r == [st |-> "ACTIVE", under |-> ledger]
           c == [user[u] EXCEPT !.pc = "reserved"]
<1>1. /\ user \in [Users -> Calls] /\ user[u] \in Calls /\ ledger \in Chains
      /\ CallOK(user[u], ledger, external)
      /\ reservation \in [Orders -> [st : ReservationStates, under : Chains]]
  BY DEF SessionInvariant, SessionTyped
<1>2. /\ user[u].pc = "verified" /\ ledger = user[u].prior /\ UNCHANGED <<ledger, external, sup>>
      /\ \A q \in Orders : ~OpenReservation(q)
  BY DEF ReserveDispatchVerification, UserAt, StillCurrent
<1>3. IsPrefixOf(ledger, external)
  BY <1>1, <1>2 DEF CallOK, CallLabels
<1>4. c \in Calls /\ c.pc = "reserved" /\ c.prior = user[u].prior
  <2>1. "reserved" \in CallLabels
    BY DEF CallLabels
  <2>2. QED
    BY <1>1, <2>1, CallGoes
<1>5. user' = [user EXCEPT ![u] = c]
  BY Zenon DEF ReserveDispatchVerification, Step
<1>6. reservation' = [reservation EXCEPT ![o] = r]
  BY DEF ReserveDispatchVerification
<1>7. r \in [st : ReservationStates, under : Chains] /\ r.under = ledger
  BY ZenonT(40), <1>1 DEF ReservationStates
<1> HIDE DEF c, r, o
<1>8. CallOK(c, ledger, external)
  BY <1>2, <1>3, <1>4 DEF CallOK
<1>9. user' \in [Users -> Calls] /\ \A v \in Users : CallOK(user'[v], ledger, external)
  BY <1>1, <1>4, <1>5, <1>8 DEF SessionInvariant
<1>10. CASE o \in Orders
  BY Zenon, <1>2, <1>3, <1>6, <1>7, <1>9, <1>10, ReservationSteps
<1>11. CASE o \notin Orders
  <2>1. reservation' = reservation
    BY <1>1, <1>6, <1>11
  <2>2. QED
    BY Zenon, <1>2, <1>4, <1>5, <1>8, <2>1, QuietCalls
<1>12. QED
  BY <1>10, <1>11

(* A settlement changes the state of an open reservation, never its chain. *)
LEMMA SettlementStep ==
    ASSUME SessionInvariant, NEW o \in Orders, NEW st \in ReservationStates, ApplySettlement(o, st)
    PROVE  SessionInvariant'
<1> DEFINE r == [reservation[o] EXCEPT !.st = st]
<1>1. /\ reservation[o] \in [st : ReservationStates, under : Chains] /\ reservation[o].st # "none"
      /\ IsPrefixOf(reservation[o].under, external) /\ \A q \in Orders : OpenReservation(q) => q = o
  BY DEF SessionInvariant, SessionTyped, ApplySettlement, OpenReservation
<1>2. r \in [st : ReservationStates, under : Chains] /\ r.under = reservation[o].under
  BY <1>1
<1>3. reservation' = [reservation EXCEPT ![o] = r] /\ UNCHANGED <<ledger, external, sup, user>>
  BY Zenon DEF ApplySettlement
<1> HIDE DEF r
<1>4. user' \in [Users -> Calls] /\ \A u \in Users : CallOK(user'[u], ledger, external)
  BY <1>3 DEF SessionInvariant, SessionTyped
<1>5. QED
  BY Zenon, <1>1, <1>2, <1>3, <1>4, ReservationSteps

(* The invariant holds in every reachable state. *)
LEMMA SessionInductive == SessionSpec => []SessionInvariant
<1>1. SessionInit => SessionInvariant
  <2> SUFFICES ASSUME SessionInit PROVE SessionInvariant
    OBVIOUS
  <2>1. <<>> \in Chains /\ IsPrefixOf(<<>>, <<>>)
    BY DEF Chains, IsPrefixOf
  <2>2. SessionTyped
    BY <2>1, ReadyTyped DEF SessionInit, SessionTyped, SupCheckpoints, ReservationStates
  <2>3. \A o \in Orders : reservation[o].st = "none"
    BY DEF SessionInit
  <2>4. QED
    BY <2>1, <2>2, <2>3, ReadyTyped DEF SessionInit, SessionInvariant, OpenReservation
<1>2. SessionInvariant /\ [SessionNext]_svars => SessionInvariant'
  <2> SUFFICES ASSUME SessionInvariant, [SessionNext]_svars PROVE SessionInvariant'
    OBVIOUS
  <2>1. CASE SupervisorMoves
    <3>1. sup' \in SupCheckpoints /\ UNCHANGED <<ledger, external, reservation, user>>
      BY <2>1 DEF SupervisorMoves, SupCheckpoints
    <3>2. QED
      BY <3>1 DEF SessionInvariant, SessionTyped, OpenReservation
  <2>2. ASSUME NEW u \in Users,
               \/ Create(u) \/ RenewRead(u) \/ RenewCheck(u) \/ RenewIssue(u) \/ AppendLease(u) \/ Export(u)
               \/ \E o \in Orders : IssueDispatchVerification(u, o)
               \/ ReserveDispatchVerification(u) \/ VerifyReservedDispatch(u) \/ CallEnds(u)
        PROVE  SessionInvariant'
    BY <2>2, CreateStep, RenewReadStep, CheckStep, RenewIssueStep, AppendLeaseStep, ExportStep,
       IssueVerificationStep, ReserveStep, CallEndsStep
  <2>3. ASSUME NEW o \in Orders, NEW st \in {"ABORTED_BEFORE_SEND", "COMPLETED", "RECONCILIATION_REQUIRED",
                                             "RECONCILED"}, ApplySettlement(o, st)
        PROVE  SessionInvariant'
    BY <2>3, SettlementStep DEF ReservationStates
  <2>4. CASE UNCHANGED svars
    BY <2>4 DEF svars, SessionInvariant, SessionTyped, OpenReservation
  <2>5. QED
    BY <2>1, <2>2, <2>3, <2>4 DEF SessionNext
<1>3. QED
  BY <1>1, <1>2, PTL DEF SessionSpec

(* The register and the ledger never fork and are at most one lease apart, whoever
   stops between the two compare-and-swaps of _append_and_export. *)
THEOREM RegisterTracksLedger == SessionSpec => []ExternalTracksLedger
<1>1. SessionInvariant => ExternalTracksLedger
  <2> SUFFICES ASSUME SessionInvariant PROVE ExternalTracksLedger
    OBVIOUS
  <2>1. ledger \in Chains /\ external \in Chains /\ IsPrefixOf(external, ledger)
    BY DEF SessionInvariant, SessionTyped
  <2>2. external = SubSeq(ledger, 1, Len(external)) /\ Len(external) \in 0..Len(ledger)
    BY <2>1, BeginsSubSeq
  <2>3. Len(ledger) \in Nat /\ Len(external) \in Nat /\ Len(ledger) <= Len(external) + 1
    BY <2>1 DEF Chains, SessionInvariant
  <2>4. QED
    BY <2>2, <2>3 DEF ExternalTracksLedger
<1>2. QED
  BY <1>1, SessionInductive, PTL

(* A dispatch is reserved under an anchored lease, and one at a time. *)
THEOREM ReservationsAnchored == SessionSpec => []ReservedUnderAnchoredLease
<1>1. SessionInvariant => ReservedUnderAnchoredLease
  BY BeginsSubSeq DEF SessionInvariant, SessionTyped, ReservedUnderAnchoredLease
<1>2. QED
  BY <1>1, SessionInductive, PTL

----------------------------------------------------------------------------
(* The ledger of session leases under the register's custody. *)
SessionCustody == INSTANCE AnchoredChain WITH
    length <- Len(ledger),
    anchored <- Len(external)

(* A lease is appended only while the register holds the whole ledger, and the
   register only ever moves on to the whole ledger (_append_and_export). *)
LedgerUnderCustody == SessionCustody!ChainSpec

(* The local compare-and-swap finds the register at the ledger's head. *)
LEMMA AppendGrows ==
    ASSUME SessionInvariant, NEW u \in Users, AppendLease(u)
    PROVE  SessionCustody!Grow
<1>1. /\ user[u] \in Calls /\ ledger \in Chains /\ external \in Chains /\ IsPrefixOf(external, ledger)
      /\ CallOK(user[u], ledger, external)
  BY Zenon DEF SessionInvariant, SessionTyped
<1>2. /\ user[u].pc = "append" /\ user[u].prior = ledger
      /\ ledger' = Append(ledger, user[u].new) /\ external' = external
  BY DEF AppendLease, MayAppend, UserAt
<1>3. IsPrefixOf(ledger, external)
  BY <1>1, <1>2 DEF CallOK, CallLabels
<1>4. external = ledger
  BY <1>1, <1>3, BeginsBoth
<1>5. Len(ledger') = Len(ledger) + 1
  BY <1>1, <1>2 DEF Chains
<1>6. QED
  BY <1>2, <1>4, <1>5 DEF SessionCustody!Grow

(* The external compare-and-swap brings the register to the whole ledger. *)
LEMMA ExportAnchors ==
    ASSUME SessionInvariant, SessionInvariant', NEW u \in Users, Export(u)
    PROVE  SessionCustody!Anchor
<1>1. /\ ledger \in Chains /\ external \in Chains
      /\ Len(ledger) <= Len(external) + 1
  BY Zenon DEF SessionInvariant, SessionTyped
<1>2. ledger' = ledger /\ external' = Append(external, user[u].new)
  BY DEF Export, UserAt
<1>3. Len(external') <= Len(ledger)
  BY Zenon, <1>2 DEF SessionInvariant, IsPrefixOf
<1>4. Len(external') = Len(external) + 1 /\ Len(external) \in Nat /\ Len(ledger) \in Nat
  BY <1>1, <1>2 DEF Chains
<1>5. Len(external') = Len(ledger)
  BY <1>1, <1>3, <1>4
<1>6. QED
  BY <1>2, <1>5 DEF SessionCustody!Anchor

(* The session store keeps the promise of a chain under external custody, whichever
   callers race or stop between the two compare-and-swaps. *)
THEOREM SessionLedgerUnderCustody == SessionSpec => LedgerUnderCustody
<1>1. SessionInit => SessionCustody!ChainInit
  BY DEF SessionInit, SessionCustody!ChainInit
<1>2. ASSUME SessionInvariant, SessionInvariant', [SessionNext]_svars
      PROVE  [SessionCustody!Grow \/ SessionCustody!Anchor]_<<Len(ledger), Len(external)>>
  <2>1. \/ \E u \in Users : AppendLease(u) \/ Export(u)
        \/ UNCHANGED <<ledger, external>>
    <3>1. ASSUME NEW u \in Users,
                 \/ Create(u) \/ RenewRead(u) \/ RenewCheck(u) \/ RenewIssue(u)
                 \/ \E o \in Orders : IssueDispatchVerification(u, o)
                 \/ ReserveDispatchVerification(u) \/ VerifyReservedDispatch(u) \/ CallEnds(u)
          PROVE  UNCHANGED <<ledger, external>>
      BY Zenon, <3>1 DEF Create, RenewRead, RenewCheck, RenewIssue, IssueDispatchVerification,
         ReserveDispatchVerification, VerifyReservedDispatch, CallEnds, StoreUnchanged
    <3>2. ASSUME NEW o \in Orders, NEW st, ApplySettlement(o, st) PROVE UNCHANGED <<ledger, external>>
      BY Zenon, <3>2 DEF ApplySettlement
    <3>3. SupervisorMoves \/ UNCHANGED svars => UNCHANGED <<ledger, external>>
      BY Zenon DEF SupervisorMoves, svars
    <3>4. QED
      BY Zenon, <1>2, <3>1, <3>2, <3>3 DEF SessionNext
  <2>2. UNCHANGED <<ledger, external>> => UNCHANGED <<Len(ledger), Len(external)>>
    OBVIOUS
  <2>3. QED
    BY Zenon, <1>2, <2>1, <2>2, AppendGrows, ExportAnchors
<1>3. QED
  BY <1>1, <1>2, SessionInductive, PTL DEF SessionSpec, LedgerUnderCustody, SessionCustody!ChainSpec

=============================================================================
