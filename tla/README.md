# TLA+ verification of the AI_SCALPER execution runtime

The repository trades through MetaTrader 5 behind a chain of safety gates. What
must never go wrong is small and hard to test: an order is sent at most once,
at most one exposure exists, the journal never forgets an exposure, a decision
is used once and fresh, and every durable statement is true whatever crashes or
interleaves. This project models the code that carries those promises
(`live_runtime/`), checks it with TLC, and proves the central parts with TLAPS
for every number of processes, intents and faults.

## The system

| part | source (`src/live_runtime/`) | state | module |
|---|---|---|---|
| execution journal | `journal.py`, `permit.py` | SQLite rows: intents, transitions, receipts, executor lease, kill switch | `ExecutionJournal` |
| execution coordinator, MT5 adapter, account fence | `executor.py`, `mt5_adapter.py`, `account_fence.py` | one call of `execute_once`; the order at the broker; an OS mutex | `ExecutionRuntime` |
| reconciliation and start-up recovery | `runtime_service.py`, `reconciliation.py`, `production_bootstrap.py` | one cycle's view of the broker | `ExecutionRuntime` |
| reconciliation supervisor | `reconciliation_supervisor.py`, `reconciliation.py` | leased store, cycle receipts, the rows a cycle handles | `ReconciliationSupervisor` |
| DEMO_AUTO session store | `demo_auto_session_capability.py` | lease ledger, external register, dispatch reservations | `DemoAutoSession`, `ExecutionRuntime` |
| decision IPC queue and its consumer | `decision_ipc.py`, `demo_auto_ipc_consumer.py` | envelopes, dispositions, latch, external register | `DecisionQueue` |
| decision producer | `brokerless_decision_producer.py`, `windows_decision_provider_pack.py` | cursor chain, external register | `DecisionProducer` |
| runtime supervisor | `runtime_supervisor.py` | receipt chain, singleton lease, critical latch, external custody | `RuntimeSupervisor` |
| risk ledger | `risk_ledger.py` | event chain and materialized state | `RiskLedger` |
| stage authorization | `stage_authorization.py` | one-use registry, off-host checkpoints | `StageAuthorization` |
| Windows gated service | `windows_service_entrypoint.py`, `production_bootstrap.py` | two threads, lifecycle flags, watchdog | `GatedService` |
| off-host delivery | `offhost_delivery.py` | outbox, drop directory | `OffHostDelivery` |

Decisions flow from the producer through the queue to the runtime supervisor,
which dispatches them to `execute_once`; the journal stands between that and the
broker, and reconciliation brings back what the broker did. The Windows service
runs the supervisor's cycles on a thread of its own and reports heartbeats off
the host. These are separate processes over separate databases, so every effect
that spans two of them can be cut or overtaken in the middle. `PROJECT.json`
lists all parts, also those left out, and the hazards by line.

## The modules

A step is one transaction, one call of an external party, or one stretch of code
no other process can observe. A check on data that is not modelled (permits,
health, signatures, quotes, evidence) may fail wherever the code evaluates it,
and takes the code's path from there. A digest commits to what it covers, so a
checkpoint is the chain, or the counts, it commits to.

**ExecutionJournal** is the abstract specification of the journal: one action
per writing operation, callable by anybody at any time. The receipts of the send
boundary are a set per intent; `slease` is the in-memory one-use submission
lease. Time is an expiry flag on the executor lease and a day counter;
operations that read the clock before they take the lock may stamp the day
before (`StampDays`) or work with an expired lease nobody has claimed over.

**ExecutionRuntime** EXTENDS it with the processes: `ex` is the program counter
of `execute_once` (or of start-up recovery) per executor, `broker` the order's
life at the broker, `rc` the reconciliation cycle with its three separate reads,
`resv` the dispatch reservations, `mutex` the account fence. The journal changes
only through the journal's actions.

**DemoAutoSession** is the session store alone, with concurrent callers: lease
ledger, register compare-and-swap, lost acknowledgements, crashes between commit
and export, a checkpoint provider that may answer with an older checkpoint. The
verification repeated inside `reserve_dispatch_verification` is merged with the
one that issued the token, which allows more behaviours than the code.

**DecisionQueue** has one step per verification, commit, export, read-back and
closing verification of `publish` and `consume_next`, for producers and
consumers that share the file. A request whose client gave up stays in `late`
and may be accepted afterwards. **AtMostOnceQueue** says what the queue promises
without processes, checkpoints or faults.

**DecisionProducer** is `run_cycle` over the lanes. Its register is written
before the local chain, so a restarted service imports the successor it missed.
`time` counts ticks from the close of the first candle; an observation passes
between its quote (`QuoteAt`) and the end of the entry window or of the allowed
processing lag, and is queued only if its envelope ends within the entry window.

**RuntimeSupervisor** is start, cycle, dispatch (manual, DEMO_AUTO, LIVE), stop
and the critical stop, each as the sequence of store, custody, journal, ledger
and service calls it makes. **AnchoredChain** says what an append-only chain
under external custody promises; the supervisor, the queue and the session
ledger are each shown to implement it. A process whose lease another has taken
does not release it: it stops after its CRITICAL receipt, and fails otherwise.

**RiskLedger**, **ReconciliationSupervisor**, **StageAuthorization** and
**OffHostDelivery** are one durable store each with its concurrent callers:
restored backups in the first and third, competing leases and an operator's
reset in the second, a process that dies inside a file write in the last. A
reconciliation cycle reads the broker (`ReadBroker`) and later handles the
journal's rows (`HandleRows`): each row is matched, closed, absent, an orphan or
a mismatch, as `Findings` allows for what was read, and the cycle's status
follows from these. A watcher that was superseded in between still applies its
read.

**GatedService** is `WindowsGatedServiceRunner.run` on the main thread and
`run_cycle` on the worker. The steps of the critical latch (`Persist`,
`MarkCritical`, `DropLease`) may be executed by both threads at once. What the
supervisor does inside a call belongs to `RuntimeSupervisor`; here a call
returns, raises, or latches and raises.

`*Proofs` modules hold the theorems. `MC*` modules give TLC its constants;
`MCStores` and `MCServices` put systems that share no state side by side: a
behaviour of theirs is one of one system, chosen by `running`, while the others
rest in their initial state.

## What TLC checks

| run | instance | shows |
|---|---|---|
| `journal` | 2 intents and a locked preparation, 1 executor with 1 fence token, 2 days, 2 latches, daily limit 1 | statements about the send boundary are true; one exposure; the daily limit across midnight |
| `runtime_two_procs` | 1 DEMO_AUTO intent, 2 executors in different mutex namespaces, 2 fence tokens | one `order_send`; a settled reservation is true |
| `runtime_one_exposure` | 2 intents without a session, 1 executor, 2 fence tokens, 1 crash | one exposure at the broker, on the journal's word alone |
| `runtime_live` | 1 intent of volume 2, 1 crash, fair reconciliation | what is alive at the broker is journaled; the composition implements `JournalSpec`; a stuck reservation, an open and a closed position are resolved or trading halts |
| `stores` | five stores, 2 processes each | session leases: at most one ahead of the register, reservations only under anchored ones. Ledger: state derived from the chain, custody only extended. Reconciliation cycles: fenced, uncertainty latched, an exit the journal lacks never behind a COMPLETE cycle. Stage: an authorization starts once, starts form one chain. Delivery: the outbox verifies, a successor follows an acknowledgement |
| `queue` | 1 producer, 1 consumer, 2 decisions (one WAIT), TTL 1, 1 crash | one unanchored row at most; nothing stale is handed on; the latch stops later calls; implements `AtMostOnceQueue`; the queue drains |
| `producer` | 2 overlapping services, 2 candles, 2 data variants, 1 fault | one decision per lane and candle; the register is importable |
| `services_live` | 1 producer service, 2 candles, 2 data variants, 1 fault; 1 Windows service with 2 cycles, a deadline of 3 waits, 1 lost latch write | an interrupted publication is finished while its input is accepted; one critical abort, no orphan worker, a failure leaves a denial, a cycle that hangs is bounded |
| `supervisor` | 2 supervisors, 2 starts, 2 cycles, 1 fault, lease takeover | receipts fenced; PRE_DISPATCH anchored before the order; undisturbed dispatches find the ledger complete; implements `AnchoredChain` |
| `recovery_settles` | 1 DEMO_AUTO intent | finding 1 |
| `renewal_race` | 2 callers, 2 orders | finding 2 |
| `facts_lost` | 1 supervisor, 1 crash | finding 3 |

Every property of a passing run has a mutant of a mapped definition (a dropped
guard, a limit off by one, a retry, a skipped branch) that TLC must catch.

**Bounds.** Two intents suffice to break a pairwise exclusion; two processes and
two tokens give one takeover with the old owner still running; volume 2 gives a
partial fill and a partial close; two days give one midnight; one crash may fall
between any two steps. The counters (`Max*`) bound the state space; the
journal's latch counter saturates instead of blocking. Symmetry is used in
safety runs only. Larger instances that also pass but take too long to keep as
runs: `supervisor` with 3 starts (27.5 million states), the delivery store with two run ids (2.3
million) and with three rows (1.0 million). Two consumers on one queue, and two
executors with two intents, are left to the theorems, which hold for any number;
so is the second loss of a custodied chain in `CustodyOnlyExtends`, whose kept
chains are too short for it in `stores`. In `services_live` conflicting data
restarts the producer any number of times; only crashes and lost answers are
counted as faults. Its ticks (entry window 3, lag 1, envelope 1) are such that an
early quote becomes too old before the window ends, and a late one is accepted
when its envelope no longer fits. In `producer` both variants have the same quote,
so that either may be published for a candle.

**Fairness.** `LiveSpec` (`runtime_live`) assumes weak fairness of `CycleStep`,
the supervisor's own loop, and of nothing else: executors may die, broker and
operators need not act. A supervisor that dies is started again by its launcher
(`CycleLost`); one that stopped on a latch waits for an operator (`Relaunch`, not
fair). `FairQueueSpec` assumes that consumers call again and again and that a
started call goes on; producers need not publish and a crash ends a call. The
first of these is an assumption about the caller of
`consume_for_risk_intent_pipeline`, which the repository leaves to the deployed
runtime: `QueueDrains` says what the queue does for a caller that keeps calling.
`FairServicesSpec` assumes that the producer's loop runs on, and strong fairness
of `Observe` for each data variant, since the feed returns the newest candle at
every poll; it helps only while the variant passes the time checks. Of the
Windows service only that the main thread is scheduled: the worker may hang for
ever, which is what the deadline is for.

## Findings

1. `recover_dispatch_reservations` promises to "Settle every unresolved
   reservation from durable journal evidence." A reconciliation cycle that runs
   after `reserve_submission` and before the final guard finds nothing at the
   broker and records a `RECONCILIATION_RECEIPT` with `UNCERTAIN`. With no
   final guard committed, `demo_auto_dispatch_settlement` reads any such receipt
   as contradictory broker evidence and raises, so the reservation cannot be
   settled and start-up recovery fails (`UnresolvedIsSettleable`). The system
   stays safe: `StuckReservationsAreUnsent` proves that every reservation in this
   state has such a receipt, was never sent and has nothing at the broker.
2. `reserve_dispatch_verification` says it reserves "so renewal cannot race
   broker dispatch." `renew` reads the reservations on a separate connection
   before the transaction that appends the lease, and that transaction does not
   look again (`RenewalCannotRaceDispatch`). The dispatch is then refused by
   `verify_reserved_dispatch`, so the race costs an order, not safety.
3. `specs/durable_risk_ledger_v1.md` wants the entry count and the loss latch
   not to be lost "hanya karena proses restart" (merely through a restart). The
   ENTRY event is appended after the execution service returned, the
   CLOSED_TRADE event after reconciliation moved the intent to CLOSED; a crash
   in between loses the event for good (`FactsSurviveRestart`).

## Further disagreements

Met while modelling; each formula below fails on the named module, checked with
TLC, but is not kept as a run.

- **A healthy queue may latch** (`decision_ipc.py:1508`). `_latch_critical` is
  documented as "Permanently latch a locally-advanced/external-unconfirmed
  queue." The read-back wants the register to equal this call's checkpoint. When
  a consumer has verified that checkpoint and exported its successor in between,
  the producer takes the newer head for a failure. `DecisionQueue`: `~latch`
  fails although `ExportFails`, `Crash` and `AcceptLate` never happen.
- **A producer lane may stay stuck** (`brokerless_decision_producer.py:1826`).
  The spec says that a restart before the `PUBLISHED` advance "MUST recover"
  (`specs/brokerless_decision_producer_service_v1.md:52`). The candle is normalised before
  the cursor is looked at, so once the entry window or the processing lag (lines
  1828-1830) is over the lane yields HOLD, and the next candle is refused as
  replacing an unresolved preparation (line 1678). Before that, an observation
  that still passes may be PREPARED when its envelope would already outlive the
  entry window (`decision_ipc.py:306`), and then cannot be issued.
  `DecisionProducer`: `RecoversWhileAcceptable` without its last disjunct fails
  under `FairProducerSpec`.
- **A late request may put the register two ahead**
  (`brokerless_decision_producer.py:1520`). Line 55 of the same spec wants the
  restart to import "the single exact externally-custodied successor". A request
  left behind by a timed-out client (`windows_decision_provider_pack.py:903`) may
  be accepted while the restarted service's own successor is read back and not
  yet appended. `DecisionProducer`: `InSync` fails with one service;
  `CursorImportable` therefore speaks of states with no such request.
- **The clock alone latches a manual dispatch** (`runtime_supervisor.py:4898`).
  The spec asks to re-check the "risk-ledger high-water"; the code compares the
  content hash of two receipts, which covers `issued_at_utc`. `RuntimeSupervisor`,
  Mode DEMO: `faults = 0 => ~latched` fails with two ticks and holds with a
  frozen clock, which is what the tests use.
- **DEMO_AUTO dispatch latches** (`runtime_supervisor.py:4364`): PRE_CONSUME and
  PRE_DISPATCH carry the same news guard, the store wants a successor (line
  2418). **LIVE dispatch latches** (line 4630): the second
  `_verify_journal_checkpoint` of a cycle never returns the checkpoint of the
  first. The same formula fails in both modes, even with a frozen clock. The
  policy locks both modes today.
- **A competing start latches a healthy owner** (`runtime_supervisor.py:4222`).
  "A competing active owner is rejected"
  (`specs/production_runtime_supervisor_v1.md:164`), but `start` compares custody
  before it claims the lease, and between the owner's append and its export they
  differ. `RuntimeSupervisor`: no step of `LatchCritical` by a process without a
  token while `lease.expires > now`.
- **A failed stop may leave no latch** (`windows_service_entrypoint.py:2362`:
  "ProductionRuntimeComposition.stop owns the single latch."). `stop` clears
  `_started` before the last attestation, so when that fails
  `abort_fail_closed` returns without latching; only the SHUTDOWN receipt is
  left. `GatedService`: `FailureIsDenied` without `\/ shut`.
- **A successor beside an unresolved envelope**
  (`windows_service_entrypoint.py:2038`: "A successor is never created while any
  prior envelope is unresolved."). Between `deliver_pending` and `enqueue` a
  process of another run id may enqueue; the head check looks at its own run
  only. `OffHostDelivery`: `SuccessorAfterAck` without the equality of runs.
- **A torn drop file is for ever** (`offhost_delivery.py:350`). A process that
  dies between creating and syncing the file leaves a name that
  `_write_exclusive` never replaces: every later attempt ends in
  REMOTE_DROP_REPLAY_MISMATCH, and every later heartbeat raises. `OffHostDelivery`: every
  incomplete file in `drop` has a process at `"write"` fails after a crash.

## What is proved

Every safety invariant, action property and refinement the passing runs check is
a theorem: for all sets of processes, intents, decisions and
authorizations and all bounds, from the assumptions named in the modules (the
journal: finite intents, `DecisionOf` total, a positive volume, `"none"` and
`"denied"` are no executors; the queue: producers and consumers are disjoint, the
WAITs are decisions; the ledger: positive equities; stage and reconciliation:
`"none"` is no authorization and no owner; the producer: at least one lane, and quotes
within an entry window that is shorter than a candle; the
supervisor: one of its three dispatching modes, a positive lease term; and in
each that the bounds are naturals). One theorem has a hypothesis of its own:
`FailureAlwaysDenied` assumes `MaxLost <= 1`, since a service that loses both
writes of its critical latch leaves nothing durable behind.

| module | theorem | property |
|---|---|---|
| `ExecutionJournalProofs` | `OneExposure`, `DailySubmissions`, `NotSentTruth`, `SettlementTruth`, `SentRelease` | `SingleExposure`, `DailyLimit`, `NotSentIsTrue`, `SettlementProofsAreTrue`, `SentIsReleasedOnEvidence` |
| | `DecisionsBoundOnce`, `TerminalRowsAreFinal`, `LatchesNeedTheirReset` | `DecisionBoundOnce`, `TerminalIsFinal`, `ResetMatchesLatch` |
| | `AcceptanceNeedsEvidence` | `AcceptanceHasEvidence` |
| `ExecutionRuntimeProofs` | `RuntimeImplementsJournal`, `IntentsAreSentOnce`, `ReservationsTellTheTruth` | `RefinesJournal`, `OneSendPerIntent`, `ReservationIsTrue` |
| | `OrdersStayWithinLimits`, `StuckReservationsAreUnsent` | `SentOrdersAreLimited`, `StuckWasNeverSent` |
| `BrokerExposureProofs` | `ExposureIsJournaled`, `OneExposureAtBroker` | `BrokerExposureIsJournaled`, `OneBrokerExposure` |
| | `RecordedFills` | `RecordedFillsAreReal` |
| `DecisionQueueProofs` | `AnchorStaysWithinOne`, `EmissionsAreFresh`, `LatchRefusesLaterCalls`, `QueueIsAtMostOnce` | `AnchorWithinOne`, `EmittedFresh`, `LatchStopsTheQueue`, `ImplementsAtMostOnce` |
| | `QueueStaysUnderCustody` | `QueueUnderCustody` |
| `RuntimeSupervisorProofs` | `SupervisorReceiptsFenced`, `DispatchFollowsAnchor`, `FactsComplete`, `SupervisorChainAnchored` | `ReceiptsFenced`, `AnchoredBeforeDispatch`, `FactsCompleteUndisturbed`, `ImplementsAnchoredChain` |
| `ServicesProofs` | `WorkerNeverOrphaned`, `CriticalAbortOnce`, `FailureAlwaysDenied` | `NoOrphanWorker`, `OneCriticalAbort`, `FailureIsDenied` |
| | `DecisionsAreUnique`, `RegisterImportable` | `OneDecisionPerCandle`, `CursorImportable` |
| `LedgerProofs` | `StateIsTheChains`, `CustodyIsExtended` | `StateIsDerived`, `CustodyOnlyExtends` |
| | `StartsFormOneChain`, `AuthorizationsStartOnce` | `StartsAreOneChain`, `OneStart` |
| | `RegisterTracksLedger`, `ReservationsAnchored` | `ExternalTracksLedger`, `ReservedUnderAnchoredLease` |
| | `SessionLedgerUnderCustody` | `LedgerUnderCustody` |
| `ReconciliationAndDeliveryProofs` | `ReceiptsInFenceOrder`, `UncertaintyLatchedFirst`, `UnrecordedExitsAreHeld` | `CyclesFenced`, `UncertaintyIsLatched`, `UnrecordedExitIsHeld` |
| | `OutboxAlwaysVerifies`, `SuccessorsFollowAcks` | `OutboxVerifies`, `SuccessorAfterAck` |

The properties in the last row of the journal, the runtime, the broker exposure,
the queue and the ledgers are defined in the proof modules and, like those in the journal's
second row, belong to no run; all others are checked by TLC, too.

Every proof has the same shape: a typed invariant, predicates that say what a
call in progress may rely on, one lemma per action. The invariants:

**Journal.** `SingleExposure` is inductive with types: only a reservation enters
the exposure states from outside, and it looks at every other intent. The daily
limit counts: a reservation adds at most one to the day it compared. The three
send-boundary properties are not inductive. `SendInv` relates the lease object,
the receipts and the state of an intent: a lease exists exactly when
`FINAL_SUBMISSION_GUARD` does, and then the intent is past the reservation for
good; `SUBMISSION_LEASE_NOT_CONSUMED` means a dead lease; `SUBMISSION_NOT_SENT`
and an abort proof mean a terminal state whose guard, if there is one, is
accounted for by that receipt; a completion proof excludes both.
`RowStep` says once what any operation may do to a row, the row it is about or
another; from it `Supported` is inductive: exposure and leases have a dated
reservation, an outcome has its receipt, an execution receipt a consumed lease.

**Runtime.** `RuntimeInvariant` adds to `SendInv` what each process holds
(`Bound`: at `"sending"` its lease is used, its own, and the intent not yet sent;
a proof it is about to apply was minted) and what was done (`Agrees`: what is
sent had its lease consumed; a reservation's state is ACTIVE or minted). One
lemma per action shows that it keeps this and is a journal step or a stutter;
hence the refinement, and with it every journal theorem holds of the composed
system. `ExposureInvariant` adds what the journal and the broker say of each
other. An intent whose lease was consumed is in an exposure state, REJECTED or
CLOSED; `ReleaseTrue` says that the broker has then rejected or closed it, which
its later steps never undo. To be inductive this needs the words still on their
way: `AnswerTrue`, that a rejection a process is about to record is final, and
`CycleTrue`, that exits seen by the first read of a reconciliation cycle and no
position seen by a later one mean a closed position. `PositionSound` gives the
reason: exits appear only after filling is over, and volume left is a position the
later read would see. One exposure at the broker follows with `SingleExposure`.
The journal's limits carry over to what was really sent, since a sent intent had
its lease consumed and with it a dated reservation. `FillInvariant` treats volumes
like `ExposureInvariant` treats states: what a row records, what an answer on its
way carries and what a cycle has read of a position are each no more than the
broker filled, and the broker never unfills. For the stuck reservations of finding
1, `DispatchInvariant` says that only an intent past its preflight is reserved; the
cases of `Settlement` then leave a receipt of the broker without a consumed lease,
and only reconciliation writes that.

**Queue.** `AnchorInvariant` says that the register, what every call will export
and every request still under way lie at or below the local head, each one step
after what it replaces. `HoldInvariant` says that a consumer past its commit
holds a position of its own that nobody has emitted. The refinement follows from
both: a commit enqueues or settles, a return leaves, all else stutters. The second
refinement maps the rows of both tables and the sum of the register's two counters
onto `AnchoredChain`: a commit's predecessor is the local head and the register
(`AnchorInvariant`), and a register that moves, moves to the head.

**Runtime supervisor.** `SupOK` says which receipts a supervisor's token has at
each label: none before STARTUP, a STARTUP after it, no CRITICAL unless the call
is `Doomed`, and at the dispatch boundary a PRE_DISPATCH receipt that custody
already counts. Tokens of running supervisors differ, so an append by the current
token cannot step back. `FactsOK` accounts for the ledger: an execution whose
ENTRY is missing belongs to the one call that is about to record it, a closed
intent without its CLOSED_TRADE to one that still reports it. The refinement maps
the number of receipts and the number custody commits to onto `AnchoredChain`: an
append needs the two to be equal, an export makes them so.

**Producer.** `ChainOK`: within a lane candles never go back and a candle has one
snapshot; `QueueOK`: what is queued is in the anchored chain, once. Uniqueness
needs no assumption about who runs. `InStep` follows a single service through its
advance and gives importability, which the second service or the late request
named in `CursorImportable` really breaks.

**Windows service.** `MainOK` gives for each place of the main thread where the
worker can be and what the flags of runner, composition and supervisor are, a
latch in progress counted as the place it returns to. Both threads may be in the
steps of the latch at once; `LatchOK` says what each has durably left by then, and
the composition's abort flag, set before `fail_closed` is called and tested by
both, keeps that call single.

**Ledger.** `Sound` characterises the state by the chain, not by the updates;
it holds of the live database and of the backup, so a restore keeps it. Custody
moves only to a chain that begins with the one it holds.

**Stage.** Tokens of starts in progress differ, and a start that is not fenced
off has seen what every earlier start sealed (`StarterOnChain`). The chain part
is conditional on no registry having been rolled back; single use is not, since
the STARTUP receipts live in another store.

**Session store.** The chain a call has read was anchored and stays a beginning
of the register; a lease it has committed stays in the ledger. The register can
lag by one because the next append needs the anchored head as its predecessor.
So the ledger implements `AnchoredChain` as well: supervisor, queue and session
store keep one and the same promise about external custody.

**Reconciliation.** `WatcherOK`: while a watcher's token is the current one,
nothing was recorded since its cycle began; its token has recorded nothing
uncertain; what it is about to record is latched. `Seen` says that its read of the
broker shows every exit before the cycle, so that the row of such an exit is found
absent, closed or mismatched; `Held`, that the status a cycle is about to record,
and every one on record, passes over no exit. It survives what a superseded
watcher still applies, because rows never leave CLOSED and never go back to
SUBMITTING (`RowsMove`). That the row stays UNCERTAIN is not claimed: such a
watcher may set it to FILLED once more, until the next cycle.

**Delivery.** `BoxOK`: rows verify, a successor follows an acknowledgement and the
statuses of a run have no gaps; `BeatOK`: below the number a heartbeat is about to
use, every status exists and is acknowledged. Two processes with the same number
meet the unique key.

**Only model-checked:** the liveness properties `SubmittingIsResolved`,
`OpenPositionIsRecorded`, `ClosedPositionIsReleased`, `QueueDrains`,
`RecoversWhileAcceptable` and `CycleIsBounded`, since fairness and ENABLED are outside
the prover's reach.

## Not modelled, and assumptions

- Contents of permits, health snapshots, evidence receipts and news; risk
  arithmetic, sizing, quotes, signatures and hashes: pass or fail, at any time.
- The deal history's lookback window in `ExecutionRuntime` (it is in
  `ReconciliationSupervisor`); broker and host clocks agree. A partial close is
  made only after its order is done (FOK or IOC filling).
- The supervisor's SHADOW mode, which dispatches nothing. Its loss and drawdown
  gates are part of `Unhealthy`; the ledger's per-symbol facts are left out.
- The runtime supervisor: a write of the critical latch that fails and is
  swallowed (`runtime_supervisor.py:3162`; `GatedService` has lost latch writes),
  and the latch of a failed preflight (line 3211), which writes no receipt. Lease
  refresh, custody check and append of one receipt are one step.
- The decision queue reads latch, register and rows at the start of a call one
  after the other; `Admits` takes them as one. A latch that is set between them
  does not stop the call in the code, and stops it here.
- Stage authorization: issuing one and the age of its evidence.
- LIVE canary activation and trusted UTC continuity: the same register pattern
  as in `DecisionQueue` and `DecisionProducer`, for modes the policy locks.
- Acceptance trackers, the decision feed, shadow operation, paper trading,
  journal integrity checks: one writer at a time on local files.
- Provider packs, bootstrap configuration, command lines, release tooling and
  calendars build, sign and package documents; the Windows service's provider
  loading belongs here.
- Strategies, dashboards, data collection: floating-point scoring and rendering.

The last four groups are most of the repository by size. They hold no state that
two actors share and no protocol to interleave; a model of them would restate
their arithmetic or their schemas.
