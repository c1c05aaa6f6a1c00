---------------------------- MODULE GatedService ----------------------------
(* The Windows service that runs the gated runtime: WindowsGatedServiceRunner.run
   on the main thread, ProductionRuntimeComposition.run_cycle on a daemon thread
   with a deadline, and the composition's lifecycle flags between them. An
   exception of one thread, a lost deadline and a heartbeat that is not
   acknowledged all end in the supervisor's critical latch, which both threads
   may be executing at once.

   What the supervisor does inside start, run_cycle and stop is the subject of
   RuntimeSupervisor; here each returns, raises, or latches and raises. Evidence
   checks and heartbeats may fail at any time. *)
EXTENDS Integers

CONSTANTS
    MaxCycles,  \* max_cycles of run
    MaxBeats,   \* waits of a third of the heartbeat TTL that fill a cycle's deadline
    MaxLost   \* writes of a latch that fail

ASSUME ServiceAssumption == MaxCycles \in Nat \ {0} /\ MaxBeats \in Nat \ {0} /\ MaxLost \in Nat

VARIABLES
    th,      \* where the threads "main" and "worker" are, and where a latch returns to
    runner,  \* run: supervisor started, failure owned by the composition or the abort, how it ended
    comp,    \* the composition: _started, _abort_initiated
    sup,     \* the supervisor's local state, and whether it holds its lease
    deny,    \* durable latches: of the supervisor's store, of the journal
    shut,    \* a SHUTDOWN receipt was appended
    stop,    \* stop_event
    cycles,  \* cycles that returned a receipt
    beats,   \* waits of the current cycle that timed out
    calls,   \* calls of fail_closed
    lost

svcVars == <<th, runner, comp, sup, deny, shut, stop, cycles, beats, calls, lost>>

Threads == {"main", "worker"}

ThreadAt(t, label) == th[t].pc = label
Jump(t, label) == th' = [th EXCEPT ![t].pc = label]
Main(label) == Jump("main", label)

(* The process is gone, with both threads. *)
Terminated == ThreadAt("main", "dead")

-----------------------------------------------------------------------------
(* The critical latch of the supervisor, by either thread.                   *)

(* _latch_and_stop begins, and its caller goes on at ret with the exception. *)
Latch(t, ret) == th' = [th EXCEPT ![t] = [pc |-> "latch_store", ret |-> ret]]

(* The latch of the store, then the journal's: each write may fail, and the
   exception is swallowed. *)
Persist(t) ==
    /\ \E where \in {"store", "journal"} :
        /\ ThreadAt(t, IF where = "store" THEN "latch_store" ELSE "latch_journal")
        /\ Jump(t, IF where = "store" THEN "latch_journal" ELSE "latch_state")
        /\ \/ deny' = deny \cup {where} /\ UNCHANGED lost
           \/ lost < MaxLost /\ lost' = lost + 1 /\ UNCHANGED deny
    /\ UNCHANGED <<runner, comp, sup, shut, stop, cycles, beats, calls>>

MarkCritical(t) ==
    /\ ThreadAt(t, "latch_state")
    /\ sup' = [sup EXCEPT !.state = "STOPPED_CRITICAL"]
    /\ Jump(t, "latch_release")
    /\ UNCHANGED <<runner, comp, deny, shut, stop, cycles, beats, calls, lost>>

(* The CRITICAL receipt, the release of the lease, and the exception. *)
DropLease(t) ==
    /\ ThreadAt(t, "latch_release")
    /\ sup' = [sup EXCEPT !.owner = FALSE]
    /\ Jump(t, th[t].ret)
    /\ UNCHANGED <<runner, comp, deny, shut, stop, cycles, beats, calls, lost>>

-----------------------------------------------------------------------------
(* The composition.                                                          *)

(* Where the callers of abort_fail_closed go on. *)
AfterAbort == [deadline |-> "exit", cycle_abort |-> "cycle_failed", stop_abort |-> "stop_failed"]

(* Mutant: the abort race is decided without the lifecycle lock's flags. *)
AbortAgain(t) ==
    \E l \in DOMAIN AfterAbort :
        /\ ThreadAt(t, l)
        /\ comp' = [started |-> FALSE, aborting |-> TRUE]
        /\ IF sup.state = "STOPPED_CRITICAL"
           THEN Jump(t, AfterAbort[l]) /\ UNCHANGED calls
           ELSE Latch(t, AfterAbort[l]) /\ calls' = calls + 1
        /\ UNCHANGED <<runner, sup, deny, shut, stop, cycles, beats, lost>>

(* abort_fail_closed: the flags are set under the lifecycle lock, and the latch
   runs after the lock is released. *)
AbortFailClosed(t) ==
    \E l \in DOMAIN AfterAbort :
        /\ ThreadAt(t, l)
        /\ IF comp.aborting \/ ~comp.started
           THEN /\ comp' = [comp EXCEPT !.started = FALSE]
                /\ Jump(t, AfterAbort[l]) /\ UNCHANGED calls
           ELSE /\ comp' = [started |-> FALSE, aborting |-> TRUE]
                /\ IF sup.state = "STOPPED_CRITICAL"
                   THEN Jump(t, AfterAbort[l]) /\ UNCHANGED calls
                   ELSE Latch(t, AfterAbort[l]) /\ calls' = calls + 1
        /\ UNCHANGED <<runner, sup, deny, shut, stop, cycles, beats, lost>>

(* run_cycle of the composition, on the worker. *)
Enter ==
    /\ ThreadAt("worker", "entry")
    /\ Jump("worker", IF comp.started THEN "evidence" ELSE "put_error")
    /\ UNCHANGED <<runner, comp, sup, deny, shut, stop, cycles, beats, calls, lost>>

(* Mutant: denied evidence raises, and only the supervisor's own failures latch. *)
EvidenceUnlatched ==
    /\ \/ ThreadAt("worker", "evidence") /\ Jump("worker", "run")
       \/ ThreadAt("worker", "attest") /\ Jump("worker", "put_ok")
       \/ th["worker"].pc \in {"evidence", "attest"} /\ Jump("worker", "cycle_failed")
    /\ UNCHANGED <<runner, comp, sup, deny, shut, stop, cycles, beats, calls, lost>>

(* The external evidence before and after the supervisor's cycle. *)
CheckEvidence ==
    /\ \/ ThreadAt("worker", "evidence") /\ Jump("worker", "run")
       \/ ThreadAt("worker", "attest") /\ Jump("worker", "put_ok")
       \/ th["worker"].pc \in {"evidence", "attest"} /\ Jump("worker", "cycle_abort")
    /\ UNCHANGED <<runner, comp, sup, deny, shut, stop, cycles, beats, calls, lost>>

(* The supervisor's cycle, which latches itself before it raises; once it is not
   ready, it raises at once. *)
RunCycle ==
    /\ ThreadAt("worker", "run")
    /\ \/ sup.owner /\ Jump("worker", "attest")
       \/ sup.state = "READY" /\ Latch("worker", "cycle_abort")
       \/ sup.state # "READY" /\ Jump("worker", "cycle_abort")
    /\ UNCHANGED <<runner, comp, sup, deny, shut, stop, cycles, beats, calls, lost>>

CycleFailed ==
    /\ ThreadAt("worker", "cycle_failed")
    /\ comp' = [comp EXCEPT !.started = FALSE]
    /\ Jump("worker", "put_error")
    /\ UNCHANGED <<runner, sup, deny, shut, stop, cycles, beats, calls, lost>>

Worker == Enter \/ CheckEvidence \/ RunCycle \/ CycleFailed

-----------------------------------------------------------------------------
(* The service.                                                              *)

(* The heartbeats of run, and where it goes on when they are acknowledged. *)
AfterBeat ==
    [STARTING |-> "materialize", INITIALIZED |-> "start", RUNNING |-> "loop", wait_beat |-> "wait",
     cycle_beat |-> "cycle", STOPPING |-> "stop", STOPPED |-> "return", FAILED |-> "shutdown"]

Acknowledged ==
    \E l \in DOMAIN AfterBeat :
        /\ ThreadAt("main", l)
        /\ Main(AfterBeat[l])
        /\ UNCHANGED <<runner, comp, sup, deny, shut, stop, cycles, beats, calls, lost>>

(* Mutant: a heartbeat lost during a cycle is an exception like any other. *)
UnacknowledgedRaises ==
    \E l \in DOMAIN AfterBeat :
        /\ ThreadAt("main", l)
        /\ Main(IF l = "FAILED" THEN "shutdown" ELSE "except")
        /\ UNCHANGED <<runner, comp, sup, deny, shut, stop, cycles, beats, calls, lost>>

(* A heartbeat that is not acknowledged off the host raises, terminates the active
   cycle, or, after a failure, is passed over. *)
Unacknowledged ==
    \E l \in DOMAIN AfterBeat :
        /\ ThreadAt("main", l)
        /\ IF l = "cycle_beat"
           THEN Main("deadline") /\ runner' = [runner EXCEPT !.abort = TRUE]
           ELSE Main(IF l = "FAILED" THEN "shutdown" ELSE "except") /\ UNCHANGED runner
        /\ UNCHANGED <<comp, sup, deny, shut, stop, cycles, beats, calls, lost>>

(* materialize, which initializes the composition too, may raise. *)
Materialize ==
    /\ ThreadAt("main", "materialize")
    /\ Main("INITIALIZED") \/ Main("except")
    /\ UNCHANGED <<runner, comp, sup, deny, shut, stop, cycles, beats, calls, lost>>

(* start of the composition: the evidence or the lease is denied, the supervisor
   latches itself, or it holds its lease and is ready. *)
StartComposition ==
    /\ ThreadAt("main", "start")
    /\ \/ Main("except") /\ UNCHANGED <<runner, comp, sup>>
       \/ Latch("main", "except") /\ UNCHANGED <<runner, comp, sup>>
       \/ /\ sup' = [state |-> "READY", owner |-> TRUE]
          /\ comp' = [started |-> TRUE, aborting |-> FALSE]
          /\ runner' = [runner EXCEPT !.started = TRUE]
          /\ Main("RUNNING")
    /\ UNCHANGED <<deny, shut, stop, cycles, beats, calls, lost>>

RequestStop ==
    /\ ~stop /\ ~Terminated
    /\ stop' = TRUE
    /\ UNCHANGED <<th, runner, comp, sup, deny, shut, cycles, beats, calls, lost>>

(* The head of the loop over the cycles: stop, run the first cycle at once, or
   wait for the cadence. *)
NextCycle ==
    /\ ThreadAt("main", "loop")
    /\ Main(IF stop \/ cycles = MaxCycles THEN "STOPPING" ELSE IF cycles = 0 THEN "launch" ELSE "wait")
    /\ UNCHANGED <<runner, comp, sup, deny, shut, stop, cycles, beats, calls, lost>>

(* The cadence elapses, or a third of the heartbeat TTL does, or a stop ends it. *)
Cadence ==
    /\ ThreadAt("main", "wait")
    /\ Main("launch") \/ (~stop /\ Main("wait_beat"))
    /\ UNCHANGED <<runner, comp, sup, deny, shut, stop, cycles, beats, calls, lost>>

LaunchCycle ==
    /\ ThreadAt("main", "launch")
    /\ IF stop
       THEN Main("STOPPING") /\ UNCHANGED beats
       ELSE /\ th' = [main |-> [th["main"] EXCEPT !.pc = "cycle"], worker |-> [pc |-> "entry", ret |-> "none"]]
            /\ beats' = 0
    /\ UNCHANGED <<runner, comp, sup, deny, shut, stop, cycles, calls, lost>>

(* Mutant: each wait measures the deadline from its own start. *)
DeadlineRestarts ==
    /\ ThreadAt("main", "cycle")
    /\ th["worker"].pc \notin {"put_ok", "put_error"}
    /\ Main("cycle_beat")
    /\ UNCHANGED <<runner, comp, sup, deny, shut, stop, cycles, beats, calls, lost>>

(* No result within a third of the heartbeat TTL. *)
ResultTimeout ==
    /\ ThreadAt("main", "cycle")
    /\ th["worker"].pc \notin {"put_ok", "put_error"}
    /\ beats < MaxBeats
    /\ beats' = beats + 1
    /\ Main("cycle_beat")
    /\ UNCHANGED <<runner, comp, sup, deny, shut, stop, cycles, calls, lost>>

(* The deadline is looked at before the result is. It may have passed at any time
   (a short deadline, slow heartbeats, a suspended host), and has after MaxBeats. *)
DeadlineExceeded ==
    /\ ThreadAt("main", "cycle")
    /\ Main("deadline")
    /\ runner' = [runner EXCEPT !.abort = TRUE]
    /\ UNCHANGED <<comp, sup, deny, shut, stop, cycles, beats, calls, lost>>

(* A receipt of a thread that has ended, a receipt of one that is still alive, or
   the exception of run_cycle. *)
TakeResult ==
    /\ ThreadAt("main", "cycle")
    /\ beats < MaxBeats
    /\ \/ /\ ThreadAt("worker", "put_ok")
          /\ \/ Main("RUNNING") /\ cycles' = cycles + 1 /\ UNCHANGED runner
             \/ Main("deadline") /\ runner' = [runner EXCEPT !.abort = TRUE] /\ UNCHANGED cycles
       \/ /\ ThreadAt("worker", "put_error")
          /\ Main("except") /\ runner' = [runner EXCEPT !.handled = TRUE] /\ UNCHANGED cycles
    /\ UNCHANGED <<comp, sup, deny, shut, stop, beats, calls, lost>>

(* os._exit after the abort, or the watchdog's at any time during it. *)
HardTerminate ==
    /\ runner.abort /\ ~Terminated
    /\ Main("dead")
    /\ UNCHANGED <<runner, comp, sup, deny, shut, stop, cycles, beats, calls, lost>>

(* stop of the supervisor: a SHUTDOWN receipt, the latch, or no receipt when it
   holds no lease. *)
StopSupervisor(sealed, none, failed) ==
    \/ sup.owner /\ sup' = [state |-> "STOPPED", owner |-> FALSE] /\ shut' = TRUE /\ Main(sealed)
    \/ sup.owner /\ Latch("main", failed) /\ UNCHANGED <<sup, shut>>
    \/ /\ ~sup.owner
       /\ sup' = IF sup.state = "STOPPED_CRITICAL" THEN sup ELSE [sup EXCEPT !.state = "STOPPED"]
       /\ Main(none) /\ UNCHANGED shut

(* stop of the composition: no receipt is an exception, and _started is cleared
   before the final evidence is attested. *)
StopComposition ==
    /\ \/ /\ ThreadAt("main", "stop")
          /\ IF comp.started
             THEN StopSupervisor("stop_attest", "stop_abort", "stop_abort") /\ UNCHANGED runner
             ELSE Main("except") /\ runner' = [runner EXCEPT !.handled = TRUE] /\ UNCHANGED <<sup, shut>>
          /\ UNCHANGED comp
       \/ /\ ThreadAt("main", "stop_attest")
          /\ comp' = [comp EXCEPT !.started = FALSE]
          /\ Main("STOPPED") \/ Main("stop_abort")
          /\ UNCHANGED <<runner, sup, shut>>
       \/ /\ ThreadAt("main", "stop_failed")
          /\ comp' = [comp EXCEPT !.started = FALSE]
          /\ runner' = [runner EXCEPT !.handled = TRUE]
          /\ Main("except")
          /\ UNCHANGED <<sup, shut>>
    /\ UNCHANGED <<deny, stop, cycles, beats, calls, lost>>

(* run returns its receipts. *)
Return ==
    /\ ThreadAt("main", "return")
    /\ runner' = [runner EXCEPT !.started = FALSE, !.ended = "returned"]
    /\ Main("shutdown")
    /\ UNCHANGED <<comp, sup, deny, shut, stop, cycles, beats, calls, lost>>

(* The handler of run: fail_closed, unless the failure was handled already. *)
Except ==
    /\ ThreadAt("main", "except")
    /\ runner' = [runner EXCEPT !.ended = "raised"]
    /\ IF runner.started /\ ~runner.handled /\ ~runner.abort
       THEN Latch("main", "FAILED") /\ calls' = calls + 1
       ELSE Main("FAILED") /\ UNCHANGED calls
    /\ UNCHANGED <<comp, sup, deny, shut, stop, cycles, beats, lost>>

(* The finally clause: shutdown of the composition. *)
Shutdown ==
    /\ \/ /\ ThreadAt("main", "shutdown")
          /\ IF comp.started
             THEN StopSupervisor("close", "close", "close")
             ELSE Main("close") /\ UNCHANGED <<sup, shut>>
          /\ UNCHANGED comp
       \/ /\ ThreadAt("main", "close")
          /\ comp' = [comp EXCEPT !.started = FALSE]
          /\ Main("dead") /\ UNCHANGED <<sup, shut>>
    /\ UNCHANGED <<runner, deny, stop, cycles, beats, calls, lost>>

ServiceInit ==
    /\ th = [main |-> [pc |-> "STARTING", ret |-> "none"], worker |-> [pc |-> "none", ret |-> "none"]]
    /\ runner = [started |-> FALSE, handled |-> FALSE, abort |-> FALSE, ended |-> "no"]
    /\ comp = [started |-> FALSE, aborting |-> FALSE]
    /\ sup = [state |-> "CREATED", owner |-> FALSE]
    /\ deny = {} /\ shut = FALSE /\ stop = FALSE
    /\ cycles = 0 /\ beats = 0 /\ calls = 0 /\ lost = 0

Fails(t) == Persist(t) \/ MarkCritical(t) \/ DropLease(t) \/ AbortFailClosed(t)

MainThread ==
    \/ Acknowledged \/ Unacknowledged \/ Materialize \/ StartComposition \/ NextCycle \/ Cadence
    \/ LaunchCycle \/ ResultTimeout \/ DeadlineExceeded \/ TakeResult \/ HardTerminate
    \/ StopComposition \/ Return \/ Except \/ Shutdown \/ Fails("main")

WorkerThread == ~Terminated /\ (Worker \/ Fails("worker"))

ServiceNext == MainThread \/ WorkerThread \/ RequestStop

ServiceSpec == ServiceInit /\ [][ServiceNext]_svcVars

(* The main thread is never blocked for good: each of its waits has a timeout.
   Nothing is assumed of the worker, which may hang in a call to the broker. *)
FairServiceSpec == ServiceSpec /\ WF_svcVars(MainThread)

-----------------------------------------------------------------------------
WorkerActive == ~Terminated /\ th["worker"].pc \notin {"none", "put_ok", "put_error"}

(* There is one critical transition: whichever of the two threads fails first, the
   composition's abort, the handler of run and the deadline never call fail_closed a
   second time, and no shutdown rewrites a critical stop as a clean one
   (abort_fail_closed, and is_stopped_critical in stop). *)
OneCriticalAbort ==
    [][calls' <= 1 /\ (sup.state = "STOPPED_CRITICAL" => sup'.state = "STOPPED_CRITICAL")]_svcVars

(* While a cycle's thread can still reach the broker, the main thread waits for
   it or is on its way to os._exit: it never reports FAILED, shuts the composition
   down or starts another cycle beside it (_terminate_active_cycle). *)
NoOrphanWorker ==
    WorkerActive =>
        \/ th["main"].pc \in {"cycle", "cycle_beat", "deadline", "exit"}
        \/ th["main"].ret = "exit"

(* A service that ends with an exception after its supervisor was started leaves
   a durable denial of the next start or a SHUTDOWN receipt, even when one write
   of a latch is lost (the composition's abort and the handler of run: each leaves
   the latch to the other). *)
FailureIsDenied ==
    Terminated /\ runner.ended = "raised" /\ sup.state # "CREATED" => deny # {} \/ shut

(* A cycle that hangs does not outlive its deadline: its thread ends or the process
   does (_run_cycle_with_deadline). *)
CycleIsBounded == WorkerActive ~> ~WorkerActive
=============================================================================
