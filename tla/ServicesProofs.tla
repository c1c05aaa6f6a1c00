--------------------------- MODULE ServicesProofs ---------------------------
(* The safety of the two services, for every bound: the gated Windows service and the
   decision producer. *)
EXTENDS GatedService, DecisionProducer, TLAPS

(* The gated service. *)
LatchLabels == {"latch_store", "latch_journal", "latch_state", "latch_release"}
BeforeStart == {"STARTING", "materialize", "INITIALIZED", "start"}
Serving == {"RUNNING", "loop", "wait", "wait_beat", "launch", "STOPPING", "stop"}
Cycling == {"cycle", "cycle_beat"}
Stopped == {"stop_attest", "STOPPED", "return"}
Ending == {"FAILED", "shutdown", "close", "dead"}
MainLabels ==
    {"latch_store", "latch_journal", "latch_state", "latch_release", "STARTING", "materialize", "INITIALIZED", "start",
     "RUNNING", "loop", "wait", "wait_beat", "launch", "STOPPING", "stop", "cycle", "cycle_beat", "stop_attest",
     "STOPPED", "return", "FAILED", "shutdown", "close", "dead", "deadline", "exit", "stop_abort", "stop_failed", "except"}
Working == {"entry", "evidence", "run", "attest", "put_ok"}
WorkerLabels ==
    {"latch_store", "latch_journal", "latch_state", "latch_release", "entry", "evidence", "run", "attest", "put_ok",
     "none", "cycle_abort", "cycle_failed", "put_error"}
MainReturns == {"except", "exit", "stop_abort", "stop_failed", "FAILED", "close"}
ThreadRecords == [main : [pc : MainLabels, ret : MainReturns \cup {"none"}],
                  worker : [pc : WorkerLabels, ret : {"none", "cycle_abort", "cycle_failed"}]]

ServiceTyped ==
    /\ th \in ThreadRecords
    /\ runner \in [started : BOOLEAN, handled : BOOLEAN, abort : BOOLEAN, ended : {"no", "returned", "raised"}]
    /\ comp \in [started : BOOLEAN, aborting : BOOLEAN]
    /\ sup \in [state : {"CREATED", "READY", "STOPPED", "STOPPED_CRITICAL"}, owner : BOOLEAN]
    /\ deny \subseteq {"store", "journal"} /\ shut \in BOOLEAN
    /\ calls \in Nat /\ lost \in Nat /\ lost <= MaxLost

(* Where the main thread is, a latch counted as the place it returns to. *)
Place(m) == IF m.pc \in LatchLabels THEN m.ret ELSE m.pc

Quiet(w) == w.pc \in {"none", "put_ok", "put_error"}
Started(s, c) == s.state = "READY" /\ s.owner /\ c.started /\ ~c.aborting

(* At most one write of a latch is lost, and one has succeeded. *)
Denial == MaxLost > 1 \/ deny # {}

LatchOK(x) ==
    /\ x.pc = "latch_journal" => Denial \/ lost >= 1
    /\ x.pc \in {"latch_state", "latch_release"} => Denial

MainOK(m, w) ==
    /\ m.pc \in LatchLabels => m.ret \in MainReturns
    /\ m.ret = "exit" => m.pc \in LatchLabels \cup {"exit", "dead"}
    /\ Place(m) \in Cycling \cup {"deadline", "exit", "dead"} \/ Quiet(w)
    /\ runner.abort <=> (Place(m) \in {"deadline", "exit"} \/ (m.pc = "dead" /\ runner.abort))
    /\ Place(m) \notin Ending => runner.ended = "no"
    /\ m.pc \in BeforeStart =>
        /\ sup.state = "CREATED" /\ ~comp.started /\ ~comp.aborting /\ ~runner.started /\ ~runner.handled /\ calls = 0
    /\ m.pc \in Serving =>
        /\ Started(sup, comp) /\ runner.started /\ ~runner.handled /\ calls = 0
    /\ m.pc \in Cycling =>
        /\ runner.started /\ ~runner.handled
        /\ w.pc # "none"
        /\ w.pc \in Working \cup {"cycle_abort"} \/ (w.pc \in LatchLabels /\ w.ret = "cycle_abort") =>
            comp.started /\ ~comp.aborting /\ calls = 0
        /\ w.pc \in Working => Started(sup, comp)
        /\ w.pc \in {"cycle_failed", "put_error"} => Denial
    /\ m.pc \in Stopped => shut /\ runner.started /\ ~runner.handled /\ calls = 0
    /\ Place(m) \in {"stop_abort", "stop_failed"} => runner.started /\ ~runner.handled
    /\ m.pc \in {"stop_abort", "stop_failed"} => Denial \/ shut
    /\ Place(m) = "except" =>
        \/ ~runner.started /\ calls = 0 /\ (m.pc = "except" => sup.state = "CREATED" \/ Denial)
        \/ runner.started /\ runner.handled /\ (Denial \/ shut)
        \/ runner.started /\ ~runner.handled /\ calls = 0
    /\ (m.pc \in Ending \/ (m.pc \in LatchLabels /\ m.ret = "close")) /\ runner.ended = "raised" =>
        sup.state = "CREATED" \/ Denial \/ shut

WorkerOK(w) ==
    /\ w.pc \in LatchLabels => w.ret \in {"cycle_abort", "cycle_failed"}

ServiceInvariant ==
    /\ ServiceTyped
    /\ MainOK(th["main"], th["worker"])
    /\ WorkerOK(th["worker"])
    /\ LatchOK(th["main"]) /\ LatchOK(th["worker"])
    /\ calls <= 1 /\ (calls = 1 => comp.aborting \/ runner.ended = "raised")
    /\ sup.state = "STOPPED_CRITICAL" => Denial
    /\ sup.state = "STOPPED_CRITICAL" /\ sup.owner =>
        th["main"].pc \in {"latch_release", "dead"} \/ th["worker"].pc = "latch_release"
    /\ comp.started => sup.state # "CREATED"

----------------------------------------------------------------------------
(* The next state of the threads, as the steps of one of them leave it. *)
MainGoes(l) ==
    /\ th' \in ThreadRecords /\ th'["worker"] = th["worker"]
    /\ th'["main"].pc = l /\ th'["main"].ret = th["main"].ret
MainBegins(r) ==
    /\ th' \in ThreadRecords /\ th'["worker"] = th["worker"]
    /\ th'["main"].pc = "latch_store" /\ th'["main"].ret = r
WorkerGoes(l) ==
    /\ th' \in ThreadRecords /\ th'["main"] = th["main"]
    /\ th'["worker"].pc = l /\ th'["worker"].ret = th["worker"].ret
WorkerBegins(r) ==
    /\ th' \in ThreadRecords /\ th'["main"] = th["main"]
    /\ th'["worker"].pc = "latch_store" /\ th'["worker"].ret = r

(* The main thread goes on at a label. *)
LEMMA MainJumps ==
    ASSUME ServiceInvariant, NEW l \in MainLabels, Main(l)
    PROVE  MainGoes(l)
BY DEF MainGoes, Main, Jump, ThreadRecords, ServiceInvariant, ServiceTyped

(* The main thread begins a latch. *)
LEMMA MainLatches ==
    ASSUME ServiceInvariant, NEW r \in MainReturns, Latch("main", r)
    PROVE  MainBegins(r)
BY DEF MainBegins, Latch, ThreadRecords, MainLabels, LatchLabels, ServiceInvariant, ServiceTyped

(* The worker goes on at a label. *)
LEMMA WorkerJumps ==
    ASSUME ServiceInvariant, NEW l \in WorkerLabels, Jump("worker", l)
    PROVE  WorkerGoes(l)
BY DEF WorkerGoes, Jump, ThreadRecords, ServiceInvariant, ServiceTyped

(* The worker begins a latch. *)
LEMMA WorkerLatches ==
    ASSUME ServiceInvariant, NEW r \in {"cycle_abort", "cycle_failed"}, Latch("worker", r)
    PROVE  WorkerBegins(r)
BY DEF WorkerBegins, Latch, ThreadRecords, WorkerLabels, LatchLabels, ServiceInvariant, ServiceTyped

----------------------------------------------------------------------------
(* What the assignments to one flag leave. *)
CompStops == comp' \in [started : BOOLEAN, aborting : BOOLEAN] /\ ~comp'.started /\ comp'.aborting = comp.aborting
RunnerAborts ==
    /\ runner' \in [started : BOOLEAN, handled : BOOLEAN, abort : BOOLEAN, ended : {"no", "returned", "raised"}]
    /\ runner'.abort /\ runner'.started = runner.started /\ runner'.handled = runner.handled
    /\ runner'.ended = runner.ended
RunnerHandled ==
    /\ runner' \in [started : BOOLEAN, handled : BOOLEAN, abort : BOOLEAN, ended : {"no", "returned", "raised"}]
    /\ runner'.handled /\ runner'.started = runner.started /\ runner'.abort = runner.abort
    /\ runner'.ended = runner.ended

(* _started is cleared. *)
LEMMA CompStopping == ASSUME ServiceInvariant, comp' = [comp EXCEPT !.started = FALSE] PROVE CompStops
BY Zenon DEF CompStops, ServiceInvariant, ServiceTyped

(* The process is to be terminated. *)
LEMMA RunnerAborting == ASSUME ServiceInvariant, runner' = [runner EXCEPT !.abort = TRUE] PROVE RunnerAborts
BY Zenon DEF RunnerAborts, ServiceInvariant, ServiceTyped

(* The composition has handled the failure. *)
LEMMA RunnerHandling == ASSUME ServiceInvariant, runner' = [runner EXCEPT !.handled = TRUE] PROVE RunnerHandled
BY Zenon DEF RunnerHandled, ServiceInvariant, ServiceTyped

(* start of the composition: it is denied, latched, or the supervisor is ready. *)
LEMMA StartCompositionStep ==
    ASSUME ServiceInvariant, StartComposition
    PROVE  ServiceInvariant'
<1>1. th["main"].pc = "start" /\ UNCHANGED <<deny, shut, calls, lost>>
  BY DEF StartComposition, ThreadAt
<1>2. CASE Main("except") /\ UNCHANGED <<runner, comp, sup>>
  <2>1. MainGoes("except")
    BY <1>1, <1>2, MainJumps DEF MainLabels
  <2>2. QED
    BY <1>1, <1>2, <2>1, ServiceAssumption
       DEF MainGoes, ServiceInvariant, ServiceTyped, MainOK, WorkerOK, LatchOK, Denial,
           Place, Quiet, Started, LatchLabels, BeforeStart, Serving, Cycling, Stopped, Ending, Working
<1>3. CASE Latch("main", "except") /\ UNCHANGED <<runner, comp, sup>>
  <2>1. MainBegins("except")
    BY <1>1, <1>3, MainLatches DEF MainReturns
  <2>2. QED
    BY <1>1, <1>3, <2>1, ServiceAssumption
       DEF MainBegins, ServiceInvariant, ServiceTyped, MainOK, WorkerOK, LatchOK, Denial,
           Place, Quiet, Started, LatchLabels, BeforeStart, Serving, Cycling, Stopped, Ending, Working, MainReturns
<1>4. CASE /\ sup' = [state |-> "READY", owner |-> TRUE]
           /\ comp' = [started |-> TRUE, aborting |-> FALSE]
           /\ runner' = [runner EXCEPT !.started = TRUE]
           /\ Main("RUNNING")
  <2>1. MainGoes("RUNNING")
    BY <1>1, <1>4, MainJumps DEF MainLabels
  <2>2. QED
    BY Zenon, <1>1, <1>4, <2>1, ServiceAssumption
       DEF MainGoes, ServiceInvariant, ServiceTyped, MainOK, WorkerOK, LatchOK, Denial,
           Place, Quiet, Started, LatchLabels, BeforeStart, Serving, Cycling, Stopped, Ending, Working
<1>5. QED
  BY <1>1, <1>2, <1>3, <1>4 DEF StartComposition

(* An acknowledged heartbeat lets the main thread go on. *)
LEMMA AcknowledgedStep ==
    ASSUME ServiceInvariant, Acknowledged
    PROVE  ServiceInvariant'
<1>1. /\ UNCHANGED <<runner, comp, sup, deny, shut, calls, lost>>
      /\ th["main"].pc \in {"STARTING", "INITIALIZED", "RUNNING", "wait_beat", "cycle_beat", "STOPPING", "STOPPED", "FAILED"}
      /\ (th["main"].pc = "STARTING" => Main("materialize"))
      /\ (th["main"].pc = "INITIALIZED" => Main("start"))
      /\ (th["main"].pc = "RUNNING" => Main("loop"))
      /\ (th["main"].pc = "wait_beat" => Main("wait"))
      /\ (th["main"].pc = "cycle_beat" => Main("cycle"))
      /\ (th["main"].pc = "STOPPING" => Main("stop"))
      /\ (th["main"].pc = "STOPPED" => Main("return"))
      /\ (th["main"].pc = "FAILED" => Main("shutdown"))
  BY DEF Acknowledged, ThreadAt, AfterBeat
<1>2. CASE th["main"].pc = "STARTING" /\ Main("materialize")
  <2>1. MainGoes("materialize")
    BY <1>1, <1>2, MainJumps DEF MainLabels
  <2>2. QED
    BY <1>1, <1>2, <2>1, ServiceAssumption
       DEF MainGoes, ServiceInvariant, ServiceTyped, MainOK, WorkerOK, LatchOK, Denial,
           Place, Quiet, Started, LatchLabels, BeforeStart, Serving, Cycling, Stopped, Ending, Working
<1>3. CASE th["main"].pc = "INITIALIZED" /\ Main("start")
  <2>1. MainGoes("start")
    BY <1>1, <1>3, MainJumps DEF MainLabels
  <2>2. QED
    BY <1>1, <1>3, <2>1, ServiceAssumption
       DEF MainGoes, ServiceInvariant, ServiceTyped, MainOK, WorkerOK, LatchOK, Denial,
           Place, Quiet, Started, LatchLabels, BeforeStart, Serving, Cycling, Stopped, Ending, Working
<1>4. CASE th["main"].pc = "RUNNING" /\ Main("loop")
  <2>1. MainGoes("loop")
    BY <1>1, <1>4, MainJumps DEF MainLabels
  <2>2. QED
    BY <1>1, <1>4, <2>1, ServiceAssumption
       DEF MainGoes, ServiceInvariant, ServiceTyped, MainOK, WorkerOK, LatchOK, Denial,
           Place, Quiet, Started, LatchLabels, BeforeStart, Serving, Cycling, Stopped, Ending, Working
<1>5. CASE th["main"].pc = "wait_beat" /\ Main("wait")
  <2>1. MainGoes("wait")
    BY <1>1, <1>5, MainJumps DEF MainLabels
  <2>2. QED
    BY <1>1, <1>5, <2>1, ServiceAssumption
       DEF MainGoes, ServiceInvariant, ServiceTyped, MainOK, WorkerOK, LatchOK, Denial,
           Place, Quiet, Started, LatchLabels, BeforeStart, Serving, Cycling, Stopped, Ending, Working
<1>6. CASE th["main"].pc = "cycle_beat" /\ Main("cycle")
  <2>1. MainGoes("cycle")
    BY <1>1, <1>6, MainJumps DEF MainLabels
  <2>2. QED
    BY <1>1, <1>6, <2>1, ServiceAssumption
       DEF MainGoes, ServiceInvariant, ServiceTyped, MainOK, WorkerOK, LatchOK, Denial,
           Place, Quiet, Started, LatchLabels, BeforeStart, Serving, Cycling, Stopped, Ending, Working
<1>7. CASE th["main"].pc = "STOPPING" /\ Main("stop")
  <2>1. MainGoes("stop")
    BY <1>1, <1>7, MainJumps DEF MainLabels
  <2>2. QED
    BY <1>1, <1>7, <2>1, ServiceAssumption
       DEF MainGoes, ServiceInvariant, ServiceTyped, MainOK, WorkerOK, LatchOK, Denial,
           Place, Quiet, Started, LatchLabels, BeforeStart, Serving, Cycling, Stopped, Ending, Working
<1>8. CASE th["main"].pc = "STOPPED" /\ Main("return")
  <2>1. MainGoes("return")
    BY <1>1, <1>8, MainJumps DEF MainLabels
  <2>2. QED
    BY <1>1, <1>8, <2>1, ServiceAssumption
       DEF MainGoes, ServiceInvariant, ServiceTyped, MainOK, WorkerOK, LatchOK, Denial,
           Place, Quiet, Started, LatchLabels, BeforeStart, Serving, Cycling, Stopped, Ending, Working
<1>9. CASE th["main"].pc = "FAILED" /\ Main("shutdown")
  <2>1. MainGoes("shutdown")
    BY <1>1, <1>9, MainJumps DEF MainLabels
  <2>2. QED
    BY <1>1, <1>9, <2>1, ServiceAssumption
       DEF MainGoes, ServiceInvariant, ServiceTyped, MainOK, WorkerOK, LatchOK, Denial,
           Place, Quiet, Started, LatchLabels, BeforeStart, Serving, Cycling, Stopped, Ending, Working
<1>10. QED
  BY <1>1, <1>2, <1>3, <1>4, <1>5, <1>6, <1>7, <1>8, <1>9

(* A heartbeat that is not acknowledged raises, or ends the process of an active cycle. *)
LEMMA UnacknowledgedStep ==
    ASSUME ServiceInvariant, Unacknowledged
    PROVE  ServiceInvariant'
<1>1. UNCHANGED <<comp, sup, deny, shut, calls, lost>> /\ th["main"].pc \in DOMAIN AfterBeat
  BY DEF Unacknowledged, ThreadAt, AfterBeat
<1>2. CASE th["main"].pc = "cycle_beat" /\ Main("deadline") /\ RunnerAborts
  <2>1. MainGoes("deadline")
    BY <1>1, <1>2, MainJumps DEF MainLabels
  <2>2. QED
    BY <1>1, <1>2, <2>1, ServiceAssumption
       DEF MainGoes, RunnerAborts, ServiceInvariant, ServiceTyped, MainOK, WorkerOK, LatchOK, Denial,
           Place, Quiet, Started, LatchLabels, BeforeStart, Serving, Cycling, Stopped, Ending, Working
<1>3. CASE th["main"].pc = "FAILED" /\ Main("shutdown") /\ UNCHANGED runner
  <2>1. MainGoes("shutdown")
    BY <1>1, <1>3, MainJumps DEF MainLabels
  <2>2. QED
    BY <1>1, <1>3, <2>1, ServiceAssumption
       DEF MainGoes, RunnerAborts, ServiceInvariant, ServiceTyped, MainOK, WorkerOK, LatchOK, Denial,
           Place, Quiet, Started, LatchLabels, BeforeStart, Serving, Cycling, Stopped, Ending, Working
<1>4. CASE /\ th["main"].pc \in DOMAIN AfterBeat \ {"cycle_beat", "FAILED"}
           /\ Main("except") /\ UNCHANGED runner
  <2>1. MainGoes("except")
    BY <1>1, <1>4, MainJumps DEF MainLabels
  <2>2. QED
    BY <1>1, <1>4, <2>1, ServiceAssumption
       DEF MainGoes, RunnerAborts, ServiceInvariant, ServiceTyped, MainOK, WorkerOK, LatchOK, Denial,
           Place, Quiet, Started, LatchLabels, BeforeStart, Serving, Cycling, Stopped, Ending, Working, AfterBeat
<1>5. QED
  BY <1>1, RunnerAborting, <1>2, <1>3, <1>4 DEF Unacknowledged, ThreadAt, AfterBeat

(* The composition is materialized, or the handler of run takes over. *)
LEMMA MaterializeStep ==
    ASSUME ServiceInvariant, Materialize
    PROVE  ServiceInvariant'
<1>1. UNCHANGED <<runner, comp, sup, deny, shut, calls, lost>> /\ th["main"].pc = "materialize"
  BY DEF Materialize, ThreadAt
<1>2. CASE Main("INITIALIZED")
  <2>1. MainGoes("INITIALIZED")
    BY <1>1, <1>2, MainJumps DEF MainLabels
  <2>2. QED
    BY <1>1, <1>2, <2>1, ServiceAssumption
       DEF MainGoes, ServiceInvariant, ServiceTyped, MainOK, WorkerOK, LatchOK, Denial,
           Place, Quiet, Started, LatchLabels, BeforeStart, Serving, Cycling, Stopped, Ending, Working
<1>3. CASE Main("except")
  <2>1. MainGoes("except")
    BY <1>1, <1>3, MainJumps DEF MainLabels
  <2>2. QED
    BY <1>1, <1>3, <2>1, ServiceAssumption
       DEF MainGoes, ServiceInvariant, ServiceTyped, MainOK, WorkerOK, LatchOK, Denial,
           Place, Quiet, Started, LatchLabels, BeforeStart, Serving, Cycling, Stopped, Ending, Working
<1>4. QED
  BY <1>1, <1>2, <1>3 DEF Materialize

(* The head of the loop over the cycles. *)
LEMMA NextCycleStep ==
    ASSUME ServiceInvariant, NextCycle
    PROVE  ServiceInvariant'
<1>1. UNCHANGED <<runner, comp, sup, deny, shut, calls, lost>> /\ th["main"].pc = "loop"
  BY DEF NextCycle, ThreadAt
<1>2. CASE Main("STOPPING")
  <2>1. MainGoes("STOPPING")
    BY <1>1, <1>2, MainJumps DEF MainLabels
  <2>2. QED
    BY <1>1, <1>2, <2>1, ServiceAssumption
       DEF MainGoes, ServiceInvariant, ServiceTyped, MainOK, WorkerOK, LatchOK, Denial,
           Place, Quiet, Started, LatchLabels, BeforeStart, Serving, Cycling, Stopped, Ending, Working
<1>3. CASE Main("launch")
  <2>1. MainGoes("launch")
    BY <1>1, <1>3, MainJumps DEF MainLabels
  <2>2. QED
    BY <1>1, <1>3, <2>1, ServiceAssumption
       DEF MainGoes, ServiceInvariant, ServiceTyped, MainOK, WorkerOK, LatchOK, Denial,
           Place, Quiet, Started, LatchLabels, BeforeStart, Serving, Cycling, Stopped, Ending, Working
<1>4. CASE Main("wait")
  <2>1. MainGoes("wait")
    BY <1>1, <1>4, MainJumps DEF MainLabels
  <2>2. QED
    BY <1>1, <1>4, <2>1, ServiceAssumption
       DEF MainGoes, ServiceInvariant, ServiceTyped, MainOK, WorkerOK, LatchOK, Denial,
           Place, Quiet, Started, LatchLabels, BeforeStart, Serving, Cycling, Stopped, Ending, Working
<1>5. QED
  BY <1>1, <1>2, <1>3, <1>4 DEF NextCycle

(* The wait for the next cycle. *)
LEMMA CadenceStep ==
    ASSUME ServiceInvariant, Cadence
    PROVE  ServiceInvariant'
<1>1. UNCHANGED <<runner, comp, sup, deny, shut, calls, lost>> /\ th["main"].pc = "wait"
  BY DEF Cadence, ThreadAt
<1>2. CASE Main("wait_beat")
  <2>1. MainGoes("wait_beat")
    BY <1>1, <1>2, MainJumps DEF MainLabels
  <2>2. QED
    BY <1>1, <1>2, <2>1, ServiceAssumption
       DEF MainGoes, ServiceInvariant, ServiceTyped, MainOK, WorkerOK, LatchOK, Denial,
           Place, Quiet, Started, LatchLabels, BeforeStart, Serving, Cycling, Stopped, Ending, Working
<1>3. CASE Main("launch")
  <2>1. MainGoes("launch")
    BY <1>1, <1>3, MainJumps DEF MainLabels
  <2>2. QED
    BY <1>1, <1>3, <2>1, ServiceAssumption
       DEF MainGoes, ServiceInvariant, ServiceTyped, MainOK, WorkerOK, LatchOK, Denial,
           Place, Quiet, Started, LatchLabels, BeforeStart, Serving, Cycling, Stopped, Ending, Working
<1>4. QED
  BY <1>1, <1>2, <1>3 DEF Cadence

(* The cycle has no result yet. *)
LEMMA ResultTimeoutStep ==
    ASSUME ServiceInvariant, ResultTimeout
    PROVE  ServiceInvariant'
<1>1. UNCHANGED <<runner, comp, sup, deny, shut, calls, lost>> /\ th["main"].pc = "cycle"
  BY DEF ResultTimeout, ThreadAt
<1>2. CASE Main("cycle_beat")
  <2>1. MainGoes("cycle_beat")
    BY <1>1, <1>2, MainJumps DEF MainLabels
  <2>2. QED
    BY <1>1, <1>2, <2>1, ServiceAssumption
       DEF MainGoes, ServiceInvariant, ServiceTyped, MainOK, WorkerOK, LatchOK, Denial,
           Place, Quiet, Started, LatchLabels, BeforeStart, Serving, Cycling, Stopped, Ending, Working
<1>3. QED
  BY <1>1, <1>2 DEF ResultTimeout

(* The deadline of the cycle has passed. *)
LEMMA DeadlineStep ==
    ASSUME ServiceInvariant, DeadlineExceeded
    PROVE  ServiceInvariant'
<1>1. UNCHANGED <<comp, sup, deny, shut, calls, lost>> /\ th["main"].pc = "cycle" /\ RunnerAborts
  BY Zenon DEF DeadlineExceeded, ThreadAt, RunnerAborts, ServiceInvariant, ServiceTyped
<1>2. CASE Main("deadline")
  <2>1. MainGoes("deadline")
    BY <1>1, <1>2, MainJumps DEF MainLabels
  <2>2. QED
    BY <1>1, <1>2, <2>1, ServiceAssumption
       DEF MainGoes, RunnerAborts, ServiceInvariant, ServiceTyped, MainOK, WorkerOK, LatchOK, Denial,
           Place, Quiet, Started, LatchLabels, BeforeStart, Serving, Cycling, Stopped, Ending, Working
<1>3. QED
  BY <1>1, <1>2 DEF DeadlineExceeded

(* The result of the cycle is taken. *)
LEMMA TakeResultStep ==
    ASSUME ServiceInvariant, TakeResult
    PROVE  ServiceInvariant'
<1>1. UNCHANGED <<comp, sup, deny, shut, calls, lost>> /\ th["main"].pc = "cycle"
  BY DEF TakeResult, ThreadAt
<1>2. CASE th["worker"].pc = "put_ok" /\ Main("RUNNING") /\ UNCHANGED runner
  <2>1. MainGoes("RUNNING")
    BY <1>1, <1>2, MainJumps DEF MainLabels
  <2>2. QED
    BY <1>1, <1>2, <2>1, ServiceAssumption
       DEF MainGoes, RunnerAborts, RunnerHandled, ServiceInvariant, ServiceTyped, MainOK, WorkerOK, LatchOK, Denial,
           Place, Quiet, Started, LatchLabels, BeforeStart, Serving, Cycling, Stopped, Ending, Working
<1>3. CASE Main("deadline") /\ RunnerAborts
  <2>1. MainGoes("deadline")
    BY <1>1, <1>3, MainJumps DEF MainLabels
  <2>2. QED
    BY <1>1, <1>3, <2>1, ServiceAssumption
       DEF MainGoes, RunnerAborts, RunnerHandled, ServiceInvariant, ServiceTyped, MainOK, WorkerOK, LatchOK, Denial,
           Place, Quiet, Started, LatchLabels, BeforeStart, Serving, Cycling, Stopped, Ending, Working
<1>4. CASE th["worker"].pc = "put_error" /\ Main("except") /\ RunnerHandled
  <2>1. MainGoes("except")
    BY <1>1, <1>4, MainJumps DEF MainLabels
  <2>2. QED
    BY <1>1, <1>4, <2>1, ServiceAssumption
       DEF MainGoes, RunnerAborts, RunnerHandled, ServiceInvariant, ServiceTyped, MainOK, WorkerOK, LatchOK, Denial,
           Place, Quiet, Started, LatchLabels, BeforeStart, Serving, Cycling, Stopped, Ending, Working
<1>5. QED
  BY <1>1, RunnerAborting, RunnerHandling, <1>2, <1>3, <1>4 DEF TakeResult, ThreadAt

(* os._exit, of the main thread or the watchdog. *)
LEMMA HardTerminateStep ==
    ASSUME ServiceInvariant, HardTerminate
    PROVE  ServiceInvariant'
<1>1. UNCHANGED <<runner, comp, sup, deny, shut, calls, lost>> /\ runner.abort
  BY DEF HardTerminate
<1>2. CASE Main("dead")
  <2>1. MainGoes("dead")
    BY <1>1, <1>2, MainJumps DEF MainLabels
  <2>2. QED
    BY <1>1, <1>2, <2>1, ServiceAssumption
       DEF MainGoes, ServiceInvariant, ServiceTyped, MainOK, WorkerOK, LatchOK, Denial,
           Place, Quiet, Started, LatchLabels, BeforeStart, Serving, Cycling, Stopped, Ending, Working
<1>3. QED
  BY <1>1, <1>2 DEF HardTerminate

(* run returns its receipts. *)
LEMMA ReturnStep ==
    ASSUME ServiceInvariant, Return
    PROVE  ServiceInvariant'
<1>1. UNCHANGED <<comp, sup, deny, shut, calls, lost>> /\ th["main"].pc = "return" /\ runner' = [runner EXCEPT !.started = FALSE, !.ended = "returned"]
  BY DEF Return, ThreadAt
<1>2. CASE Main("shutdown")
  <2>1. MainGoes("shutdown")
    BY <1>1, <1>2, MainJumps DEF MainLabels
  <2>2. QED
    BY Zenon, <1>1, <1>2, <2>1, ServiceAssumption
       DEF MainGoes, ServiceInvariant, ServiceTyped, MainOK, WorkerOK, LatchOK, Denial,
           Place, Quiet, Started, LatchLabels, BeforeStart, Serving, Cycling, Stopped, Ending, Working
<1>3. QED
  BY <1>1, <1>2 DEF Return

(* The handler of run latches, unless the failure was handled already. *)
LEMMA ExceptStep ==
    ASSUME ServiceInvariant, Except
    PROVE  ServiceInvariant'
<1>1. UNCHANGED <<comp, sup, deny, shut, lost>> /\ th["main"].pc = "except" /\ runner' = [runner EXCEPT !.ended = "raised"]
  BY DEF Except, ThreadAt
<1>2. CASE /\ runner.started /\ ~runner.handled
           /\ Latch("main", "FAILED") /\ calls' = calls + 1
  <2>1. MainBegins("FAILED")
    BY <1>1, <1>2, MainLatches DEF MainReturns
  <2>2. QED
    BY <1>1, <1>2, <2>1, ServiceAssumption
       DEF MainBegins, ServiceInvariant, ServiceTyped, MainOK, WorkerOK, LatchOK, Denial,
           Place, Quiet, Started, LatchLabels, BeforeStart, Serving, Cycling, Stopped, Ending, Working, MainReturns
<1>3. CASE /\ ~runner.started \/ runner.handled \/ runner.abort
           /\ Main("FAILED") /\ UNCHANGED calls
  <2>1. MainGoes("FAILED")
    BY <1>1, <1>3, MainJumps DEF MainLabels
  <2>2. QED
    BY <1>1, <1>3, <2>1, ServiceAssumption
       DEF MainGoes, ServiceInvariant, ServiceTyped, MainOK, WorkerOK, LatchOK, Denial,
           Place, Quiet, Started, LatchLabels, BeforeStart, Serving, Cycling, Stopped, Ending, Working
<1>4. QED
  BY <1>1, <1>2, <1>3 DEF Except

(* run_cycle begins on the worker. *)
LEMMA EnterStep ==
    ASSUME ServiceInvariant, Enter
    PROVE  ServiceInvariant'
<1>1. UNCHANGED <<runner, comp, sup, deny, shut, calls, lost>> /\ th["worker"].pc = "entry"
  BY DEF Enter, ThreadAt
<1>2. CASE comp.started /\ Jump("worker", "evidence")
  <2>1. WorkerGoes("evidence")
    BY ZenonT(20), <1>1, <1>2, WorkerJumps DEF WorkerLabels
  <2>2. QED
    BY <1>1, <1>2, <2>1, ServiceAssumption
       DEF WorkerGoes, ServiceInvariant, ServiceTyped, MainOK, WorkerOK, LatchOK, Denial,
           Place, Quiet, Started, LatchLabels, BeforeStart, Serving, Cycling, Stopped, Ending, Working
<1>3. CASE ~comp.started /\ Jump("worker", "put_error")
  <2>1. WorkerGoes("put_error")
    BY <1>1, <1>3, WorkerJumps DEF WorkerLabels
  <2>2. QED
    BY <1>1, <1>3, <2>1, ServiceAssumption
       DEF WorkerGoes, ServiceInvariant, ServiceTyped, MainOK, WorkerOK, LatchOK, Denial,
           Place, Quiet, Started, LatchLabels, BeforeStart, Serving, Cycling, Stopped, Ending, Working
<1>4. QED
  BY <1>1, <1>2, <1>3 DEF Enter

(* The evidence before and after the supervisor's cycle. *)
LEMMA CheckEvidenceStep ==
    ASSUME ServiceInvariant, CheckEvidence
    PROVE  ServiceInvariant'
<1>1. UNCHANGED <<runner, comp, sup, deny, shut, calls, lost>> /\ th["worker"].pc \in {"evidence", "attest"}
  BY ZenonT(20) DEF CheckEvidence, ThreadAt
<1>2. CASE Jump("worker", "run")
  <2>1. WorkerGoes("run")
    BY ZenonT(20), <1>1, <1>2, WorkerJumps DEF WorkerLabels
  <2>2. QED
    BY <1>1, <1>2, <2>1, ServiceAssumption
       DEF WorkerGoes, ServiceInvariant, ServiceTyped, MainOK, WorkerOK, LatchOK, Denial,
           Place, Quiet, Started, LatchLabels, BeforeStart, Serving, Cycling, Stopped, Ending, Working
<1>3. CASE Jump("worker", "put_ok")
  <2>1. WorkerGoes("put_ok")
    BY ZenonT(20), <1>1, <1>3, WorkerJumps DEF WorkerLabels
  <2>2. QED
    BY <1>1, <1>3, <2>1, ServiceAssumption
       DEF WorkerGoes, ServiceInvariant, ServiceTyped, MainOK, WorkerOK, LatchOK, Denial,
           Place, Quiet, Started, LatchLabels, BeforeStart, Serving, Cycling, Stopped, Ending, Working
<1>4. CASE Jump("worker", "cycle_abort")
  <2>1. WorkerGoes("cycle_abort")
    BY <1>1, <1>4, WorkerJumps DEF WorkerLabels
  <2>2. QED
    BY <1>1, <1>4, <2>1, ServiceAssumption
       DEF WorkerGoes, ServiceInvariant, ServiceTyped, MainOK, WorkerOK, LatchOK, Denial,
           Place, Quiet, Started, LatchLabels, BeforeStart, Serving, Cycling, Stopped, Ending, Working
<1>5. QED
  BY <1>1, <1>2, <1>3, <1>4 DEF CheckEvidence

(* The supervisor's cycle on the worker. *)
LEMMA RunCycleStep ==
    ASSUME ServiceInvariant, RunCycle
    PROVE  ServiceInvariant'
<1>1. UNCHANGED <<runner, comp, sup, deny, shut, calls, lost>> /\ th["worker"].pc = "run"
  BY ZenonT(20) DEF RunCycle, ThreadAt
<1>2. CASE Jump("worker", "attest")
  <2>1. WorkerGoes("attest")
    BY ZenonT(20), <1>1, <1>2, WorkerJumps DEF WorkerLabels
  <2>2. QED
    BY <1>1, <1>2, <2>1, ServiceAssumption
       DEF WorkerGoes, ServiceInvariant, ServiceTyped, MainOK, WorkerOK, LatchOK, Denial,
           Place, Quiet, Started, LatchLabels, BeforeStart, Serving, Cycling, Stopped, Ending, Working
<1>3. CASE Jump("worker", "cycle_abort")
  <2>1. WorkerGoes("cycle_abort")
    BY ZenonT(20), <1>1, <1>3, WorkerJumps DEF WorkerLabels
  <2>2. QED
    BY <1>1, <1>3, <2>1, ServiceAssumption
       DEF WorkerGoes, ServiceInvariant, ServiceTyped, MainOK, WorkerOK, LatchOK, Denial,
           Place, Quiet, Started, LatchLabels, BeforeStart, Serving, Cycling, Stopped, Ending, Working
<1>4. CASE Latch("worker", "cycle_abort")
  <2>1. WorkerBegins("cycle_abort")
    BY <1>1, <1>4, WorkerLatches
  <2>2. QED
    BY <1>1, <1>4, <2>1, ServiceAssumption
       DEF WorkerBegins, ServiceInvariant, ServiceTyped, MainOK, WorkerOK, LatchOK, Denial,
           Place, Quiet, Started, LatchLabels, BeforeStart, Serving, Cycling, Stopped, Ending, Working
<1>5. QED
  BY <1>1, <1>2, <1>3, <1>4 DEF RunCycle

(* The exception leaves run_cycle. *)
LEMMA CycleFailedStep ==
    ASSUME ServiceInvariant, CycleFailed
    PROVE  ServiceInvariant'
<1>1. UNCHANGED <<runner, sup, deny, shut, calls, lost>> /\ th["worker"].pc = "cycle_failed" /\ CompStops
  BY Zenon DEF CycleFailed, ThreadAt, CompStops, ServiceInvariant, ServiceTyped
<1>2. CASE Jump("worker", "put_error")
  <2>1. WorkerGoes("put_error")
    BY <1>1, <1>2, WorkerJumps DEF WorkerLabels
  <2>2. QED
    BY <1>1, <1>2, <2>1, ServiceAssumption
       DEF WorkerGoes, CompStops, ServiceInvariant, ServiceTyped, MainOK, WorkerOK, LatchOK, Denial,
           Place, Quiet, Started, LatchLabels, BeforeStart, Serving, Cycling, Stopped, Ending, Working
<1>3. QED
  BY <1>1, <1>2 DEF CycleFailed

(* The finally clause of run. *)
LEMMA ShutdownStep ==
    ASSUME ServiceInvariant, Shutdown
    PROVE  ServiceInvariant'
<1>1. UNCHANGED <<runner, deny, calls, lost>> /\ th["main"].pc \in {"shutdown", "close"}
  BY ZenonT(20) DEF Shutdown, ThreadAt
<1>2. CASE /\ sup.owner /\ sup' = [state |-> "STOPPED", owner |-> FALSE] /\ shut' = TRUE
           /\ th["main"].pc = "shutdown" /\ comp.started /\ Main("close") /\ UNCHANGED comp
  <2>1. MainGoes("close")
    BY <1>1, <1>2, MainJumps DEF MainLabels
  <2>2. QED
    BY <1>1, <1>2, <2>1, ServiceAssumption
       DEF MainGoes, CompStops, ServiceInvariant, ServiceTyped, MainOK, WorkerOK, LatchOK, Denial,
           Place, Quiet, Started, LatchLabels, BeforeStart, Serving, Cycling, Stopped, Ending, Working
<1>3. CASE /\ th["main"].pc = "shutdown" /\ comp.started /\ sup.owner
           /\ Latch("main", "close") /\ UNCHANGED <<sup, shut, comp>>
  <2>1. MainBegins("close")
    BY <1>1, <1>3, MainLatches DEF MainReturns
  <2>2. QED
    BY <1>1, <1>3, <2>1, ServiceAssumption
       DEF MainBegins, CompStops, ServiceInvariant, ServiceTyped, MainOK, WorkerOK, LatchOK, Denial,
           Place, Quiet, Started, LatchLabels, BeforeStart, Serving, Cycling, Stopped, Ending, Working, MainReturns
<1>4. CASE /\ ~sup.owner /\ UNCHANGED shut
           /\ sup' = IF sup.state = "STOPPED_CRITICAL" THEN sup ELSE [sup EXCEPT !.state = "STOPPED"]
           /\ th["main"].pc = "shutdown" /\ comp.started /\ Main("close") /\ UNCHANGED comp
  <2>1. MainGoes("close")
    BY ZenonT(20), <1>1, <1>4, MainJumps DEF MainLabels
  <2>2. QED
    BY <1>1, <1>4, <2>1, ServiceAssumption
       DEF MainGoes, CompStops, ServiceInvariant, ServiceTyped, MainOK, WorkerOK, LatchOK, Denial,
           Place, Quiet, Started, LatchLabels, BeforeStart, Serving, Cycling, Stopped, Ending, Working
<1>5. CASE /\ th["main"].pc = "shutdown" /\ ~comp.started
           /\ Main("close") /\ UNCHANGED <<sup, shut, comp>>
  <2>1. MainGoes("close")
    BY ZenonT(20), <1>1, <1>5, MainJumps DEF MainLabels
  <2>2. QED
    BY <1>1, <1>5, <2>1, ServiceAssumption
       DEF MainGoes, CompStops, ServiceInvariant, ServiceTyped, MainOK, WorkerOK, LatchOK, Denial,
           Place, Quiet, Started, LatchLabels, BeforeStart, Serving, Cycling, Stopped, Ending, Working
<1>6. CASE /\ th["main"].pc = "close" /\ CompStops
           /\ Main("dead") /\ UNCHANGED <<sup, shut>>
  <2>1. MainGoes("dead")
    BY <1>1, <1>6, MainJumps DEF MainLabels
  <2>2. QED
    BY <1>1, <1>6, <2>1, ServiceAssumption
       DEF MainGoes, CompStops, ServiceInvariant, ServiceTyped, MainOK, WorkerOK, LatchOK, Denial,
           Place, Quiet, Started, LatchLabels, BeforeStart, Serving, Cycling, Stopped, Ending, Working
<1>7. QED
  BY Zenon, <1>1, CompStopping, <1>2, <1>3, <1>4, <1>5, <1>6 DEF Shutdown, StopSupervisor, ThreadAt

(* stop of the composition. *)
LEMMA StopCompositionStep ==
    ASSUME ServiceInvariant, StopComposition
    PROVE  ServiceInvariant'
<1>1. UNCHANGED <<deny, calls, lost>> /\ th["main"].pc \in {"stop", "stop_attest", "stop_failed"}
  BY DEF StopComposition, ThreadAt
<1>2. CASE /\ sup.owner /\ sup' = [state |-> "STOPPED", owner |-> FALSE] /\ shut' = TRUE
           /\ th["main"].pc = "stop" /\ Main("stop_attest") /\ UNCHANGED <<comp, runner>>
  <2>1. MainGoes("stop_attest")
    BY ZenonT(20), <1>1, <1>2, MainJumps DEF MainLabels
  <2>2. QED
    BY <1>1, <1>2, <2>1, ServiceAssumption
       DEF MainGoes, CompStops, RunnerHandled, ServiceInvariant, ServiceTyped, MainOK, WorkerOK, LatchOK, Denial,
           Place, Quiet, Started, LatchLabels, BeforeStart, Serving, Cycling, Stopped, Ending, Working
<1>3. CASE /\ th["main"].pc = "stop" /\ sup.owner
           /\ Latch("main", "stop_abort") /\ UNCHANGED <<sup, shut, comp, runner>>
  <2>1. MainBegins("stop_abort")
    BY <1>1, <1>3, MainLatches DEF MainReturns
  <2>2. QED
    BY <1>1, <1>3, <2>1, ServiceAssumption
       DEF MainBegins, CompStops, RunnerHandled, ServiceInvariant, ServiceTyped, MainOK, WorkerOK, LatchOK, Denial,
           Place, Quiet, Started, LatchLabels, BeforeStart, Serving, Cycling, Stopped, Ending, Working, MainReturns
<1>4. CASE /\ ~sup.owner /\ UNCHANGED shut
           /\ sup' = IF sup.state = "STOPPED_CRITICAL" THEN sup ELSE [sup EXCEPT !.state = "STOPPED"]
           /\ th["main"].pc = "stop" /\ Main("stop_abort") /\ UNCHANGED <<comp, runner>>
  <2>1. MainGoes("stop_abort")
    BY ZenonT(20), <1>1, <1>4, MainJumps DEF MainLabels
  <2>2. QED
    BY <1>1, <1>4, <2>1, ServiceAssumption
       DEF MainGoes, CompStops, RunnerHandled, ServiceInvariant, ServiceTyped, MainOK, WorkerOK, LatchOK, Denial,
           Place, Quiet, Started, LatchLabels, BeforeStart, Serving, Cycling, Stopped, Ending, Working
<1>5. CASE /\ th["main"].pc = "stop" /\ ~comp.started /\ Main("except")
           /\ RunnerHandled /\ UNCHANGED <<sup, shut, comp>>
  <2>1. MainGoes("except")
    BY ZenonT(20), <1>1, <1>5, MainJumps DEF MainLabels
  <2>2. QED
    BY <1>1, <1>5, <2>1, ServiceAssumption
       DEF MainGoes, CompStops, RunnerHandled, ServiceInvariant, ServiceTyped, MainOK, WorkerOK, LatchOK, Denial,
           Place, Quiet, Started, LatchLabels, BeforeStart, Serving, Cycling, Stopped, Ending, Working
<1>6. CASE /\ th["main"].pc = "stop_attest" /\ CompStops
           /\ Main("STOPPED") /\ UNCHANGED <<sup, shut, runner>>
  <2>1. MainGoes("STOPPED")
    BY ZenonT(20), <1>1, <1>6, MainJumps DEF MainLabels
  <2>2. QED
    BY <1>1, <1>6, <2>1, ServiceAssumption
       DEF MainGoes, CompStops, RunnerHandled, ServiceInvariant, ServiceTyped, MainOK, WorkerOK, LatchOK, Denial,
           Place, Quiet, Started, LatchLabels, BeforeStart, Serving, Cycling, Stopped, Ending, Working
<1>7. CASE /\ th["main"].pc = "stop_attest" /\ CompStops
           /\ Main("stop_abort") /\ UNCHANGED <<sup, shut, runner>>
  <2>1. MainGoes("stop_abort")
    BY ZenonT(20), <1>1, <1>7, MainJumps DEF MainLabels
  <2>2. QED
    BY <1>1, <1>7, <2>1, ServiceAssumption
       DEF MainGoes, CompStops, RunnerHandled, ServiceInvariant, ServiceTyped, MainOK, WorkerOK, LatchOK, Denial,
           Place, Quiet, Started, LatchLabels, BeforeStart, Serving, Cycling, Stopped, Ending, Working
<1>8. CASE /\ th["main"].pc = "stop_failed" /\ CompStops
           /\ RunnerHandled
           /\ Main("except") /\ UNCHANGED <<sup, shut>>
  <2>1. MainGoes("except")
    BY <1>1, <1>8, MainJumps DEF MainLabels
  <2>2. QED
    BY <1>1, <1>8, <2>1, ServiceAssumption
       DEF MainGoes, CompStops, RunnerHandled, ServiceInvariant, ServiceTyped, MainOK, WorkerOK, LatchOK, Denial,
           Place, Quiet, Started, LatchLabels, BeforeStart, Serving, Cycling, Stopped, Ending, Working
<1>9. QED
  BY Zenon, <1>1, RunnerHandling, CompStopping, <1>2, <1>3, <1>4, <1>5, <1>6, <1>7, <1>8 DEF StopComposition, StopSupervisor, ThreadAt

(* abort_fail_closed on the main thread, at the deadline or in stop. *)
LEMMA MainAbortStep ==
    ASSUME ServiceInvariant, AbortFailClosed("main")
    PROVE  ServiceInvariant'
<1>1. /\ UNCHANGED <<runner, sup, deny, shut, lost>>
      /\ th["main"].pc \in {"deadline", "stop_abort"}
      /\ (th["main"].pc = "deadline" =>
            IF comp.aborting \/ ~comp.started
            THEN comp' = [comp EXCEPT !.started = FALSE] /\ Main("exit") /\ UNCHANGED calls
            ELSE /\ comp' = [started |-> FALSE, aborting |-> TRUE]
                 /\ IF sup.state = "STOPPED_CRITICAL" THEN Main("exit") /\ UNCHANGED calls
                    ELSE Latch("main", "exit") /\ calls' = calls + 1)
      /\ (th["main"].pc = "stop_abort" =>
            IF comp.aborting \/ ~comp.started
            THEN comp' = [comp EXCEPT !.started = FALSE] /\ Main("stop_failed") /\ UNCHANGED calls
            ELSE /\ comp' = [started |-> FALSE, aborting |-> TRUE]
                 /\ IF sup.state = "STOPPED_CRITICAL" THEN Main("stop_failed") /\ UNCHANGED calls
                    ELSE Latch("main", "stop_failed") /\ calls' = calls + 1)
  BY DEF AbortFailClosed, ThreadAt, AfterAbort, ServiceInvariant, ServiceTyped, ThreadRecords, MainLabels, LatchLabels, BeforeStart, Serving, Cycling, Stopped, Ending, Main
<1>2. CASE /\ th["main"].pc = "deadline" /\ (comp.aborting \/ ~comp.started) /\ CompStops
           /\ Main("exit") /\ UNCHANGED calls
  <2>1. MainGoes("exit")
    BY <1>1, <1>2, MainJumps DEF MainLabels
  <2>2. QED
    BY <1>1, <1>2, <2>1, ServiceAssumption
       DEF MainGoes, CompStops, ServiceInvariant, ServiceTyped, MainOK, WorkerOK, LatchOK, Denial,
           Place, Quiet, Started, LatchLabels, BeforeStart, Serving, Cycling, Stopped, Ending, Working
<1>3. CASE /\ th["main"].pc = "deadline" /\ ~comp.aborting /\ comp.started /\ comp' = [started |-> FALSE, aborting |-> TRUE]
           /\ sup.state = "STOPPED_CRITICAL" /\ Main("exit") /\ UNCHANGED calls
  <2>1. MainGoes("exit")
    BY <1>1, <1>3, MainJumps DEF MainLabels
  <2>2. QED
    BY <1>1, <1>3, <2>1, ServiceAssumption
       DEF MainGoes, CompStops, ServiceInvariant, ServiceTyped, MainOK, WorkerOK, LatchOK, Denial,
           Place, Quiet, Started, LatchLabels, BeforeStart, Serving, Cycling, Stopped, Ending, Working
<1>4. CASE /\ th["main"].pc = "deadline" /\ ~comp.aborting /\ comp.started /\ comp' = [started |-> FALSE, aborting |-> TRUE]
           /\ sup.state # "STOPPED_CRITICAL" /\ Latch("main", "exit") /\ calls' = calls + 1
  <2>1. MainBegins("exit")
    BY <1>1, <1>4, MainLatches DEF MainReturns
  <2>2. QED
    BY <1>1, <1>4, <2>1, ServiceAssumption
       DEF MainBegins, CompStops, ServiceInvariant, ServiceTyped, MainOK, WorkerOK, LatchOK, Denial,
           Place, Quiet, Started, LatchLabels, BeforeStart, Serving, Cycling, Stopped, Ending, Working, MainReturns
<1>5. CASE /\ th["main"].pc = "stop_abort" /\ (comp.aborting \/ ~comp.started) /\ CompStops
           /\ Main("stop_failed") /\ UNCHANGED calls
  <2>1. MainGoes("stop_failed")
    BY <1>1, <1>5, MainJumps DEF MainLabels
  <2>2. QED
    BY <1>1, <1>5, <2>1, ServiceAssumption
       DEF MainGoes, CompStops, ServiceInvariant, ServiceTyped, MainOK, WorkerOK, LatchOK, Denial,
           Place, Quiet, Started, LatchLabels, BeforeStart, Serving, Cycling, Stopped, Ending, Working
<1>6. CASE /\ th["main"].pc = "stop_abort" /\ ~comp.aborting /\ comp.started /\ comp' = [started |-> FALSE, aborting |-> TRUE]
           /\ sup.state = "STOPPED_CRITICAL" /\ Main("stop_failed") /\ UNCHANGED calls
  <2>1. MainGoes("stop_failed")
    BY <1>1, <1>6, MainJumps DEF MainLabels
  <2>2. QED
    BY <1>1, <1>6, <2>1, ServiceAssumption
       DEF MainGoes, CompStops, ServiceInvariant, ServiceTyped, MainOK, WorkerOK, LatchOK, Denial,
           Place, Quiet, Started, LatchLabels, BeforeStart, Serving, Cycling, Stopped, Ending, Working
<1>7. CASE /\ th["main"].pc = "stop_abort" /\ ~comp.aborting /\ comp.started /\ comp' = [started |-> FALSE, aborting |-> TRUE]
           /\ sup.state # "STOPPED_CRITICAL" /\ Latch("main", "stop_failed") /\ calls' = calls + 1
  <2>1. MainBegins("stop_failed")
    BY <1>1, <1>7, MainLatches DEF MainReturns
  <2>2. QED
    BY <1>1, <1>7, <2>1, ServiceAssumption
       DEF MainBegins, CompStops, ServiceInvariant, ServiceTyped, MainOK, WorkerOK, LatchOK, Denial,
           Place, Quiet, Started, LatchLabels, BeforeStart, Serving, Cycling, Stopped, Ending, Working, MainReturns
<1>8. QED
  BY <1>1, CompStopping, <1>2, <1>3, <1>4, <1>5, <1>6, <1>7

(* abort_fail_closed on the worker, for the failure of the cycle. *)
LEMMA WorkerAbortStep ==
    ASSUME ServiceInvariant, th["main"].pc # "dead", AbortFailClosed("worker")
    PROVE  ServiceInvariant'
<1>1. /\ UNCHANGED <<runner, sup, deny, shut, lost>>
      /\ th["worker"].pc = "cycle_abort"
      /\ (th["worker"].pc = "cycle_abort" =>
            IF comp.aborting \/ ~comp.started
            THEN comp' = [comp EXCEPT !.started = FALSE] /\ Jump("worker", "cycle_failed") /\ UNCHANGED calls
            ELSE /\ comp' = [started |-> FALSE, aborting |-> TRUE]
                 /\ IF sup.state = "STOPPED_CRITICAL" THEN Jump("worker", "cycle_failed") /\ UNCHANGED calls
                    ELSE Latch("worker", "cycle_failed") /\ calls' = calls + 1)
  BY DEF AbortFailClosed, ThreadAt, AfterAbort, ServiceInvariant, ServiceTyped, ThreadRecords, WorkerLabels, LatchLabels, Working
<1>2. CASE /\ th["worker"].pc = "cycle_abort" /\ (comp.aborting \/ ~comp.started) /\ CompStops
           /\ Jump("worker", "cycle_failed") /\ UNCHANGED calls
  <2>1. WorkerGoes("cycle_failed")
    BY <1>1, <1>2, WorkerJumps DEF WorkerLabels
  <2>2. QED
    BY <1>1, <1>2, <2>1, ServiceAssumption
       DEF WorkerGoes, CompStops, ServiceInvariant, ServiceTyped, MainOK, WorkerOK, LatchOK, Denial,
           Place, Quiet, Started, LatchLabels, BeforeStart, Serving, Cycling, Stopped, Ending, Working
<1>3. CASE /\ th["worker"].pc = "cycle_abort" /\ ~comp.aborting /\ comp.started /\ comp' = [started |-> FALSE, aborting |-> TRUE]
           /\ sup.state = "STOPPED_CRITICAL" /\ Jump("worker", "cycle_failed") /\ UNCHANGED calls
  <2>1. WorkerGoes("cycle_failed")
    BY <1>1, <1>3, WorkerJumps DEF WorkerLabels
  <2>2. QED
    BY <1>1, <1>3, <2>1, ServiceAssumption
       DEF WorkerGoes, CompStops, ServiceInvariant, ServiceTyped, MainOK, WorkerOK, LatchOK, Denial,
           Place, Quiet, Started, LatchLabels, BeforeStart, Serving, Cycling, Stopped, Ending, Working
<1>4. CASE /\ th["worker"].pc = "cycle_abort" /\ ~comp.aborting /\ comp.started /\ comp' = [started |-> FALSE, aborting |-> TRUE]
           /\ sup.state # "STOPPED_CRITICAL" /\ Latch("worker", "cycle_failed") /\ calls' = calls + 1
  <2>1. WorkerBegins("cycle_failed")
    BY <1>1, <1>4, WorkerLatches
  <2>2. QED
    BY <1>1, <1>4, <2>1, ServiceAssumption
       DEF WorkerBegins, CompStops, ServiceInvariant, ServiceTyped, MainOK, WorkerOK, LatchOK, Denial,
           Place, Quiet, Started, LatchLabels, BeforeStart, Serving, Cycling, Stopped, Ending, Working, MainReturns
<1>5. QED
  BY <1>1, CompStopping, <1>2, <1>3, <1>4

(* The latch of the main thread writes to the store, then to the journal. *)
LEMMA MainPersistStep ==
    ASSUME ServiceInvariant, Persist("main")
    PROVE  ServiceInvariant'
<1>1. UNCHANGED <<runner, comp, sup, shut, calls>> /\ th["main"].pc \in {"latch_store", "latch_journal"}
  BY ZenonT(20) DEF Persist, ThreadAt
<1>2. CASE /\ th["main"].pc = "latch_store" /\ Main("latch_journal")
           /\ deny' = deny \cup {"store"} /\ UNCHANGED lost
  <2>1. MainGoes("latch_journal")
    BY ZenonT(20), <1>1, <1>2, MainJumps DEF MainLabels
  <2>2. QED
    BY <1>1, <1>2, <2>1, ServiceAssumption
       DEF MainGoes, ServiceInvariant, ServiceTyped, MainOK, WorkerOK, LatchOK, Denial,
           Place, Quiet, Started, LatchLabels, BeforeStart, Serving, Cycling, Stopped, Ending, Working
<1>3. CASE /\ th["main"].pc = "latch_store" /\ Main("latch_journal")
           /\ lost < MaxLost /\ lost' = lost + 1 /\ UNCHANGED deny
  <2>1. MainGoes("latch_journal")
    BY ZenonT(20), <1>1, <1>3, MainJumps DEF MainLabels
  <2>2. QED
    BY <1>1, <1>3, <2>1, ServiceAssumption
       DEF MainGoes, ServiceInvariant, ServiceTyped, MainOK, WorkerOK, LatchOK, Denial,
           Place, Quiet, Started, LatchLabels, BeforeStart, Serving, Cycling, Stopped, Ending, Working
<1>4. CASE /\ th["main"].pc = "latch_journal" /\ Main("latch_state")
           /\ deny' = deny \cup {"journal"} /\ UNCHANGED lost
  <2>1. MainGoes("latch_state")
    BY ZenonT(20), <1>1, <1>4, MainJumps DEF MainLabels
  <2>2. QED
    BY <1>1, <1>4, <2>1, ServiceAssumption
       DEF MainGoes, ServiceInvariant, ServiceTyped, MainOK, WorkerOK, LatchOK, Denial,
           Place, Quiet, Started, LatchLabels, BeforeStart, Serving, Cycling, Stopped, Ending, Working
<1>5. CASE /\ th["main"].pc = "latch_journal" /\ Main("latch_state")
           /\ lost < MaxLost /\ lost' = lost + 1 /\ UNCHANGED deny
  <2>1. MainGoes("latch_state")
    BY <1>1, <1>5, MainJumps DEF MainLabels
  <2>2. QED
    BY SMTT(30), <1>1, <1>5, <2>1, ServiceAssumption
       DEF MainGoes, ServiceInvariant, ServiceTyped, MainOK, WorkerOK, LatchOK, Denial,
           Place, Quiet, Started, LatchLabels, BeforeStart, Serving, Cycling, Stopped, Ending, Working
<1>6. QED
  BY <1>1, <1>2, <1>3, <1>4, <1>5 DEF Persist, ThreadAt, Main

(* The latch of the main thread makes the supervisor critical. *)
LEMMA MainCriticalStep ==
    ASSUME ServiceInvariant, MarkCritical("main")
    PROVE  ServiceInvariant'
<1>1. UNCHANGED <<runner, comp, deny, shut, calls, lost>> /\ th["main"].pc = "latch_state" /\ sup' = [sup EXCEPT !.state = "STOPPED_CRITICAL"]
  BY DEF MarkCritical, ThreadAt
<1>2. CASE Main("latch_release")
  <2>1. MainGoes("latch_release")
    BY <1>1, <1>2, MainJumps DEF MainLabels
  <2>2. QED
    BY <1>1, <1>2, <2>1, ServiceAssumption
       DEF MainGoes, ServiceInvariant, ServiceTyped, MainOK, WorkerOK, LatchOK, Denial,
           Place, Quiet, Started, LatchLabels, BeforeStart, Serving, Cycling, Stopped, Ending, Working
<1>3. QED
  BY <1>1, <1>2 DEF MarkCritical, Main

(* The latch of the worker writes to the store, then to the journal. *)
LEMMA WorkerPersistStep ==
    ASSUME ServiceInvariant, th["main"].pc # "dead", Persist("worker")
    PROVE  ServiceInvariant'
<1>1. UNCHANGED <<runner, comp, sup, shut, calls>> /\ th["worker"].pc \in {"latch_store", "latch_journal"}
  BY ZenonT(20) DEF Persist, ThreadAt
<1>2. CASE /\ th["worker"].pc = "latch_store" /\ Jump("worker", "latch_journal")
           /\ deny' = deny \cup {"store"} /\ UNCHANGED lost
  <2>1. WorkerGoes("latch_journal")
    BY ZenonT(20), <1>1, <1>2, WorkerJumps DEF WorkerLabels
  <2>2. QED
    BY <1>1, <1>2, <2>1, ServiceAssumption
       DEF WorkerGoes, ServiceInvariant, ServiceTyped, MainOK, WorkerOK, LatchOK, Denial,
           Place, Quiet, Started, LatchLabels, BeforeStart, Serving, Cycling, Stopped, Ending, Working
<1>3. CASE /\ th["worker"].pc = "latch_store" /\ Jump("worker", "latch_journal")
           /\ lost < MaxLost /\ lost' = lost + 1 /\ UNCHANGED deny
  <2>1. WorkerGoes("latch_journal")
    BY Zenon, <1>1, <1>3, WorkerJumps DEF WorkerLabels
  <2>2. QED
    BY <1>1, <1>3, <2>1, ServiceAssumption
       DEF WorkerGoes, ServiceInvariant, ServiceTyped, MainOK, WorkerOK, LatchOK, Denial,
           Place, Quiet, Started, LatchLabels, BeforeStart, Serving, Cycling, Stopped, Ending, Working
<1>4. CASE /\ th["worker"].pc = "latch_journal" /\ Jump("worker", "latch_state")
           /\ deny' = deny \cup {"journal"} /\ UNCHANGED lost
  <2>1. WorkerGoes("latch_state")
    BY Zenon, <1>1, <1>4, WorkerJumps DEF WorkerLabels
  <2>2. QED
    BY <1>1, <1>4, <2>1, ServiceAssumption
       DEF WorkerGoes, ServiceInvariant, ServiceTyped, MainOK, WorkerOK, LatchOK, Denial,
           Place, Quiet, Started, LatchLabels, BeforeStart, Serving, Cycling, Stopped, Ending, Working
<1>5. CASE /\ th["worker"].pc = "latch_journal" /\ Jump("worker", "latch_state")
           /\ lost < MaxLost /\ lost' = lost + 1 /\ UNCHANGED deny
  <2>1. WorkerGoes("latch_state")
    BY <1>1, <1>5, WorkerJumps DEF WorkerLabels
  <2>2. QED
    BY <1>1, <1>5, <2>1, ServiceAssumption
       DEF WorkerGoes, ServiceInvariant, ServiceTyped, MainOK, WorkerOK, LatchOK, Denial,
           Place, Quiet, Started, LatchLabels, BeforeStart, Serving, Cycling, Stopped, Ending, Working
<1>6. QED
  BY <1>1, <1>2, <1>3, <1>4, <1>5 DEF Persist, ThreadAt

(* The latch of the worker makes the supervisor critical. *)
LEMMA WorkerCriticalStep ==
    ASSUME ServiceInvariant, th["main"].pc # "dead", MarkCritical("worker")
    PROVE  ServiceInvariant'
<1>1. UNCHANGED <<runner, comp, deny, shut, calls, lost>> /\ th["worker"].pc = "latch_state" /\ sup' = [sup EXCEPT !.state = "STOPPED_CRITICAL"]
  BY DEF MarkCritical, ThreadAt
<1>2. CASE Jump("worker", "latch_release")
  <2>1. WorkerGoes("latch_release")
    BY <1>1, <1>2, WorkerJumps DEF WorkerLabels
  <2>2. QED
    BY <1>1, <1>2, <2>1, ServiceAssumption
       DEF WorkerGoes, ServiceInvariant, ServiceTyped, MainOK, WorkerOK, LatchOK, Denial,
           Place, Quiet, Started, LatchLabels, BeforeStart, Serving, Cycling, Stopped, Ending, Working
<1>3. QED
  BY <1>1, <1>2 DEF MarkCritical

(* The latch of the main thread releases the lease and returns. *)
LEMMA MainReleaseStep ==
    ASSUME ServiceInvariant, DropLease("main")
    PROVE  ServiceInvariant'
<1>1. /\ UNCHANGED <<runner, comp, deny, shut, calls, lost>>
      /\ th["main"].pc = "latch_release"
      /\ Main(th["main"].ret)
      /\ th["main"].ret \in {"except", "exit", "stop_abort", "stop_failed", "FAILED", "close"}
  BY DEF DropLease, ThreadAt, Main, ServiceInvariant, MainOK, LatchLabels, MainReturns
<1>2. /\ sup' \in [state : {"CREATED", "READY", "STOPPED", "STOPPED_CRITICAL"}, owner : BOOLEAN]
      /\ sup'.state = sup.state /\ ~sup'.owner
  BY Zenon DEF DropLease, ServiceInvariant, ServiceTyped
<1>3. CASE th["main"].ret = "except" /\ Main("except")
  <2>1. MainGoes("except")
    BY ZenonT(20), <1>1, <1>3, MainJumps DEF MainLabels
  <2>2. QED
    BY <1>1, <1>2, <1>3, <2>1, ServiceAssumption
       DEF MainGoes, ServiceInvariant, ServiceTyped, MainOK, WorkerOK, LatchOK, Denial,
           Place, Quiet, Started, LatchLabels, BeforeStart, Serving, Cycling, Stopped, Ending, Working
<1>4. CASE th["main"].ret = "exit" /\ Main("exit")
  <2>1. MainGoes("exit")
    BY ZenonT(20), <1>1, <1>4, MainJumps DEF MainLabels
  <2>2. QED
    BY <1>1, <1>2, <1>4, <2>1, ServiceAssumption
       DEF MainGoes, ServiceInvariant, ServiceTyped, MainOK, WorkerOK, LatchOK, Denial,
           Place, Quiet, Started, LatchLabels, BeforeStart, Serving, Cycling, Stopped, Ending, Working
<1>5. CASE th["main"].ret = "stop_abort" /\ Main("stop_abort")
  <2>1. MainGoes("stop_abort")
    BY Zenon, <1>1, <1>5, MainJumps DEF MainLabels
  <2>2. QED
    BY ZenonT(20), <1>1, <1>2, <1>5, <2>1, ServiceAssumption
       DEF MainGoes, ServiceInvariant, ServiceTyped, MainOK, WorkerOK, LatchOK, Denial,
           Place, Quiet, Started, LatchLabels, BeforeStart, Serving, Cycling, Stopped, Ending, Working
<1>6. CASE th["main"].ret = "stop_failed" /\ Main("stop_failed")
  <2>1. MainGoes("stop_failed")
    BY Zenon, <1>1, <1>6, MainJumps DEF MainLabels
  <2>2. QED
    BY ZenonT(20), <1>1, <1>2, <1>6, <2>1, ServiceAssumption
       DEF MainGoes, ServiceInvariant, ServiceTyped, MainOK, WorkerOK, LatchOK, Denial,
           Place, Quiet, Started, LatchLabels, BeforeStart, Serving, Cycling, Stopped, Ending, Working
<1>7. CASE th["main"].ret = "FAILED" /\ Main("FAILED")
  <2>1. MainGoes("FAILED")
    BY Zenon, <1>1, <1>7, MainJumps DEF MainLabels
  <2>2. QED
    BY SMTT(30), <1>1, <1>2, <1>7, <2>1, ServiceAssumption
       DEF MainGoes, ServiceInvariant, ServiceTyped, MainOK, WorkerOK, LatchOK, Denial,
           Place, Quiet, Started, LatchLabels, BeforeStart, Serving, Cycling, Stopped, Ending, Working
<1>8. CASE th["main"].ret = "close" /\ Main("close")
  <2>1. MainGoes("close")
    BY <1>1, <1>8, MainJumps DEF MainLabels
  <2>2. QED
    BY SMTT(30), <1>1, <1>2, <1>8, <2>1, ServiceAssumption
       DEF MainGoes, ServiceInvariant, ServiceTyped, MainOK, WorkerOK, LatchOK, Denial,
           Place, Quiet, Started, LatchLabels, BeforeStart, Serving, Cycling, Stopped, Ending, Working
<1>9. QED
  BY <1>1, <1>3, <1>4, <1>5, <1>6, <1>7, <1>8

(* The latch of the worker releases the lease and returns. *)
LEMMA WorkerReleaseStep ==
    ASSUME ServiceInvariant, th["main"].pc # "dead", DropLease("worker")
    PROVE  ServiceInvariant'
<1>1. /\ UNCHANGED <<runner, comp, deny, shut, calls, lost>>
      /\ th["worker"].pc = "latch_release"
      /\ Jump("worker", th["worker"].ret)
      /\ th["worker"].ret \in {"cycle_abort", "cycle_failed"}
  BY DEF DropLease, ThreadAt, ServiceInvariant, WorkerOK, LatchLabels
<1>2. /\ sup' \in [state : {"CREATED", "READY", "STOPPED", "STOPPED_CRITICAL"}, owner : BOOLEAN]
      /\ sup'.state = sup.state /\ ~sup'.owner
  BY Zenon DEF DropLease, ServiceInvariant, ServiceTyped
<1>3. CASE th["worker"].ret = "cycle_abort" /\ Jump("worker", "cycle_abort")
  <2>1. WorkerGoes("cycle_abort")
    BY Zenon, <1>1, <1>3, WorkerJumps DEF WorkerLabels
  <2>2. QED
    BY SMTT(30), <1>1, <1>2, <1>3, <2>1, ServiceAssumption
       DEF WorkerGoes, ServiceInvariant, ServiceTyped, MainOK, WorkerOK, LatchOK, Denial,
           Place, Quiet, Started, LatchLabels, BeforeStart, Serving, Cycling, Stopped, Ending, Working
<1>4. CASE th["worker"].ret = "cycle_failed" /\ Jump("worker", "cycle_failed")
  <2>1. WorkerGoes("cycle_failed")
    BY <1>1, <1>4, WorkerJumps DEF WorkerLabels
  <2>2. QED
    BY SMTT(30), <1>1, <1>2, <1>4, <2>1, ServiceAssumption
       DEF WorkerGoes, ServiceInvariant, ServiceTyped, MainOK, WorkerOK, LatchOK, Denial,
           Place, Quiet, Started, LatchLabels, BeforeStart, Serving, Cycling, Stopped, Ending, Working
<1>5. QED
  BY <1>1, <1>3, <1>4

(* The worker of the next cycle is launched, unless a stop was requested. *)
LEMMA LaunchCycleStep ==
    ASSUME ServiceInvariant, LaunchCycle
    PROVE  ServiceInvariant'
<1>1. UNCHANGED <<runner, comp, sup, deny, shut, calls, lost>> /\ th["main"].pc = "launch"
  BY ZenonT(20) DEF LaunchCycle, ThreadAt
<1>2. CASE Main("STOPPING")
  <2>1. MainGoes("STOPPING")
    BY Zenon, <1>1, <1>2, MainJumps DEF MainLabels
  <2>2. QED
    BY <1>1, <2>1
       DEF ServiceInvariant, ServiceTyped, MainOK, WorkerOK, LatchOK, Denial, Place, Quiet, Started,
           LatchLabels, BeforeStart, Serving, Cycling, Stopped, Ending, Working, MainGoes
<1>3. CASE th' = [main |-> [th["main"] EXCEPT !.pc = "cycle"], worker |-> [pc |-> "entry", ret |-> "none"]]
  <2>1. /\ th' \in ThreadRecords /\ th'["main"].pc = "cycle" /\ th'["main"].ret = th["main"].ret
        /\ th'["worker"].pc = "entry"
    BY Zenon, <1>3 DEF ServiceInvariant, ServiceTyped, ThreadRecords, LatchLabels, Cycling, Working, MainLabels, WorkerLabels
  <2>2. QED
    BY <1>1, <2>1
       DEF ServiceInvariant, ServiceTyped, MainOK, WorkerOK, LatchOK, Denial, Place, Quiet, Started,
           LatchLabels, BeforeStart, Serving, Cycling, Stopped, Ending, Working
<1>4. QED
  BY <1>2, <1>3 DEF LaunchCycle

(* Whatever leaves the threads, their flags, the supervisor, the latches and the count
   of aborts alone leaves the invariant. *)
LEMMA ServiceUndisturbed ==
    ASSUME ServiceInvariant, UNCHANGED <<th, runner, comp, sup, deny, shut, calls, lost>>
    PROVE  ServiceInvariant'
BY SMTT(30) DEF ServiceInvariant, ServiceTyped, MainOK, WorkerOK, LatchOK, Denial, Place, Quiet, Started

(* The service before its first heartbeat. *)
LEMMA ServiceStarts == ServiceInit => ServiceInvariant
<1>1. SUFFICES ASSUME ServiceInit PROVE ServiceInvariant
  OBVIOUS
<1>2. /\ th["main"].pc = "STARTING" /\ th["main"].ret = "none" /\ th["worker"].pc = "none"
      /\ sup.state = "CREATED" /\ ~sup.owner /\ ~comp.started /\ ~comp.aborting
      /\ ~runner.started /\ ~runner.handled /\ ~runner.abort /\ runner.ended = "no"
      /\ calls = 0
  BY <1>1 DEF ServiceInit
<1>3. ServiceTyped
  <2>1. th \in ThreadRecords
    BY <1>1 DEF ServiceInit, ThreadRecords, MainLabels, WorkerLabels, BeforeStart
  <2>2. /\ runner \in [started : BOOLEAN, handled : BOOLEAN, abort : BOOLEAN, ended : {"no", "returned", "raised"}]
        /\ comp \in [started : BOOLEAN, aborting : BOOLEAN]
        /\ sup \in [state : {"CREATED", "READY", "STOPPED", "STOPPED_CRITICAL"}, owner : BOOLEAN]
    BY <1>1 DEF ServiceInit
  <2>3. shut \in BOOLEAN /\ deny \subseteq {"store", "journal"}
    BY Zenon, <1>1 DEF ServiceInit
  <2>4. calls \in Nat /\ lost \in Nat /\ lost <= MaxLost
    BY <1>1, ServiceAssumption DEF ServiceInit
  <2>5. QED
    BY <2>1, <2>2, <2>3, <2>4 DEF ServiceTyped
<1>4. QED
  BY <1>2, <1>3 DEF ServiceInvariant, MainOK, WorkerOK, LatchOK, Place, Quiet, LatchLabels, BeforeStart, Serving,
        Cycling, Stopped, Ending, MainReturns

(* Every step of both threads keeps the invariant. *)
LEMMA ServiceInductive == ServiceInvariant /\ [ServiceNext]_svcVars => ServiceInvariant'
<1>1. SUFFICES ASSUME ServiceInvariant, [ServiceNext]_svcVars PROVE ServiceInvariant'
  OBVIOUS
<1>2. CASE MainThread
  <2>1. CASE Fails("main")
    BY <1>1, <2>1, MainPersistStep, MainCriticalStep, MainReleaseStep, MainAbortStep DEF Fails
  <2>2. QED
    BY <1>1, <1>2, <2>1, AcknowledgedStep, UnacknowledgedStep, MaterializeStep, StartCompositionStep, NextCycleStep,
       CadenceStep, LaunchCycleStep, ResultTimeoutStep, DeadlineStep, TakeResultStep, HardTerminateStep,
       StopCompositionStep, ReturnStep, ExceptStep, ShutdownStep DEF MainThread
<1>3. CASE WorkerThread
  <2>1. th["main"].pc # "dead" /\ (Worker \/ Fails("worker"))
    BY <1>3 DEF WorkerThread, Terminated, ThreadAt
  <2>2. CASE Worker
    BY <1>1, <2>2, EnterStep, CheckEvidenceStep, RunCycleStep, CycleFailedStep DEF Worker
  <2>3. CASE Fails("worker")
    BY <1>1, <2>1, <2>3, WorkerPersistStep, WorkerCriticalStep, WorkerReleaseStep, WorkerAbortStep DEF Fails
  <2>4. QED
    BY <2>1, <2>2, <2>3
<1>4. CASE RequestStop \/ UNCHANGED svcVars
  BY <1>1, <1>4, ServiceUndisturbed DEF RequestStop, svcVars
<1>5. QED
  BY <1>1, <1>2, <1>3, <1>4 DEF ServiceNext

(* The invariant holds in every state of the service. *)
LEMMA ServiceSafe == ServiceSpec => []ServiceInvariant
BY ServiceStarts, ServiceInductive, PTL DEF ServiceSpec

(* While a cycle's thread can still reach the broker, the main thread waits for it or
   is on its way to os._exit, however many cycles, heartbeats and lost writes there are
   (_run_cycle_with_deadline, _terminate_active_cycle). *)
THEOREM WorkerNeverOrphaned == ServiceSpec => []NoOrphanWorker
<1>1. ASSUME ServiceInvariant, WorkerActive
      PROVE  th["main"].pc \in {"cycle", "cycle_beat", "deadline", "exit"} \/ th["main"].ret = "exit"
  <2>1. Place(th["main"]) \in {"cycle", "cycle_beat", "deadline", "exit", "dead"} /\ th["main"].pc # "dead"
    BY <1>1 DEF ServiceInvariant, WorkerActive, Terminated, ThreadAt, MainOK, Quiet, Cycling
  <2>2. CASE th["main"].pc \in LatchLabels
    <3>1. th["main"].ret \in MainReturns
      BY <1>1, <2>2 DEF ServiceInvariant, MainOK
    <3>2. QED
      BY ZenonT(20), <2>1, <2>2, <3>1 DEF Place, MainReturns
  <2>3. QED
    BY ZenonT(20), <2>1, <2>2 DEF Place
<1>2. ServiceInvariant => NoOrphanWorker
  BY <1>1 DEF NoOrphanWorker
<1>3. QED
  BY <1>2, ServiceSafe, PTL

(* The supervisor's state once it is critical. *)
LEMMA CriticalStays ==
    ASSUME ServiceInvariant, ServiceNext, sup.state = "STOPPED_CRITICAL"
    PROVE  sup'.state = "STOPPED_CRITICAL"
<1>1. sup \in [state : {"CREATED", "READY", "STOPPED", "STOPPED_CRITICAL"}, owner : BOOLEAN]
  BY DEF ServiceInvariant, ServiceTyped
<1>2. CASE UNCHANGED sup
  BY <1>2
<1>3. ASSUME NEW t \in Threads, MarkCritical(t) \/ DropLease(t)
      PROVE  sup'.state = "STOPPED_CRITICAL"
  BY <1>1, <1>3 DEF MarkCritical, DropLease
<1>4. CASE StartComposition
  BY <1>2, <1>4 DEF StartComposition, ThreadAt, ServiceInvariant, MainOK, BeforeStart
<1>5. ASSUME NEW a, NEW b, NEW c, StopSupervisor(a, b, c), th["main"].pc \in {"stop", "shutdown"}
      PROVE  sup'.state = "STOPPED_CRITICAL"
  <2>1. ~sup.owner
    BY <1>5 DEF ServiceInvariant, MainOK, Serving, Started, Quiet, Place, Cycling, LatchLabels
  <2>2. QED
    BY Zenon, <1>5, <2>1 DEF StopSupervisor
<1>6. CASE StopComposition \/ Shutdown
  BY <1>2, <1>5, <1>6 DEF StopComposition, Shutdown, ThreadAt
<1>7. CASE \E t \in Threads : Fails(t)
  BY <1>2, <1>3, <1>7 DEF Fails, Persist, AbortFailClosed
<1>8. CASE Worker \/ RequestStop
  BY <1>2, <1>8 DEF Worker, Enter, CheckEvidence, RunCycle, CycleFailed, RequestStop
<1>9. CASE \/ Acknowledged \/ Unacknowledged \/ Materialize \/ NextCycle \/ Cadence \/ LaunchCycle \/ ResultTimeout
           \/ DeadlineExceeded \/ TakeResult \/ HardTerminate \/ Return \/ Except
  BY <1>2, <1>9 DEF Acknowledged, Unacknowledged, Materialize, NextCycle, Cadence, LaunchCycle, ResultTimeout,
     DeadlineExceeded, TakeResult, HardTerminate, Return, Except
<1>10. QED
  BY <1>4, <1>6, <1>7, <1>8, <1>9 DEF ServiceNext, MainThread, WorkerThread, Threads

(* Whichever thread fails first, fail_closed is called at most once, and a critical stop
   is never rewritten as a clean one (abort_fail_closed, is_stopped_critical in stop). *)
THEOREM CriticalAbortOnce == ServiceSpec => OneCriticalAbort
<1>1. ServiceInvariant /\ [ServiceNext]_svcVars =>
          [calls' <= 1 /\ (sup.state = "STOPPED_CRITICAL" => sup'.state = "STOPPED_CRITICAL")]_svcVars
  <2>1. ServiceInvariant' => calls' <= 1
    BY DEF ServiceInvariant
  <2>2. QED
    BY <2>1, ServiceInductive, CriticalStays
<1>2. QED
  BY <1>1, ServiceSafe, PTL DEF ServiceSpec, OneCriticalAbort

(* A service that ended with an exception after its supervisor was started has left a
   durable denial or a SHUTDOWN receipt, as long as no more than one write of a latch
   was lost (the composition's abort and the handler of run leave the latch to each
   other). With two lost writes a single latch may leave nothing. *)
THEOREM FailureAlwaysDenied == MaxLost <= 1 => (ServiceSpec => []FailureIsDenied)
<1>1. SUFFICES ASSUME MaxLost <= 1 PROVE ServiceSpec => []FailureIsDenied
  BY ZenonT(20)
<1>2. ServiceInvariant => FailureIsDenied
  BY <1>1, ServiceAssumption DEF ServiceInvariant, FailureIsDenied, Terminated, ThreadAt, MainOK, Ending, Denial
<1>3. QED
  BY <1>2, ServiceSafe, PTL

----------------------------------------------------------------------------
(* The decision producer. *)
LaneNames == {"none"} \cup {Lanes[n] : n \in 1..Len(Lanes)}
Snaps == [lane : LaneNames, bar : Nat, data : Variants \cup {"none"}]
Advances == [snap : Snaps, state : {"PREPARED", "PUBLISHED"}, issued : Nat]
ServiceLabels == {"absent", "idle", "lane", "prepare", "publish", "record", "advance", "cas", "readback", "append"}
Producers == [pc : ServiceLabels, now : Nat, lane : 1..Len(Lanes), snap : Snaps,
              goal : {"none", "PREPARED", "PUBLISHED"}, prev : Seq(Advances), issued : Nat]

(* A lane's advances have a last one, their candles never go back, and one candle has
   one snapshot. *)
ChainOK(chain) ==
    /\ \A n \in DOMAIN chain : \E k \in DOMAIN chain :
        /\ chain[k].snap.lane = chain[n].snap.lane
        /\ \A m \in DOMAIN chain : chain[m].snap.lane = chain[n].snap.lane => m <= k
    /\ \A m, n \in DOMAIN chain : chain[m].snap.lane = chain[n].snap.lane =>
        /\ m <= n => chain[m].snap.bar <= chain[n].snap.bar
        /\ chain[m].snap.bar = chain[n].snap.bar => chain[m].snap = chain[n].snap

Within(snap, chain) == \E k \in DOMAIN chain : chain[k].snap = snap

(* What a service proposes. *)
Entry(x) == [snap |-> x.snap, state |-> x.goal, issued |-> x.issued]

ProducerOK(x, chain) ==
    /\ x.pc \in {"publish", "record"} => Within(x.snap, chain)
    /\ x.pc \in {"advance", "cas", "readback", "append"} => x.goal # "none"

(* How far a service that is alone has come with its advance. *)
InStep(x, chain, ext) ==
    /\ x.pc \in {"advance", "cas"} => ext = chain
    /\ x.pc \in {"cas", "readback", "append"} => x.prev = chain
    /\ x.pc \in {"readback", "append"} => ext = Append(x.prev, Entry(x))
    /\ x.pc \in {"advance", "cas", "readback", "append"} => ValidAdvance(chain, Entry(x))

Alone == late = {} /\ \A s, r \in Services : At(s, "absent") \/ At(r, "absent") \/ s = r

ProducerTyped ==
    /\ time \in Nat /\ local \in Seq(Advances) /\ external \in Seq(Advances)
    /\ late \subseteq [from : Seq(Advances), to : Seq(Advances)]
    /\ queue \in Seq(Snaps)
    /\ svc \in [Services -> Producers]

QueueOK(q, chain) ==
    /\ \A n \in DOMAIN q : Within(q[n], chain)
    /\ \A m, n \in DOMAIN q : q[m] = q[n] => m = n

ProducerInvariant ==
    /\ ProducerTyped
    /\ ChainOK(local)
    /\ QueueOK(queue, local)
    /\ \A s \in Services : ProducerOK(svc[s], local)
    /\ Alone => InSync /\ \A s \in Services : InStep(svc[s], local, external)

----------------------------------------------------------------------------
(* The cursor of a lane is its last advance. *)
LEMMA CursorIsLast ==
    ASSUME NEW chain \in Seq(Advances), NEW k \in DOMAIN chain,
           \A m \in DOMAIN chain : chain[m].snap.lane = chain[k].snap.lane => m <= k
    PROVE  Cursor(chain, chain[k].snap.lane) = chain[k]
<1> DEFINE mine == {n \in DOMAIN chain : chain[n].snap.lane = chain[k].snap.lane}
           last == CHOOSE n \in mine : \A m \in mine : m <= n
<1>1. k \in mine /\ mine # {} /\ \A n \in mine : n \in Nat
  OBVIOUS
<1>2. \E n \in mine : \A m \in mine : m <= n
  BY <1>1
<1>3. last \in mine /\ \A m \in mine : m <= last
  BY <1>2
<1>4. last = k
  BY <1>1, <1>3
<1>5. Cursor(chain, chain[k].snap.lane) = chain[last]
  BY <1>1 DEF Cursor
<1>6. QED
  BY <1>4, <1>5

(* A lane without advances has no cursor. *)
LEMMA CursorOfNone ==
    ASSUME NEW chain \in Seq(Advances), NEW lane, \A n \in DOMAIN chain : chain[n].snap.lane # lane
    PROVE  Cursor(chain, lane) = NoCursor
BY DEF Cursor

(* A cursor is an advance of its lane, and the lane's last. *)
LEMMA CursorFound ==
    ASSUME NEW chain \in Seq(Advances), ChainOK(chain), NEW lane, Cursor(chain, lane) # NoCursor
    PROVE  \E k \in DOMAIN chain :
              /\ Cursor(chain, lane) = chain[k] /\ chain[k] \in Advances /\ chain[k].snap.lane = lane
              /\ \A m \in DOMAIN chain : chain[m].snap.lane = lane => m <= k
<1>1. PICK n \in DOMAIN chain : chain[n].snap.lane = lane
  BY CursorOfNone
<1>2. PICK k \in DOMAIN chain :
        /\ chain[k].snap.lane = chain[n].snap.lane
        /\ \A m \in DOMAIN chain : chain[m].snap.lane = chain[n].snap.lane => m <= k
  BY DEF ChainOK
<1>3. Cursor(chain, chain[k].snap.lane) = chain[k]
  BY <1>1, <1>2, CursorIsLast
<1>4. QED
  BY <1>1, <1>2, <1>3

(* An advance is told from no cursor by its state. *)
LEMMA AdvanceIsNoNoCursor == ASSUME NEW a \in Advances PROVE a # NoCursor
BY DEF Advances, NoCursor

(* The candle of an advance is a number. *)
LEMMA AdvanceTyped == ASSUME NEW a \in Advances PROVE a.snap \in Snaps /\ a.snap.bar \in Nat
BY DEF Advances, Snaps

(* A valid successor keeps the chain in order (_verify_transition). *)
LEMMA SuccessorOK ==
    ASSUME NEW chain \in Seq(Advances), ChainOK(chain), NEW a \in Advances, ValidAdvance(chain, a)
    PROVE  Append(chain, a) \in Seq(Advances) /\ ChainOK(Append(chain, a))
<1> DEFINE next == Append(chain, a)
           top == Len(chain) + 1
<1>1. /\ next \in Seq(Advances) /\ DOMAIN next = 1..top /\ next[top] = a
      /\ DOMAIN chain = 1..Len(chain) /\ Len(chain) \in Nat
      /\ \A n \in DOMAIN chain : n \in DOMAIN next /\ next[n] = chain[n] /\ n <= top /\ n # top
  OBVIOUS
<1>2. \A n \in DOMAIN next : n = top \/ n \in DOMAIN chain
  BY <1>1
<1>3. a.snap \in Snaps /\ a.snap.bar \in Nat /\ \A n \in DOMAIN chain : chain[n].snap \in Snaps /\ chain[n].snap.bar \in Nat
  BY AdvanceTyped
<1>4. ASSUME NEW m \in DOMAIN chain, chain[m].snap.lane = a.snap.lane
      PROVE  /\ chain[m].snap.bar <= a.snap.bar
             /\ chain[m].snap.bar = a.snap.bar => chain[m].snap = a.snap
  <2>1. Cursor(chain, a.snap.lane) # NoCursor
    <3>1. PICK k \in DOMAIN chain :
            /\ chain[k].snap.lane = chain[m].snap.lane
            /\ \A j \in DOMAIN chain : chain[j].snap.lane = chain[m].snap.lane => j <= k
      BY DEF ChainOK
    <3>2. Cursor(chain, chain[k].snap.lane) = chain[k]
      BY <3>1, CursorIsLast
    <3>3. chain[k] # NoCursor
      BY AdvanceIsNoNoCursor
    <3>4. QED
      BY <1>4, <3>1, <3>2, <3>3
  <2>2. PICK k \in DOMAIN chain :
          /\ Cursor(chain, a.snap.lane) = chain[k] /\ chain[k] \in Advances /\ chain[k].snap.lane = a.snap.lane
          /\ \A j \in DOMAIN chain : chain[j].snap.lane = a.snap.lane => j <= k
    BY <2>1, CursorFound
  <2>3. chain[m].snap.bar <= chain[k].snap.bar /\ (chain[m].snap.bar = chain[k].snap.bar => chain[m].snap = chain[k].snap)
    BY <1>4, <2>2 DEF ChainOK
  <2>4. a.snap = chain[k].snap \/ a.snap.bar > chain[k].snap.bar
    BY <2>1, <2>2 DEF ValidAdvance
  <2>5. QED
    BY <1>3, <2>2, <2>3, <2>4
<1>5. \A n \in DOMAIN next : \E k \in DOMAIN next :
        /\ next[k].snap.lane = next[n].snap.lane
        /\ \A m \in DOMAIN next : next[m].snap.lane = next[n].snap.lane => m <= k
  <2>1. TAKE n \in DOMAIN next
  <2>2. CASE next[n].snap.lane = a.snap.lane
    BY <1>1, <1>2, <2>2
  <2>3. CASE next[n].snap.lane # a.snap.lane
    <3>1. n \in DOMAIN chain /\ next[n] = chain[n]
      BY <1>1, <1>2, <2>3
    <3>2. PICK k \in DOMAIN chain :
            /\ chain[k].snap.lane = chain[n].snap.lane
            /\ \A m \in DOMAIN chain : chain[m].snap.lane = chain[n].snap.lane => m <= k
      BY <3>1 DEF ChainOK
    <3>3. QED
      BY <1>1, <1>2, <2>3, <3>1, <3>2
  <2>4. QED
    BY <2>2, <2>3
<1>6. \A m, n \in DOMAIN next : next[m].snap.lane = next[n].snap.lane =>
        /\ m <= n => next[m].snap.bar <= next[n].snap.bar
        /\ next[m].snap.bar = next[n].snap.bar => next[m].snap = next[n].snap
  <2>1. TAKE m, n \in DOMAIN next
  <2>2. CASE m \in DOMAIN chain /\ n \in DOMAIN chain
    BY <1>1, <2>2 DEF ChainOK
  <2>3. CASE m \in DOMAIN chain /\ n = top
    BY <1>1, <1>4, <2>3
  <2>4. CASE m = top /\ n \in DOMAIN chain
    BY <1>1, <1>4, <2>4
  <2>5. CASE m = top /\ n = top
    BY <1>1, <1>3, <2>5
  <2>6. QED
    BY <1>2, <2>2, <2>3, <2>4, <2>5
<1>7. QED
  BY Zenon, <1>1, <1>5, <1>6 DEF ChainOK

(* What the chain holds, its successor holds. *)
LEMMA WithinSuccessor ==
    ASSUME NEW chain \in Seq(Advances), NEW a \in Advances, NEW snap, Within(snap, chain)
    PROVE  Within(snap, Append(chain, a))
BY DEF Within

(* _synchronize_external imports the valid successor, if there is one. *)
LEMMA Synchronized ==
    ASSUME ProducerInvariant, Synchronize
    PROVE  /\ local' = external /\ ChainOK(external)
           /\ \A snap : Within(snap, local) => Within(snap, external)
<1>1. local \in Seq(Advances) /\ external \in Seq(Advances) /\ ChainOK(local) /\ InSync /\ local' = external
  BY DEF ProducerInvariant, ProducerTyped, Synchronize
<1>2. CASE external = local
  BY <1>1, <1>2
<1>3. CASE MissedSuccessor
  <2> DEFINE a == external[Len(external)]
  <2>1. a \in Advances /\ external = Append(local, a) /\ ValidAdvance(local, a)
    BY <1>1, <1>3 DEF MissedSuccessor
  <2> HIDE DEF a
  <2>2. QED
    BY <1>1, <2>1, SuccessorOK, WithinSuccessor
<1>4. QED
  BY <1>1, <1>2, <1>3 DEF InSync

----------------------------------------------------------------------------
(* What the invariant says of one service. *)
LEMMA ProducerFacts ==
    ASSUME ProducerInvariant, NEW s \in Services
    PROVE  /\ svc[s] \in Producers /\ ProducerOK(svc[s], local) /\ DOMAIN svc = Services
           /\ local \in Seq(Advances) /\ external \in Seq(Advances) /\ queue \in Seq(Snaps) /\ time \in Nat
           /\ ChainOK(local) /\ QueueOK(queue, local)
           /\ Alone => InSync /\ InStep(svc[s], local, external)
BY DEF ProducerInvariant, ProducerTyped

(* Services are only added, and requests left behind never return: who is alone was
   alone before. *)
LEMMA AloneBefore ==
    ASSUME ProducerInvariant, NEW s \in Services, NEW x, x.pc # "absent",
           svc' = [svc EXCEPT ![s] = x], late \subseteq late'
    PROVE  Alone' => /\ Alone
                     /\ \A r \in Services : r # s => svc'[r].pc = "absent"
<1>1. svc'[s] = x /\ \A r \in Services : r # s => svc'[r] = svc[r]
  BY DEF ProducerInvariant, ProducerTyped
<1>2. late' = {} => late = {}
  OBVIOUS
<1>3. QED
  BY <1>1, <1>2 DEF Alone, At

(* A service moves to x, and the chains and the queue to what fits x. *)
LEMMA ServiceMoves ==
    ASSUME ProducerInvariant, NEW s \in Services, NEW x \in Producers, x.pc # "absent",
           svc' = [svc EXCEPT ![s] = x],
           time' \in Nat, local' \in Seq(Advances), external' \in Seq(Advances), queue' \in Seq(Snaps),
           late \subseteq late', late' \subseteq [from : Seq(Advances), to : Seq(Advances)],
           ChainOK(local'), \A snap : Within(snap, local) => Within(snap, local'),
           QueueOK(queue', local'), ProducerOK(x, local'),
           Alone' => InSync' /\ InStep(x, local', external')
    PROVE  ProducerInvariant'
<1>1. svc'[s] = x /\ svc' \in [Services -> Producers] /\ \A r \in Services : r # s => svc'[r] = svc[r]
  BY DEF ProducerInvariant, ProducerTyped
<1>2. ProducerTyped'
  BY <1>1 DEF ProducerTyped
<1>3. ASSUME NEW r \in Services PROVE ProducerOK(svc[r], local)'
  <2>1. ProducerOK(svc[r], local)
    BY DEF ProducerInvariant
  <2>2. CASE r = s
    BY ZenonT(20), <1>1, <2>2 DEF ProducerOK
  <2>3. CASE r # s
    BY <1>1, <2>1, <2>3 DEF ProducerOK
  <2>4. QED
    BY <2>2, <2>3
<1>4. ASSUME NEW r \in Services, Alone' PROVE InStep(svc[r], local, external)'
  <2>1. CASE r = s
    BY <1>1, <1>4, <2>1 DEF InStep, Entry
  <2>2. CASE r # s
    <3>1. svc'[r].pc = "absent"
      BY Zenon, <1>4, <2>2, AloneBefore
    <3>2. QED
      BY <3>1 DEF InStep
  <2>3. QED
    BY <2>1, <2>2
<1>5. QED
  BY ZenonT(20), <1>2, <1>3, <1>4 DEF ProducerInvariant

(* A service moves and leaves the chains and the queue alone, and is outside the
   publication and the advance. *)
LEMMA ServiceRestarts ==
    ASSUME ProducerInvariant, NEW s \in Services, NEW x \in Producers, x.pc \in {"idle", "lane"},
           svc' = [svc EXCEPT ![s] = x],
           UNCHANGED <<time, local, external, late, queue>>
    PROVE  ProducerInvariant'
<1>1. Alone' => InSync
  BY Zenon, AloneBefore, ProducerFacts
<1>2. Alone' => InSync'
  BY <1>1 DEF InSync, MissedSuccessor
<1>3. ProducerOK(x, local') /\ InStep(x, local', external')
  BY DEF ProducerOK, InStep
<1>4. /\ local \in Seq(Advances) /\ external \in Seq(Advances) /\ queue \in Seq(Snaps) /\ time \in Nat
      /\ ChainOK(local) /\ QueueOK(queue, local)
  BY ProducerFacts
<1>5. late \subseteq [from : Seq(Advances), to : Seq(Advances)]
  BY DEF ProducerInvariant, ProducerTyped
<1>6. QED
  BY Zenon, <1>2, <1>3, <1>4, <1>5, ServiceMoves

(* A service moves as it synchronizes the local chain with the register. *)
LEMMA ServiceSynchronizes ==
    ASSUME ProducerInvariant, NEW s \in Services, NEW x \in Producers, x.pc # "absent",
           svc' = [svc EXCEPT ![s] = x], Synchronize,
           UNCHANGED <<time, external, late, queue>>,
           ProducerOK(x, external), Alone' => InStep(x, external, external)
    PROVE  ProducerInvariant'
<1>1. local' = external /\ ChainOK(external) /\ \A snap : Within(snap, local) => Within(snap, external)
  BY Synchronized
<1>2. InSync'
  BY <1>1 DEF InSync
<1>3. external \in Seq(Advances) /\ queue \in Seq(Snaps) /\ time \in Nat /\ QueueOK(queue, local)
  BY ProducerFacts
<1>4. QueueOK(queue, external)
  BY <1>1, <1>3 DEF QueueOK
<1>5. late \subseteq [from : Seq(Advances), to : Seq(Advances)]
  BY DEF ProducerInvariant, ProducerTyped
<1>6. QED
  BY Zenon, <1>1, <1>2, <1>3, <1>4, <1>5, ServiceMoves

(* An idle service is one. *)
LEMMA IdleTyped == Idle \in Producers /\ Idle.pc = "idle"
<1>1. NoSnapshot \in Snaps
  BY DEF NoSnapshot, Snaps, LaneNames
<1>2. <<>> \in Seq(Advances) /\ 1 \in 1..Len(Lanes)
  BY ProducerAssumption
<1>3. QED
  BY <1>1, <1>2 DEF Idle, Producers, ServiceLabels

(* The service dies, and leaves everything else. *)
LEMMA DeathStep ==
    ASSUME ProducerInvariant, NEW s \in Services, Dies(s), UNCHANGED <<time, local, external, late, queue>>
    PROVE  ProducerInvariant'
BY Zenon, IdleTyped, ServiceRestarts DEF Dies

(* run_cycle goes on to the next lane, or is over. *)
LEMMA NextLaneValue ==
    ASSUME ProducerInvariant, NEW s \in Services, NextLane(s)
    PROVE  \E x \in Producers : x.pc \in {"idle", "lane"} /\ svc' = [svc EXCEPT ![s] = x]
<1> DEFINE y == svc[s]
           n == y.lane + 1
           x == IF y.lane < Len(Lanes) THEN [y EXCEPT !.lane = n, !.pc = "lane"] ELSE Idle
<1>1. y \in Producers /\ DOMAIN svc = Services
  BY ProducerFacts
<1>2. svc' = [svc EXCEPT ![s] = x]
  BY Zenon, <1>1 DEF NextLane
<1>3. y.lane \in 1..Len(Lanes) /\ Len(Lanes) \in Nat
  BY <1>1, ProducerAssumption DEF Producers
<1>4. CASE y.lane < Len(Lanes)
  <2>1. n \in 1..Len(Lanes) /\ x = [y EXCEPT !.lane = n, !.pc = "lane"]
    BY <1>3, <1>4
  <2> HIDE DEF n
  <2>2. x \in Producers /\ x.pc = "lane"
    BY Zenon, <1>1, <2>1 DEF Producers, ServiceLabels
  <2>3. QED
    BY Zenon, <1>2, <2>2
<1>5. CASE ~(y.lane < Len(Lanes))
  BY Zenon, <1>2, <1>5, IdleTyped
<1>6. QED
  BY <1>4, <1>5

----------------------------------------------------------------------------
(* run_cycle begins. *)
LEMMA CycleStep ==
    ASSUME ProducerInvariant, NEW s \in Services, Cycle(s)
    PROVE  ProducerInvariant'
<1> DEFINE x == [Idle EXCEPT !.pc = "lane", !.now = time]
<1>1. svc' = [svc EXCEPT ![s] = x] /\ Synchronize /\ UNCHANGED <<time, external, late, queue>>
  BY DEF Cycle
<1>2. x \in Producers /\ x.pc = "lane"
  BY Zenon, IdleTyped, ProducerFacts DEF Producers, ServiceLabels
<1> HIDE DEF x
<1>3. ProducerOK(x, external) /\ InStep(x, external, external)
  BY <1>2 DEF ProducerOK, InStep
<1>4. QED
  BY Zenon, <1>1, <1>2, <1>3, ServiceSynchronizes

(* A call of current_checkpoint raises. *)
LEMMA UnsynchronizedStep ==
    ASSUME ProducerInvariant, NEW s \in Services, Unsynchronized(s)
    PROVE  ProducerInvariant'
BY DeathStep DEF Unsynchronized, store

(* A lane is passed over. *)
LEMMA NothingToPublishStep ==
    ASSUME ProducerInvariant, NEW s \in Services, NothingToPublish(s)
    PROVE  ProducerInvariant'
<1>1. NextLane(s) /\ UNCHANGED <<time, local, external, late, queue>>
  BY DEF NothingToPublish, store
<1>2. PICK x \in Producers : x.pc \in {"idle", "lane"} /\ svc' = [svc EXCEPT ![s] = x]
  BY <1>1, NextLaneValue
<1>3. QED
  BY Zenon, <1>1, <1>2, ServiceRestarts

(* The service dies, or goes on to its next lane, as it synchronizes. *)
LEMMA SynchronizedExit ==
    ASSUME ProducerInvariant, NEW s \in Services, Synchronize, Dies(s) \/ NextLane(s),
           UNCHANGED <<time, external, late, queue>>
    PROVE  ProducerInvariant'
<1>1. PICK x \in Producers : x.pc \in {"idle", "lane"} /\ svc' = [svc EXCEPT ![s] = x]
  BY IdleTyped, NextLaneValue DEF Dies
<1>2. ProducerOK(x, external) /\ InStep(x, external, external)
  BY <1>1 DEF ProducerOK, InStep
<1>3. QED
  BY Zenon, <1>1, <1>2, ServiceSynchronizes

(* The snapshot of a lane and a candle. *)
LEMMA SnapshotTyped ==
    ASSUME ProducerInvariant, NEW s \in Services, NEW v \in Variants
    PROVE  Snapshot(Lanes[svc[s].lane], BarAt(svc[s].now), v) \in Snaps
<1>1. svc[s].lane \in 1..Len(Lanes) /\ svc[s].now \in Nat
  BY ProducerFacts DEF Producers
<1>2. Lanes[svc[s].lane] \in LaneNames
  BY <1>1 DEF LaneNames
<1>3. BarAt(svc[s].now) \in Nat
  <2>1. BarLength \in Nat /\ BarLength > 0
    BY ProducerAssumption
  <2>2. svc[s].now \div BarLength \in Nat
    BY <1>1, <2>1
  <2>3. QED
    BY <2>2 DEF BarAt
<1>4. QED
  BY <1>2, <1>3 DEF Snapshot, Snaps

(* _process_lane looks at the lane's cursor. *)
LEMMA ObserveStep ==
    ASSUME ProducerInvariant, NEW s \in Services, NEW v \in Variants, Observe(s, v)
    PROVE  ProducerInvariant'
<1> DEFINE snap == Snapshot(Lanes[svc[s].lane], BarAt(svc[s].now), v)
           x == [svc[s] EXCEPT !.pc = "prepare", !.snap = snap]
<1>1. Synchronize /\ UNCHANGED <<time, external, late, queue>>
  BY DEF Observe
<1>2. CASE Dies(s) \/ NextLane(s)
  BY <1>1, <1>2, SynchronizedExit
<1>3. CASE svc' = [svc EXCEPT ![s].pc = "prepare", ![s].snap = snap]
  <2>1. snap \in Snaps
    BY SnapshotTyped
  <2> HIDE DEF snap
  <2>2. svc' = [svc EXCEPT ![s] = x]
    BY Zenon, <1>3
  <2>3. x \in Producers /\ x.pc = "prepare"
    BY Zenon, <2>1, ProducerFacts DEF Producers, ServiceLabels
  <2> HIDE DEF x
  <2>4. ProducerOK(x, external) /\ InStep(x, external, external)
    BY <2>3 DEF ProducerOK, InStep
  <2>5. QED
    BY Zenon, <1>1, <2>2, <2>3, <2>4, ServiceSynchronizes
<1>4. QED
  BY <1>2, <1>3 DEF Observe

(* The verdicts that name a state of the cursor are about the very snapshot, and the
   verdict to advance is _verify_transition's of a PREPARED advance. *)
LEMMA VerdictMeans ==
    ASSUME NEW chain \in Seq(Advances), ChainOK(chain), NEW snap \in Snaps
    PROVE  /\ Verdict(chain, snap) \in {"PREPARED", "PUBLISHED"} => Within(snap, chain)
           /\ Verdict(chain, snap) = "advance" =>
                \A a : a.snap = snap /\ a.state = "PREPARED" => ValidAdvance(chain, a)
<1> DEFINE old == Cursor(chain, snap.lane)
<1>1. CASE old = NoCursor
  <2>1. Verdict(chain, snap) = "advance"
    BY <1>1 DEF Verdict
  <2>2. ASSUME NEW a, a.snap = snap, a.state = "PREPARED" PROVE ValidAdvance(chain, a)
    BY <1>1, <2>2 DEF ValidAdvance, NoCursor
  <2>3. QED
    BY <2>1, <2>2
<1>2. CASE old # NoCursor
  <2>1. PICK k \in DOMAIN chain : old = chain[k] /\ chain[k] \in Advances
    BY <1>2, CursorFound
  <2>2. old.snap.bar \in Nat /\ snap.bar \in Nat /\ old.state \in {"PREPARED", "PUBLISHED"}
    BY <2>1, AdvanceTyped DEF Snaps, Advances
  <2> HIDE DEF old
  <2>3. ASSUME Verdict(chain, snap) \in {"PREPARED", "PUBLISHED"} PROVE snap = old.snap
    BY <1>2, <2>3 DEF Verdict, old
  <2>4. ASSUME Verdict(chain, snap) = "advance" PROVE old.state = "PUBLISHED" /\ snap.bar > old.snap.bar
    BY <1>2, <2>2, <2>4 DEF Verdict, old
  <2>5. ASSUME Verdict(chain, snap) = "advance", NEW a, a.snap = snap, a.state = "PREPARED" PROVE ValidAdvance(chain, a)
    BY <1>2, <2>4, <2>5 DEF ValidAdvance, old
  <2>6. QED
    BY <2>1, <2>3, <2>5 DEF Within
<1>3. QED
  BY <1>1, <1>2

(* prepare_publication. *)
LEMMA PrepareStep ==
    ASSUME ProducerInvariant, NEW s \in Services, Prepare(s)
    PROVE  ProducerInvariant'
<1> DEFINE verdict == Verdict(external, svc[s].snap)
           x == [svc[s] EXCEPT !.pc = "publish"]
           y == [svc[s] EXCEPT !.pc = "advance", !.goal = "PREPARED"]
<1>1. Synchronize /\ UNCHANGED <<time, external, late, queue>>
  BY ZenonT(20) DEF Prepare
<1>2. external \in Seq(Advances) /\ ChainOK(external) /\ svc[s] \in Producers /\ svc[s].snap \in Snaps
  BY <1>1, Synchronized, ProducerFacts DEF Producers
<1>3. CASE Dies(s)
  BY <1>1, <1>3, SynchronizedExit
<1>4. CASE verdict \in {"PREPARED", "PUBLISHED"} /\ GoTo(s, "publish")
  <2>1. svc' = [svc EXCEPT ![s] = x]
    BY Zenon, <1>4 DEF GoTo
  <2>2. x \in Producers /\ x.pc = "publish" /\ x.snap = svc[s].snap
    BY Zenon, <1>2 DEF Producers, ServiceLabels
  <2> HIDE DEF x
  <2>3. ProducerOK(x, external) /\ InStep(x, external, external)
    BY <1>2, <1>4, <2>2, VerdictMeans DEF ProducerOK, InStep
  <2>4. QED
    BY Zenon, <1>1, <2>1, <2>2, <2>3, ServiceSynchronizes
<1>5. CASE verdict = "advance" /\ svc' = [svc EXCEPT ![s].pc = "advance", ![s].goal = "PREPARED"]
  <2>1. svc' = [svc EXCEPT ![s] = y]
    BY Zenon, <1>5
  <2>2. y \in Producers /\ y.pc = "advance" /\ y.snap = svc[s].snap /\ y.goal = "PREPARED"
    BY Zenon, <1>2 DEF Producers, ServiceLabels
  <2> HIDE DEF y
  <2>3. Entry(y).snap = svc[s].snap /\ Entry(y).state = "PREPARED"
    BY <2>2 DEF Entry
  <2>4. ValidAdvance(external, Entry(y))
    BY <1>2, <1>5, <2>3, VerdictMeans
  <2>5. ProducerOK(y, external) /\ InStep(y, external, external)
    BY <2>2, <2>4 DEF ProducerOK, InStep
  <2>6. QED
    BY Zenon, <1>1, <2>1, <2>2, <2>5, ServiceSynchronizes
<1>6. QED
  BY <1>3, <1>4, <1>5 DEF Prepare

(* record_published. *)
LEMMA RecordStep ==
    ASSUME ProducerInvariant, NEW s \in Services, Record(s)
    PROVE  ProducerInvariant'
<1> DEFINE old == Cursor(external, svc[s].snap.lane)
           y == [svc[s] EXCEPT !.pc = "advance", !.goal = "PUBLISHED"]
<1>1. Synchronize /\ UNCHANGED <<time, external, late, queue>>
  BY DEF Record
<1>2. CASE Dies(s) \/ NextLane(s)
  BY <1>1, <1>2, SynchronizedExit
<1>3. CASE /\ old.snap = svc[s].snap /\ old.state = "PREPARED"
           /\ svc' = [svc EXCEPT ![s].pc = "advance", ![s].goal = "PUBLISHED"]
  <2>1. svc' = [svc EXCEPT ![s] = y]
    BY Zenon, <1>3
  <2>2. y \in Producers /\ y.pc = "advance" /\ y.snap = svc[s].snap /\ y.goal = "PUBLISHED"
    BY Zenon, ProducerFacts DEF Producers, ServiceLabels
  <2> HIDE DEF y
  <2>3. Entry(y).snap = svc[s].snap /\ Entry(y).state = "PUBLISHED"
    BY <2>2 DEF Entry
  <2>4. ValidAdvance(external, Entry(y))
    BY <1>3, <2>3 DEF ValidAdvance, NoCursor
  <2>5. ProducerOK(y, external) /\ InStep(y, external, external)
    BY <2>2, <2>4 DEF ProducerOK, InStep
  <2>6. QED
    BY Zenon, <1>1, <2>1, <2>2, <2>5, ServiceSynchronizes
<1>4. QED
  BY <1>2, <1>3 DEF Record

----------------------------------------------------------------------------
(* A snapshot of the chain joins the queue, once. *)
LEMMA QueueGrows ==
    ASSUME ProducerInvariant, NEW snap \in Snaps, Within(snap, local),
           queue' = queue \/ (~InQueue(snap) /\ queue' = Append(queue, snap))
    PROVE  queue' \in Seq(Snaps) /\ QueueOK(queue', local)
<1>1. queue \in Seq(Snaps) /\ QueueOK(queue, local)
  BY DEF ProducerInvariant, ProducerTyped
<1>2. CASE queue' = queue
  BY <1>1, <1>2
<1>3. CASE ~InQueue(snap) /\ queue' = Append(queue, snap)
  <2>1. /\ queue' \in Seq(Snaps) /\ DOMAIN queue' = 1..(Len(queue) + 1) /\ DOMAIN queue = 1..Len(queue) /\ Len(queue) \in Nat
        /\ queue'[Len(queue) + 1] = snap /\ \A n \in DOMAIN queue : queue'[n] = queue[n] /\ queue[n] # snap
    BY <1>1, <1>3 DEF InQueue
  <2>2. \A n \in DOMAIN queue' : n = Len(queue) + 1 \/ n \in DOMAIN queue
    BY <2>1
  <2>3. \A n \in DOMAIN queue' : Within(queue'[n], local)
    BY <1>1, <2>1, <2>2 DEF QueueOK
  <2>4. \A m, n \in DOMAIN queue' : queue'[m] = queue'[n] => m = n
    BY ZenonT(20), <1>1, <2>1, <2>2 DEF QueueOK
  <2>5. QED
    BY <2>1, <2>3, <2>4 DEF QueueOK
<1>4. QED
  BY <1>2, <1>3

(* The chains stay where they are. *)
LEMMA ChainsUndisturbed ==
    ASSUME ProducerInvariant, NEW s \in Services, NEW x \in Producers, x.pc \in {"idle", "lane", "prepare", "record"},
           svc' = [svc EXCEPT ![s] = x], x.pc = "record" => Within(x.snap, local),
           UNCHANGED <<time, local, external, late>>, queue' \in Seq(Snaps), QueueOK(queue', local)
    PROVE  ProducerInvariant'
<1>1. Alone' => InSync
  BY Zenon, AloneBefore, ProducerFacts
<1>2. Alone' => InSync'
  BY <1>1 DEF InSync, MissedSuccessor
<1>3. ProducerOK(x, local') /\ InStep(x, local', external')
  BY DEF ProducerOK, InStep
<1>4. local \in Seq(Advances) /\ external \in Seq(Advances) /\ time \in Nat /\ ChainOK(local)
  BY ZenonT(20), ProducerFacts
<1>5. late \subseteq [from : Seq(Advances), to : Seq(Advances)]
  BY DEF ProducerInvariant, ProducerTyped
<1>6. QED
  BY Zenon, <1>2, <1>3, <1>4, <1>5, ServiceMoves

(* The publish port returns, or denies a duplicate. *)
LEMMA PublishStep ==
    ASSUME ProducerInvariant, NEW s \in Services, Publish(s)
    PROVE  ProducerInvariant'
<1> DEFINE x == [svc[s] EXCEPT !.pc = "record"]
<1>1. /\ svc[s].pc = "publish" /\ UNCHANGED <<time, local, external, late>>
      /\ queue' = queue \/ (~InQueue(svc[s].snap) /\ queue' = Append(queue, svc[s].snap))
  BY ZenonT(20) DEF Publish, At, store
<1>2. svc[s].snap \in Snaps /\ Within(svc[s].snap, local)
  BY ZenonT(20), <1>1, ProducerFacts DEF Producers, ProducerOK
<1>3. queue' \in Seq(Snaps) /\ QueueOK(queue', local)
  BY <1>1, <1>2, QueueGrows
<1>4. svc' = [svc EXCEPT ![s] = x]
  BY Zenon DEF Publish, GoTo
<1>5. x \in Producers /\ x.pc = "record" /\ x.snap = svc[s].snap
  BY Zenon, ProducerFacts DEF Producers, ServiceLabels
<1> HIDE DEF x
<1>6. QED
  BY Zenon, <1>1, <1>2, <1>3, <1>4, <1>5, ChainsUndisturbed

(* Every other error of the port. *)
LEMMA PublishRaisesStep ==
    ASSUME ProducerInvariant, NEW s \in Services, PublishRaises(s)
    PROVE  ProducerInvariant'
<1>1. /\ svc[s].pc = "publish" /\ UNCHANGED <<time, local, external, late>> /\ Dies(s)
      /\ queue' = queue \/ (~InQueue(svc[s].snap) /\ queue' = Append(queue, svc[s].snap))
  BY ZenonT(20) DEF PublishRaises, At, store
<1>2. svc[s].snap \in Snaps /\ Within(svc[s].snap, local)
  BY ZenonT(40), <1>1, ProducerFacts DEF Producers, ProducerOK
<1>3. queue' \in Seq(Snaps) /\ QueueOK(queue', local)
  BY ZenonT(20), <1>1, <1>2, QueueGrows
<1>4. QED
  BY Zenon, <1>1, <1>3, IdleTyped, ChainsUndisturbed DEF Dies

----------------------------------------------------------------------------
(* A valid successor in the register can be imported. *)
LEMMA SuccessorInSync ==
    ASSUME local' \in Seq(Advances), NEW a \in Advances, ValidAdvance(local', a), external' = Append(local', a)
    PROVE  InSync'
<1>1. /\ Len(external') = Len(local') + 1 /\ SubSeq(external', 1, Len(local')) = local'
      /\ external'[Len(external')] = a
  OBVIOUS
<1>2. QED
  BY Zenon, <1>1 DEF InSync, MissedSuccessor

(* What a service proposes extends its checkpoint by one advance. *)
LEMMA ProposalTyped ==
    ASSUME ProducerInvariant, NEW s \in Services, svc[s].pc \in {"advance", "cas", "readback", "append"}
    PROVE  /\ Entry(svc[s]) \in Advances /\ svc[s].prev \in Seq(Advances)
           /\ Proposed(s) = Append(svc[s].prev, Entry(svc[s])) /\ Proposed(s) \in Seq(Advances)
<1>1. /\ svc[s].snap \in Snaps /\ svc[s].goal \in {"PREPARED", "PUBLISHED"} /\ svc[s].issued \in Nat
      /\ svc[s].prev \in Seq(Advances)
  BY ProducerFacts DEF Producers, ProducerOK
<1>2. Entry(svc[s]) \in Advances
  BY <1>1 DEF Entry, Advances
<1>3. Proposed(s) = Append(svc[s].prev, Entry(svc[s]))
  BY DEF Proposed, Entry
<1>4. QED
  BY SMTT(30), <1>1, <1>2, <1>3

(* _advance_cursor takes the synchronized chain as its predecessor. *)
LEMMA AdvanceStep ==
    ASSUME ProducerInvariant, NEW s \in Services, Advance(s)
    PROVE  ProducerInvariant'
<1> DEFINE x == [svc[s] EXCEPT !.pc = "cas", !.prev = external, !.issued = time]
<1>1. Synchronize /\ UNCHANGED <<time, external, late, queue>> /\ svc[s].pc = "advance"
  BY DEF Advance, At
<1>2. svc' = [svc EXCEPT ![s] = x]
  BY Zenon DEF Advance
<1>3. svc[s] \in Producers /\ ProducerOK(svc[s], local) /\ external \in Seq(Advances) /\ time \in Nat
  BY ProducerFacts
<1>4. /\ x \in Producers /\ x.pc = "cas" /\ x.prev = external /\ x.snap = svc[s].snap /\ x.goal = svc[s].goal
  BY Zenon, <1>3 DEF Producers, ServiceLabels
<1> HIDE DEF x
<1>5. ProducerOK(x, external)
  BY <1>1, <1>3, <1>4 DEF ProducerOK
<1>6. ASSUME Alone' PROVE InStep(x, external, external)
  <2>1. Alone
    BY Zenon, <1>1, <1>2, <1>4, <1>6, AloneBefore
  <2>2. external = local /\ ValidAdvance(local, Entry(svc[s]))
    BY <1>1, <2>1, ProducerFacts DEF InStep
  <2>3. Entry(x).snap = Entry(svc[s]).snap /\ Entry(x).state = Entry(svc[s]).state
    BY <1>4 DEF Entry
  <2>4. ValidAdvance(external, Entry(x))
    BY <2>2, <2>3 DEF ValidAdvance
  <2>5. QED
    BY <1>4, <2>4 DEF InStep
<1>7. QED
  BY Zenon, <1>1, <1>2, <1>4, <1>5, <1>6, ServiceSynchronizes

(* The register accepts the successor. *)
LEMMA CasAcknowledgedStep ==
    ASSUME ProducerInvariant, NEW s \in Services, CasAcknowledged(s)
    PROVE  ProducerInvariant'
<1> DEFINE x == [svc[s] EXCEPT !.pc = "readback"]
<1>1. svc[s].pc = "cas" /\ external' = Proposed(s) /\ UNCHANGED <<time, local, late, queue>>
  BY DEF CasAcknowledged, At
<1>2. svc' = [svc EXCEPT ![s] = x]
  BY Zenon DEF CasAcknowledged, GoTo
<1>3. /\ svc[s] \in Producers /\ ProducerOK(svc[s], local) /\ local \in Seq(Advances) /\ ChainOK(local)
      /\ time \in Nat /\ queue \in Seq(Snaps) /\ QueueOK(queue, local)
  BY ProducerFacts
<1>4. /\ x \in Producers /\ x.pc = "readback" /\ x.prev = svc[s].prev /\ x.snap = svc[s].snap
      /\ x.goal = svc[s].goal /\ x.issued = svc[s].issued
  BY Zenon, <1>3 DEF Producers, ServiceLabels
<1> HIDE DEF x
<1>5. /\ Entry(x) = Entry(svc[s]) /\ Entry(x) \in Advances /\ external' = Append(x.prev, Entry(x))
      /\ external' \in Seq(Advances)
  BY ZenonT(20), <1>1, <1>4, ProposalTyped DEF Entry
<1>6. ProducerOK(x, local')
  BY ZenonT(20), <1>1, <1>3, <1>4 DEF ProducerOK
<1>7. ASSUME Alone' PROVE InSync' /\ InStep(x, local', external')
  <2>1. Alone
    BY Zenon, <1>1, <1>2, <1>4, <1>7, AloneBefore
  <2>2. svc[s].prev = local /\ ValidAdvance(local, Entry(svc[s]))
    BY <1>1, <2>1, ProducerFacts DEF InStep
  <2>3. local' = local /\ x.prev = local' /\ ValidAdvance(local', Entry(x))
    BY <1>1, <1>4, <1>5, <2>2
  <2>4. InSync'
    BY ZenonT(20), <1>3, <1>5, <2>3, SuccessorInSync
  <2>5. QED
    BY <1>4, <1>5, <2>3, <2>4 DEF InStep
<1>8. late \subseteq [from : Seq(Advances), to : Seq(Advances)]
  BY DEF ProducerInvariant, ProducerTyped
<1>9. QED
  BY Zenon, <1>1, <1>2, <1>3, <1>4, <1>5, <1>6, <1>7, <1>8, ServiceMoves

(* The register's answer is lost, or its request is. *)
LEMMA CasFailsStep ==
    ASSUME ProducerInvariant, NEW s \in Services, CasFails(s)
    PROVE  ProducerInvariant'
<1>1. svc[s].pc = "cas" /\ svc' = [svc EXCEPT ![s] = Idle] /\ UNCHANGED <<time, local, queue>>
  BY DEF CasFails, Dies, At
<1>2. /\ local \in Seq(Advances) /\ external \in Seq(Advances) /\ ChainOK(local)
      /\ time \in Nat /\ queue \in Seq(Snaps) /\ QueueOK(queue, local)
  BY ProducerFacts
<1>3. /\ Entry(svc[s]) \in Advances /\ svc[s].prev \in Seq(Advances)
      /\ Proposed(s) = Append(svc[s].prev, Entry(svc[s])) /\ Proposed(s) \in Seq(Advances)
  BY <1>1, ProposalTyped
<1>4. late \subseteq [from : Seq(Advances), to : Seq(Advances)]
  BY DEF ProducerInvariant, ProducerTyped
<1>5. Idle \in Producers /\ Idle.pc = "idle" /\ ProducerOK(Idle, local') /\ InStep(Idle, local', external')
  BY ZenonT(20), IdleTyped DEF ProducerOK, InStep
<1>6. CASE late' = late /\ external' = external
  <2>1. Alone' => InSync
    BY Zenon, <1>1, <1>5, <1>6, AloneBefore, ProducerFacts
  <2>2. Alone' => InSync'
    BY <1>1, <1>6, <2>1 DEF InSync, MissedSuccessor
  <2>3. QED
    BY Zenon, <1>1, <1>2, <1>4, <1>5, <1>6, <2>2, ServiceMoves
<1>7. CASE late' = late \cup {[from |-> svc[s].prev, to |-> Proposed(s)]} /\ external' = external
  <2> DEFINE request == [from |-> svc[s].prev, to |-> Proposed(s)]
  <2>1. request \in [from : Seq(Advances), to : Seq(Advances)] /\ late' = late \cup {request}
    BY <1>3, <1>7
  <2> HIDE DEF request
  <2>2. late \subseteq late' /\ late' \subseteq [from : Seq(Advances), to : Seq(Advances)] /\ late' # {}
    BY <1>4, <2>1
  <2>3. ~Alone'
    BY ZenonT(20), <2>2 DEF Alone
  <2>4. QED
    BY Zenon, <1>1, <1>2, <1>5, <1>7, <2>2, <2>3, ServiceMoves
<1>8. CASE late' = late /\ external' = Proposed(s)
  <2>1. ASSUME Alone' PROVE InSync'
    <3>1. Alone
      BY Zenon, <1>1, <1>5, <1>8, <2>1, AloneBefore
    <3>2. svc[s].prev = local /\ ValidAdvance(local, Entry(svc[s]))
      BY <1>1, <3>1, ProducerFacts DEF InStep
    <3>3. QED
      BY <1>1, <1>2, <1>3, <1>8, <3>2, SuccessorInSync
  <2>2. QED
    BY Zenon, <1>1, <1>2, <1>3, <1>4, <1>5, <1>8, <2>1, ServiceMoves
<1>9. QED
  BY ZenonT(20), <1>6, <1>7, <1>8 DEF CasFails

(* The successor is read back, or is not there any more. *)
LEMMA ReadbackStep ==
    ASSUME ProducerInvariant, NEW s \in Services, Readback(s)
    PROVE  ProducerInvariant'
<1> DEFINE x == [svc[s] EXCEPT !.pc = "append"]
<1>1. svc[s].pc = "readback" /\ UNCHANGED <<time, local, external, late, queue>>
  BY Zenon DEF Readback, At, store
<1>2. CASE Dies(s)
  BY ZenonT(20), <1>1, <1>2, DeathStep
<1>3. CASE GoTo(s, "append")
  <2>1. svc' = [svc EXCEPT ![s] = x]
    BY Zenon, <1>3 DEF GoTo
  <2>2. /\ svc[s] \in Producers /\ ProducerOK(svc[s], local) /\ local \in Seq(Advances) /\ ChainOK(local)
        /\ time \in Nat /\ queue \in Seq(Snaps) /\ QueueOK(queue, local) /\ external \in Seq(Advances)
    BY ProducerFacts
  <2>3. /\ x \in Producers /\ x.pc = "append" /\ x.prev = svc[s].prev /\ x.snap = svc[s].snap
        /\ x.goal = svc[s].goal /\ x.issued = svc[s].issued
    BY Zenon, <2>2 DEF Producers, ServiceLabels
  <2> HIDE DEF x
  <2>4. ProducerOK(x, local')
    BY <1>1, <2>2, <2>3 DEF ProducerOK
  <2>5. ASSUME Alone' PROVE InSync' /\ InStep(x, local', external')
    <3>1. Alone
      BY Zenon, <1>1, <2>1, <2>3, <2>5, AloneBefore
    <3>2. InSync /\ InStep(svc[s], local, external)
      BY <3>1, ProducerFacts
    <3>3. InSync'
      BY ZenonT(20), <1>1, <3>2 DEF InSync, MissedSuccessor
    <3>4. InStep(x, local', external')
      BY <1>1, <2>3, <3>2 DEF InStep, Entry
    <3>5. QED
      BY <3>3, <3>4
  <2>6. late \subseteq [from : Seq(Advances), to : Seq(Advances)]
    BY DEF ProducerInvariant, ProducerTyped
  <2>7. QED
    BY Zenon, <1>1, <2>1, <2>2, <2>3, <2>4, <2>5, <2>6, ServiceMoves
<1>4. QED
  BY <1>2, <1>3 DEF Readback

(* _append_local. *)
LEMMA AppendLocalStep ==
    ASSUME ProducerInvariant, NEW s \in Services, AppendLocal(s)
    PROVE  ProducerInvariant'
<1>1. svc[s].pc = "append" /\ UNCHANGED <<time, external, late, queue>>
  BY DEF AppendLocal, At
<1>2. CASE Dies(s) /\ UNCHANGED local
  BY ZenonT(20), <1>1, <1>2, DeathStep
<1>3. CASE /\ local = svc[s].prev /\ ValidAdvance(local, Proposed(s)[Len(Proposed(s))]) /\ local' = Proposed(s)
           /\ IF svc[s].goal = "PREPARED" THEN GoTo(s, "publish") ELSE NextLane(s)
  <2>1. /\ svc[s] \in Producers /\ local \in Seq(Advances) /\ ChainOK(local) /\ external \in Seq(Advances)
        /\ time \in Nat /\ queue \in Seq(Snaps) /\ QueueOK(queue, local)
    BY ZenonT(20), ProducerFacts
  <2>2. Entry(svc[s]) \in Advances /\ local' = Append(local, Entry(svc[s])) /\ local' \in Seq(Advances)
    BY <1>1, <1>3, ProposalTyped
  <2>3. Proposed(s)[Len(Proposed(s))] = Entry(svc[s])
    BY SMTT(30), <1>1, ProposalTyped
  <2>4. ChainOK(local') /\ \A snap : Within(snap, local) => Within(snap, local')
    BY Zenon, <1>3, <2>1, <2>2, <2>3, SuccessorOK, WithinSuccessor
  <2>5. QueueOK(queue', local')
    BY <1>1, <2>1, <2>4 DEF QueueOK
  <2>6. Within(svc[s].snap, local')
    <3>1. Len(local) + 1 \in DOMAIN local' /\ local'[Len(local) + 1] = Entry(svc[s]) /\ Entry(svc[s]).snap = svc[s].snap
      BY <2>1, <2>2 DEF Entry
    <3>2. QED
      BY <3>1 DEF Within
  <2>7. PICK x \in Producers : /\ x.pc \in {"idle", "lane"} \/ (x.pc = "publish" /\ x.snap = svc[s].snap)
                               /\ svc' = [svc EXCEPT ![s] = x]
    <3>1. CASE GoTo(s, "publish")
      <4> DEFINE x == [svc[s] EXCEPT !.pc = "publish"]
      <4>1. svc' = [svc EXCEPT ![s] = x]
        BY Zenon, <3>1 DEF GoTo
      <4>2. x \in Producers /\ x.pc = "publish" /\ x.snap = svc[s].snap
        BY Zenon, <2>1 DEF Producers, ServiceLabels
      <4> HIDE DEF x
      <4>3. QED
        BY Zenon, <4>1, <4>2
    <3>2. CASE NextLane(s)
      BY <3>2, NextLaneValue
    <3>3. QED
      BY <1>3, <3>1, <3>2
  <2>8. ProducerOK(x, local') /\ InStep(x, local', external')
    BY ZenonT(20), <2>6, <2>7 DEF ProducerOK, InStep
  <2>9. ASSUME Alone' PROVE InSync'
    <3>1. Alone
      BY Zenon, <1>1, <2>7, <2>9, AloneBefore
    <3>2. external = Append(svc[s].prev, Entry(svc[s]))
      BY <1>1, <3>1, ProducerFacts DEF InStep
    <3>3. QED
      BY <1>1, <1>3, <2>2, <3>2 DEF InSync
  <2>10. late \subseteq [from : Seq(Advances), to : Seq(Advances)]
    BY DEF ProducerInvariant, ProducerTyped
  <2>11. QED
    BY Zenon, <1>1, <2>1, <2>2, <2>4, <2>5, <2>7, <2>8, <2>9, <2>10, ServiceMoves
<1>4. QED
  BY Zenon, <1>2, <1>3 DEF AppendLocal

(* A request its client gave up on is accepted. *)
LEMMA AcceptLateStep ==
    ASSUME ProducerInvariant, NEW r \in late, AcceptLate(r)
    PROVE  ProducerInvariant'
<1>1. external' = r.to /\ UNCHANGED <<time, local, late, queue, svc>>
  BY DEF AcceptLate
<1>2. external' \in Seq(Advances)
  BY ZenonT(20), <1>1 DEF ProducerInvariant, ProducerTyped
<1>3. ProducerTyped'
  BY <1>1, <1>2 DEF ProducerInvariant, ProducerTyped
<1>4. ~Alone'
  BY <1>1 DEF Alone
<1>5. QED
  BY <1>1, <1>3, <1>4 DEF ProducerInvariant

(* A service is started. *)
LEMMA LaunchStep ==
    ASSUME ProducerInvariant, NEW s \in Services, Launch(s)
    PROVE  ProducerInvariant'
<1> DEFINE x == [svc[s] EXCEPT !.pc = "idle"]
<1>1. svc' = [svc EXCEPT ![s] = x]
  BY Zenon DEF Launch, GoTo
<1>2. UNCHANGED <<time, local, external, late, queue>>
  BY DEF Launch, store
<1>3. x \in Producers /\ x.pc = "idle"
  BY Zenon, ProducerFacts DEF Producers, ServiceLabels
<1> HIDE DEF x
<1>4. QED
  BY Zenon, <1>1, <1>2, <1>3, ServiceRestarts

(* Whatever leaves the chains, the queue and the services alone leaves the invariant. *)
LEMMA ProducerUndisturbed ==
    ASSUME ProducerInvariant, time' \in Nat, UNCHANGED <<local, external, late, queue, svc>>
    PROVE  ProducerInvariant'
<1>1. ProducerTyped'
  BY Zenon DEF ProducerInvariant, ProducerTyped
<1>2. Alone' => Alone
  BY DEF Alone, At
<1>3. InSync => InSync'
  BY DEF InSync, MissedSuccessor
<1>4. QED
  BY <1>1, <1>2, <1>3 DEF ProducerInvariant

(* The producer before its first service is started. *)
LEMMA ProducerStarts == ProducerInit => ProducerInvariant
<1>1. SUFFICES ASSUME ProducerInit PROVE ProducerInvariant
  OBVIOUS
<1> DEFINE x == [Idle EXCEPT !.pc = "absent"]
<1>2. x \in Producers /\ x.pc = "absent"
  BY IdleTyped DEF Producers, ServiceLabels
<1> HIDE DEF x
<1>3. svc = [s \in Services |-> x] /\ local = <<>> /\ external = <<>> /\ late = {} /\ queue = <<>> /\ time = 0
  BY <1>1 DEF ProducerInit, x
<1>4. ProducerTyped
  BY <1>2, <1>3 DEF ProducerTyped
<1>5. ChainOK(local) /\ QueueOK(queue, local)
  BY <1>3 DEF ChainOK, QueueOK
<1>6. \A s \in Services : ProducerOK(svc[s], local) /\ InStep(svc[s], local, external)
  BY <1>2, <1>3 DEF ProducerOK, InStep
<1>7. InSync
  BY <1>3 DEF InSync
<1>8. QED
  BY <1>4, <1>5, <1>6, <1>7 DEF ProducerInvariant

(* Every step of every service keeps the invariant. *)
LEMMA ProducerInductive == ProducerInvariant /\ [ProducerNext]_vars => ProducerInvariant'
<1>1. SUFFICES ASSUME ProducerInvariant, [ProducerNext]_vars PROVE ProducerInvariant'
  OBVIOUS
<1>2. ASSUME NEW s \in Services, ServiceStep(s) PROVE ProducerInvariant'
  BY <1>1, <1>2, CycleStep, UnsynchronizedStep, NothingToPublishStep, PrepareStep, PublishStep, PublishRaisesStep,
     RecordStep, ObserveStep, AdvanceStep, CasAcknowledgedStep, CasFailsStep, ReadbackStep, AppendLocalStep
     DEF ServiceStep
<1>3. ASSUME NEW s \in Services, Crash(s) PROVE ProducerInvariant'
  BY <1>1, <1>3, DeathStep DEF Crash, store
<1>4. CASE Tick
  <2>1. time' \in Nat
    BY <1>1, <1>4 DEF Tick, ProducerInvariant, ProducerTyped
  <2>2. QED
    BY <1>1, <1>4, <2>1, ProducerUndisturbed DEF Tick, store
<1>5. CASE UNCHANGED vars
  <2>1. time' \in Nat
    BY <1>1, <1>5 DEF vars, ProducerInvariant, ProducerTyped
  <2>2. QED
    BY <1>1, <1>5, <2>1, ProducerUndisturbed DEF vars
<1>6. QED
  BY <1>1, <1>2, <1>3, <1>4, <1>5, LaunchStep, AcceptLateStep DEF ProducerNext

(* The invariant holds in every state of the producers. *)
LEMMA ProducerSafe == ProducerSpec => []ProducerInvariant
BY ProducerStarts, ProducerInductive, PTL DEF ProducerSpec

(* A lane has at most one decision per candle in the queue, for any number of services,
   lanes, candles, crashes and lost register answers (the PREPARED cursor is anchored
   before publish is called, and a candle's snapshot is compared with it). *)
THEOREM DecisionsAreUnique == ProducerSpec => []OneDecisionPerCandle
<1>1. ASSUME ProducerInvariant, NEW m \in DOMAIN queue, NEW n \in DOMAIN queue,
             queue[m].lane = queue[n].lane, queue[m].bar = queue[n].bar
      PROVE  m = n
  <2>1. PICK j \in DOMAIN local : local[j].snap = queue[m]
    BY <1>1 DEF ProducerInvariant, QueueOK, Within
  <2>2. PICK k \in DOMAIN local : local[k].snap = queue[n]
    BY Zenon, <1>1 DEF ProducerInvariant, QueueOK, Within
  <2>3. queue[m] = queue[n]
    BY <1>1, <2>1, <2>2 DEF ProducerInvariant, ChainOK
  <2>4. QED
    BY <1>1, <2>3 DEF ProducerInvariant, QueueOK
<1>2. ProducerInvariant => OneDecisionPerCandle
  BY <1>1 DEF OneDecisionPerCandle
<1>3. QED
  BY <1>2, ProducerSafe, PTL

(* As long as one service runs at a time and no request was left behind, the register
   holds the local chain or its one importable successor, wherever the service dies
   (_advance_cursor, _append_local, _synchronize_external). *)
THEOREM RegisterImportable == ProducerSpec => []CursorImportable
<1>1. ProducerInvariant => CursorImportable
  BY DEF ProducerInvariant, CursorImportable, Alone
<1>2. QED
  BY <1>1, ProducerSafe, PTL

=============================================================================
