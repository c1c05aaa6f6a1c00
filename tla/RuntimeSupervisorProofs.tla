---------------------- MODULE RuntimeSupervisorProofs ----------------------
(* The safety of RuntimeSupervisor for every number of supervisors, starts, cycles and
   faults, every lease term and every mode: the receipts are fenced, an order follows
   its anchored receipt, the chain is an anchored chain, and the facts are complete. *)
EXTENDS RuntimeSupervisor, TLAPS

Phases == {"STARTUP", "CYCLE", "PRE_CONSUME", "PRE_DISPATCH", "SHUTDOWN", "CRITICAL"}
Checks == {"journal", "risk", "reconcile", "settle", "settled", "guard"}
Boundary == {"recheck", "rerisk", "reguard", "dispatch"}
Failing == {"fail", "faillatched", "kill", "critical"}
Labels == Checks \cup Boundary \cup Failing \cup
          {"off", "startup", "decide", "cycle", "preconsume", "predispatch", "shutdown",
           "publish", "ready", "entry", "entered", "rejournal", "release"}
Jobs == Phases \cup {"none", "start", "cycle"}

SupRecords == [pc : Labels, job : Jobs, token : Nat, guard : Nat,
               risk : [seq : Nat, issued : Nat], journal : Nat, closing : SUBSET Nat,
               pre : Nat, called : BOOLEAN, expected : Nat]
ReceiptRecords == [phase : Phases, token : Nat, guard : Nat, pre : Nat, called : BOOLEAN]
RiskEvents == [kind : {"ACCOUNT_SNAPSHOT", "ENTRY", "CLOSED_TRADE"}, intent : Nat]

SupervisorTyped ==
    /\ now \in Nat /\ faults \in Nat /\ latched \in BOOLEAN
    /\ lease \in [token : Nat, expires : Nat]
    /\ receipts \in Seq(ReceiptRecords)
    /\ external \in [version : Nat, count : Nat, latched : BOOLEAN]
    /\ journal \in [kill : BOOLEAN, closed : SUBSET Nat, version : Nat]
    /\ risk \in Seq(RiskEvents)
    /\ broker \in [executed : SUBSET Nat, closed : SUBSET Nat]
    /\ sup \in [Supervisors -> SupRecords]

(* The calls in which a supervisor can be at a label: job names the call, or the last
   receipt it has written. *)
Control(pc, job) ==
    /\ pc = "off" <=> job = "none"
    /\ pc \in Checks => job \in {"start", "cycle"}
    /\ pc = "startup" => job = "start"
    /\ pc \in {"decide", "preconsume"} => job = "cycle"
    /\ pc = "cycle" => job \in {"cycle", "PRE_DISPATCH"}
    /\ pc = "predispatch" => job \in {"cycle", "PRE_CONSUME"}
    /\ pc = "publish" => job \in Phases
    /\ pc \in {"ready", "shutdown"} => job \in {"STARTUP", "CYCLE"}
    /\ pc \in Boundary \cup {"entry", "entered", "rejournal"} => job = "PRE_DISPATCH"
    /\ pc \in Failing => job # "CRITICAL"

(* A supervisor that no longer gets past its checks, once the store is latched. *)
Doomed(pc, job) == pc \in Failing \/ (pc = "journal" /\ job = "start") \/ job = "CRITICAL" \/ pc = "release"

PreAt(n, rec, count) == n \in 1..count /\ rec[n].phase = "PRE_DISPATCH"

(* What a supervisor's call knows of the store: which receipts its token has. *)
SupOK(x, tok, rec, count, lat) ==
    /\ Control(x.pc, x.job)
    /\ x.token <= tok
    /\ x.token = 0 => x.pc \in {"off", "fail", "faillatched", "kill"}
    /\ x.pc \in Failing \ {"fail"} \/ x.job = "CRITICAL" => lat
    /\ \A m \in 1..Len(rec) :
        /\ rec[m].token = x.token =>
            /\ x.job # "start"
            /\ rec[m].phase = "CRITICAL" => x.job = "CRITICAL"
            /\ rec[m].phase = "SHUTDOWN" => x.job \in {"SHUTDOWN", "CRITICAL"}
        /\ rec[m].token < x.token /\ rec[m].phase = "CRITICAL" => Doomed(x.pc, x.job)
    /\ x.job \notin {"none", "start", "CRITICAL"} =>
        \E m \in 1..Len(rec) : rec[m].token = x.token /\ rec[m].phase = "STARTUP"
    /\ x.pc \in Boundary => PreAt(x.pre, rec, count)
    /\ x.pc = "publish" /\ x.job = "PRE_DISPATCH" => PreAt(x.pre, rec, Len(rec))

ReceiptsOK(tok, rec, lat) ==
    \A n \in 1..Len(rec) :
        /\ rec[n].token \in 1..tok
        /\ rec[n].phase = "CRITICAL" => lat

OneHolderPerToken == \A p, q \in Supervisors :
    p # q /\ sup[p].token > 0 => sup[p].token # sup[q].token

(* The accepted news guards have a latest one. *)
GuardHead(rec) == \E g \in {rec[n].guard : n \in DOMAIN rec} \cup {0} :
                    \A h \in {rec[n].guard : n \in DOMAIN rec} \cup {0} : h <= g

StoreInvariant ==
    /\ ReceiptsFenced
    /\ ReceiptsOK(lease.token, receipts, latched)
    /\ \A p \in Supervisors : SupOK(sup[p], lease.token, receipts, external.count, latched)
    /\ OneHolderPerToken
    /\ external.count <= Len(receipts)
    /\ AnchoredBeforeDispatch
    /\ GuardHead(receipts)

(* Until a fault, an execution without its ENTRY is one a call is about to record; and
   until the latch too, a closed intent without its CLOSED_TRADE is one a call reports. *)
FactsOK ==
    /\ \A p \in Supervisors :
        sup[p].pc = "reconcile" \/ (sup[p].job = "start" /\ sup[p].pc \in {"journal", "risk"}) =>
            sup[p].closing = {}
    /\ faults = 0 =>
        /\ \A d \in broker.executed \ Recorded("ENTRY") :
            \E p \in Supervisors : sup[p].pc = "entry" /\ sup[p].pre = d
        /\ \A d \in journal.closed \ Recorded("CLOSED_TRADE") :
            latched \/ \E p \in Supervisors :
                        sup[p].pc \in {"journal", "risk", "settle", "fail"} /\ d \in sup[p].closing

SupervisorInvariant == SupervisorTyped /\ StoreInvariant /\ FactsOK

(* Where a call that has closed intents at the broker still owes their CLOSED_TRADE. *)
Owing == {"journal", "risk", "settle", "fail"}

----------------------------------------------------------------------------
(* What the facts need of a step of one supervisor: it records what it stops owing, and
   takes on what it adds. *)
LEMMA FactsKept ==
    ASSUME SupervisorTyped, FactsOK, NEW p \in Supervisors, NEW x \in SupRecords,
           sup' = [sup EXCEPT ![p] = x],
           faults' = 0 => faults = 0,
           latched => latched',
           Recorded("ENTRY") \subseteq Recorded("ENTRY")',
           Recorded("CLOSED_TRADE") \subseteq Recorded("CLOSED_TRADE")',
           x.pc = "reconcile" \/ (x.job = "start" /\ x.pc \in {"journal", "risk"}) => x.closing = {},
           faults' = 0 /\ sup[p].pc = "entry" =>
                sup[p].pre \in Recorded("ENTRY")' \/ (x.pc = "entry" /\ x.pre = sup[p].pre),
           \A d \in broker'.executed :
                d \in broker.executed \/ faults' # 0 \/ (x.pc = "entry" /\ x.pre = d),
           \A d \in sup[p].closing :
                faults' = 0 /\ sup[p].pc \in Owing =>
                    \/ d \in Recorded("CLOSED_TRADE")' \/ latched'
                    \/ x.pc \in Owing /\ d \in x.closing,
           \A d \in journal'.closed :
                d \in journal.closed \/ (x.pc \in Owing /\ d \in x.closing)
    PROVE  FactsOK'
<1>1. sup \in [Supervisors -> SupRecords] /\ sup'[p] = x /\ \A q \in Supervisors : q # p => sup'[q] = sup[q]
  BY DEF SupervisorTyped
<1>2. ASSUME NEW q \in Supervisors,
             sup'[q].pc = "reconcile" \/ (sup'[q].job = "start" /\ sup'[q].pc \in {"journal", "risk"})
      PROVE  sup'[q].closing = {}
  BY <1>1, <1>2 DEF FactsOK
<1>3. ASSUME faults' = 0, NEW d \in broker'.executed \ Recorded("ENTRY")'
      PROVE  \E q \in Supervisors : sup'[q].pc = "entry" /\ sup'[q].pre = d
  <2>1. CASE x.pc = "entry" /\ x.pre = d
    BY <1>1, <2>1
  <2>2. CASE ~(x.pc = "entry" /\ x.pre = d)
    <3>1. d \in broker.executed \ Recorded("ENTRY")
      BY <1>3, <2>2
    <3>2. PICK q \in Supervisors : sup[q].pc = "entry" /\ sup[q].pre = d
      BY <1>3, <3>1 DEF FactsOK
    <3>3. q # p
      BY <1>3, <2>2, <3>2
    <3>4. QED
      BY <1>1, <3>2, <3>3
  <2>3. QED
    BY <2>1, <2>2
<1>4. ASSUME faults' = 0, NEW d \in journal'.closed \ Recorded("CLOSED_TRADE")', ~latched'
      PROVE  \E q \in Supervisors : sup'[q].pc \in Owing /\ d \in sup'[q].closing
  <2>1. CASE x.pc \in Owing /\ d \in x.closing
    BY <1>1, <2>1
  <2>2. CASE ~(x.pc \in Owing /\ d \in x.closing)
    <3>1. d \in journal.closed \ Recorded("CLOSED_TRADE")
      BY <1>4, <2>2
    <3>2. PICK q \in Supervisors : sup[q].pc \in Owing /\ d \in sup[q].closing
      BY <1>4, <3>1, Zenon DEF FactsOK, Owing
    <3>3. q # p
      BY <1>4, <2>2, <3>2
    <3>4. QED
      BY <1>1, <3>2, <3>3
  <2>3. QED
    BY <2>1, <2>2
<1>5. QED
  BY <1>2, <1>3, <1>4 DEF FactsOK, Owing

(* What a supervisor knows of the store stays true while no receipt is written: tokens
   grow, custody moves forward, the latch is set. *)
LEMMA SupKept ==
    ASSUME SupervisorTyped, NEW x \in SupRecords,
           SupOK(x, lease.token, receipts, external.count, latched),
           receipts' = receipts, lease'.token \in Nat, lease.token <= lease'.token,
           external'.count \in Nat, external.count <= external'.count, latched => latched'
    PROVE  SupOK(x, lease'.token, receipts', external'.count, latched')
<1>1. x.token \in Nat /\ x.pre \in Nat /\ lease.token \in Nat /\ external.count \in Nat
  BY DEF SupervisorTyped, SupRecords
<1>2. x.pc \in Boundary => PreAt(x.pre, receipts, external'.count)
  BY <1>1 DEF SupOK, PreAt
<1>3. QED
  BY <1>1, <1>2 DEF SupOK

(* What the store needs of a step of one supervisor that writes no receipt and takes no
   token. *)
LEMMA StoreKept ==
    ASSUME SupervisorTyped, StoreInvariant, NEW p \in Supervisors, NEW x \in SupRecords,
           sup' = [sup EXCEPT ![p] = x], x.token \in {0, sup[p].token},
           receipts' = receipts, lease'.token = lease.token,
           external'.count \in {external.count, Len(receipts)}, latched => latched',
           \A d \in broker'.executed : d \in broker.executed \/ PreAt(d, receipts, external.count),
           SupOK(x, lease'.token, receipts', external'.count, latched')
    PROVE  StoreInvariant'
<1>1. /\ sup \in [Supervisors -> SupRecords] /\ sup'[p] = x /\ \A q \in Supervisors : q # p => sup'[q] = sup[q]
      /\ lease.token \in Nat /\ external.count \in Nat /\ receipts \in Seq(ReceiptRecords) /\ Len(receipts) \in Nat
  BY DEF SupervisorTyped
<1>2. external'.count \in Nat /\ external.count <= external'.count /\ external'.count <= Len(receipts)
  BY <1>1 DEF StoreInvariant
<1>3. ASSUME NEW q \in Supervisors
      PROVE  SupOK(sup'[q], lease'.token, receipts', external'.count, latched')
  <2>1. CASE q = p
    BY <1>1, <2>1
  <2>2. CASE q # p
    <3>1. sup'[q] = sup[q] /\ sup[q] \in SupRecords /\ SupOK(sup[q], lease.token, receipts, external.count, latched)
      BY <1>1, <2>2 DEF StoreInvariant
    <3>2. SupOK(sup[q], lease'.token, receipts', external'.count, latched')
      BY <1>1, <1>2, <3>1, SupKept
    <3>3. QED
      BY <3>1, <3>2
  <2>3. QED
    BY <2>1, <2>2
<1>4. OneHolderPerToken'
  BY <1>1 DEF StoreInvariant, OneHolderPerToken
<1>5. AnchoredBeforeDispatch'
  BY <1>1, <1>2 DEF StoreInvariant, AnchoredBeforeDispatch, PreAt
<1>6. ReceiptsOK(lease'.token, receipts', latched')
  BY DEF StoreInvariant, ReceiptsOK
<1>7. ReceiptsFenced'
  BY DEF StoreInvariant, ReceiptsFenced
<1>8. GuardHead(receipts')
  BY DEF StoreInvariant
<1>9. QED
  BY <1>2, <1>3, <1>4, <1>5, <1>6, <1>7, <1>8 DEF StoreInvariant

(* A step that stays in the call knows no less when its label is one that the latch, the
   fence and the anchored receipt allow. *)
LEMMA CallGoesOn ==
    ASSUME SupervisorTyped, StoreInvariant, NEW p \in Supervisors, NEW x \in SupRecords,
           x.job = sup[p].job, x.token = sup[p].token, x.pre = sup[p].pre,
           receipts' = receipts, lease'.token = lease.token,
           external'.count \in {external.count, Len(receipts)}, latched => latched',
           Control(x.pc, x.job),
           x.token = 0 => x.pc \in {"fail", "faillatched", "kill"},
           x.pc \in Failing \ {"fail"} => latched',
           Doomed(sup[p].pc, sup[p].job) /\ latched => Doomed(x.pc, x.job),
           x.pc \in Boundary => PreAt(x.pre, receipts, external'.count),
           x.pc # "publish"
    PROVE  SupOK(x, lease'.token, receipts', external'.count, latched')
<1>1. sup[p] \in SupRecords /\ SupOK(sup[p], lease.token, receipts, external.count, latched)
  BY DEF SupervisorTyped, StoreInvariant
<1>2. ASSUME NEW m \in 1..Len(receipts), receipts[m].token < x.token, receipts[m].phase = "CRITICAL"
      PROVE  Doomed(x.pc, x.job)
  <2>1. latched
    BY <1>2 DEF StoreInvariant, ReceiptsOK
  <2>2. QED
    BY <1>1, <1>2, <2>1 DEF SupOK
<1>3. QED
  BY <1>1, <1>2 DEF SupOK

LeaseRecords == [token : Nat, expires : Nat]
ExternalRecords == [version : Nat, count : Nat, latched : BOOLEAN]
JournalRecords == [kill : BOOLEAN, closed : SUBSET Nat, version : Nat]

(* A step inside a call that records no fact and reaches no broker. *)
LEMMA QuietMove ==
    ASSUME SupervisorInvariant, NEW p \in Supervisors, NEW x \in SupRecords,
           sup' = [sup EXCEPT ![p] = x],
           x.job = sup[p].job, x.token = sup[p].token, x.pre = sup[p].pre, x.closing = sup[p].closing,
           UNCHANGED <<now, receipts, risk, broker>>,
           lease' \in LeaseRecords, lease'.token = lease.token,
           external' \in ExternalRecords, external'.count \in {external.count, Len(receipts)},
           journal' \in JournalRecords, journal'.closed = journal.closed,
           latched' \in BOOLEAN, latched => latched',
           faults' \in Nat, faults' = 0 => faults = 0,
           Control(x.pc, x.job), x.pc # "publish",
           x.token = 0 => x.pc \in {"fail", "faillatched", "kill"},
           x.pc \in Failing \ {"fail"} => latched',
           Doomed(sup[p].pc, sup[p].job) /\ latched => Doomed(x.pc, x.job),
           x.pc \in Boundary => PreAt(x.pre, receipts, external'.count),
           x.pc = "reconcile" \/ (x.job = "start" /\ x.pc \in {"journal", "risk"}) => x.closing = {},
           faults' = 0 => sup[p].pc # "entry",
           faults' = 0 /\ sup[p].pc \in Owing => x.pc \in Owing \/ x.closing = {} \/ latched'
    PROVE  SupervisorInvariant'
<1>1. SupervisorTyped /\ StoreInvariant /\ FactsOK
  BY DEF SupervisorInvariant
<1>2. SupervisorTyped'
  BY <1>1 DEF SupervisorTyped, LeaseRecords, ExternalRecords, JournalRecords
<1>3. SupOK(x, lease'.token, receipts', external'.count, latched')
  BY <1>1, CallGoesOn
<1>4. StoreInvariant'
  BY Zenon, <1>1, <1>3, StoreKept
<1>5. Recorded("ENTRY")' = Recorded("ENTRY") /\ Recorded("CLOSED_TRADE")' = Recorded("CLOSED_TRADE")
  BY DEF Recorded
<1>6. FactsOK'
  BY Zenon, <1>1, <1>5, FactsKept
<1>7. QED
  BY <1>2, <1>4, <1>6 DEF SupervisorInvariant

(* The same for a step that only moves to another label and leaves the store alone. *)
LEMMA QuietGoTo ==
    ASSUME SupervisorInvariant, NEW p \in Supervisors, NEW label \in Labels, GoTo(p, label),
           UNCHANGED <<now, receipts, risk, broker, lease, external, latched>>,
           journal' \in JournalRecords, journal'.closed = journal.closed,
           faults' \in Nat, faults' = 0 => faults = 0,
           Control(label, sup[p].job), label # "publish",
           sup[p].token = 0 => label \in {"fail", "faillatched", "kill"},
           label \in Failing \ {"fail"} => latched,
           Doomed(sup[p].pc, sup[p].job) /\ latched => Doomed(label, sup[p].job),
           label \in Boundary => sup[p].pc \in Boundary,
           label # "reconcile", label \in {"journal", "risk"} => sup[p].job # "start",
           faults' = 0 => sup[p].pc # "entry",
           faults' = 0 /\ sup[p].pc \in Owing => label \in Owing \/ sup[p].closing = {}
    PROVE  SupervisorInvariant'
<1> DEFINE x == [sup[p] EXCEPT !.pc = label]
<1>1. /\ sup[p] \in SupRecords /\ SupOK(sup[p], lease.token, receipts, external.count, latched)
      /\ lease \in LeaseRecords /\ external \in ExternalRecords /\ latched \in BOOLEAN
  BY DEF SupervisorInvariant, SupervisorTyped, StoreInvariant, LeaseRecords, ExternalRecords
<1>2. /\ x \in SupRecords /\ x.pc = label /\ x.job = sup[p].job /\ x.token = sup[p].token
      /\ x.pre = sup[p].pre /\ x.closing = sup[p].closing
  BY <1>1 DEF SupRecords
<1>3. sup' = [sup EXCEPT ![p] = x]
  BY Zenon DEF GoTo
<1> HIDE DEF x
<1>4. x.pc \in Boundary => PreAt(x.pre, receipts, external'.count)
  BY <1>1, <1>2 DEF SupOK
<1>5. QED
  BY Zenon, <1>1, <1>2, <1>3, <1>4, QuietMove

(* The label of a supervisor, and what it knows. *)
LEMMA SupFacts ==
    ASSUME SupervisorInvariant, NEW p \in Supervisors
    PROVE  /\ sup[p] \in SupRecords /\ SupOK(sup[p], lease.token, receipts, external.count, latched)
           /\ Control(sup[p].pc, sup[p].job)
           /\ sup[p].token = 0 => sup[p].pc \in {"off", "fail", "faillatched", "kill"}
           /\ lease \in LeaseRecords /\ external \in ExternalRecords /\ journal \in JournalRecords
           /\ lease.token \in Nat /\ lease.expires \in Nat /\ external.count \in Nat /\ journal.version \in Nat
           /\ now \in Nat /\ faults \in Nat /\ latched \in BOOLEAN
           /\ receipts \in Seq(ReceiptRecords) /\ Len(receipts) \in Nat /\ risk \in Seq(RiskEvents) /\ Len(risk) \in Nat
BY DEF SupervisorInvariant, SupervisorTyped, StoreInvariant, SupOK, LeaseRecords, ExternalRecords, JournalRecords

(* The journal's custodied checkpoint moves on; what it has closed stays. *)
LEMMA NextVersion ==
    ASSUME journal \in JournalRecords
    PROVE  /\ [journal EXCEPT !.version = @ + 1] \in JournalRecords
           /\ [journal EXCEPT !.version = @ + 1].closed = journal.closed
           /\ [journal EXCEPT !.kill = TRUE, !.version = @ + 1] \in JournalRecords
           /\ [journal EXCEPT !.kill = TRUE, !.version = @ + 1].closed = journal.closed
<1> DEFINE v == journal.version + 1
<1>1. v \in Nat
  BY DEF JournalRecords
<1> HIDE DEF v
<1>2. /\ [journal EXCEPT !.version = v] \in JournalRecords
      /\ [journal EXCEPT !.version = v].closed = journal.closed
  BY <1>1 DEF JournalRecords
<1>3. /\ [journal EXCEPT !.kill = TRUE, !.version = v] \in JournalRecords
      /\ [journal EXCEPT !.kill = TRUE, !.version = v].closed = journal.closed
  BY Zenon, <1>1 DEF JournalRecords
<1>4. QED
  BY <1>2, <1>3, Zenon DEF v

----------------------------------------------------------------------------
(* The steps that only go on to the next label. *)
LEMMA DecideStep ==
    ASSUME SupervisorInvariant, NEW p \in Supervisors, Decide(p)
    PROVE  SupervisorInvariant'
<1>1. PICK label \in {"cycle", "preconsume", "predispatch"} : GoTo(p, label)
  BY Zenon DEF Decide
<1>2. label \in Labels /\ sup[p].pc = "decide" /\ sup[p].job = "cycle" /\ sup[p].token # 0
  BY SupFacts DEF Decide, At, Labels, Control
<1>3. UNCHANGED <<now, receipts, risk, broker, lease, external, latched, journal, faults>>
  BY DEF Decide, store, ports, env
<1>4. Control(label, sup[p].job) /\ ~Doomed(sup[p].pc, sup[p].job)
  BY <1>2 DEF Control, Doomed, Checks, Boundary, Failing
<1>5. QED
  BY <1>1, <1>2, <1>3, <1>4, SupFacts, QuietGoTo DEF Failing, Boundary, Owing

(* stop begins. *)
LEMMA StopStep ==
    ASSUME SupervisorInvariant, NEW p \in Supervisors, Stop(p)
    PROVE  SupervisorInvariant'
<1>1. GoTo(p, "shutdown")
  BY DEF Stop
<1>2. "shutdown" \in Labels /\ sup[p].pc = "ready" /\ sup[p].job \in {"STARTUP", "CYCLE"} /\ sup[p].token # 0
  BY SupFacts DEF Stop, At, Labels, Control
<1>3. UNCHANGED <<now, receipts, risk, broker, lease, external, latched, journal, faults>>
  BY DEF Stop, store, ports, env
<1>4. Control("shutdown", sup[p].job) /\ ~Doomed(sup[p].pc, sup[p].job)
  BY <1>2 DEF Control, Doomed, Checks, Boundary, Failing
<1>5. QED
  BY <1>1, <1>2, <1>3, <1>4, SupFacts, QuietGoTo DEF Failing, Boundary, Owing

(* The risk receipt behind an entry goes into custody. *)
LEMMA EntryCustodyStep ==
    ASSUME SupervisorInvariant, NEW p \in Supervisors, EntryCustody(p)
    PROVE  SupervisorInvariant'
<1>1. GoTo(p, "rejournal")
  BY DEF EntryCustody
<1>2. "rejournal" \in Labels /\ sup[p].pc = "entered" /\ sup[p].job = "PRE_DISPATCH" /\ sup[p].token # 0
  BY SupFacts DEF EntryCustody, At, Labels, Control, Failing, Boundary
<1>3. UNCHANGED <<now, receipts, risk, broker, lease, external, latched, journal, faults>>
  BY DEF EntryCustody, store, ports, env
<1>4. Control("rejournal", sup[p].job) /\ ~Doomed(sup[p].pc, sup[p].job)
  BY <1>2 DEF Control, Doomed, Checks, Boundary, Failing
<1>5. QED
  <2>1. "rejournal" \notin Failing \cup Boundary /\ sup[p].pc \notin Owing
    BY <1>2 DEF Failing, Boundary, Owing
  <2>2. QED
    BY Zenon, <1>1, <1>2, <1>3, <1>4, <2>1, SupFacts, QuietGoTo

(* The journal's checkpoint behind an entry goes into custody. *)
LEMMA JournalCustodyStep ==
    ASSUME SupervisorInvariant, NEW p \in Supervisors, JournalCustody(p)
    PROVE  SupervisorInvariant'
<1>1. GoTo(p, "cycle")
  BY DEF JournalCustody
<1>2. "cycle" \in Labels /\ sup[p].pc = "rejournal" /\ sup[p].job = "PRE_DISPATCH" /\ sup[p].token # 0
  BY SupFacts DEF JournalCustody, At, Labels, Control, Failing, Boundary
<1>3. UNCHANGED <<now, receipts, risk, broker, lease, external, latched, faults>>
  BY DEF JournalCustody, store, ports, env
<1>4. journal' \in JournalRecords /\ journal'.closed = journal.closed
  BY SupFacts, NextVersion, Zenon DEF JournalCustody
<1>5. Control("cycle", sup[p].job) /\ ~Doomed(sup[p].pc, sup[p].job)
  BY <1>2 DEF Control, Doomed, Checks, Boundary, Failing
<1>6. QED
  BY <1>1, <1>2, <1>3, <1>4, <1>5, SupFacts, QuietGoTo DEF Failing, Boundary, Owing

(* The recheck behind the callbacks goes on or fails. *)
LEMMA RecheckStep ==
    ASSUME SupervisorInvariant, NEW p \in Supervisors, Recheck(p)
    PROVE  SupervisorInvariant'
<1> DEFINE label == IF Mode = "DEMO" \/ sup[p].journal = journal.version + 1 THEN "rerisk" ELSE "fail"
<1>1. GoTo(p, label)
  BY DEF Recheck, GoTo
<1>2. label \in Labels /\ sup[p].pc = "recheck" /\ sup[p].job = "PRE_DISPATCH" /\ sup[p].token # 0
  BY Zenon, SupFacts DEF Recheck, At, Labels, Control, Failing, Boundary
<1>3. UNCHANGED <<now, receipts, risk, broker, lease, external, latched, faults>>
  BY DEF Recheck, store, ports, env
<1>4. journal' \in JournalRecords /\ journal'.closed = journal.closed
  BY SupFacts, NextVersion, Zenon DEF Recheck
<1>5. Control(label, sup[p].job) /\ ~Doomed(sup[p].pc, sup[p].job)
  BY <1>2 DEF Control, Doomed, Checks, Boundary, Failing
<1>6. QED
  BY <1>1, <1>2, <1>3, <1>4, <1>5, SupFacts, QuietGoTo DEF Failing, Boundary, Owing

(* The risk receipt is compared again. *)
LEMMA RecheckRiskStep ==
    ASSUME SupervisorInvariant, NEW p \in Supervisors, RecheckRisk(p)
    PROVE  SupervisorInvariant'
<1>1. PICK label \in {"reguard", "fail"} : GoTo(p, label)
  BY Zenon DEF RecheckRisk
<1>2. label \in Labels /\ sup[p].pc = "rerisk" /\ sup[p].job = "PRE_DISPATCH" /\ sup[p].token # 0
  BY SupFacts DEF RecheckRisk, At, Labels, Control, Failing, Boundary
<1>3. UNCHANGED <<now, receipts, risk, broker, lease, external, latched, journal, faults>>
  BY DEF RecheckRisk, store, ports, env
<1>4. Control(label, sup[p].job) /\ ~Doomed(sup[p].pc, sup[p].job)
  BY <1>2 DEF Control, Doomed, Checks, Boundary, Failing
<1>5. QED
  BY <1>1, <1>2, <1>3, <1>4, SupFacts, QuietGoTo DEF Failing, Boundary, Owing

(* A check of the code refuses what it finds. *)
LEMMA DeniedStep ==
    ASSUME SupervisorInvariant, NEW p \in Supervisors, Denied(p)
    PROVE  SupervisorInvariant'
<1> DEFINE label == IF sup[p].job = "CRITICAL" THEN "release" ELSE "fail"
<1>1. GoTo(p, label)
  BY DEF Denied
<1>2. sup[p].pc \in {"ready", "reconcile", "journal", "settle", "guard", "startup", "cycle", "preconsume",
                    "predispatch", "shutdown", "publish", "recheck", "reguard", "rejournal"}
  BY DEF Denied, At, PhaseAt
<1>3. sup[p].token # 0 /\ sup[p].job # "none" /\ label \in Labels
  BY <1>2, SupFacts DEF Labels, Failing, Control
<1>4. UNCHANGED <<now, receipts, risk, broker, lease, external, latched, journal, faults>>
  BY DEF Denied, store, ports, env
<1>5. Control(label, sup[p].job) /\ Doomed(label, sup[p].job)
  BY <1>2, <1>3, SupFacts DEF Control, Doomed, Checks, Boundary, Failing
<1>6. sup[p].pc \in Owing => label \in Owing
  BY <1>2, SupFacts DEF Control, Owing, Checks
<1>7. QED
  BY <1>1, <1>2, <1>3, <1>4, <1>5, <1>6, SupFacts, QuietGoTo DEF Failing, Boundary

(* A CRITICAL receipt the store or custody refuses is passed over. *)
LEMMA NoCriticalReceiptStep ==
    ASSUME SupervisorInvariant, NEW p \in Supervisors, NoCriticalReceipt(p)
    PROVE  SupervisorInvariant'
<1> DEFINE x == [sup[p] EXCEPT !.pc = "release", !.job = "CRITICAL"]
<1>1. sup' = [sup EXCEPT ![p] = x]
  BY Zenon DEF NoCriticalReceipt
<1>2. sup[p].pc = "critical" /\ sup[p].token # 0 /\ latched
  BY SupFacts DEF NoCriticalReceipt, At, SupOK, Failing
<1>3. UNCHANGED <<now, receipts, risk, broker, lease, external, latched, journal, faults>>
  BY DEF NoCriticalReceipt, store, ports, env
<1>4. x \in SupRecords /\ x.pc = "release" /\ x.job = "CRITICAL" /\ x.token = sup[p].token
  BY Zenon, SupFacts DEF SupRecords, Labels, Jobs, Phases
<1> HIDE DEF x
<1>5. SupervisorTyped /\ StoreInvariant /\ FactsOK
  BY DEF SupervisorInvariant
<1>6. SupervisorTyped'
  BY <1>1, <1>3, <1>4, <1>5 DEF SupervisorTyped
<1>7. SupOK(x, lease'.token, receipts', external'.count, latched')
  <2>1. Control(x.pc, x.job) /\ Doomed(x.pc, x.job)
    BY <1>4 DEF Control, Doomed, Checks, Boundary, Failing
  <2>2. SupOK(sup[p], lease.token, receipts, external.count, latched)
    BY SupFacts
  <2>3. QED
    BY <1>2, <1>3, <1>4, <2>1, <2>2 DEF SupOK, Boundary
<1>8. StoreInvariant'
  BY Zenon, <1>1, <1>3, <1>4, <1>5, <1>7, StoreKept
<1>9. Recorded("ENTRY")' = Recorded("ENTRY") /\ Recorded("CLOSED_TRADE")' = Recorded("CLOSED_TRADE")
  BY <1>3 DEF Recorded
<1>10. FactsOK'
  <2>1. sup[p].pc \notin Owing \cup {"entry"} /\ x.pc \notin {"reconcile", "journal", "risk"}
    BY <1>2, <1>4 DEF Owing
  <2>2. QED
    BY Zenon, <1>1, <1>3, <1>4, <1>5, <1>9, <2>1, FactsKept
<1>11. QED
  BY <1>6, <1>8, <1>10 DEF SupervisorInvariant

(* A provider's answer fails its checks: the call fails. *)
LEMMA UnhealthyStep ==
    ASSUME SupervisorInvariant, NEW p \in Supervisors, Unhealthy(p)
    PROVE  SupervisorInvariant'
<1>1. GoTo(p, "fail") /\ UNCHANGED <<now, receipts, risk, broker, lease, external, latched>> /\ faults' = faults + 1
  BY DEF Unhealthy, store, Fault
<1>2. /\ sup[p].token # 0 /\ sup[p].job \notin {"none", "CRITICAL"} /\ "fail" \in Labels
      /\ Control("fail", sup[p].job) /\ Doomed("fail", sup[p].job)
  BY SupFacts DEF Unhealthy, Labels, Failing, Control, Checks, Boundary, Doomed
<1>3. journal' \in JournalRecords /\ journal'.closed = journal.closed
  BY Zenon, SupFacts DEF Unhealthy, JournalRecords
<1>4. faults' \in Nat /\ faults' # 0
  BY <1>1, SupFacts
<1>5. QED
  BY <1>1, <1>2, <1>3, <1>4, SupFacts, QuietGoTo DEF Failing, Boundary

(* The answer to the latch's publication is lost. *)
LEMMA PublishLatchLostStep ==
    ASSUME SupervisorInvariant, NEW p \in Supervisors, PublishLatchLost(p)
    PROVE  SupervisorInvariant'
<1>1. /\ GoTo(p, "kill") /\ UNCHANGED <<now, receipts, risk, broker, lease, external, latched, journal>>
      /\ faults' = faults + 1 /\ sup[p].pc = "faillatched"
  BY DEF PublishLatchLost, store, ports, Fault, At
<1>2. sup[p].job \notin {"none", "CRITICAL"} /\ latched /\ "kill" \in Labels
  BY <1>1, SupFacts DEF Labels, Failing, Control, SupOK
<1>3. Control("kill", sup[p].job) /\ Doomed("kill", sup[p].job)
  BY <1>2 DEF Control, Doomed, Failing, Checks, Boundary
<1>4. faults' \in Nat /\ faults' # 0
  BY <1>1, SupFacts
<1>5. QED
  BY Zenon, <1>1, <1>2, <1>3, <1>4, SupFacts, QuietGoTo DEF Failing, Boundary

----------------------------------------------------------------------------
(* The labels of a start and of a cycle, in their order. *)
LEMMA AfterLabels ==
    /\ After("start", "claimed") = "journal" /\ After("start", "journal") = "risk"
    /\ After("start", "risk") = "reconcile" /\ After("start", "reconcile") = "settle"
    /\ After("cycle", "begun") = "reconcile" /\ After("cycle", "reconcile") = "journal"
    /\ After("cycle", "journal") = "risk" /\ After("cycle", "risk") = "settle"
BY DEF After

(* A lease that is refreshed keeps its token. *)
LEMMA RefreshKeepsToken ==
    ASSUME SupervisorInvariant, NEW p \in Supervisors, Refresh(p)
    PROVE  lease' \in LeaseRecords /\ lease'.token = lease.token /\ lease.token = sup[p].token
<1> DEFINE until == now + LeaseTerm
<1>1. until \in Nat /\ lease \in LeaseRecords
  BY SupFacts, SupervisorAssumption
<1>2. lease' = [lease EXCEPT !.expires = until] /\ lease.token = sup[p].token
  BY DEF Refresh, Holds
<1> HIDE DEF until
<1>3. QED
  BY <1>1, <1>2 DEF LeaseRecords

(* The latest accepted news guard. *)
LEMMA NewsHeadNatural ==
    ASSUME SupervisorInvariant
    PROVE  NewsHead \in {receipts[n].guard : n \in DOMAIN receipts} \cup {0} /\ NewsHead \in Nat
<1> DEFINE guards == {receipts[n].guard : n \in DOMAIN receipts} \cup {0}
<1>1. \E g \in guards : \A h \in guards : h <= g
  BY Zenon DEF SupervisorInvariant, StoreInvariant, GuardHead
<1>2. guards \subseteq Nat
  <2>1. receipts \in Seq(ReceiptRecords)
    BY DEF SupervisorInvariant, SupervisorTyped
  <2>2. ASSUME NEW n \in DOMAIN receipts PROVE receipts[n].guard \in Nat
    <3>1. receipts[n] \in ReceiptRecords
      BY <2>1
    <3>2. QED
      BY <3>1 DEF ReceiptRecords
  <2>3. QED
    BY <2>2
<1> HIDE DEF guards
<1>3. (CHOOSE g \in guards : \A h \in guards : h <= g) \in guards
  BY <1>1
<1>4. NewsHead = CHOOSE g \in guards : \A h \in guards : h <= g
  BY Zenon DEF NewsHead, guards
<1>5. NewsHead \in guards
  BY <1>3, <1>4
<1>6. QED
  BY <1>2, <1>5 DEF guards

(* The journal's checkpoint is verified; a start that finds the store latched ends here. *)
LEMMA VerifyJournalStep ==
    ASSUME SupervisorInvariant, NEW p \in Supervisors, VerifyJournal(p)
    PROVE  SupervisorInvariant'
<1> DEFINE v == journal.version + 1
           x == [sup[p] EXCEPT !.journal = v, !.pc = "risk"]
<1>1. sup[p] \in SupRecords /\ sup[p].pc = "journal" /\ sup[p].job \in {"start", "cycle"} /\ v \in Nat
  BY SupFacts DEF VerifyJournal, At, Control, Checks
<1>2. After(sup[p].job, "journal") = "risk"
  BY <1>1, AfterLabels
<1>3. sup' = [sup EXCEPT ![p] = x]
  BY <1>2, Zenon DEF VerifyJournal
<1> HIDE DEF v
<1>4. /\ x \in SupRecords /\ x.pc = "risk" /\ x.job = sup[p].job /\ x.token = sup[p].token
      /\ x.pre = sup[p].pre /\ x.closing = sup[p].closing
  BY Zenon, <1>1 DEF SupRecords, Labels, Checks
<1> HIDE DEF x
<1>5. journal' \in JournalRecords /\ journal'.closed = journal.closed
  BY SupFacts, NextVersion, Zenon DEF VerifyJournal
<1>6. UNCHANGED <<now, receipts, risk, broker, lease, external, latched, faults>>
  BY DEF VerifyJournal, store, env
<1>7. Control("risk", x.job) /\ (latched => ~Doomed(sup[p].pc, sup[p].job))
  BY <1>1, <1>4 DEF Control, Doomed, Checks, Boundary, Failing, VerifyJournal, StoreAllows
<1>8. x.job = "start" => x.closing = {}
  BY Zenon, <1>1, <1>4 DEF SupervisorInvariant, FactsOK
<1>9. QED
  BY Zenon, <1>1, <1>3, <1>4, <1>5, <1>6, <1>7, <1>8, SupFacts, QuietMove DEF Failing, Boundary, Owing

(* The risk receipt is verified. *)
LEMMA VerifyRiskStep ==
    ASSUME SupervisorInvariant, NEW p \in Supervisors, VerifyRisk(p)
    PROVE  SupervisorInvariant'
<1> DEFINE label == IF sup[p].job = "start" THEN "reconcile" ELSE "settle"
           x == [sup[p] EXCEPT !.risk = RiskReceipt, !.pc = label]
<1>1. /\ sup[p] \in SupRecords /\ sup[p].pc = "risk" /\ sup[p].job \in {"start", "cycle"}
      /\ RiskReceipt \in [seq : Nat, issued : Nat]
  BY SupFacts DEF VerifyRisk, At, Control, Checks, RiskReceipt
<1>2. After(sup[p].job, "risk") = label
  BY <1>1, AfterLabels
<1>3. sup' = [sup EXCEPT ![p] = x]
  BY <1>2, Zenon DEF VerifyRisk
<1>4. label \in {"reconcile", "settle"} /\ (label = "reconcile" <=> sup[p].job = "start")
  OBVIOUS
<1> HIDE DEF label
<1>5. /\ x \in SupRecords /\ x.pc = label /\ x.job = sup[p].job /\ x.token = sup[p].token
      /\ x.pre = sup[p].pre /\ x.closing = sup[p].closing
  BY Zenon, <1>1, <1>4 DEF SupRecords, Labels, Checks
<1> HIDE DEF x
<1>6. UNCHANGED <<now, receipts, risk, broker, lease, external, latched, faults, journal>>
  BY DEF VerifyRisk, store, env
<1>7. Control(x.pc, x.job) /\ ~Doomed(sup[p].pc, sup[p].job)
  BY <1>1, <1>4, <1>5 DEF Control, Doomed, Checks, Boundary, Failing
<1>8. x.job = "start" => x.closing = {}
  BY Zenon, <1>1, <1>5 DEF SupervisorInvariant, FactsOK
<1>9. QED
  BY Zenon, <1>1, <1>3, <1>4, <1>5, <1>6, <1>7, <1>8, SupFacts, QuietMove DEF Failing, Boundary, Owing

(* The risk receipt behind the settled facts goes into custody. *)
LEMMA RiskCustodyStep ==
    ASSUME SupervisorInvariant, NEW p \in Supervisors, RiskCustody(p)
    PROVE  SupervisorInvariant'
<1> DEFINE x == [sup[p] EXCEPT !.risk = RiskReceipt, !.pc = "guard"]
<1>1. /\ sup[p] \in SupRecords /\ sup[p].pc = "settled" /\ sup[p].job \in {"start", "cycle"}
      /\ RiskReceipt \in [seq : Nat, issued : Nat]
  BY SupFacts DEF RiskCustody, At, Control, Checks, RiskReceipt
<1>2. sup' = [sup EXCEPT ![p] = x]
  BY Zenon DEF RiskCustody
<1>3. /\ x \in SupRecords /\ x.pc = "guard" /\ x.job = sup[p].job /\ x.token = sup[p].token
      /\ x.pre = sup[p].pre /\ x.closing = sup[p].closing
  BY Zenon, <1>1 DEF SupRecords, Labels, Checks
<1> HIDE DEF x
<1>4. UNCHANGED <<now, receipts, risk, broker, lease, external, latched, faults, journal>>
  BY DEF RiskCustody, store, env
<1>5. Control(x.pc, x.job) /\ ~Doomed(sup[p].pc, sup[p].job)
  BY <1>1, <1>3 DEF Control, Doomed, Checks, Boundary, Failing
<1>6. QED
  BY Zenon, <1>1, <1>2, <1>3, <1>4, <1>5, SupFacts, QuietMove DEF Failing, Boundary, Owing

(* A news guard follows the accepted one, under a lease that is held. *)
LEMMA NewsGuardStep ==
    ASSUME SupervisorInvariant, NEW p \in Supervisors, NewsGuard(p)
    PROVE  SupervisorInvariant'
<1> DEFINE label == IF sup[p].job = "start" THEN "startup" ELSE "decide"
           g == NewsHead + 1
           x == [sup[p] EXCEPT !.guard = g, !.pc = label]
<1>1. sup[p] \in SupRecords /\ sup[p].pc = "guard" /\ sup[p].job \in {"start", "cycle"} /\ g \in Nat
  BY SupFacts, NewsHeadNatural DEF NewsGuard, At, Control, Checks
<1>2. sup' = [sup EXCEPT ![p] = x]
  BY Zenon DEF NewsGuard
<1>3. label \in {"startup", "decide"} /\ (label = "startup" <=> sup[p].job = "start")
  OBVIOUS
<1> HIDE DEF label, g
<1>4. /\ x \in SupRecords /\ x.pc = label /\ x.job = sup[p].job /\ x.token = sup[p].token
      /\ x.pre = sup[p].pre /\ x.closing = sup[p].closing
  BY Zenon, <1>1, <1>3 DEF SupRecords, Labels
<1> HIDE DEF x
<1>5. /\ UNCHANGED <<now, receipts, risk, broker, external, latched, faults, journal>>
      /\ lease' \in LeaseRecords /\ lease'.token = lease.token
  BY RefreshKeepsToken DEF NewsGuard, ports, env
<1>6. Control(x.pc, x.job) /\ ~Doomed(sup[p].pc, sup[p].job)
  BY <1>1, <1>3, <1>4 DEF Control, Doomed, Checks, Boundary, Failing
<1>7. QED
  BY Zenon, <1>1, <1>2, <1>3, <1>4, <1>5, <1>6, SupFacts, QuietMove DEF Failing, Boundary, Owing

(* The final boundary before an order. *)
LEMMA FinalBoundaryStep ==
    ASSUME SupervisorInvariant, NEW p \in Supervisors, FinalBoundary(p)
    PROVE  SupervisorInvariant'
<1> DEFINE g == NewsHead + 1
           x == [sup[p] EXCEPT !.pc = "dispatch", !.guard = g]
<1>1. sup[p] \in SupRecords /\ sup[p].pc = "reguard" /\ sup[p].job = "PRE_DISPATCH" /\ g \in Nat
  BY SupFacts, NewsHeadNatural DEF FinalBoundary, At, Control, Boundary
<1>2. sup' = [sup EXCEPT ![p] = x]
  BY Zenon DEF FinalBoundary
<1> HIDE DEF g
<1>3. /\ x \in SupRecords /\ x.pc = "dispatch" /\ x.job = sup[p].job /\ x.token = sup[p].token
      /\ x.pre = sup[p].pre /\ x.closing = sup[p].closing
  BY Zenon, <1>1 DEF SupRecords, Labels, Boundary
<1> HIDE DEF x
<1>4. /\ UNCHANGED <<now, receipts, risk, broker, external, latched, faults, journal>>
      /\ lease' \in LeaseRecords /\ lease'.token = lease.token
  BY RefreshKeepsToken DEF FinalBoundary, ports, env
<1>5. Control(x.pc, x.job) /\ ~Doomed(sup[p].pc, sup[p].job)
  BY ZenonT(20), <1>1, <1>3 DEF Control, Doomed, Checks, Boundary, Failing
<1>6. PreAt(x.pre, receipts, external'.count)
  BY <1>1, <1>3, <1>4, SupFacts DEF SupOK, Boundary
<1>7. QED
  BY Zenon, <1>1, <1>2, <1>3, <1>4, <1>5, <1>6, SupFacts, QuietMove DEF Failing, Owing

(* The local latch is committed first. *)
LEMMA LatchCriticalStep ==
    ASSUME SupervisorInvariant, NEW p \in Supervisors, LatchCritical(p)
    PROVE  SupervisorInvariant'
<1> DEFINE v == IF Anchored THEN external.version ELSE 0
           x == [sup[p] EXCEPT !.pc = "faillatched", !.expected = v]
<1>1. sup[p] \in SupRecords /\ sup[p].pc = "fail" /\ sup[p].job \notin {"none", "CRITICAL"} /\ v \in Nat
  BY SupFacts DEF LatchCritical, At, Control, Failing, ExternalRecords
<1>2. sup' = [sup EXCEPT ![p] = x]
  BY Zenon DEF LatchCritical
<1> HIDE DEF v
<1>3. /\ x \in SupRecords /\ x.pc = "faillatched" /\ x.job = sup[p].job /\ x.token = sup[p].token
      /\ x.pre = sup[p].pre /\ x.closing = sup[p].closing
  BY Zenon, <1>1 DEF SupRecords, Labels, Failing
<1> HIDE DEF x
<1>4. UNCHANGED <<now, receipts, risk, broker, lease, external, faults, journal>> /\ latched' = TRUE
  BY DEF LatchCritical, ports, env
<1>5. Control(x.pc, x.job) /\ Doomed(x.pc, x.job)
  BY <1>1, <1>3 DEF Control, Doomed, Checks, Boundary, Failing
<1>6. latched' /\ latched' \in BOOLEAN /\ (latched => latched')
  BY <1>4, Zenon
<1>7. QED
  BY Zenon, <1>1, <1>2, <1>3, <1>4, <1>5, <1>6, SupFacts, QuietMove DEF Failing, Boundary

----------------------------------------------------------------------------
(* A checkpoint of the store as it is now. *)
LEMMA SuccessorTyped ==
    ASSUME SupervisorInvariant
    PROVE  Successor \in ExternalRecords /\ Successor.count = Len(receipts)
<1> DEFINE v == external.version + 1
<1>1. v \in Nat /\ Len(receipts) \in Nat /\ latched \in BOOLEAN
  BY SMTT(30) DEF SupervisorInvariant, SupervisorTyped
<1>2. Successor = [version |-> v, count |-> Len(receipts), latched |-> latched]
  BY Zenon DEF Successor
<1> HIDE DEF v
<1>3. QED
  BY <1>1, <1>2 DEF ExternalRecords

(* The latch is published if custody described the store before it. *)
LEMMA PublishLatchStep ==
    ASSUME SupervisorInvariant, NEW p \in Supervisors, PublishLatch(p)
    PROVE  SupervisorInvariant'
<1> DEFINE x == [sup[p] EXCEPT !.pc = "kill"]
<1>1. sup[p] \in SupRecords /\ sup[p].pc = "faillatched" /\ sup[p].job \notin {"none", "CRITICAL"} /\ latched
  BY SupFacts DEF PublishLatch, At, Control, Failing, SupOK
<1>2. sup' = [sup EXCEPT ![p] = x]
  BY Zenon DEF PublishLatch, GoTo
<1>3. /\ x \in SupRecords /\ x.pc = "kill" /\ x.job = sup[p].job /\ x.token = sup[p].token
      /\ x.pre = sup[p].pre /\ x.closing = sup[p].closing
  BY <1>1 DEF SupRecords, Labels, Failing
<1> HIDE DEF x
<1>4. UNCHANGED <<now, receipts, risk, broker, lease, latched, faults, journal>>
  BY DEF PublishLatch, ports, env, store
<1>5. Control(x.pc, x.job) /\ Doomed(x.pc, x.job)
  BY <1>1, <1>3 DEF Control, Doomed, Checks, Boundary, Failing
<1>6. external' \in ExternalRecords /\ external'.count \in {external.count, Len(receipts)}
  BY SupFacts, SuccessorTyped DEF PublishLatch
<1>7. QED
  BY Zenon, <1>1, <1>2, <1>3, <1>4, <1>5, <1>6, SupFacts, QuietMove DEF Failing, Boundary, Owing

(* The publication of a receipt: an anchored PRE_DISPATCH receipt opens the boundary. *)
LEMMA PublishStep ==
    ASSUME SupervisorInvariant, NEW p \in Supervisors, Publish(p)
    PROVE  SupervisorInvariant'
<1> DEFINE label == Then(sup[p].job)
           x == [sup[p] EXCEPT !.pc = label]
<1>1. sup[p] \in SupRecords /\ sup[p].pc = "publish" /\ sup[p].job \in Phases /\ sup[p].token # 0
  BY SupFacts DEF Publish, At, Control
<1>2. /\ label \in {"ready", "predispatch", "recheck", "release"}
      /\ label = "ready" => sup[p].job \in {"STARTUP", "CYCLE"}
      /\ label = "predispatch" => sup[p].job = "PRE_CONSUME"
      /\ label = "recheck" => sup[p].job = "PRE_DISPATCH"
      /\ label = "release" <=> sup[p].job \in {"SHUTDOWN", "CRITICAL"}
  BY <1>1 DEF Then, Phases
<1>3. sup' = [sup EXCEPT ![p] = x]
  BY Zenon DEF Publish, GoTo
<1> HIDE DEF label
<1>4. /\ x \in SupRecords /\ x.pc = label /\ x.job = sup[p].job /\ x.token = sup[p].token
      /\ x.pre = sup[p].pre /\ x.closing = sup[p].closing
  BY <1>1, <1>2 DEF SupRecords, Labels, Boundary
<1> HIDE DEF x
<1>5. UNCHANGED <<now, receipts, risk, broker, lease, latched, faults, journal>>
  BY DEF Publish, ports, env, store
<1>6. Control(x.pc, x.job) /\ (Doomed(sup[p].pc, sup[p].job) => Doomed(x.pc, x.job))
  BY <1>1, <1>2, <1>4 DEF Control, Doomed, Checks, Boundary, Failing, Phases
<1>7. external' \in ExternalRecords /\ external'.count = Len(receipts)
  BY SuccessorTyped DEF Publish
<1>8. x.pc \in Boundary => PreAt(x.pre, receipts, external'.count)
  BY SMTT(30), <1>1, <1>2, <1>4, <1>7, SupFacts DEF SupOK, Boundary
<1>9. QED
  BY Zenon, <1>1, <1>2, <1>3, <1>4, <1>5, <1>6, <1>7, <1>8, SupFacts, QuietMove DEF Failing, Owing

(* The answer to a publication is lost, whether or not custody has moved. *)
LEMMA PublishLostStep ==
    ASSUME SupervisorInvariant, NEW p \in Supervisors, PublishLost(p)
    PROVE  SupervisorInvariant'
<1> DEFINE label == IF sup[p].job = "CRITICAL" THEN "release" ELSE "fail"
           x == [sup[p] EXCEPT !.pc = label]
<1>1. sup[p] \in SupRecords /\ sup[p].pc = "publish" /\ sup[p].job \in Phases /\ sup[p].token # 0
  BY SupFacts DEF PublishLost, At, Control
<1>2. sup' = [sup EXCEPT ![p] = x]
  BY Zenon DEF PublishLost, GoTo
<1>3. label \in {"release", "fail"} /\ (label = "release" <=> sup[p].job = "CRITICAL")
  OBVIOUS
<1> HIDE DEF label
<1>4. /\ x \in SupRecords /\ x.pc = label /\ x.job = sup[p].job /\ x.token = sup[p].token
      /\ x.pre = sup[p].pre /\ x.closing = sup[p].closing
  BY <1>1, <1>3 DEF SupRecords, Labels, Failing
<1> HIDE DEF x
<1>5. UNCHANGED <<now, receipts, risk, broker, lease, latched, journal>> /\ faults' \in Nat /\ faults' # 0
  BY SupFacts DEF PublishLost, ports, store, Fault
<1>6. Control(x.pc, x.job) /\ Doomed(x.pc, x.job)
  BY <1>1, <1>3, <1>4 DEF Control, Doomed, Checks, Boundary, Failing, Phases
<1>7. external' \in ExternalRecords /\ external'.count \in {external.count, Len(receipts)}
  BY SupFacts, SuccessorTyped DEF PublishLost
<1>8. QED
  BY Zenon, <1>1, <1>2, <1>3, <1>4, <1>5, <1>6, <1>7, SupFacts, QuietMove DEF Failing, Boundary

----------------------------------------------------------------------------
(* A supervisor outside every call. *)
LEMMA OffRecord ==
    /\ Off \in SupRecords /\ Off.pc = "off" /\ Off.job = "none" /\ Off.token = 0
    /\ Off.closing = {} /\ Off.pre = 0
BY DEF Off, SupRecords, Labels, Jobs, NoReceipt

(* A call ends, or its process dies. *)
LEMMA OffMove ==
    ASSUME SupervisorInvariant, NEW p \in Supervisors, sup' = [sup EXCEPT ![p] = Off],
           UNCHANGED <<now, receipts, risk, broker, external, latched>>,
           lease' \in LeaseRecords, lease'.token = lease.token,
           journal' \in JournalRecords, journal'.closed = journal.closed,
           faults' \in Nat, faults' = 0 => faults = 0 /\ sup[p].pc # "entry" /\ sup[p].pc \notin Owing
    PROVE  SupervisorInvariant'
<1>1. SupervisorTyped /\ StoreInvariant /\ FactsOK
  BY DEF SupervisorInvariant
<1>2. SupervisorTyped'
  BY <1>1, OffRecord DEF SupervisorTyped, LeaseRecords, JournalRecords
<1>3. SupOK(Off, lease.token, receipts, external.count, latched)
  <2>1. Control(Off.pc, Off.job)
    BY OffRecord DEF Control, Checks, Boundary, Failing
  <2>2. \A m \in 1..Len(receipts) : receipts[m].token \in 1..lease.token
    BY <1>1 DEF StoreInvariant, ReceiptsOK
  <2>3. lease.token \in Nat
    BY SupFacts
  <2>4. QED
    BY <2>1, <2>2, <2>3, OffRecord DEF SupOK, Failing, Boundary
<1>4. StoreInvariant'
  BY Zenon, <1>1, <1>3, OffRecord, StoreKept
<1>5. Recorded("ENTRY")' = Recorded("ENTRY") /\ Recorded("CLOSED_TRADE")' = Recorded("CLOSED_TRADE")
  BY DEF Recorded
<1>6. FactsOK'
  BY Zenon, <1>1, <1>5, OffRecord, FactsKept
<1>7. QED
  BY <1>2, <1>4, <1>6 DEF SupervisorInvariant

(* A process dies. *)
LEMMA CrashStep ==
    ASSUME SupervisorInvariant, NEW p \in Supervisors, Crash(p)
    PROVE  SupervisorInvariant'
<1>1. /\ sup' = [sup EXCEPT ![p] = Off] /\ faults' \in Nat /\ faults' # 0
      /\ UNCHANGED <<now, receipts, risk, broker, external, latched, lease, journal>>
  BY SupFacts DEF Crash, Fault, store, ports
<1>2. QED
  BY Zenon, <1>1, SupFacts, OffMove

(* The lease is released; stop fails when another owner has it. *)
LEMMA ReleaseStep ==
    ASSUME SupervisorInvariant, NEW p \in Supervisors, Release(p)
    PROVE  SupervisorInvariant'
<1>1. sup[p].pc = "release" /\ UNCHANGED <<now, receipts, risk, broker, external, latched, journal, faults>>
  BY DEF Release, ports, env, At
<1>2. lease' \in LeaseRecords /\ lease'.token = lease.token
  BY SupFacts DEF Release, LeaseRecords
<1>3. CASE sup' = [sup EXCEPT ![p] = Off]
  BY Zenon, <1>1, <1>2, <1>3, SupFacts, OffMove DEF Owing
<1>4. CASE GoTo(p, "fail") /\ sup[p].job # "CRITICAL" /\ UNCHANGED lease
  <2>1. /\ sup[p].token # 0 /\ sup[p].job # "none" /\ "fail" \in Labels /\ "fail" \notin Boundary
        /\ sup[p].pc \notin Owing
    BY <1>1, SupFacts DEF Labels, Failing, Boundary, Control, Owing
  <2>2. Control("fail", sup[p].job) /\ Doomed("fail", sup[p].job)
    BY <1>4, <2>1 DEF Control, Doomed, Checks, Boundary, Failing
  <2>3. QED
    BY Zenon, <1>1, <1>4, <2>1, <2>2, SupFacts, QuietGoTo
<1>5. QED
  BY Zenon, <1>3, <1>4 DEF Release, GoTo

(* The journal's kill switch is set; without a lease the stop ends there. *)
LEMMA KillSwitchStep ==
    ASSUME SupervisorInvariant, NEW p \in Supervisors, KillSwitch(p)
    PROVE  SupervisorInvariant'
<1> DEFINE x == [sup[p] EXCEPT !.pc = "critical", !.called = FALSE]
<1>1. sup[p] \in SupRecords /\ sup[p].pc = "kill" /\ sup[p].job \notin {"none", "CRITICAL"} /\ latched
  BY SupFacts DEF KillSwitch, At, Control, Failing, SupOK
<1>2. UNCHANGED <<now, receipts, risk, broker, lease, external, latched, faults>>
  BY DEF KillSwitch, store, env
<1>3. journal' \in JournalRecords /\ journal'.closed = journal.closed
  BY SupFacts, NextVersion, Zenon DEF KillSwitch
<1>4. CASE sup[p].token = 0
  <2>1. sup' = [sup EXCEPT ![p] = Off]
    BY <1>4, Zenon DEF KillSwitch
  <2>2. QED
    BY Zenon, <1>1, <1>2, <1>3, <2>1, SupFacts, OffMove DEF Owing
<1>5. CASE sup[p].token # 0
  <2>1. sup' = [sup EXCEPT ![p] = x]
    BY <1>5, Zenon DEF KillSwitch
  <2>2. /\ x \in SupRecords /\ x.pc = "critical" /\ x.job = sup[p].job /\ x.token = sup[p].token
        /\ x.pre = sup[p].pre /\ x.closing = sup[p].closing
    BY Zenon, <1>1 DEF SupRecords, Labels, Failing
  <2> HIDE DEF x
  <2>3. Control(x.pc, x.job) /\ Doomed(x.pc, x.job)
    BY <1>1, <2>2 DEF Control, Doomed, Checks, Boundary, Failing
  <2>4. QED
    BY Zenon, <1>1, <1>2, <1>3, <1>5, <2>1, <2>2, <2>3, SupFacts, QuietMove DEF Boundary, Owing
<1>6. QED
  BY <1>4, <1>5

(* A start that finds the store and custody apart goes to the critical stop, without a
   lease. *)
LEMMA StartUnanchoredStep ==
    ASSUME SupervisorInvariant, NEW p \in Supervisors, StartUnanchored(p)
    PROVE  SupervisorInvariant'
<1> DEFINE x == [Off EXCEPT !.pc = "fail", !.job = "start"]
<1>1. SupervisorTyped /\ StoreInvariant /\ FactsOK
  BY DEF SupervisorInvariant
<1>2. sup' = [sup EXCEPT ![p] = x]
  BY Zenon DEF StartUnanchored
<1>3. x \in SupRecords /\ x.pc = "fail" /\ x.job = "start" /\ x.token = 0 /\ x.closing = {}
  BY Zenon DEF SupRecords, Labels, Failing, Jobs, Off, NoReceipt
<1> HIDE DEF x
<1>4. /\ UNCHANGED <<now, receipts, risk, broker, lease, external, latched, faults, journal>>
      /\ sup[p].pc = "off"
  BY DEF StartUnanchored, store, ports, At
<1>5. SupOK(x, lease.token, receipts, external.count, latched)
  <2>1. Control(x.pc, x.job)
    BY <1>3 DEF Control, Checks, Boundary, Failing
  <2>2. \A m \in 1..Len(receipts) : receipts[m].token \in 1..lease.token
    BY <1>1 DEF StoreInvariant, ReceiptsOK
  <2>3. lease.token \in Nat
    BY SupFacts
  <2>4. QED
    BY <1>3, <2>1, <2>2, <2>3 DEF SupOK, Failing, Boundary
<1>6. SupervisorTyped'
  BY <1>1, <1>2, <1>3, <1>4 DEF SupervisorTyped
<1>7. StoreInvariant'
  BY Zenon, <1>1, <1>2, <1>3, <1>4, <1>5, StoreKept
<1>8. Recorded("ENTRY")' = Recorded("ENTRY") /\ Recorded("CLOSED_TRADE")' = Recorded("CLOSED_TRADE")
  BY <1>4 DEF Recorded
<1>9. FactsOK'
  BY Zenon, <1>1, <1>2, <1>3, <1>4, <1>8, FactsKept DEF Owing
<1>10. QED
  BY <1>6, <1>7, <1>9 DEF SupervisorInvariant

(* A cycle begins under the refreshed lease. *)
LEMMA BeginStep ==
    ASSUME SupervisorInvariant, NEW p \in Supervisors, Begin(p)
    PROVE  SupervisorInvariant'
<1> DEFINE x == [Off EXCEPT !.pc = "reconcile", !.job = "cycle", !.token = sup[p].token]
<1>1. SupervisorTyped /\ StoreInvariant /\ FactsOK
  BY DEF SupervisorInvariant
<1>2. sup' = [sup EXCEPT ![p] = x]
  BY AfterLabels, Zenon DEF Begin
<1>3. /\ sup[p] \in SupRecords /\ sup[p].pc = "ready" /\ sup[p].job \in {"STARTUP", "CYCLE"}
      /\ sup[p].token \in Nat /\ sup[p].token # 0
  BY Zenon, SupFacts DEF Begin, At, Control, SupRecords
<1>4. x \in SupRecords /\ x.pc = "reconcile" /\ x.job = "cycle" /\ x.token = sup[p].token /\ x.closing = {}
  BY Zenon, <1>3 DEF SupRecords, Labels, Checks, Jobs, Off, NoReceipt
<1> HIDE DEF x
<1>5. /\ UNCHANGED <<now, receipts, risk, broker, external, latched, faults, journal>>
      /\ lease' \in LeaseRecords /\ lease'.token = lease.token
  BY RefreshKeepsToken DEF Begin, ports
<1>6. SupOK(x, lease.token, receipts, external.count, latched)
  <2>1. Control(x.pc, x.job) /\ ~Doomed(sup[p].pc, sup[p].job)
    BY <1>3, <1>4 DEF Control, Checks, Boundary, Failing, Doomed
  <2>2. SupOK(sup[p], lease.token, receipts, external.count, latched)
    BY SupFacts
  <2>3. QED
    BY <1>3, <1>4, <2>1, <2>2 DEF SupOK, Failing, Boundary
<1>7. SupervisorTyped'
  BY <1>1, <1>2, <1>4, <1>5 DEF SupervisorTyped, LeaseRecords
<1>8. StoreInvariant'
  BY Zenon, <1>1, <1>2, <1>4, <1>5, <1>6, StoreKept
<1>9. Recorded("ENTRY")' = Recorded("ENTRY") /\ Recorded("CLOSED_TRADE")' = Recorded("CLOSED_TRADE")
  BY <1>5 DEF Recorded
<1>10. FactsOK'
  BY Zenon, <1>1, <1>2, <1>3, <1>4, <1>5, <1>9, FactsKept DEF Owing
<1>11. QED
  BY <1>7, <1>8, <1>10 DEF SupervisorInvariant

(* A start claims the lease with the next fence token, which no receipt carries yet. *)
LEMMA StartClaimsStep ==
    ASSUME SupervisorInvariant, NEW p \in Supervisors, StartClaims(p)
    PROVE  SupervisorInvariant'
<1> DEFINE k == lease.token + 1
           until == now + LeaseTerm
           x == [Off EXCEPT !.pc = "journal", !.job = "start", !.token = k]
<1>1. SupervisorTyped /\ StoreInvariant /\ FactsOK
  BY DEF SupervisorInvariant
<1>2. sup' = [sup EXCEPT ![p] = x]
  BY AfterLabels, Zenon DEF StartClaims
<1>3. /\ lease' = [token |-> k, expires |-> until]
      /\ UNCHANGED <<now, receipts, risk, broker, external, latched, faults, journal>> /\ sup[p].pc = "off"
  BY DEF StartClaims, ports, At
<1>4. /\ k \in Nat /\ k > lease.token /\ lease.token \in Nat /\ until \in Nat /\ external.count \in Nat
      /\ receipts \in Seq(ReceiptRecords) /\ sup \in [Supervisors -> SupRecords]
  BY SupFacts, SupervisorAssumption DEF SupervisorInvariant, SupervisorTyped
<1> HIDE DEF k, until
<1>5. x \in SupRecords /\ x.pc = "journal" /\ x.job = "start" /\ x.token = k /\ x.closing = {}
  BY Zenon, <1>4 DEF SupRecords, Labels, Checks, Jobs, Off, NoReceipt
<1> HIDE DEF x
<1>6. lease' \in LeaseRecords /\ lease'.token = k
  BY <1>3, <1>4 DEF LeaseRecords
<1>7. \A m \in 1..Len(receipts) : receipts[m].token \in 1..lease.token
  BY <1>1 DEF StoreInvariant, ReceiptsOK
<1>8. SupOK(x, k, receipts, external.count, latched)
  <2>1. Control(x.pc, x.job) /\ Doomed(x.pc, x.job)
    BY <1>5 DEF Control, Checks, Boundary, Failing, Doomed
  <2>2. QED
    BY <1>4, <1>5, <1>7, <2>1 DEF SupOK, Failing, Boundary
<1>9. ASSUME NEW q \in Supervisors
      PROVE  SupOK(sup'[q], lease'.token, receipts', external'.count, latched')
  <2>1. CASE q = p
    BY <1>2, <1>3, <1>4, <1>6, <1>8, <2>1
  <2>2. CASE q # p
    <3>1. sup'[q] = sup[q] /\ sup[q] \in SupRecords /\ SupOK(sup[q], lease.token, receipts, external.count, latched)
      BY <1>1, <1>2, <1>4, <2>2 DEF StoreInvariant
    <3>2. SupOK(sup[q], lease'.token, receipts', external'.count, latched')
      BY SMTT(30), <1>1, <1>3, <1>4, <1>6, <3>1, SupKept
    <3>3. QED
      BY <3>1, <3>2
  <2>3. QED
    BY <2>1, <2>2
<1>10. OneHolderPerToken'
  <2>1. \A q \in Supervisors : sup[q].token <= lease.token /\ sup[q].token \in Nat
    BY <1>1, <1>4 DEF StoreInvariant, SupOK, SupRecords
  <2>2. sup'[p] = x /\ \A q \in Supervisors : q # p => sup'[q] = sup[q]
    BY Zenon, <1>2, <1>4
  <2>3. QED
    BY SMTT(30), <1>1, <1>4, <1>5, <2>1, <2>2 DEF StoreInvariant, OneHolderPerToken
<1>11. ReceiptsOK(lease'.token, receipts', latched')
  BY SMTT(30), <1>1, <1>3, <1>4, <1>6 DEF StoreInvariant, ReceiptsOK
<1>12. ReceiptsFenced' /\ AnchoredBeforeDispatch'
  BY SMTT(30), <1>1, <1>3 DEF StoreInvariant, ReceiptsFenced, AnchoredBeforeDispatch
<1>13. StoreInvariant'
  BY Zenon, <1>1, <1>3, <1>9, <1>10, <1>11, <1>12 DEF StoreInvariant
<1>14. SupervisorTyped'
  BY <1>1, <1>2, <1>3, <1>5, <1>6 DEF SupervisorTyped, LeaseRecords
<1>15. Recorded("ENTRY")' = Recorded("ENTRY") /\ Recorded("CLOSED_TRADE")' = Recorded("CLOSED_TRADE")
  BY <1>3 DEF Recorded
<1>16. FactsOK'
  BY Zenon, <1>1, <1>2, <1>3, <1>5, <1>15, FactsKept DEF Owing
<1>17. QED
  BY <1>13, <1>14, <1>16 DEF SupervisorInvariant

----------------------------------------------------------------------------
(* An event appended to the risk ledger is recorded, and what was recorded stays. *)
LEMMA RiskGrows ==
    ASSUME risk \in Seq(RiskEvents), NEW e \in RiskEvents, risk' = Append(risk, e)
    PROVE  /\ risk' \in Seq(RiskEvents)
           /\ Recorded("ENTRY") \subseteq Recorded("ENTRY")'
           /\ Recorded("CLOSED_TRADE") \subseteq Recorded("CLOSED_TRADE")'
           /\ e.kind = "ENTRY" => e.intent \in Recorded("ENTRY")'
           /\ e.kind = "CLOSED_TRADE" => e.intent \in Recorded("CLOSED_TRADE")'
<1>1. /\ risk' \in Seq(RiskEvents) /\ Len(risk') = Len(risk) + 1 /\ Len(risk) \in Nat
      /\ DOMAIN risk' = 1..Len(risk') /\ DOMAIN risk = 1..Len(risk)
      /\ risk'[Len(risk) + 1] = e /\ \A n \in 1..Len(risk) : risk'[n] = risk[n]
  OBVIOUS
<1>2. Len(risk) + 1 \in DOMAIN risk' /\ \A n \in DOMAIN risk : n \in DOMAIN risk' /\ risk'[n] = risk[n]
  BY <1>1
<1>3. QED
  BY <1>1, <1>2 DEF Recorded

(* Reconciliation closes intents in the journal and reports exactly those. *)
LEMMA ReconcileStep ==
    ASSUME SupervisorInvariant, NEW p \in Supervisors, Reconcile(p)
    PROVE  SupervisorInvariant'
<1> DEFINE label == IF sup[p].job = "start" THEN "settle" ELSE "journal"
           closing == broker.closed \ journal.closed
           all == journal.closed \cup closing
           x == [sup[p] EXCEPT !.closing = closing, !.pc = label]
<1>1. SupervisorTyped /\ StoreInvariant /\ FactsOK
  BY DEF SupervisorInvariant
<1>2. sup[p] \in SupRecords /\ sup[p].pc = "reconcile" /\ sup[p].job \in {"start", "cycle"} /\ sup[p].token # 0
  BY Zenon, SupFacts DEF Reconcile, At, Control, Checks
<1>3. closing \subseteq Nat /\ all \subseteq Nat /\ journal \in JournalRecords
  BY <1>1, SupFacts DEF SupervisorTyped, JournalRecords
<1>4. After(sup[p].job, "reconcile") = label
  BY <1>2, AfterLabels
<1>5. sup' = [sup EXCEPT ![p] = x] /\ journal' = [journal EXCEPT !.closed = all]
  BY <1>4, Zenon DEF Reconcile
<1>6. label \in {"settle", "journal"} /\ (label = "settle" <=> sup[p].job = "start")
  OBVIOUS
<1>7. \A d \in all : d \in journal.closed \/ d \in closing
  OBVIOUS
<1> HIDE DEF label, closing, all
<1>8. /\ x \in SupRecords /\ x.pc = label /\ x.job = sup[p].job /\ x.token = sup[p].token
      /\ x.pre = sup[p].pre /\ x.closing = closing
  BY Zenon, <1>2, <1>3, <1>6 DEF SupRecords, Labels, Checks
<1>9. journal' \in JournalRecords /\ journal'.closed = all
  BY <1>3, <1>5 DEF JournalRecords
<1> HIDE DEF x
<1>10. UNCHANGED <<now, receipts, risk, broker, lease, external, latched, faults>>
  BY DEF Reconcile, store, env
<1>11. Control(x.pc, x.job) /\ ~Doomed(sup[p].pc, sup[p].job)
  BY Zenon, <1>2, <1>6, <1>8 DEF Control, Doomed, Checks, Boundary, Failing
<1>12. SupOK(x, lease'.token, receipts', external'.count, latched')
  BY <1>1, <1>2, <1>6, <1>8, <1>10, <1>11, CallGoesOn DEF Failing, Boundary
<1>13. SupervisorTyped'
  BY Zenon, <1>1, <1>5, <1>8, <1>9, <1>10 DEF SupervisorTyped, JournalRecords
<1>14. StoreInvariant'
  BY Zenon, <1>1, <1>5, <1>8, <1>10, <1>12, StoreKept
<1>15. Recorded("ENTRY")' = Recorded("ENTRY") /\ Recorded("CLOSED_TRADE")' = Recorded("CLOSED_TRADE")
  BY <1>10 DEF Recorded
<1>16. FactsOK'
  BY Zenon, <1>1, <1>2, <1>5, <1>6, <1>7, <1>8, <1>9, <1>10, <1>15, FactsKept DEF Owing
<1>17. QED
  BY <1>13, <1>14, <1>16 DEF SupervisorInvariant

(* A closed trade is recorded, and the call owes it no more. *)
LEMMA SettleClosedStep ==
    ASSUME SupervisorInvariant, NEW p \in Supervisors, SettleClosed(p)
    PROVE  SupervisorInvariant'
<1>1. SupervisorTyped /\ StoreInvariant /\ FactsOK
  BY DEF SupervisorInvariant
<1>2. PICK d \in sup[p].closing :
        /\ risk' = Append(risk, [kind |-> "CLOSED_TRADE", intent |-> d])
        /\ sup' = [sup EXCEPT ![p].closing = @ \ {d}]
  BY Zenon DEF SettleClosed
<1> DEFINE rest == sup[p].closing \ {d}
           e == [kind |-> "CLOSED_TRADE", intent |-> d]
           x == [sup[p] EXCEPT !.closing = rest]
<1>3. sup[p] \in SupRecords /\ sup[p].pc = "settle" /\ sup[p].job \in {"start", "cycle"} /\ sup[p].token # 0
  BY Zenon, SupFacts DEF SettleClosed, At, Control, Checks
<1>4. rest \subseteq Nat /\ d \in Nat
  BY <1>3 DEF SupRecords
<1>5. e \in RiskEvents /\ e.kind = "CLOSED_TRADE" /\ e.intent = d
  BY <1>4 DEF RiskEvents
<1>6. sup' = [sup EXCEPT ![p] = x] /\ risk' = Append(risk, e)
  BY <1>2, Zenon
<1>7. \A c \in sup[p].closing : c = d \/ c \in rest
  OBVIOUS
<1> HIDE DEF rest, e
<1>8. /\ x \in SupRecords /\ x.pc = "settle" /\ x.job = sup[p].job /\ x.token = sup[p].token
      /\ x.pre = sup[p].pre /\ x.closing = rest
  BY <1>3, <1>4 DEF SupRecords
<1> HIDE DEF x
<1>9. UNCHANGED <<now, receipts, broker, lease, external, latched, faults, journal>>
  BY DEF SettleClosed, store, env
<1>10. Control(x.pc, x.job) /\ ~Doomed(sup[p].pc, sup[p].job)
  BY SMTT(30), <1>3, <1>8 DEF Control, Doomed, Checks, Boundary, Failing
<1>11. SupOK(x, lease'.token, receipts', external'.count, latched')
  BY Zenon, <1>1, <1>3, <1>8, <1>9, <1>10, CallGoesOn DEF Failing, Boundary
<1>12. /\ risk' \in Seq(RiskEvents) /\ Recorded("ENTRY") \subseteq Recorded("ENTRY")'
       /\ Recorded("CLOSED_TRADE") \subseteq Recorded("CLOSED_TRADE")' /\ d \in Recorded("CLOSED_TRADE")'
  BY <1>5, <1>6, SupFacts, RiskGrows
<1>13. SupervisorTyped'
  BY SMTT(30), <1>1, <1>6, <1>8, <1>9, <1>12 DEF SupervisorTyped
<1>14. StoreInvariant'
  BY Zenon, <1>1, <1>6, <1>8, <1>9, <1>11, StoreKept
<1>15. FactsOK'
  BY Zenon, <1>1, <1>3, <1>6, <1>7, <1>8, <1>9, <1>12, FactsKept DEF Owing
<1>16. QED
  BY <1>13, <1>14, <1>15 DEF SupervisorInvariant

(* The snapshot follows when nothing is owed. *)
LEMMA SettleSnapshotStep ==
    ASSUME SupervisorInvariant, NEW p \in Supervisors, SettleSnapshot(p)
    PROVE  SupervisorInvariant'
<1> DEFINE e == [kind |-> "ACCOUNT_SNAPSHOT", intent |-> 0]
           x == [sup[p] EXCEPT !.pc = "settled"]
<1>1. SupervisorTyped /\ StoreInvariant /\ FactsOK
  BY DEF SupervisorInvariant
<1>2. /\ sup[p] \in SupRecords /\ sup[p].pc = "settle" /\ sup[p].job \in {"start", "cycle"} /\ sup[p].token # 0
      /\ sup[p].closing = {}
  BY ZenonT(20), SupFacts DEF SettleSnapshot, At, Control, Checks
<1>3. e \in RiskEvents
  BY DEF RiskEvents
<1>4. sup' = [sup EXCEPT ![p] = x] /\ risk' = Append(risk, e)
  BY Zenon DEF SettleSnapshot, GoTo
<1> HIDE DEF e
<1>5. /\ x \in SupRecords /\ x.pc = "settled" /\ x.job = sup[p].job /\ x.token = sup[p].token
      /\ x.pre = sup[p].pre /\ x.closing = sup[p].closing
  BY <1>2 DEF SupRecords, Labels, Checks
<1> HIDE DEF x
<1>6. UNCHANGED <<now, receipts, broker, lease, external, latched, faults, journal>>
  BY DEF SettleSnapshot, store, env
<1>7. Control(x.pc, x.job) /\ ~Doomed(sup[p].pc, sup[p].job)
  BY SMTT(30), <1>2, <1>5 DEF Control, Doomed, Checks, Boundary, Failing
<1>8. SupOK(x, lease'.token, receipts', external'.count, latched')
  BY Zenon, <1>1, <1>2, <1>5, <1>6, <1>7, CallGoesOn DEF Failing, Boundary
<1>9. /\ risk' \in Seq(RiskEvents) /\ Recorded("ENTRY") \subseteq Recorded("ENTRY")'
      /\ Recorded("CLOSED_TRADE") \subseteq Recorded("CLOSED_TRADE")'
  BY <1>3, <1>4, SupFacts, RiskGrows
<1>10. SupervisorTyped'
  BY SMTT(30), <1>1, <1>4, <1>5, <1>6, <1>9 DEF SupervisorTyped
<1>11. StoreInvariant'
  BY Zenon, <1>1, <1>4, <1>5, <1>6, <1>8, StoreKept
<1>12. FactsOK'
  BY Zenon, <1>1, <1>2, <1>4, <1>5, <1>6, <1>9, FactsKept DEF Owing
<1>13. QED
  BY <1>10, <1>11, <1>12 DEF SupervisorInvariant

(* The entry of an executed order is recorded, whether or not the ledger has moved. *)
LEMMA AppendEntryStep ==
    ASSUME SupervisorInvariant, NEW p \in Supervisors, AppendEntry(p)
    PROVE  SupervisorInvariant'
<1> DEFINE label == IF Len(risk) = sup[p].risk.seq THEN "entered" ELSE "fail"
           e == [kind |-> "ENTRY", intent |-> sup[p].pre]
           x == [sup[p] EXCEPT !.pc = label]
<1>1. SupervisorTyped /\ StoreInvariant /\ FactsOK
  BY DEF SupervisorInvariant
<1>2. /\ sup[p] \in SupRecords /\ sup[p].pc = "entry" /\ sup[p].job = "PRE_DISPATCH" /\ sup[p].token # 0
      /\ sup[p].pre \in Nat
  BY Zenon, SupFacts DEF AppendEntry, At, Control, SupRecords
<1>3. e \in RiskEvents /\ e.kind = "ENTRY" /\ e.intent = sup[p].pre
  BY <1>2 DEF RiskEvents
<1>4. sup' = [sup EXCEPT ![p] = x] /\ risk' = Append(risk, e)
  BY Zenon DEF AppendEntry, GoTo
<1>5. label \in {"entered", "fail"}
  OBVIOUS
<1> HIDE DEF e, label
<1>6. /\ x \in SupRecords /\ x.pc = label /\ x.job = sup[p].job /\ x.token = sup[p].token
      /\ x.pre = sup[p].pre /\ x.closing = sup[p].closing
  BY <1>2, <1>5 DEF SupRecords, Labels, Failing
<1> HIDE DEF x
<1>7. UNCHANGED <<now, receipts, broker, lease, external, latched, faults, journal>>
  BY DEF AppendEntry, store, env
<1>8. Control(x.pc, x.job) /\ ~Doomed(sup[p].pc, sup[p].job)
  BY <1>2, <1>5, <1>6 DEF Control, Doomed, Checks, Boundary, Failing
<1>9. SupOK(x, lease'.token, receipts', external'.count, latched')
  BY Zenon, <1>1, <1>2, <1>5, <1>6, <1>7, <1>8, CallGoesOn DEF Failing, Boundary
<1>10. /\ risk' \in Seq(RiskEvents) /\ Recorded("ENTRY") \subseteq Recorded("ENTRY")'
       /\ Recorded("CLOSED_TRADE") \subseteq Recorded("CLOSED_TRADE")' /\ sup[p].pre \in Recorded("ENTRY")'
  BY Zenon, <1>3, <1>4, SupFacts, RiskGrows
<1>11. SupervisorTyped'
  BY SMTT(30), <1>1, <1>4, <1>6, <1>7, <1>10 DEF SupervisorTyped
<1>12. StoreInvariant'
  BY Zenon, <1>1, <1>4, <1>6, <1>7, <1>9, StoreKept
<1>13. FactsOK'
  BY Zenon, <1>1, <1>2, <1>4, <1>5, <1>6, <1>7, <1>10, FactsKept DEF Owing
<1>14. QED
  BY <1>11, <1>12, <1>13 DEF SupervisorInvariant

----------------------------------------------------------------------------
(* The order reaches the broker behind its anchored receipt; the call records it, unless
   the service raises. *)
LEMMA DispatchStep ==
    ASSUME SupervisorInvariant, NEW p \in Supervisors, Dispatch(p) \/ DispatchRaises(p)
    PROVE  SupervisorInvariant'
<1> DEFINE intents == broker.executed \cup {sup[p].pre}
<1>1. SupervisorTyped /\ StoreInvariant /\ FactsOK
  BY DEF SupervisorInvariant
<1>2. /\ sup[p] \in SupRecords /\ sup[p].pc = "dispatch" /\ sup[p].job = "PRE_DISPATCH" /\ sup[p].token # 0
      /\ sup[p].pre \in Nat /\ PreAt(sup[p].pre, receipts, external.count)
  BY Zenon, SupFacts DEF Dispatch, DispatchRaises, At, Control, SupRecords, SupOK, Boundary
<1>3. /\ UNCHANGED <<now, receipts, lease, external, latched, journal, risk>>
      /\ broker' = [broker EXCEPT !.executed = intents]
  BY Zenon DEF Dispatch, DispatchRaises, store, env
<1>4. broker \in [executed : SUBSET Nat, closed : SUBSET Nat] /\ intents \subseteq Nat
  BY <1>1, <1>2 DEF SupervisorTyped
<1>5. \A d \in intents : d \in broker.executed \/ d = sup[p].pre
  OBVIOUS
<1> HIDE DEF intents
<1>6. broker' \in [executed : SUBSET Nat, closed : SUBSET Nat] /\ broker'.executed = intents
  BY <1>3, <1>4
<1>7. \E x \in SupRecords :
        /\ sup' = [sup EXCEPT ![p] = x] /\ x.job = sup[p].job /\ x.token = sup[p].token /\ x.pre = sup[p].pre
        /\ x.pc \in {"entry", "fail"} /\ (faults' = 0 => faults = 0 /\ x.pc = "entry") /\ faults' \in Nat
  <2>1. CASE Dispatch(p)
    <3> DEFINE x == [sup[p] EXCEPT !.called = TRUE, !.pc = "entry"]
    <3>1. sup' = [sup EXCEPT ![p] = x]
      BY <2>1, Zenon DEF Dispatch
    <3>2. faults' = faults
      BY <2>1 DEF Dispatch, env
    <3>3. /\ x \in SupRecords /\ x.pc = "entry" /\ x.job = sup[p].job /\ x.token = sup[p].token
          /\ x.pre = sup[p].pre
      BY Zenon, <1>2 DEF SupRecords, Labels
    <3> HIDE DEF x
    <3>4. QED
      BY Zenon, <3>1, <3>2, <3>3, SupFacts
  <2>2. CASE DispatchRaises(p)
    <3> DEFINE x == [sup[p] EXCEPT !.pc = "fail"]
    <3>1. sup' = [sup EXCEPT ![p] = x]
      BY <2>2, Zenon DEF DispatchRaises, GoTo
    <3>2. faults' \in Nat /\ faults' # 0
      BY <2>2, SupFacts DEF DispatchRaises, Fault
    <3>3. /\ x \in SupRecords /\ x.pc = "fail" /\ x.job = sup[p].job /\ x.token = sup[p].token
          /\ x.pre = sup[p].pre
      BY <1>2 DEF SupRecords, Labels, Failing
    <3> HIDE DEF x
    <3>4. QED
      BY Zenon, <3>1, <3>2, <3>3, SupFacts
  <2>3. QED
    BY <2>1, <2>2
<1>8. PICK x \in SupRecords :
        /\ sup' = [sup EXCEPT ![p] = x] /\ x.job = sup[p].job /\ x.token = sup[p].token /\ x.pre = sup[p].pre
        /\ x.pc \in {"entry", "fail"} /\ (faults' = 0 => faults = 0 /\ x.pc = "entry") /\ faults' \in Nat
  BY Zenon, <1>7
<1>9. Control(x.pc, x.job) /\ ~Doomed(sup[p].pc, sup[p].job)
  BY <1>2, <1>8 DEF Control, Doomed, Checks, Boundary, Failing
<1>10. SupOK(x, lease'.token, receipts', external'.count, latched')
  BY <1>1, <1>2, <1>3, <1>8, <1>9, CallGoesOn DEF Failing, Boundary
<1>11. SupervisorTyped'
  BY SMTT(30), <1>1, <1>3, <1>6, <1>8 DEF SupervisorTyped
<1>12. StoreInvariant'
  BY Zenon, <1>1, <1>2, <1>3, <1>5, <1>6, <1>8, <1>10, StoreKept
<1>13. Recorded("ENTRY")' = Recorded("ENTRY") /\ Recorded("CLOSED_TRADE")' = Recorded("CLOSED_TRADE")
  BY <1>3 DEF Recorded
<1>14. FactsOK'
  BY Zenon, <1>1, <1>2, <1>3, <1>5, <1>6, <1>8, <1>13, FactsKept DEF Owing
<1>15. QED
  BY <1>11, <1>12, <1>14 DEF SupervisorInvariant

----------------------------------------------------------------------------
(* The latest guard is known again when a receipt carries none, or the one after it. *)
LEMMA GuardHeadGrows ==
    ASSUME SupervisorInvariant, NEW r \in ReceiptRecords, receipts' = Append(receipts, r),
           r.guard # 0 => r.guard = NewsHead + 1
    PROVE  GuardHead(receipts')
<1> DEFINE guards == {receipts[n].guard : n \in DOMAIN receipts} \cup {0}
           after == {receipts'[n].guard : n \in DOMAIN receipts'} \cup {0}
<1>1. /\ receipts \in Seq(ReceiptRecords) /\ DOMAIN receipts = 1..Len(receipts) /\ Len(receipts) \in Nat
      /\ DOMAIN receipts' = 1..(Len(receipts) + 1) /\ receipts'[Len(receipts) + 1] = r
      /\ \A n \in 1..Len(receipts) : receipts'[n] = receipts[n]
  BY DEF SupervisorInvariant, SupervisorTyped
<1>2. after = guards \cup {r.guard}
  <2>1. ASSUME NEW n \in 1..(Len(receipts) + 1) PROVE receipts'[n].guard \in guards \cup {r.guard}
    <3>1. n \in 1..Len(receipts) \/ n = Len(receipts) + 1
      BY <1>1
    <3>2. QED
      BY SMTT(30), <1>1, <3>1
  <2>2. \A n \in 1..Len(receipts) : receipts[n].guard \in after
    BY <1>1
  <2>3. r.guard \in after
    BY <1>1
  <2>4. QED
    BY SMTT(30), <1>1, <2>1, <2>2, <2>3
<1>3. NewsHead \in guards /\ NewsHead \in Nat /\ \A h \in guards : h <= NewsHead
  <2>1. \E g \in guards : \A h \in guards : h <= g
    BY DEF SupervisorInvariant, StoreInvariant, GuardHead
  <2>2. NewsHead = CHOOSE g \in guards : \A h \in guards : h <= g
    BY Zenon DEF NewsHead
  <2> HIDE DEF guards
  <2>3. NewsHead \in guards /\ \A h \in guards : h <= NewsHead
    BY <2>1, <2>2
  <2>4. QED
    BY <2>3, NewsHeadNatural
<1>4. guards \subseteq Nat /\ 0 \in guards
  <2>1. ASSUME NEW n \in DOMAIN receipts PROVE receipts[n].guard \in Nat
    <3>1. receipts[n] \in ReceiptRecords
      BY <1>1
    <3>2. QED
      BY <3>1 DEF ReceiptRecords
  <2>2. QED
    BY <2>1
<1> HIDE DEF guards
<1>5. \E g \in after : \A h \in after : h <= g
  <2>1. CASE r.guard = 0
    BY Zenon, <1>2, <1>3, <1>4, <2>1
  <2>2. CASE r.guard # 0
    <3>1. r.guard = NewsHead + 1
      BY <2>2
    <3>2. \A h \in guards \cup {r.guard} : h <= r.guard
      BY <1>3, <1>4, <3>1
    <3>3. QED
      BY Zenon, <1>2, <3>2
  <2>3. QED
    BY Zenon, <2>1, <2>2
<1>6. QED
  BY <1>5 DEF GuardHead

(* What a supervisor knows stays true when another one, with the current token, writes a
   receipt. *)
LEMMA OthersKeep ==
    ASSUME SupervisorTyped, StoreInvariant, NEW y \in SupRecords, NEW r \in ReceiptRecords,
           SupOK(y, lease.token, receipts, external.count, latched),
           receipts' = Append(receipts, r), r.token = lease.token, y.token # lease.token
    PROVE  SupOK(y, lease.token, receipts', external.count, latched)
<1>1. /\ receipts \in Seq(ReceiptRecords) /\ Len(receipts) \in Nat /\ Len(receipts') = Len(receipts) + 1
      /\ receipts'[Len(receipts) + 1] = r /\ \A n \in 1..Len(receipts) : receipts'[n] = receipts[n]
      /\ lease.token \in Nat /\ external.count \in Nat /\ external.count <= Len(receipts)
      /\ y.token \in Nat /\ y.token <= lease.token /\ y.pre \in Nat
  <2>1. receipts \in Seq(ReceiptRecords) /\ lease.token \in Nat /\ external.count \in Nat
    BY DEF SupervisorTyped
  <2>2. /\ Len(receipts) \in Nat /\ Len(receipts') = Len(receipts) + 1
        /\ receipts'[Len(receipts) + 1] = r /\ \A n \in 1..Len(receipts) : receipts'[n] = receipts[n]
    BY <2>1
  <2>3. external.count <= Len(receipts)
    BY Zenon DEF StoreInvariant
  <2>4. y.token \in Nat /\ y.pre \in Nat
    BY DEF SupRecords
  <2>5. y.token <= lease.token
    BY Zenon DEF SupOK
  <2>6. QED
    BY Zenon, <2>1, <2>2, <2>3, <2>4, <2>5
<1>2. \A m \in 1..Len(receipts') : m \in 1..Len(receipts) \/ (m = Len(receipts) + 1 /\ receipts'[m] = r)
  BY SMTT(40), <1>1
<1>3. ASSUME NEW m \in 1..Len(receipts')
      PROVE  /\ receipts'[m].token = y.token =>
                /\ y.job # "start"
                /\ receipts'[m].phase = "CRITICAL" => y.job = "CRITICAL"
                /\ receipts'[m].phase = "SHUTDOWN" => y.job \in {"SHUTDOWN", "CRITICAL"}
             /\ receipts'[m].token < y.token /\ receipts'[m].phase = "CRITICAL" => Doomed(y.pc, y.job)
  <2>1. CASE m \in 1..Len(receipts)
    BY Zenon, <1>1, <2>1 DEF SupOK
  <2>2. CASE m = Len(receipts) + 1 /\ receipts'[m] = r
    BY SMTT(40), <1>1, <2>2
  <2>3. QED
    BY Zenon, <1>2, <2>1, <2>2
<1>4. y.job \notin {"none", "start", "CRITICAL"} =>
        \E m \in 1..Len(receipts') : receipts'[m].token = y.token /\ receipts'[m].phase = "STARTUP"
  BY <1>1 DEF SupOK
<1>5. /\ y.pc \in Boundary => PreAt(y.pre, receipts', external.count)
      /\ y.pc = "publish" /\ y.job = "PRE_DISPATCH" => PreAt(y.pre, receipts', Len(receipts'))
  BY SMTT(30), <1>1 DEF SupOK, PreAt
<1>6. QED
  BY Zenon, <1>3, <1>4, <1>5 DEF SupOK

(* The labels that append, and the calls they belong to. *)
LEMMA AppendingLabel ==
    ASSUME SupervisorInvariant, NEW p \in Supervisors, sup[p].pc \in DOMAIN PhaseAt
    PROVE  LET x == sup[p]
               phase == PhaseAt[x.pc]
           IN  /\ phase \in Phases /\ x.token # 0
               /\ x.job # "CRITICAL" /\ x.job # "none"
               /\ x.job = "SHUTDOWN" => phase = "CRITICAL"
               /\ Doomed(x.pc, x.job) => phase = "CRITICAL"
               /\ phase = "STARTUP" => x.job = "start"
               /\ phase \notin {"STARTUP", "CRITICAL"} => x.job # "start"
               /\ phase = "CRITICAL" <=> x.pc = "critical"
               /\ phase = "CRITICAL" => latched
<1>1. sup[p].pc \in {"startup", "cycle", "preconsume", "predispatch", "shutdown", "critical"}
  BY SMTT(30) DEF PhaseAt
<1>2. /\ Control(sup[p].pc, sup[p].job) /\ sup[p].token # 0
      /\ sup[p].pc = "critical" => latched
  BY Zenon, <1>1, SupFacts DEF SupOK, Failing
<1>3. /\ PhaseAt["startup"] = "STARTUP" /\ PhaseAt["cycle"] = "CYCLE" /\ PhaseAt["preconsume"] = "PRE_CONSUME"
      /\ PhaseAt["predispatch"] = "PRE_DISPATCH" /\ PhaseAt["shutdown"] = "SHUTDOWN"
      /\ PhaseAt["critical"] = "CRITICAL"
  BY DEF PhaseAt
<1> DEFINE phase == PhaseAt[sup[p].pc]
<1>4. /\ phase \in Phases /\ (phase = "CRITICAL" <=> sup[p].pc = "critical")
      /\ (phase = "STARTUP" <=> sup[p].pc = "startup")
  BY <1>1, <1>3 DEF Phases
<1> HIDE DEF phase
<1>5. /\ sup[p].job # "CRITICAL" /\ sup[p].job # "none"
      /\ sup[p].job = "SHUTDOWN" => sup[p].pc = "critical"
      /\ Doomed(sup[p].pc, sup[p].job) => sup[p].pc = "critical"
      /\ sup[p].pc = "startup" => sup[p].job = "start"
      /\ sup[p].pc \notin {"startup", "critical"} => sup[p].job # "start"
  BY <1>1, <1>2 DEF Control, Failing, Doomed
<1>6. QED
  BY SMTT(30), <1>2, <1>4, <1>5 DEF phase

(* A receipt is written under the held lease, over an anchored chain. *)
LEMMA AppendReceiptStep ==
    ASSUME SupervisorInvariant, NEW p \in Supervisors, AppendReceipt(p)
    PROVE  SupervisorInvariant'
<1> DEFINE phase == PhaseAt[sup[p].pc]
           pre == IF phase = "PRE_DISPATCH" THEN Len(receipts) + 1 ELSE sup[p].pre
           k == sup[p].token
           r == [phase |-> phase, token |-> k, guard |-> GuardAt(p), pre |-> pre, called |-> sup[p].called]
           x == [sup[p] EXCEPT !.pc = "publish", !.job = phase, !.pre = pre, !.expected = external.version]
           until == IF At(p, "critical") THEN lease.expires ELSE now + LeaseTerm
           n1 == Len(receipts) + 1
<1>1. SupervisorTyped /\ StoreInvariant /\ FactsOK
  BY DEF SupervisorInvariant
<1>2. /\ sup[p] \in SupRecords /\ k \in Nat /\ k # 0 /\ lease.token = k /\ Len(receipts) \in Nat
      /\ sup[p].pre \in Nat /\ sup[p].guard \in Nat /\ sup[p].called \in BOOLEAN
      /\ external.version \in Nat /\ external.count \in Nat /\ n1 \in Nat
  <2>1. k # 0
    BY AppendingLabel DEF AppendReceipt
  <2>2. lease.token = k
    BY DEF AppendReceipt, Appendable, Holds
  <2>3. sup[p] \in SupRecords /\ external \in ExternalRecords /\ Len(receipts) \in Nat
    BY SupFacts
  <2>4. QED
    BY <2>1, <2>2, <2>3 DEF SupRecords, ExternalRecords
<1>3. /\ phase \in Phases
      /\ sup[p].job # "CRITICAL" /\ sup[p].job # "none"
      /\ sup[p].job = "SHUTDOWN" => phase = "CRITICAL"
      /\ Doomed(sup[p].pc, sup[p].job) => phase = "CRITICAL"
      /\ phase = "STARTUP" => sup[p].job = "start"
      /\ phase \notin {"STARTUP", "CRITICAL"} => sup[p].job # "start"
      /\ phase = "CRITICAL" => latched
  BY AppendingLabel DEF AppendReceipt
<1>4. /\ pre \in Nat /\ (phase = "PRE_DISPATCH" => pre = n1) /\ GuardAt(p) \in Nat /\ until \in Nat
      /\ GuardAt(p) # 0 => GuardAt(p) = NewsHead + 1
  <2>1. pre \in Nat /\ (phase = "PRE_DISPATCH" => pre = n1)
    BY <1>2
  <2>2. GuardAt(p) \in Nat
    BY <1>2 DEF GuardAt
  <2>3. until \in Nat
    BY SupFacts, SupervisorAssumption DEF LeaseRecords
  <2>4. GuardAt(p) # 0 => GuardAt(p) = NewsHead + 1
    BY Zenon DEF AppendReceipt, Appendable
  <2>5. QED
    BY Zenon, <2>1, <2>2, <2>3, <2>4
<1>5. /\ receipts' = Append(receipts, r) /\ sup' = [sup EXCEPT ![p] = x]
      /\ lease' = [lease EXCEPT !.expires = until]
      /\ UNCHANGED <<now, latched, external, journal, risk, broker, faults>>
  <2>1. receipts' = Append(receipts, r) /\ sup' = [sup EXCEPT ![p] = x]
    BY Zenon DEF AppendReceipt
  <2>2. lease' = [lease EXCEPT !.expires = until]
    BY Zenon DEF AppendReceipt
  <2>3. UNCHANGED <<now, latched, external, journal, risk, broker, faults>>
    BY DEF AppendReceipt, ports, env
  <2>4. QED
    BY <2>1, <2>2, <2>3
<1> HIDE DEF phase, pre, until
<1>6. lease' \in LeaseRecords /\ lease'.token = k
  BY <1>2, <1>4, <1>5, SupFacts DEF LeaseRecords
<1>7. r \in ReceiptRecords /\ r.phase = phase /\ r.token = k /\ r.guard = GuardAt(p)
  BY <1>2, <1>3, <1>4 DEF ReceiptRecords
<1>8. /\ x \in SupRecords /\ x.pc = "publish" /\ x.job = phase /\ x.token = k /\ x.pre = pre
      /\ x.closing = sup[p].closing
  BY Zenon, <1>2, <1>3, <1>4 DEF SupRecords, Labels, Jobs
<1> HIDE DEF k, r, x
<1>9. /\ receipts \in Seq(ReceiptRecords) /\ receipts' \in Seq(ReceiptRecords) /\ Len(receipts') = n1
      /\ receipts'[n1] = r /\ (\A n \in 1..Len(receipts) : receipts'[n] = receipts[n])
      /\ DOMAIN receipts = 1..Len(receipts) /\ DOMAIN receipts' = 1..n1
  BY <1>1, <1>5, <1>7 DEF SupervisorTyped
<1> HIDE DEF n1
<1>10. \A m \in 1..n1 : m \in 1..Len(receipts) \/ m = n1
  BY <1>2 DEF n1
<1>11. n1 \in 1..n1 /\ \A m \in 1..Len(receipts) : m \in 1..n1 /\ m \in 1..(n1 - 1)
  BY <1>2 DEF n1
<1>12. \A m \in 1..(n1 - 1) : m \in 1..Len(receipts)
  BY <1>2 DEF n1
<1>13. SupOK(sup[p], k, receipts, external.count, latched)
  BY <1>2, SupFacts
<1>14. ASSUME NEW m \in 1..Len(receipts)
       PROVE  /\ receipts[m].token <= k
              /\ receipts[m].phase = "CRITICAL" => phase = "CRITICAL"
              /\ receipts[m].token = k =>
                  /\ receipts[m].phase # "CRITICAL" /\ phase # "STARTUP"
                  /\ receipts[m].phase = "SHUTDOWN" => phase = "CRITICAL"
  <2>1. receipts[m].token \in 1..k
    <3>1. ReceiptsOK(k, receipts, latched)
      BY Zenon, <1>1, <1>2 DEF StoreInvariant
    <3>2. QED
      BY <1>9, <3>1 DEF ReceiptsOK
  <2>2. CASE receipts[m].token = k
    BY Zenon, <1>2, <1>3, <1>13, <2>1, <2>2 DEF SupOK, k
  <2>3. CASE receipts[m].token < k
    <3>1. receipts[m].phase = "CRITICAL" => Doomed(sup[p].pc, sup[p].job)
      BY Zenon, <1>13, <2>3 DEF SupOK, k
    <3>2. receipts[m].token <= k /\ receipts[m].token # k
      BY <1>2, <2>1, <2>3
    <3>3. QED
      BY Zenon, <1>2, <1>3, <3>1, <3>2
  <2>4. QED
    BY SMTT(30), <1>2, <2>1, <2>2, <2>3
<1>15. phase \in {"STARTUP", "CRITICAL"} \/
         \E m \in 1..Len(receipts) : receipts[m].token = k /\ receipts[m].phase = "STARTUP"
  BY <1>3, <1>13 DEF SupOK, k
<1>16. ReceiptsFenced'
  <2>1. ASSUME NEW n \in 1..n1
        PROVE  /\ \A m \in 1..(n - 1) :
                   /\ receipts'[m].token <= receipts'[n].token
                   /\ receipts'[m].phase = "CRITICAL" => receipts'[n].phase = "CRITICAL"
                   /\ receipts'[m].token = receipts'[n].token =>
                       /\ receipts'[m].phase # "CRITICAL" /\ receipts'[n].phase # "STARTUP"
                       /\ receipts'[m].phase = "SHUTDOWN" => receipts'[n].phase = "CRITICAL"
               /\ receipts'[n].phase \in {"STARTUP", "CRITICAL"} \/
                   \E m \in 1..(n - 1) : receipts'[m].token = receipts'[n].token
                                         /\ receipts'[m].phase = "STARTUP"
    <3>1. CASE n \in 1..Len(receipts)
      <4>1. \A m \in 1..(n - 1) : m \in 1..Len(receipts)
        BY <1>2, <3>1
      <4>2. ReceiptsFenced
        BY Zenon, <1>1 DEF StoreInvariant
      <4>3. /\ n \in DOMAIN receipts /\ receipts'[n] = receipts[n]
            /\ \A m \in 1..(n - 1) : receipts'[m] = receipts[m]
        BY Zenon, <1>9, <3>1, <4>1
      <4>4. QED
        BY <4>2, <4>3 DEF ReceiptsFenced
    <3>2. CASE n = n1
      BY Zenon, <1>7, <1>9, <1>11, <1>12, <1>14, <1>15, <3>2
    <3>3. QED
      BY <1>10, <3>1, <3>2
  <2>2. QED
    BY Zenon, <1>9, <2>1 DEF ReceiptsFenced
<1>17. ReceiptsOK(lease'.token, receipts', latched')
  <2>1. \A n \in 1..Len(receipts) : receipts[n].token \in 1..k /\ (receipts[n].phase = "CRITICAL" => latched)
    BY <1>1, <1>2 DEF StoreInvariant, ReceiptsOK
  <2>2. k \in 1..k
    BY SMTT(30), <1>2 DEF k
  <2>3. lease'.token = k /\ latched' = latched
    BY Zenon, <1>5, <1>6
  <2>4. QED
    BY Zenon, <1>3, <1>7, <1>9, <1>10, <2>1, <2>2, <2>3 DEF ReceiptsOK
<1>18. SupOK(x, k, receipts', external.count, latched)
  <2>1. Control(x.pc, x.job) /\ (phase = "CRITICAL" => Doomed(x.pc, x.job))
    BY <1>3, <1>8 DEF Control, Checks, Boundary, Failing, Phases, Doomed
  <2>2. ASSUME NEW m \in 1..n1
        PROVE  /\ receipts'[m].token = k =>
                   /\ receipts'[m].phase = "CRITICAL" => phase = "CRITICAL"
                   /\ receipts'[m].phase = "SHUTDOWN" => phase \in {"SHUTDOWN", "CRITICAL"}
               /\ receipts'[m].phase = "CRITICAL" => phase = "CRITICAL"
    BY SMTT(30), <1>7, <1>9, <1>10, <1>14
  <2>3. \E m \in 1..n1 : phase # "CRITICAL" => receipts'[m].token = k /\ receipts'[m].phase = "STARTUP"
    BY <1>7, <1>9, <1>11, <1>15
  <2>4. phase = "PRE_DISPATCH" => PreAt(pre, receipts', n1)
    BY <1>4, <1>7, <1>9, <1>11 DEF PreAt
  <2>5. phase # "start" /\ k # 0 /\ k <= k
    BY <1>2, <1>3 DEF Phases, k
  <2>6. QED
    BY <1>3, <1>8, <1>9, <2>1, <2>2, <2>3, <2>4, <2>5 DEF SupOK, Failing, Boundary
<1>19. ASSUME NEW q \in Supervisors
       PROVE  SupOK(sup'[q], lease'.token, receipts', external'.count, latched')
  <2>1. sup \in [Supervisors -> SupRecords]
    BY <1>1 DEF SupervisorTyped
  <2>2. CASE q = p
    BY <1>5, <1>6, <1>18, <2>1, <2>2
  <2>3. CASE q # p
    <3>1. sup'[q] = sup[q] /\ sup[q] \in SupRecords /\ SupOK(sup[q], lease.token, receipts, external.count, latched)
      BY SMTT(30), <1>1, <1>5, <2>1, <2>3 DEF StoreInvariant
    <3>2. sup[q].token # lease.token
      BY <1>1, <1>2, <2>3 DEF StoreInvariant, OneHolderPerToken, k
    <3>3. SupOK(sup[q], lease.token, receipts', external.count, latched)
      BY SMTT(30), <1>1, <1>2, <1>5, <1>7, <3>1, <3>2, OthersKeep
    <3>4. QED
      BY <1>2, <1>5, <1>6, <3>1, <3>3
  <2>4. QED
    BY <2>2, <2>3
<1>20. OneHolderPerToken'
  <2>1. sup \in [Supervisors -> SupRecords]
    BY <1>1 DEF SupervisorTyped
  <2>2. \A q \in Supervisors : sup'[q].token = sup[q].token
    BY <1>5, <1>8, <2>1 DEF k
  <2>3. QED
    BY <1>1, <2>2 DEF StoreInvariant, OneHolderPerToken
<1>21. external'.count <= Len(receipts') /\ AnchoredBeforeDispatch'
  <2>1. external.count <= Len(receipts) /\ AnchoredBeforeDispatch
    BY <1>1 DEF StoreInvariant
  <2>2. external.count <= n1 /\ \A d \in 1..external.count : d \in 1..Len(receipts)
    BY <1>2, <2>1 DEF n1
  <2>3. QED
    BY <1>5, <1>9, <2>1, <2>2 DEF AnchoredBeforeDispatch
<1>22. GuardHead(receipts')
  BY <1>4, <1>5, <1>7, GuardHeadGrows
<1>23. StoreInvariant'
  BY <1>16, <1>17, <1>19, <1>20, <1>21, <1>22 DEF StoreInvariant
<1>24. SupervisorTyped'
  BY <1>1, <1>5, <1>6, <1>8, <1>9 DEF SupervisorTyped, LeaseRecords
<1>25. Recorded("ENTRY")' = Recorded("ENTRY") /\ Recorded("CLOSED_TRADE")' = Recorded("CLOSED_TRADE")
  BY <1>5 DEF Recorded
<1>26. sup[p].pc \notin Owing /\ sup[p].pc # "entry"
  BY DEF AppendReceipt, PhaseAt, Owing
<1>27. FactsOK'
  BY Zenon, <1>1, <1>5, <1>8, <1>25, <1>26, FactsKept
<1>28. QED
  BY <1>23, <1>24, <1>27 DEF SupervisorInvariant

----------------------------------------------------------------------------
(* The broker closes an executed intent. *)
LEMMA BrokerClosesStep ==
    ASSUME SupervisorInvariant, BrokerCloses
    PROVE  SupervisorInvariant'
<1>1. SupervisorTyped /\ StoreInvariant /\ FactsOK
  BY DEF SupervisorInvariant
<1>2. PICK d \in broker.executed \ broker.closed : broker' = [broker EXCEPT !.closed = @ \cup {d}]
  BY Zenon DEF BrokerCloses
<1>3. UNCHANGED <<now, receipts, lease, external, latched, journal, risk, sup, faults>>
  BY DEF BrokerCloses, store, env
<1>4. broker' \in [executed : SUBSET Nat, closed : SUBSET Nat] /\ broker'.executed = broker.executed
  BY ZenonT(20), <1>1, <1>2 DEF SupervisorTyped
<1>5. SupervisorTyped'
  BY SMTT(30), <1>1, <1>3, <1>4 DEF SupervisorTyped
<1>6. StoreInvariant'
  <2>1. /\ ReceiptsFenced /\ OneHolderPerToken /\ AnchoredBeforeDispatch /\ GuardHead(receipts)
        /\ ReceiptsOK(lease.token, receipts, latched) /\ external.count <= Len(receipts)
        /\ \A q \in Supervisors : SupOK(sup[q], lease.token, receipts, external.count, latched)
    BY Zenon, <1>1 DEF StoreInvariant
  <2>2. ReceiptsFenced'
    BY <1>3, <2>1 DEF ReceiptsFenced
  <2>3. OneHolderPerToken'
    BY <1>3, <2>1 DEF OneHolderPerToken
  <2>4. AnchoredBeforeDispatch'
    BY <1>3, <1>4, <2>1 DEF AnchoredBeforeDispatch
  <2>5. QED
    BY <1>3, <2>1, <2>2, <2>3, <2>4 DEF StoreInvariant
<1>7. Recorded("ENTRY")' = Recorded("ENTRY") /\ Recorded("CLOSED_TRADE")' = Recorded("CLOSED_TRADE")
  BY <1>3 DEF Recorded
<1>8. FactsOK'
  BY <1>1, <1>3, <1>4, <1>7 DEF FactsOK
<1>9. QED
  BY <1>5, <1>6, <1>8 DEF SupervisorInvariant

(* The clock moves, or nothing does. *)
LEMMA IdleStep ==
    ASSUME SupervisorInvariant, Tick \/ UNCHANGED vars
    PROVE  SupervisorInvariant'
<1>1. SupervisorTyped /\ StoreInvariant /\ FactsOK
  BY DEF SupervisorInvariant
<1>2. UNCHANGED <<receipts, lease, external, latched, journal, risk, broker, sup, faults>>
  BY DEF Tick, vars, store, ports
<1>3. now' \in Nat
  BY <1>1 DEF Tick, vars, SupervisorTyped
<1>4. SupervisorTyped'
  BY <1>1, <1>2, <1>3 DEF SupervisorTyped
<1>5. StoreInvariant'
  <2>1. /\ ReceiptsFenced /\ OneHolderPerToken /\ AnchoredBeforeDispatch /\ GuardHead(receipts)
        /\ ReceiptsOK(lease.token, receipts, latched) /\ external.count <= Len(receipts)
        /\ \A q \in Supervisors : SupOK(sup[q], lease.token, receipts, external.count, latched)
    BY Zenon, <1>1 DEF StoreInvariant
  <2>2. ReceiptsFenced'
    BY <1>2, <2>1 DEF ReceiptsFenced
  <2>3. OneHolderPerToken'
    BY Zenon, <1>2, <2>1 DEF OneHolderPerToken
  <2>4. AnchoredBeforeDispatch'
    BY <1>2, <2>1 DEF AnchoredBeforeDispatch
  <2>5. QED
    BY <1>2, <2>1, <2>2, <2>3, <2>4 DEF StoreInvariant
<1>6. Recorded("ENTRY")' = Recorded("ENTRY") /\ Recorded("CLOSED_TRADE")' = Recorded("CLOSED_TRADE")
  BY <1>2 DEF Recorded
<1>7. FactsOK'
  BY <1>1, <1>2, <1>6 DEF FactsOK
<1>8. QED
  BY <1>4, <1>5, <1>7 DEF SupervisorInvariant

(* A provisioned store satisfies the invariant. *)
LEMMA SupervisorStarts == SupervisorInit => SupervisorInvariant
<1> SUFFICES ASSUME SupervisorInit PROVE SupervisorInvariant
  OBVIOUS
<1> DEFINE e == [kind |-> "ACCOUNT_SNAPSHOT", intent |-> 0]
<1>1. e \in RiskEvents
  BY DEF RiskEvents
<1>2. risk = <<e>>
  BY DEF SupervisorInit
<1> HIDE DEF e
<1>3. risk \in Seq(RiskEvents)
  BY <1>1, <1>2
<1>4. SupervisorTyped
  <2>1. lease \in [token : Nat, expires : Nat] /\ external \in [version : Nat, count : Nat, latched : BOOLEAN]
    BY SMTT(30) DEF SupervisorInit
  <2>2. /\ journal \in [kill : BOOLEAN, closed : SUBSET Nat, version : Nat]
        /\ broker \in [executed : SUBSET Nat, closed : SUBSET Nat]
    BY SMTT(30) DEF SupervisorInit
  <2>3. sup \in [Supervisors -> SupRecords]
    BY SMTT(30), OffRecord DEF SupervisorInit
  <2>4. now \in Nat /\ faults \in Nat /\ receipts = <<>>
    BY DEF SupervisorInit
  <2>5. latched \in BOOLEAN
    BY Zenon DEF SupervisorInit
  <2>6. receipts \in Seq(ReceiptRecords)
    BY SMTT(30), <2>4
  <2>7. QED
    BY <1>3, <2>1, <2>2, <2>3, <2>4, <2>5, <2>6 DEF SupervisorTyped
<1>5. \A p \in Supervisors : SupOK(sup[p], 0, <<>>, 0, FALSE)
  <2>1. Control(Off.pc, Off.job)
    BY OffRecord DEF Control, Checks, Boundary, Failing
  <2>2. SupOK(Off, 0, <<>>, 0, FALSE)
    BY <2>1, OffRecord DEF SupOK, Boundary, Failing
  <2>3. QED
    BY Zenon, <2>2 DEF SupervisorInit
<1>6. GuardHead(<<>>)
  BY DEF GuardHead
<1>7. StoreInvariant
  <2>1. /\ receipts = <<>> /\ lease.token = 0 /\ external.count = 0 /\ latched = FALSE /\ broker.executed = {}
        /\ \A p \in Supervisors : sup[p].token = 0
    BY OffRecord DEF SupervisorInit
  <2>2. ReceiptsFenced /\ ReceiptsOK(lease.token, receipts, latched)
    BY <2>1 DEF ReceiptsFenced, ReceiptsOK
  <2>3. OneHolderPerToken /\ AnchoredBeforeDispatch /\ external.count <= Len(receipts)
    <3>1. OneHolderPerToken
      BY <2>1 DEF OneHolderPerToken
    <3>2. AnchoredBeforeDispatch
      BY <2>1 DEF AnchoredBeforeDispatch
    <3>3. QED
      BY <2>1, <3>1, <3>2
  <2>4. QED
    BY Zenon, <1>5, <1>6, <2>1, <2>2, <2>3 DEF StoreInvariant
<1>8. FactsOK
  BY OffRecord DEF SupervisorInit, FactsOK
<1>9. QED
  BY <1>4, <1>7, <1>8 DEF SupervisorInvariant

(* Every step of the supervisors, their providers and the broker preserves it. *)
LEMMA SupervisorInductive == SupervisorInvariant /\ [SupervisorNext]_vars => SupervisorInvariant'
<1> SUFFICES ASSUME SupervisorInvariant, [SupervisorNext]_vars PROVE SupervisorInvariant'
  OBVIOUS
<1>1. ASSUME NEW p \in Supervisors, Step(p) PROVE SupervisorInvariant'
  BY <1>1, ReconcileStep, VerifyJournalStep, VerifyRiskStep, SettleClosedStep, SettleSnapshotStep,
     RiskCustodyStep, NewsGuardStep, DecideStep, AppendReceiptStep, PublishStep, RecheckStep,
     RecheckRiskStep, FinalBoundaryStep, DispatchStep, AppendEntryStep, EntryCustodyStep,
     JournalCustodyStep, ReleaseStep, DeniedStep, LatchCriticalStep, PublishLatchStep,
     KillSwitchStep, NoCriticalReceiptStep, Zenon DEF Step
<1>2. ASSUME NEW p \in Supervisors,
             \/ StartClaims(p) \/ StartUnanchored(p) \/ Begin(p) \/ Stop(p) \/ Unhealthy(p)
             \/ DispatchRaises(p) \/ PublishLost(p) \/ PublishLatchLost(p) \/ Crash(p)
      PROVE  SupervisorInvariant'
  BY <1>2, StartClaimsStep, StartUnanchoredStep, BeginStep, StopStep, UnhealthyStep, DispatchStep,
     PublishLostStep, PublishLatchLostStep, CrashStep, Zenon
<1>3. QED
  BY <1>1, <1>2, BrokerClosesStep, IdleStep, Zenon DEF SupervisorNext

(* In every behaviour the invariant holds throughout. *)
LEMMA SupervisorSafe == SupervisorSpec => []SupervisorInvariant
BY SupervisorStarts, SupervisorInductive, PTL DEF SupervisorSpec

(* The receipts of the store's append never step back to an older fence token; a token's
   receipts open with STARTUP and close with SHUTDOWN or CRITICAL, and after a CRITICAL
   one the chain holds only CRITICAL ones, for any number of supervisors that take over
   from each other, crash or write late. *)
THEOREM SupervisorReceiptsFenced == SupervisorSpec => []ReceiptsFenced
<1>1. SupervisorInvariant => ReceiptsFenced
  BY DEF SupervisorInvariant, StoreInvariant
<1>2. QED
  BY <1>1, SupervisorSafe, PTL

(* No order reaches the broker before external custody commits to its PRE_DISPATCH
   receipt (_append_and_checkpoint before the execution service), in any mode. *)
THEOREM DispatchFollowsAnchor == SupervisorSpec => []AnchoredBeforeDispatch
<1>1. SupervisorInvariant => AnchoredBeforeDispatch
  BY DEF SupervisorInvariant, StoreInvariant
<1>2. QED
  BY <1>1, SupervisorSafe, PTL

(* At a dispatch that no fault, latch or second caller disturbs, every execution is an
   ENTRY of the risk ledger and every closed intent a CLOSED_TRADE of it, whatever starts,
   stops and takeovers came before. *)
THEOREM FactsComplete == SupervisorSpec => []FactsCompleteUndisturbed
<1>1. SupervisorInvariant => FactsCompleteUndisturbed
  <2>1. SUFFICES ASSUME SupervisorInvariant, Undisturbed, NEW p \in Supervisors, At(p, "dispatch")
                 PROVE  broker.executed \subseteq Recorded("ENTRY") /\ journal.closed \subseteq Recorded("CLOSED_TRADE")
    BY DEF FactsCompleteUndisturbed, FactsSurviveRestart
  <2>2. \A q \in Supervisors : q = p \/ sup[q].pc \in {"off", "ready"}
    BY <2>1 DEF Undisturbed, At
  <2>3. \A q \in Supervisors : sup[q].pc \notin {"entry", "journal", "risk", "settle", "fail"}
    BY <2>1, <2>2 DEF At
  <2>4. faults = 0 /\ ~latched
    BY <2>1 DEF Undisturbed
  <2>5. QED
    BY SMTT(30), <2>1, <2>3, <2>4 DEF SupervisorInvariant, FactsOK
<1>2. QED
  BY <1>1, SupervisorSafe, PTL

(* A step that leaves the receipts alone moves custody to the whole chain, or not at all. *)
LEMMA ChainStutters ==
    ASSUME UNCHANGED receipts, external'.count \in {external.count, Len(receipts)}
    PROVE  [Chain!Grow \/ Chain!Anchor]_<<Len(receipts), external.count>>
BY DEF Chain!Anchor

(* A receipt is appended only over a chain that custody holds all of. *)
LEMMA ChainGrows ==
    ASSUME SupervisorInvariant, NEW p \in Supervisors, AppendReceipt(p)
    PROVE  Chain!Grow
<1>1. external.count = Len(receipts) /\ external' = external
  BY DEF AppendReceipt, Appendable, Anchored
<1>2. Len(receipts') = Len(receipts) + 1
  <2> DEFINE phase == PhaseAt[sup[p].pc]
             pre == IF phase = "PRE_DISPATCH" THEN Len(receipts) + 1 ELSE sup[p].pre
             r == [phase |-> phase, token |-> sup[p].token, guard |-> GuardAt(p), pre |-> pre,
                   called |-> sup[p].called]
  <2>1. receipts' = Append(receipts, r)
    BY Zenon DEF AppendReceipt
  <2>2. receipts \in Seq(ReceiptRecords)
    BY SupFacts
  <2> HIDE DEF r
  <2>3. QED
    BY <2>1, <2>2
<1>3. QED
  BY <1>1, <1>2 DEF Chain!Grow

(* The receipt chain and its register implement the anchored chain: no receipt is ever
   appended over one that custody does not know, so a crash leaves at most one such. *)
THEOREM SupervisorChainAnchored == SupervisorSpec => ImplementsAnchoredChain
<1>1. SupervisorInit => Chain!ChainInit
  BY DEF SupervisorInit, Chain!ChainInit
<1>2. SupervisorInvariant /\ [SupervisorNext]_vars => [Chain!Grow \/ Chain!Anchor]_<<Len(receipts), external.count>>
  <2> SUFFICES ASSUME SupervisorInvariant, [SupervisorNext]_vars
               PROVE  [Chain!Grow \/ Chain!Anchor]_<<Len(receipts), external.count>>
    OBVIOUS
  <2>1. Successor.count = Len(receipts)
    BY SMTT(30), SuccessorTyped
  <2>2. ASSUME NEW p \in Supervisors, AppendReceipt(p)
        PROVE  [Chain!Grow \/ Chain!Anchor]_<<Len(receipts), external.count>>
    BY SMTT(30), <2>2, ChainGrows
  <2>3. ASSUME NEW p \in Supervisors, Publish(p) \/ PublishLost(p) \/ PublishLatch(p)
        PROVE  UNCHANGED receipts /\ external'.count \in {external.count, Len(receipts)}
    BY SMTT(30), <2>1, <2>3 DEF Publish, PublishLost, PublishLatch, store
  <2>4. ASSUME NEW p \in Supervisors, Step(p), ~AppendReceipt(p), ~Publish(p), ~PublishLatch(p)
        PROVE  UNCHANGED <<receipts, external>>
    BY <2>4 DEF Step, Reconcile, VerifyJournal, VerifyRisk, SettleClosed, SettleSnapshot, RiskCustody, NewsGuard,
        Decide, Recheck, RecheckRisk, FinalBoundary, Dispatch, AppendEntry, EntryCustody, JournalCustody, Release,
        Denied, LatchCritical, KillSwitch, NoCriticalReceipt, store
  <2>5. ASSUME NEW p \in Supervisors,
               \/ StartClaims(p) \/ StartUnanchored(p) \/ Begin(p) \/ Stop(p) \/ Unhealthy(p)
               \/ DispatchRaises(p) \/ PublishLatchLost(p) \/ Crash(p)
        PROVE  UNCHANGED <<receipts, external>>
    BY <2>5 DEF StartClaims, StartUnanchored, Begin, Stop, Unhealthy, DispatchRaises, PublishLatchLost, Crash, store
  <2>6. ASSUME BrokerCloses \/ Tick \/ UNCHANGED vars
        PROVE  UNCHANGED <<receipts, external>>
    BY <2>6 DEF BrokerCloses, Tick, vars, store
  <2>7. ASSUME UNCHANGED <<receipts, external>>
        PROVE  [Chain!Grow \/ Chain!Anchor]_<<Len(receipts), external.count>>
    BY <2>7
  <2>8. QED
    BY <2>2, <2>3, <2>4, <2>5, <2>6, <2>7, ChainStutters, Zenon DEF SupervisorNext
<1>3. QED
  BY <1>1, <1>2, SupervisorSafe, PTL DEF SupervisorSpec, ImplementsAnchoredChain, Chain!ChainSpec

=============================================================================
