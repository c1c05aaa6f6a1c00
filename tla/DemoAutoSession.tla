----------------------------- MODULE DemoAutoSession -----------------------------
(***************************************************************************)
(* The DEMO_AUTO session store (live_runtime/demo_auto_session_capability  *)
(* .py): a hash-chained ledger of session leases, a checkpoint of its head *)
(* held by an external compare-and-swap register, and the dispatch         *)
(* reservations made under the current lease.                              *)
(*                                                                         *)
(* A checkpoint's digest commits to the whole chain, so a checkpoint is     *)
(* the chain itself.  Signatures, schema and file checks always succeed    *)
(* for what the store wrote; a check whose data is not modelled (clock,    *)
(* expiry, authorization) may fail at any time and ends the call.          *)
(***************************************************************************)
EXTENDS Naturals, Sequences

CONSTANTS
    Users,      \* concurrent callers of the store, which share the lease
    Orders,     \* intents that may be dispatched
    MaxChain,   \* bound on the ledger's length
    MaxSup      \* supervisor checkpoints

VARIABLES
    ledger,     \* the committed leases
    external,   \* the chain the external register holds
    sup,        \* the supervisor checkpoint its provider returns
    reservation,\* per order: state and the chain it was reserved under
    issued,     \* leases create and renew have returned
    user        \* per caller: the call in progress

svars == <<ledger, external, sup, reservation, issued, user>>

NoLeaseHeld == [seq |-> 0, ev |-> "none", sup |-> 0, by |-> "none"]
Ready == [pc |-> "ready", prior |-> <<>>, new |-> NoLeaseHeld, order |-> "none", held |-> NoLeaseHeld]

SessionInit ==
    /\ ledger = <<>>
    /\ external = <<>>
    /\ sup = 1
    /\ reservation = [o \in Orders |-> [st |-> "none", under |-> <<>>]]
    /\ issued = {}
    /\ user = [u \in Users |-> Ready]

(* The supervisor's provider may also return an older checkpoint. *)
SupervisorMoves ==
    /\ sup' \in 1..MaxSup
    /\ UNCHANGED <<ledger, external, reservation, issued, user>>

HeadLease == IF ledger = <<>> THEN NoLeaseHeld ELSE ledger[Len(ledger)]

UserAt(u, pc) == user[u].pc = pc
Step(u, pc) == user' = [user EXCEPT ![u].pc = pc]
StoreUnchanged == UNCHANGED <<ledger, external, sup, reservation, issued>>

(* _verify_external_checkpoint of the local head. *)
Anchored == external = ledger

OpenReservation(o) == reservation[o].st \in {"ACTIVE", "RECONCILIATION_REQUIRED"}

-----------------------------------------------------------------------------
(* create and renew: read and verify, issue a lease, append it by a local   *)
(* compare-and-swap, export it by an external one, read it back.            *)

CanCreate(u) == Anchored /\ ledger = <<>>

Create(u) ==
    /\ UserAt(u, "ready") /\ CanCreate(u)
    /\ user' = [user EXCEPT ![u].pc = "append", ![u].prior = ledger,
                            ![u].new = [seq |-> 1, ev |-> "CREATE", sup |-> sup, by |-> u]]
    /\ StoreUnchanged

RenewRead(u) ==
    /\ UserAt(u, "ready") /\ Anchored /\ Len(ledger) < MaxChain
    /\ HeadLease \in issued
    /\ user' = [user EXCEPT ![u].pc = "renew", ![u].prior = ledger, ![u].held = HeadLease]
    /\ StoreUnchanged

(* The reservations are read on a connection of their own. *)
RenewCheck(u) ==
    /\ UserAt(u, "renew")
    /\ \A o \in Orders : ~OpenReservation(o)
    /\ Step(u, "renew_issue")
    /\ StoreUnchanged

CurrentSupervisor(u) == sup >= user[u].held.sup

RenewIssue(u) ==
    /\ UserAt(u, "renew_issue") /\ CurrentSupervisor(u)
    /\ external = user[u].prior
    /\ user' = [user EXCEPT ![u].pc = "append",
                            ![u].new = [seq |-> user[u].held.seq + 1, ev |-> "RENEW",
                                        sup |-> sup, by |-> u]]
    /\ StoreUnchanged

(* Mutant: the predecessor is not compared inside the transaction. *)
MayAppendAny(u) == TRUE

MayAppend(u) == ledger = user[u].prior

AppendLease(u) ==
    /\ UserAt(u, "append") /\ MayAppend(u)
    /\ ledger' = Append(ledger, user[u].new)
    /\ Step(u, "export")
    /\ UNCHANGED <<external, sup, reservation, issued>>

(* The register accepts only the successor of what it holds.  The answer    *)
(* may be lost after the register has moved.                                *)
Export(u) ==
    LET chain == Append(user[u].prior, user[u].new) IN
    /\ UserAt(u, "export") /\ external = user[u].prior
    /\ external' = chain
    /\ issued' \in {issued, issued \cup {user[u].new}}
    /\ user' = [user EXCEPT ![u] = Ready]
    /\ UNCHANGED <<ledger, sup, reservation>>

-----------------------------------------------------------------------------
(* Dispatching one order under the current lease.                           *)

(* verify: the exact current lease, anchored, with the current supervisor   *)
(* checkpoint.                                                              *)
Verified(l) == Anchored /\ l = HeadLease /\ sup = l.sup

IssueDispatchVerification(u, o) ==
    /\ UserAt(u, "ready") /\ HeadLease \in issued /\ Verified(HeadLease)
    /\ user' = [user EXCEPT ![u].pc = "verified", ![u].prior = ledger, ![u].order = o,
                            ![u].held = HeadLease]
    /\ StoreUnchanged

(* Mutant: the chain is not compared again inside the transaction. *)
StillCurrentAny(u) == TRUE

StillCurrent(u) == ledger = user[u].prior

ReserveDispatchVerification(u) ==
    LET o == user[u].order IN
    /\ UserAt(u, "verified")
    /\ reservation[o].st = "none" /\ \A q \in Orders : ~OpenReservation(q)
    /\ StillCurrent(u)
    /\ reservation' = [reservation EXCEPT ![o] = [st |-> "ACTIVE", under |-> ledger]]
    /\ Step(u, "reserved")
    /\ UNCHANGED <<ledger, external, sup, issued>>

(* verify_reserved_dispatch, the last check before the order is submitted. *)
VerifyReservedDispatch(u) ==
    /\ UserAt(u, "reserved") /\ Verified(user[u].held) /\ ledger = user[u].prior
    /\ reservation[user[u].order] = [st |-> "ACTIVE", under |-> ledger]
    /\ Step(u, "submitting")
    /\ StoreUnchanged

(* A settlement proof of the journal is applied, by the dispatching process *)
(* or by start-up recovery in any process.                                  *)
ApplySettlement(o, st) ==
    /\ OpenReservation(o)
    /\ reservation' = [reservation EXCEPT ![o].st = st]
    /\ UNCHANGED <<ledger, external, sup, issued, user>>

(* A call ends: after its submission, or early on a failed check, an        *)
(* exception or a crash; what was committed stays.                          *)
CallEnds(u) ==
    /\ user[u].pc # "ready"
    /\ user' = [user EXCEPT ![u] = Ready]
    /\ StoreUnchanged

SessionNext ==
    \/ SupervisorMoves
    \/ \E u \in Users : \/ Create(u) \/ RenewRead(u) \/ RenewCheck(u) \/ RenewIssue(u)
                        \/ AppendLease(u) \/ Export(u)
                        \/ \E o \in Orders : IssueDispatchVerification(u, o)
                        \/ ReserveDispatchVerification(u) \/ VerifyReservedDispatch(u)
                        \/ CallEnds(u)
    \/ \E o \in Orders, st \in {"ABORTED_BEFORE_SEND", "COMPLETED",
                                "RECONCILIATION_REQUIRED", "RECONCILED"} : ApplySettlement(o, st)

SessionSpec == SessionInit /\ [][SessionNext]_svars

-----------------------------------------------------------------------------
(* Properties.                                                              *)

(* The external register never forks from the ledger and the ledger is at   *)
(* most one lease ahead of it, whoever crashes between commit and export    *)
(* (_append_and_export).                                                    *)
ExternalTracksLedger ==
    /\ Len(ledger) \in {Len(external), Len(external) + 1}
    /\ external = SubSeq(ledger, 1, Len(external))

(* A dispatch is reserved only under a lease the external register holds,   *)
(* and at most one reservation is unresolved.                               *)
ReservedUnderAnchoredLease ==
    /\ \A o \in Orders : reservation[o].st # "none" =>
          \E k \in 0..Len(external) : reservation[o].under = SubSeq(external, 1, k)
    /\ \A o, q \in Orders : OpenReservation(o) /\ OpenReservation(q) => o = q

(* reserve_dispatch_verification: "CAS-reserve the exact lease so renewal   *)
(* cannot race broker dispatch."                                            *)
RenewalCannotRaceDispatch ==
    \A o \in Orders : reservation[o].st = "ACTIVE" => reservation[o].under = ledger
=============================================================================
