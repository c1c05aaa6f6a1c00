------------------------- MODULE StageAuthorization -------------------------
(* One-use stage authorizations of live_runtime/stage_authorization.py: the replay
   registry that consumes them, the signed checkpoints of the registry that are
   kept off-host, and the part of the runtime supervisor's start that verifies and
   consumes one (runtime_supervisor.py).

   A checkpoint's digests commit to the chain of consumed authorizations, so a
   checkpoint is that chain. Signatures, bindings, approvals and evidence receipts
   either pass all their checks or end the start, which StartFails allows at any
   step. The lease may expire between any two steps, so a start may claim it
   whenever another one is in progress. *)
EXTENDS Naturals, Sequences

CONSTANTS
    Starters,           \* supervisor processes sharing registry and store
    Authorizations,     \* signed stage authorizations
    NonceOf,            \* the nonce of each one's request
    MaxClaims,          \* bound on the fence token
    MaxRollbacks        \* bound on how often a backup of the registry is put back

ASSUME StageAssumption ==
    /\ "none" \notin Authorizations
    /\ MaxClaims \in Nat /\ MaxRollbacks \in Nat

VARIABLES
    registry,   \* stage_replay_events: the consumed authorizations, in order
    offhost,    \* the checkpoints that off-host custody has received
    copy,       \* a backup of the registry file
    rollbacks,  \* how often the backup has been put back
    fence,      \* the supervisor store's fence token
    startups,   \* the stage fields of the STARTUP receipts in the supervisor store
    starter     \* each process's position in start and its local variables

stageVars == <<registry, offhost, copy, rollbacks, fence, startups, starter>>

NotStarting == [pc |-> "off", auth |-> "none", presented |-> <<>>, sealed |-> <<>>, token |-> 0]

StarterAt(p, label) == starter[p].pc = label
StarterGoes(p, label) == starter' = [starter EXCEPT ![p].pc = label]
Gone(p) == starter' = [starter EXCEPT ![p] = NotStarting]

----------------------------------------------------------------------------
(* start claims the lease. The authorization and the checkpoint the operator
   presents with it, current or not, are fixed when the process is built. *)
ClaimStart(p, a, checkpoint) ==
    /\ StarterAt(p, "off")
    /\ fence < MaxClaims
    /\ fence' = fence + 1
    /\ starter' = [starter EXCEPT ![p] = [pc |-> "seen", auth |-> a, presented |-> checkpoint,
                                          sealed |-> <<>>, token |-> fence + 1]]
    /\ UNCHANGED <<registry, offhost, copy, rollbacks, startups>>

(* Mutant: the receipts of earlier starts are not looked through. *)
SeenBeforeNever(a) == FALSE

(* stage_authorization_seen: some receipt of the store names the authorization. *)
SeenBefore(a) == \E n \in DOMAIN startups : startups[n].auth = a

CheckSeen(p) ==
    /\ StarterAt(p, "seen")
    /\ ~SeenBefore(starter[p].auth)
    /\ StarterGoes(p, "verify")
    /\ UNCHANGED <<registry, offhost, copy, rollbacks, fence, startups>>

(* verify_checkpoint with require_current: neither a prefix nor a fork will do. *)
IsCurrent(checkpoint) == registry = checkpoint

VerifyPresented(p) ==
    /\ StarterAt(p, "verify")
    /\ IsCurrent(starter[p].presented)
    /\ StarterGoes(p, "consume")
    /\ UNCHANGED <<registry, offhost, copy, rollbacks, fence, startups>>

Replayed(a) ==
    \E n \in DOMAIN registry : registry[n] = a \/ NonceOf[registry[n]] = NonceOf[a]

(* validate_and_consume_stage_readiness_authorization with no reason code left:
   consume is one transaction; a replayed id or nonce makes it invalid. *)
Consume(p) ==
    /\ StarterAt(p, "consume")
    /\ ~Replayed(starter[p].auth)
    /\ registry' = Append(registry, starter[p].auth)
    /\ StarterGoes(p, "seal")
    /\ UNCHANGED <<offhost, copy, rollbacks, fence, startups>>

(* create_checkpoint after the consumption. *)
Seal(p) ==
    LET s == starter[p] IN
    /\ StarterAt(p, "seal")
    /\ starter' = [starter EXCEPT ![p] = [pc |-> "confirm", auth |-> s.auth,
                                          presented |-> s.presented, sealed |-> registry,
                                          token |-> s.token]]
    /\ UNCHANGED <<registry, offhost, copy, rollbacks, fence, startups>>

(* Mutant: the new checkpoint need not lie one event behind the presented one. *)
OwnSuccessorAny(s) == s.sealed[Len(s.sealed)] = s.auth

(* The new checkpoint is the presented one and this authorization. *)
OwnSuccessor(s) ==
    /\ Len(s.sealed) = Len(s.presented) + 1
    /\ s.sealed[Len(s.sealed)] = s.auth

Confirm(p) ==
    /\ StarterAt(p, "confirm")
    /\ IsCurrent(starter[p].sealed)
    /\ OwnSuccessor(starter[p])
    /\ StarterGoes(p, "startup")
    /\ UNCHANGED <<registry, offhost, copy, rollbacks, fence, startups>>

(* The STARTUP receipt, fenced by the token, names what was consumed; the receipts
   are looked through again inside its transaction. *)
RecordStartup(p) ==
    LET s == starter[p] IN
    /\ StarterAt(p, "startup")
    /\ s.token = fence /\ ~SeenBefore(s.auth)
    /\ startups' = Append(startups, [auth |-> s.auth, presented |-> s.presented,
                                     sealed |-> s.sealed])
    /\ Gone(p)
    /\ UNCHANGED <<registry, offhost, copy, rollbacks, fence>>

(* A check refuses, or the process dies: what was consumed stays consumed. *)
StartFails(p) ==
    /\ ~StarterAt(p, "off")
    /\ Gone(p)
    /\ UNCHANGED <<registry, offhost, copy, rollbacks, fence, startups>>

----------------------------------------------------------------------------
(* The current checkpoint is sealed and carried to off-host custody. *)
CarryOffhost ==
    /\ offhost' = offhost \cup {registry}
    /\ UNCHANGED <<registry, copy, rollbacks, fence, startups, starter>>

CopyRegistry ==
    /\ rollbacks < MaxRollbacks
    /\ copy' = registry
    /\ UNCHANGED <<registry, offhost, rollbacks, fence, startups, starter>>

(* An older file is put back while no start is in progress. *)
RollBackRegistry ==
    /\ rollbacks < MaxRollbacks
    /\ \A p \in Starters : StarterAt(p, "off")
    /\ registry' = copy
    /\ rollbacks' = rollbacks + 1
    /\ UNCHANGED <<offhost, copy, fence, startups, starter>>

(* A new registry, anchored by its GENESIS checkpoint. *)
StageInit ==
    /\ registry = <<>> /\ offhost = {<<>>} /\ copy = <<>> /\ rollbacks = 0
    /\ fence = 0 /\ startups = <<>>
    /\ starter = [p \in Starters |-> NotStarting]

StageNext ==
    \/ \E p \in Starters :
        \/ \E a \in Authorizations, c \in offhost : ClaimStart(p, a, c)
        \/ CheckSeen(p) \/ VerifyPresented(p) \/ Consume(p) \/ Seal(p) \/ Confirm(p)
        \/ RecordStartup(p) \/ StartFails(p)
    \/ CarryOffhost \/ CopyRegistry \/ RollBackRegistry

StageSpec == StageInit /\ [][StageNext]_stageVars

----------------------------------------------------------------------------
(* An authorization starts at most one runtime, also when an older registry is put
   back and an older checkpoint is presented with it: the supervisor's own receipts
   remember it (stage_authorization_seen). While no older registry is put back, the
   same holds of a request's nonce, whichever of its authorizations carries it. *)
OneStart ==
    \A m, n \in DOMAIN startups :
        \/ startups[m].auth = startups[n].auth
        \/ rollbacks = 0 /\ NonceOf[startups[m].auth] = NonceOf[startups[n].auth]
        => m = n

Begins(short, long) ==
    Len(short) <= Len(long) /\ \A k \in 1..Len(short) : short[k] = long[k]

(* Every start extends the checkpoint presented to it by its own consumption and
   nothing else, and what is presented to a later start includes all that earlier
   ones sealed, although starts overlap and are fenced only at their last step. *)
StartsAreOneChain ==
    rollbacks = 0 =>
        \A n \in DOMAIN startups :
            /\ startups[n].sealed = Append(startups[n].presented, startups[n].auth)
            /\ \A m \in 1..(n - 1) : Begins(startups[m].sealed, startups[n].presented)

=============================================================================
