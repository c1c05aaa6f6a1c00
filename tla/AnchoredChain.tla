---------------------------- MODULE AnchoredChain ----------------------------
(* What an append-only chain under external custody promises: it grows by one
   entry, and only while custody holds all of it; custody only ever moves
   forward to the whole chain. Hence a crash or a lost answer leaves at most one
   entry that custody does not know of. *)
EXTENDS Naturals

VARIABLES
    length,     \* entries in the local chain
    anchored    \* entries the external checkpoint commits to

ChainInit == length \in Nat /\ anchored = length

Grow == /\ anchored = length
        /\ length' = length + 1
        /\ UNCHANGED anchored

Anchor == /\ anchored' = length
          /\ UNCHANGED length

ChainSpec == ChainInit /\ [][Grow \/ Anchor]_<<length, anchored>>

=============================================================================
