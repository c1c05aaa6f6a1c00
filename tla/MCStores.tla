------------------------------ MODULE MCStores ------------------------------
(* The five stores that share no state with one another: the DEMO_AUTO session
   store, the risk ledger, the reconciliation supervisor's store, the stage
   authorization registry and the off-host delivery outbox. An interleaving of independent stores shows nothing
   that each does not show alone, so a behaviour of this model is one of one of
   them, the others resting in their initial state. *)
EXTENDS DemoAutoSession, RiskLedger, ReconciliationSupervisor, StageAuthorization, OffHostDelivery,
        TLC

(* Processes (and trades), and orders (intents and owner ids), take their names from
   one set each, which keeps the symmetry group small. *)
CONSTANTS p1, p2, o1, o2, n1, n2, e1, a1, a2, a3

(* a1 and a2 were issued for one request. *)
StageNonces == a1 :> "x" @@ a2 :> "x" @@ a3 :> "y"

(* The store whose behaviour this is. *)
VARIABLE running

StoresInit ==
    /\ running \in {"session", "ledger", "watch", "stage", "delivery"}
    /\ SessionInit /\ LedgerInit /\ WatchInit /\ StageInit /\ DeliveryInit

StoresNext ==
    /\ \/ running = "session" /\ SessionNext /\ UNCHANGED <<lvars, watchVars, stageVars, deliveryVars>>
       \/ running = "ledger" /\ LedgerNext /\ UNCHANGED <<svars, watchVars, stageVars, deliveryVars>>
       \/ running = "watch" /\ WatchNext /\ UNCHANGED <<svars, lvars, stageVars, deliveryVars>>
       \/ running = "stage" /\ StageNext /\ UNCHANGED <<svars, lvars, watchVars, deliveryVars>>
       \/ running = "delivery" /\ DeliveryNext /\ UNCHANGED <<svars, lvars, watchVars, stageVars>>
    /\ UNCHANGED running

StoresSpec ==
    StoresInit /\ [][StoresNext]_<<running, svars, lvars, watchVars, stageVars, deliveryVars>>

(* Processes and orders are interchangeable. *)
StoresSymmetry ==
    Permutations({p1, p2}) \cup Permutations({o1, o2})
=============================================================================
