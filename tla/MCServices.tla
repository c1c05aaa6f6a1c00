----------------------------- MODULE MCServices -----------------------------
(* The two services that share no state with one another, the decision producer
   and the gated Windows service, under the fairness of each. A behaviour of this
   model is one of one of them, the other resting in its initial state; fairness
   asks nothing of the one that rests. *)
EXTENDS MCDecisionProducer, GatedService

(* The service whose behaviour this is. *)
VARIABLE running

allVars == <<running, vars, svcVars>>

ServicesInit == running \in {"producer", "gated"} /\ ProducerInit /\ ServiceInit

(* An action of the service that runs. *)
Producing(A) == running = "producer" /\ A /\ UNCHANGED <<running, svcVars>>
Serving(A) == running = "gated" /\ A /\ UNCHANGED <<running, vars>>

ServicesNext == Producing(ProducerNext) \/ Serving(ServiceNext)

ServicesSpec == ServicesInit /\ [][ServicesNext]_allVars

FairServicesSpec ==
    /\ ServicesSpec
    /\ \A s \in Services :
        /\ WF_allVars(Producing(ServiceStep(s)))
        /\ \A v \in Variants : SF_allVars(Producing(Observe(s, v)))
    /\ WF_allVars(Serving(MainThread))
=============================================================================
