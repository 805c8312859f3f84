-------------------------------- MODULE MCPortal --------------------------------
(***************************************************************************)
(* Checkout, Licence, AdmissionBudget and RetrainQueue in one state graph, *)
(* for safety and liveness: they share nothing, and a behaviour is one     *)
(* part's while the others rest.  The admissions come in two shapes: two   *)
(* callers over all days and keys, and three callers with two keys on one  *)
(* day.                                                                    *)
(***************************************************************************)
EXTENDS Checkout, Licence, AdmissionBudget, RetrainQueue

CONSTANTS
    Parts,       \* the parts that are checked
    ThirdCaller, \* does not ask in the first shape of AdmissionBudget
    ThirdKey     \* is not asked for in the second

VARIABLE part \* whose behaviour it is

portalVars == <<checkoutVars, licenceVars, vars, queueVars, part>>

PortalInit ==
    /\ part \in Parts
    /\ CheckoutInit /\ LicenceInit /\ Init /\ QueueInit

PortalNext ==
    /\ UNCHANGED part
    /\ IF part = "checkout" THEN CheckoutNext ELSE UNCHANGED checkoutVars
    /\ IF part = "licence" THEN LicenceNext ELSE UNCHANGED licenceVars
    /\ IF part \in {"two callers", "one day"} THEN Next ELSE UNCHANGED vars
    /\ IF part = "queue" THEN QueueNext ELSE UNCHANGED queueVars
    /\ part = "two callers" => call'[ThirdCaller] = Resting
    /\ part = "one day" => today' = 0 /\ \A c \in Callers : call'[c].key # ThirdKey

\* Each part under the fairness of its own module.
PortalSpec ==
    /\ PortalInit /\ [][PortalNext]_portalVars
    /\ CheckoutFairness /\ LicenceFairness /\ Fairness /\ QueueFairness

\* The months of the days of AdmissionBudget: one ends after two days.
Calendar == [d \in 0..LastDay |-> IF d < 2 THEN 0 ELSE 1]
=================================================================================
