------------------------------ MODULE MCOperations ------------------------------
(***************************************************************************)
(* Parts of the system that share no data, in one state graph: a           *)
(* behaviour is one part's while the others rest.  Checkout comes in two   *)
(* shapes: one request with two calls, and two requests with one call and  *)
(* no checkout that is released.                                           *)
(*                                                                         *)
(* The other parts are symmetric in their actors and in their rows; they   *)
(* are given the same model values, so that few permutations serve all.    *)
(***************************************************************************)
EXTENDS Checkout, ShieldApi, Campaigns, RetrainQueue, PhoneVerdicts, TLC

CONSTANTS
    Parts,        \* the parts that are checked
    Actors, Rows, \* what the symmetry permutes
    LaterRequest, \* not filed in the first shape of Checkout
    SecondCall    \* not made in the second

VARIABLE part \* whose behaviour it is

operationsVars ==
    <<checkoutVars, shieldVars, campaignVars, queueVars, phoneVars, part>>

OperationsInit ==
    /\ part \in Parts
    /\ CheckoutInit /\ ShieldInit /\ CampaignInit /\ QueueInit /\ PhoneInit
    /\ part # "shield" => limits = [perMinute |-> 1, monthly |-> 1]

OperationsNext ==
    /\ UNCHANGED part
    /\ IF part \in {"one request", "one call"} THEN CheckoutNext ELSE UNCHANGED checkoutVars
    /\ part = "one request" => status'[LaterRequest] = "UNFILED"
    /\ part = "one call" => handler'[SecondCall] = NoCall /\ releases' = releases
    /\ IF part = "shield" THEN ShieldNext ELSE UNCHANGED shieldVars
    /\ IF part = "campaigns" THEN CampaignNext ELSE UNCHANGED campaignVars
    /\ IF part = "queue" THEN QueueNext ELSE UNCHANGED queueVars
    /\ IF part = "phone" THEN PhoneNext ELSE UNCHANGED phoneVars

OperationsSpec == OperationsInit /\ [][OperationsNext]_operationsVars

Symmetry == Permutations(Actors) \cup Permutations(Rows)

\* The clock reaches the second month with its last tick.
TwoMonths == [t \in 0..MaxTick |-> t \div 2]

TwoLimits == {[perMinute |-> 1, monthly |-> 1], [perMinute |-> 2, monthly |-> 2]}
=================================================================================
