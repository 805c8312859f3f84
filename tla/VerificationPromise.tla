-------------------------- MODULE VerificationPromise --------------------------
(***************************************************************************)
(* What cloud verification promises for one model identity, with no word   *)
(* of queues, leases or repairs: a message is verified at most once, from  *)
(* an inference call that was paid for by one of its admissions; it is     *)
(* given up only after all the attempts of an admission were used; and a   *)
(* month's admissions are limited.                                         *)
(***************************************************************************)
EXTENDS Integers

CONSTANTS Messages, Workers, MaxAttempts, MonthlyLimit

VARIABLES state,    \* none, open, verified or failed, for each message
          attempts, \* inference calls since the last admission
          credit,   \* inference calls the admissions still allow
          asking,   \* who is waiting for the model's answer on a message
          admitted  \* admissions of the month

vars == <<state, attempts, credit, asking, admitted>>

Init ==
    /\ state = [m \in Messages |-> "none"]
    /\ attempts = [m \in Messages |-> 0]
    /\ credit = [m \in Messages |-> 0]
    /\ asking = [m \in Messages |-> {}]
    /\ admitted = 0

Become(m, s) == state' = [state EXCEPT ![m] = s]

\* A message is taken up, or taken up again, against an admission.
Admit(m) ==
    /\ state[m] # "verified"
    /\ admitted < MonthlyLimit
    /\ admitted' = admitted + 1
    /\ Become(m, "open")
    /\ attempts' = [attempts EXCEPT ![m] = 0]
    /\ credit' = [credit EXCEPT ![m] = @ + MaxAttempts]
    /\ UNCHANGED asking

\* A new message is refused, because the budget is used up.
Refuse(m) ==
    /\ state[m] = "none"
    /\ Become(m, "failed")
    /\ UNCHANGED <<attempts, credit, asking, admitted>>

\* Anything else that takes an admission.
AdmitOther ==
    /\ admitted < MonthlyLimit
    /\ admitted' = admitted + 1
    /\ UNCHANGED <<state, attempts, credit, asking>>

Ask(m, w) ==
    /\ state[m] = "open"
    /\ attempts[m] < MaxAttempts
    /\ credit[m] > 0
    /\ attempts' = [attempts EXCEPT ![m] = @ + 1]
    /\ credit' = [credit EXCEPT ![m] = @ - 1]
    /\ asking' = [asking EXCEPT ![m] = @ \cup {w}]
    /\ UNCHANGED <<state, admitted>>

Answer(m, w) ==
    /\ state[m] = "open"
    /\ w \in asking[m]
    /\ Become(m, "verified")
    /\ asking' = [asking EXCEPT ![m] = @ \ {w}]
    /\ UNCHANGED <<attempts, credit, admitted>>

NoAnswer(m, w) ==
    /\ w \in asking[m]
    /\ asking' = [asking EXCEPT ![m] = @ \ {w}]
    /\ UNCHANGED <<state, attempts, credit, admitted>>

GiveUp(m) ==
    /\ state[m] = "open"
    /\ attempts[m] = MaxAttempts
    /\ Become(m, "failed")
    /\ UNCHANGED <<attempts, credit, asking, admitted>>

\* The message is deleted, whatever is known of it.
Forget(m) ==
    /\ Become(m, "none")
    /\ attempts' = [attempts EXCEPT ![m] = 0]
    /\ UNCHANGED <<credit, asking, admitted>>

Next ==
    \/ AdmitOther
    \/ \E m \in Messages : Admit(m) \/ Refuse(m) \/ GiveUp(m) \/ Forget(m)
    \/ \E m \in Messages, w \in Workers :
           Ask(m, w) \/ Answer(m, w) \/ NoAnswer(m, w)

Spec == Init /\ [][Next]_vars

\* Where a message may also come with the model's verdict, it is verified as it
\* is taken up: against an admission, as long as the budget lasts.
Vouch(m) ==
    /\ state[m] = "none"
    /\ Become(m, "verified")
    /\ \/ /\ admitted < MonthlyLimit
          /\ admitted' = admitted + 1
          /\ credit' = [credit EXCEPT ![m] = @ + MaxAttempts]
       \/ UNCHANGED <<admitted, credit>>
    /\ UNCHANGED <<attempts, asking>>

VouchedNext == Next \/ \E m \in Messages : Vouch(m)

VouchedSpec == Init /\ [][VouchedNext]_vars
===============================================================================
