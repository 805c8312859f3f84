---------------------------- MODULE AdmissionLedger ----------------------------
(***************************************************************************)
(* What admitInTransaction promises its callers, with no word of           *)
(* transactions, locks and second looks: in one step a key is admitted, if *)
(* its day and its month have an admission left and it was not admitted    *)
(* before; or its caller is told that today's budget is used up, if it is. *)
(***************************************************************************)
EXTENDS Integers, FiniteSets

CONSTANTS Callers, Keys, DailyLimit, MonthlyLimit, Month, LastDay

VARIABLES granted, \* the admissions: key and day
          refused, \* who is being refused, and what for
          today

vars == <<granted, refused, today>>

Left(d) ==
    /\ Cardinality({a \in granted : a.day = d}) < DailyLimit
    /\ Cardinality({a \in granted : Month[a.day] = Month[d]}) < MonthlyLimit

IsNew(k) == \A a \in granted : a.key # k

Init ==
    /\ granted = {}
    /\ refused = {}
    /\ today = 0

\* The admission counts for the day on which its row was written, which may be
\* over when it is committed.
Admit(k, d) ==
    /\ IsNew(k)
    /\ Left(d)
    /\ granted' = granted \cup {[key |-> k, day |-> d]}
    /\ UNCHANGED <<refused, today>>

Refuse(c, k) ==
    /\ IsNew(k)
    /\ ~Left(today)
    /\ refused' = refused \cup {[caller |-> c, key |-> k]}
    /\ UNCHANGED <<granted, today>>

\* The caller is gone.
Leave(c) ==
    /\ refused' = {r \in refused : r.caller # c}
    /\ UNCHANGED <<granted, today>>

Midnight ==
    /\ today < LastDay
    /\ today' = today + 1
    /\ UNCHANGED <<granted, refused>>

Next ==
    \/ \E k \in Keys, d \in 0..today : Admit(k, d)
    \/ \E c \in Callers, k \in Keys : Refuse(c, k)
    \/ \E c \in Callers : Leave(c)
    \/ Midnight

Spec == Init /\ [][Next]_vars
===============================================================================
