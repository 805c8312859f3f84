---------------------------- MODULE AdmissionBudget ----------------------------
(***************************************************************************)
(* admitInTransaction of the cloud-verification service, statement by      *)
(* statement: the ledger of admissions shared by all replicas, its daily   *)
(* and monthly limits, and the advisory lock that serializes counting and  *)
(* inserting.  CloudVerification takes an admission in one step; here is   *)
(* why it may.                                                             *)
(*                                                                         *)
(* A transaction's insert is visible to others, and its lock released,     *)
(* when it commits.  Midnight may fall between any two statements.         *)
(***************************************************************************)
EXTENDS Integers, FiniteSets

CONSTANTS Callers,      \* transactions that may ask for an admission
          Keys,         \* admission keys: a message, a retry, a wake bucket
          DailyLimit,   \* CLOUD_VERIFY_ADMISSION_DAILY
          MonthlyLimit, \* CLOUD_VERIFY_ADMISSION_MONTHLY
          Month,        \* the month each day belongs to
          LastDay,      \* bound: the last day modelled
          None

ASSUME AdmissionAssumption ==
    /\ DailyLimit \in Nat \ {0}
    /\ MonthlyLimit \in Nat \ {0}
    /\ LastDay \in Nat
    /\ Month \in [0..LastDay -> Nat]
    /\ \A d, e \in 0..LastDay : d <= e => Month[d] <= Month[e]
    /\ None \notin Callers \cup Keys

VARIABLES
    ledger, \* committed CloudVerificationAdmission rows: key and day
    lock,   \* the holder of the advisory lock
    call,   \* each caller's transaction
    today

vars == <<ledger, lock, call, today>>

Row == [key : Keys, day : 0..LastDay]

\* The two counts of committed rows, from the start of day d and of its month.
DayRows(d) == {row \in ledger : row.day >= d}
MonthRows(d) == {row \in ledger : Month[row.day] >= Month[d]}

Admitted(k) == \E row \in ledger : row.key = k

Resting == [pc |-> "idle", key |-> None, row |-> None, answer |-> "none"]

Init ==
    /\ ledger = {}
    /\ lock = None
    /\ call = [c \in Callers |-> Resting]
    /\ today = 0

Step(c, from, to) ==
    /\ call[c].pc = from
    /\ call' = [call EXCEPT ![c].pc = to]

Answers(c, from, answer) ==
    /\ call[c].pc = from
    /\ call' = [call EXCEPT ![c].pc = "done", ![c].answer = answer]

Asks(c, k) ==
    /\ call[c].pc = "idle"
    /\ call' = [call EXCEPT ![c] =
           [pc |-> "look", key |-> k, row |-> None, answer |-> "none"]]
    /\ UNCHANGED <<ledger, lock, today>>

\* The first look, without the lock: an admitted key is not counted again.
Looks(c) ==
    /\ \/ Admitted(call[c].key) /\ Answers(c, "look", "existing")
       \/ ~Admitted(call[c].key) /\ Step(c, "look", "lock")
    /\ UNCHANGED <<ledger, lock, today>>

\* Mutant of Locks: nobody waits for the lock.
LocksAtOnce(c) ==
    /\ Step(c, "lock", "relook")
    /\ lock' = c
    /\ UNCHANGED <<ledger, today>>

\* pg_advisory_xact_lock waits until the lock is free.
Locks(c) ==
    /\ lock = None
    /\ Step(c, "lock", "relook")
    /\ lock' = c
    /\ UNCHANGED <<ledger, today>>

Relooks(c) ==
    /\ \/ Admitted(call[c].key) /\ Answers(c, "relook", "existing")
       \/ ~Admitted(call[c].key) /\ Step(c, "relook", "count")
    /\ UNCHANGED <<ledger, lock, today>>

WithinLimits(d) ==
    /\ Cardinality(DayRows(d)) < DailyLimit
    /\ Cardinality(MonthRows(d)) < MonthlyLimit

\* The day is read and the rows since its start are counted.
Counts(c) ==
    /\ \/ ~WithinLimits(today) /\ Answers(c, "count", "limited")
       \/ WithinLimits(today) /\ Step(c, "count", "insert")
    /\ UNCHANGED <<ledger, lock, today>>

\* The new row is stamped with the time of the insert, and is the
\* transaction's own until it commits.
Inserts(c) ==
    /\ call[c].pc = "insert"
    /\ call' = [call EXCEPT ![c].pc = "done", ![c].answer = "admitted",
                            ![c].row = [key |-> call[c].key, day |-> today]]
    /\ UNCHANGED <<ledger, lock, today>>

\* Mutant of Commits: the lock is kept without a new row.
CommitsKeepingLock(c) ==
    /\ call[c].pc = "done"
    /\ ledger' = IF call[c].row = None THEN ledger
                 ELSE ledger \cup {call[c].row}
    /\ lock' = IF lock = c /\ call[c].row # None THEN None ELSE lock
    /\ call' = [call EXCEPT ![c] = Resting]
    /\ UNCHANGED today

\* The transaction commits; its lock goes with it.
Commits(c) ==
    /\ call[c].pc = "done"
    /\ ledger' = IF call[c].row = None THEN ledger
                 ELSE ledger \cup {call[c].row}
    /\ lock' = IF lock = c THEN None ELSE lock
    /\ call' = [call EXCEPT ![c] = Resting]
    /\ UNCHANGED today

\* It is rolled back: an error, a timeout or the connection lost.
Aborts(c) ==
    /\ call[c].pc # "idle"
    /\ lock' = IF lock = c THEN None ELSE lock
    /\ call' = [call EXCEPT ![c] = Resting]
    /\ UNCHANGED <<ledger, today>>

Midnight ==
    /\ today < LastDay
    /\ today' = today + 1
    /\ UNCHANGED <<ledger, lock, call>>

CallStep(c) ==
    \/ Looks(c)
    \/ Locks(c)
    \/ Relooks(c)
    \/ Counts(c)
    \/ Inserts(c)
    \/ Commits(c)

Next ==
    \/ \E c \in Callers :
           (\E k \in Keys : Asks(c, k)) \/ CallStep(c) \/ Aborts(c)
    \/ Midnight

Spec == Init /\ [][Next]_vars

\* Every statement of an open transaction returns; the database hands the
\* lock to each waiting caller in turn.
Fairness == \A c \in Callers : WF_vars(CallStep(c)) /\ SF_vars(Locks(c))
FairSpec == Spec /\ Fairness

-------------------------------------------------------------------------------
TypeOK ==
    /\ ledger \subseteq Row
    /\ lock \in Callers \cup {None}
    /\ call \in [Callers ->
           [pc : {"idle", "look", "lock", "relook", "count", "insert", "done"},
            key : Keys \cup {None},
            row : Row \cup {None},
            answer : {"none", "existing", "limited", "admitted"}]]
    /\ today \in 0..LastDay

\* However many replicas ask at once, and whenever midnight falls, no day and
\* no month has more admissions than its limit.
LimitsHold ==
    \A d \in 0..LastDay :
        /\ Cardinality({row \in ledger : row.day = d}) <= DailyLimit
        /\ Cardinality({row \in ledger : Month[row.day] = Month[d]})
               <= MonthlyLimit

\* Retries and coalesced wake calls with the same key are admitted once, also
\* when they pass the first look together.
KeysAreAdmittedOnce ==
    \A r1, r2 \in ledger : r1.key = r2.key => r1 = r2

\* A caller whose key is in the ledger is not refused for want of budget: a
\* repeated wake in a bucket that was admitted is always let through.
AdmittedKeysAreNotRefused ==
    \A c \in Callers : call[c].answer = "limited" => ~Admitted(call[c].key)

\* The lock and the second look make an admission, or its refusal, one step:
\* whoever is refused, the budget of that day was used up at that moment, and
\* the admissions were within the limits one by one.
Refused ==
    {[caller |-> c, key |-> call[c].key] :
         c \in {e \in Callers : call[e].answer = "limited"}}

Ledger == INSTANCE AdmissionLedger WITH granted <- ledger, refused <- Refused

AdmitsInOneStep == Ledger!Spec

\* A request that asks gets an answer or an error; the lock is never kept.
EveryCallReturns ==
    \A c \in Callers : call[c].pc # "idle" ~> call[c].pc = "idle"

===============================================================================
