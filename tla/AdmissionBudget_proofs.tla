------------------------- MODULE AdmissionBudget_proofs -------------------------
(***************************************************************************)
(* Proofs about what is counted under an advisory lock: AdmissionBudget,   *)
(* for any number of callers and keys, any limits and any calendar; and    *)
(* ShieldApi, for any number of keys, requests, rotations and limits.      *)
(***************************************************************************)
EXTENDS AdmissionBudget, ShieldApi, FiniteSetTheorems, TLAPS

\* The admissions of day d, and of its month.
OnDay(d) == {row \in ledger : row.day = d}
InMonth(d) == {row \in ledger : Month[row.day] = Month[d]}

\* One more admission fits on day d.
Room(d) ==
    /\ Cardinality(OnDay(d)) < DailyLimit
    /\ Cardinality(InMonth(d)) < MonthlyLimit

\* The answer, and with it the new row, comes last.
AnswerIsLast ==
    \A c \in Callers :
        call[c].pc # "done" => call[c].answer = "none" /\ call[c].row = None

\* Whoever is between taking the lock and the end of a transaction that did
\* not find its key holds the lock.
HoldsLock ==
    \A c \in Callers :
        \/ call[c].pc \in {"relook", "count", "insert"}
        \/ call[c].answer \in {"limited", "admitted"}
        => lock = c

\* It has looked its key up under the lock, and nobody else can add it.
KeyIsNew ==
    \A c \in Callers :
        \/ call[c].pc \in {"count", "insert"}
        \/ call[c].answer \in {"limited", "admitted"}
        => ~Admitted(call[c].key)

\* The limits that were checked still leave room: for the rest of time before
\* the insert, for the inserted row's day after it.
RoomIsLeft ==
    \A c \in Callers :
        /\ call[c].pc = "insert" => \A d \in today..LastDay : Room(d)
        /\ call[c].row # None =>
              /\ call[c].row.key = call[c].key
              /\ call[c].answer = "admitted"
              /\ Room(call[c].row.day)

IInv ==
    /\ TypeOK
    /\ IsFiniteSet(ledger)
    /\ AnswerIsLast
    /\ HoldsLock
    /\ KeyIsNew
    /\ RoomIsLeft
    /\ LimitsHold
    /\ KeysAreAdmittedOnce

-------------------------------------------------------------------------------
LEMMA InitIInv == Init => IInv
<1> SUFFICES ASSUME Init PROVE IInv
  OBVIOUS
<1> USE AdmissionAssumption DEF AdmissionAssumption
<1>1. TypeOK
  BY DEF Init, Resting, TypeOK
<1>2. IsFiniteSet(ledger)
  BY FS_EmptySet DEF Init
<1>3. /\ AnswerIsLast /\ HoldsLock /\ KeyIsNew /\ RoomIsLeft
      /\ KeysAreAdmittedOnce
  BY DEF Init, Resting, AnswerIsLast, HoldsLock, KeyIsNew, RoomIsLeft, KeysAreAdmittedOnce
<1>4. LimitsHold
  <2> SUFFICES ASSUME NEW d \in 0..LastDay
               PROVE  /\ Cardinality(OnDay(d)) <= DailyLimit
                      /\ Cardinality(InMonth(d)) <= MonthlyLimit
    BY DEF LimitsHold, OnDay, InMonth
  <2>1. OnDay(d) = {} /\ InMonth(d) = {}
    BY DEF Init, OnDay, InMonth
  <2> QED BY <2>1, FS_EmptySet
<1> QED BY <1>1, <1>2, <1>3, <1>4 DEF IInv

\* Counting from the start of a day or a month covers every later day.
LEMMA LimitsLeaveRoom ==
    ASSUME IInv, WithinLimits(today), NEW d \in today..LastDay
    PROVE  Room(d)
<1>1. /\ d \in 0..LastDay /\ today \in 0..LastDay /\ today <= d
      /\ ledger \subseteq Row /\ IsFiniteSet(ledger)
      /\ DailyLimit \in Nat /\ MonthlyLimit \in Nat
  BY AdmissionAssumption DEF AdmissionAssumption, IInv, TypeOK
<1>2. Month[today] <= Month[d] /\ Month \in [0..LastDay -> Nat]
  BY <1>1, AdmissionAssumption DEF AdmissionAssumption
<1>3. OnDay(d) \subseteq DayRows(today)
  BY <1>1 DEF OnDay, DayRows, Row
<1>4. InMonth(d) \subseteq MonthRows(today)
  BY <1>1, <1>2 DEF InMonth, MonthRows, Row
<1>5. IsFiniteSet(DayRows(today)) /\ IsFiniteSet(MonthRows(today))
  BY <1>1, FS_Subset DEF DayRows, MonthRows
<1>6. /\ Cardinality(OnDay(d)) <= Cardinality(DayRows(today))
      /\ Cardinality(InMonth(d)) <= Cardinality(MonthRows(today))
  BY <1>3, <1>4, <1>5, FS_Subset
<1>7. /\ Cardinality(OnDay(d)) \in Nat /\ Cardinality(InMonth(d)) \in Nat
      /\ Cardinality(DayRows(today)) \in Nat /\ Cardinality(MonthRows(today)) \in Nat
  BY <1>3, <1>4, <1>5, FS_Subset, FS_CardinalityType
<1> QED BY <1>1, <1>6, <1>7 DEF Room, WithinLimits

\* A row for whose day there is room takes no count beyond its limit.
LEMMA RowFits ==
    ASSUME IInv, NEW r \in Row, Room(r.day), ledger' = ledger \cup {r}
    PROVE  LimitsHold' /\ IsFiniteSet(ledger')
<1>1. /\ IsFiniteSet(ledger) /\ ledger \subseteq Row
      /\ DailyLimit \in Nat /\ MonthlyLimit \in Nat
  BY AdmissionAssumption DEF AdmissionAssumption, IInv, TypeOK
<1>2. IsFiniteSet(ledger')
  BY <1>1, FS_AddElement
<1>3. ASSUME NEW d \in 0..LastDay
      PROVE  /\ Cardinality(OnDay(d)') <= DailyLimit
             /\ Cardinality(InMonth(d)') <= MonthlyLimit
  <2>1. /\ IsFiniteSet(OnDay(d)) /\ IsFiniteSet(InMonth(d))
        /\ Cardinality(OnDay(d)) \in Nat /\ Cardinality(InMonth(d)) \in Nat
        /\ Cardinality(OnDay(d)) <= DailyLimit
        /\ Cardinality(InMonth(d)) <= MonthlyLimit
    <3>1. OnDay(d) \subseteq ledger /\ InMonth(d) \subseteq ledger
      BY DEF OnDay, InMonth
    <3>2. IsFiniteSet(OnDay(d)) /\ IsFiniteSet(InMonth(d))
      BY <1>1, <3>1, FS_Subset
    <3> QED BY <3>2, FS_CardinalityType DEF IInv, LimitsHold, OnDay, InMonth
  <2>2. Cardinality(OnDay(d)') <= DailyLimit
    <3>1. CASE r.day = d
      <4>1. OnDay(d)' = OnDay(d) \cup {r}
        BY <3>1 DEF OnDay
      <4>2. Cardinality(OnDay(d)) < DailyLimit
        BY <3>1 DEF Room
      <4>3. \/ Cardinality(OnDay(d) \cup {r}) = Cardinality(OnDay(d))
            \/ Cardinality(OnDay(d) \cup {r}) = Cardinality(OnDay(d)) + 1
        BY <2>1, FS_AddElement
      <4> QED BY <1>1, <2>1, <4>1, <4>2, <4>3
    <3>2. CASE r.day # d
      <4>1. OnDay(d)' = OnDay(d)
        BY <3>2 DEF OnDay
      <4> QED BY <2>1, <4>1
    <3> QED BY <3>1, <3>2
  <2>3. Cardinality(InMonth(d)') <= MonthlyLimit
    <3>1. CASE Month[r.day] = Month[d]
      <4>1. InMonth(d)' = InMonth(d) \cup {r} /\ InMonth(r.day) = InMonth(d)
        BY <3>1 DEF InMonth
      <4>2. Cardinality(InMonth(d)) < MonthlyLimit
        BY <4>1 DEF Room
      <4>3. \/ Cardinality(InMonth(d) \cup {r}) = Cardinality(InMonth(d))
            \/ Cardinality(InMonth(d) \cup {r}) = Cardinality(InMonth(d)) + 1
        BY <2>1, FS_AddElement
      <4> QED BY <1>1, <2>1, <4>1, <4>2, <4>3
    <3>2. CASE Month[r.day] # Month[d]
      <4>1. InMonth(d)' = InMonth(d)
        BY <3>2 DEF InMonth
      <4> QED BY <2>1, <4>1
    <3> QED BY <3>1, <3>2
  <2> QED BY <2>2, <2>3
<1> QED BY <1>2, <1>3 DEF LimitsHold, OnDay, InMonth

-------------------------------------------------------------------------------
\* A step that leaves the ledger alone keeps what is said of the ledger.
LEMMA SameLedger ==
    ASSUME IInv, ledger' = ledger
    PROVE  /\ IsFiniteSet(ledger') /\ LimitsHold' /\ KeysAreAdmittedOnce'
           /\ \A k : Admitted(k)' <=> Admitted(k)
           /\ \A d : Room(d)' <=> Room(d)
  BY DEF IInv, LimitsHold, KeysAreAdmittedOnce, Admitted, Room, OnDay, InMonth

\* A caller's step that keeps the ledger and the day: what is to show is about
\* that caller, as long as the lock does not leave another one.
LEMMA CallerStep ==
    ASSUME IInv, NEW c \in Callers, NEW n,
           n \in [pc : {"idle", "look", "lock", "relook", "count", "insert", "done"},
                  key : Keys \cup {None},
                  row : Row \cup {None},
                  answer : {"none", "existing", "limited", "admitted"}],
           call' = [call EXCEPT ![c] = n],
           ledger' = ledger, today' = today,
           lock' \in Callers \cup {None},
           lock' = lock \/ lock \in {c, None},
           n.pc # "done" => n.answer = "none" /\ n.row = None,
           \/ n.pc \in {"relook", "count", "insert"}
           \/ n.answer \in {"limited", "admitted"}
           => lock' = c,
           n.pc \in {"count", "insert"} \/ n.answer \in {"limited", "admitted"}
           => ~Admitted(n.key),
           n.pc = "insert" => \A d \in today..LastDay : Room(d),
           n.row # None => /\ n.row.key = n.key
                           /\ n.answer = "admitted"
                           /\ Room(n.row.day)
    PROVE  IInv'
<1>1. TypeOK'
  BY DEF IInv, TypeOK
<1>2. call'[c] = n /\ \A e \in Callers \ {c} : call'[e] = call[e]
  BY DEF IInv, TypeOK
<1>6. AnswerIsLast'
  BY <1>2 DEF IInv, AnswerIsLast
<1>3. HoldsLock'
  BY <1>2, AdmissionAssumption DEF AdmissionAssumption, IInv, HoldsLock
<1>4. KeyIsNew'
  BY <1>2, SameLedger DEF IInv, KeyIsNew
<1>5. RoomIsLeft'
  BY <1>2, SameLedger DEF IInv, RoomIsLeft
<1> QED BY <1>1, <1>3, <1>4, <1>5, <1>6, SameLedger DEF IInv

\* A new row is committed by the holder of the lock, so that nobody else has
\* counted without it.
LEMMA CommitIInv ==
    ASSUME IInv, NEW c \in Callers, Commits(c), call[c].row # None
    PROVE  IInv'
<1> DEFINE r == call[c].row
<1>1. /\ r \in Row /\ Room(r.day) /\ lock = c /\ c # None
      /\ r.key = call[c].key /\ ~Admitted(r.key)
      /\ None \notin Callers
  BY AdmissionAssumption
     DEF AdmissionAssumption, IInv, TypeOK, RoomIsLeft, HoldsLock, KeyIsNew
<1>2. /\ ledger' = ledger \cup {r} /\ lock' = None
      /\ call' = [call EXCEPT ![c] = Resting] /\ today' = today
  BY <1>1 DEF Commits
<1>3. LimitsHold' /\ IsFiniteSet(ledger')
  BY <1>1, <1>2, RowFits
<1>4. TypeOK'
  BY <1>1, <1>2 DEF IInv, TypeOK, Resting
<1>5. /\ call'[c] = Resting
      /\ \A e \in Callers \ {c} : call'[e] = call[e]
  BY <1>2 DEF IInv, TypeOK
<1>6. \A e \in Callers \ {c} :
          /\ call[e].pc \notin {"relook", "count", "insert"}
          /\ call[e].answer \notin {"limited", "admitted"}
          /\ call[e].row = None
  BY <1>1 DEF IInv, HoldsLock, RoomIsLeft
<1>7. AnswerIsLast' /\ HoldsLock' /\ KeyIsNew' /\ RoomIsLeft'
  BY <1>5, <1>6
     DEF IInv, Resting, AnswerIsLast, HoldsLock, KeyIsNew, RoomIsLeft
<1>8. KeysAreAdmittedOnce'
  BY <1>1, <1>2 DEF IInv, KeysAreAdmittedOnce, Admitted
<1> QED BY <1>3, <1>4, <1>7, <1>8 DEF IInv

\* Every step of a caller keeps the invariant.
LEMMA CallIInv ==
    ASSUME IInv, NEW c \in Callers,
           (\E k \in Keys : Asks(c, k)) \/ CallStep(c) \/ Aborts(c)
    PROVE  IInv'
<1>1. /\ call \in [Callers ->
             [pc : {"idle", "look", "lock", "relook", "count", "insert", "done"},
              key : Keys \cup {None},
              row : Row \cup {None},
              answer : {"none", "existing", "limited", "admitted"}]]
      /\ lock \in Callers \cup {None}
      /\ today \in 0..LastDay
      /\ None \notin Callers
  BY AdmissionAssumption DEF AdmissionAssumption, IInv, TypeOK
<1>2. /\ call[c].pc # "done" => call[c].answer = "none" /\ call[c].row = None
      /\ \/ call[c].pc \in {"relook", "count", "insert"}
         \/ call[c].answer \in {"limited", "admitted"}
         => lock = c
      /\ \/ call[c].pc \in {"count", "insert"}
         \/ call[c].answer \in {"limited", "admitted"}
         => ~Admitted(call[c].key)
      /\ call[c].pc = "insert" => \A d \in today..LastDay : Room(d)
  BY DEF IInv, AnswerIsLast, HoldsLock, KeyIsNew, RoomIsLeft
<1>3. ASSUME NEW k \in Keys, Asks(c, k)
      PROVE  IInv'
  BY <1>1, <1>3, CallerStep DEF Asks
<1>4. CASE Looks(c)
  <2>1. CASE Answers(c, "look", "existing")
    BY <1>1, <1>2, <1>4, <2>1, CallerStep DEF Looks, Answers
  <2>2. CASE Step(c, "look", "lock")
    BY <1>1, <1>2, <1>4, <2>2, CallerStep DEF Looks, Step
  <2> QED BY <1>4, <2>1, <2>2 DEF Looks
<1>5. CASE Locks(c)
  BY <1>1, <1>2, <1>5, CallerStep DEF Locks, Step
<1>6. CASE Relooks(c)
  <2>1. CASE Answers(c, "relook", "existing")
    BY <1>1, <1>2, <1>6, <2>1, CallerStep DEF Relooks, Answers
  <2>2. CASE ~Admitted(call[c].key) /\ Step(c, "relook", "count")
    BY <1>1, <1>2, <1>6, <2>2, CallerStep DEF Relooks, Step
  <2> QED BY <1>6, <2>1, <2>2 DEF Relooks
<1>7. CASE Counts(c)
  <2>1. CASE Answers(c, "count", "limited")
    BY <1>1, <1>2, <1>7, <2>1, CallerStep DEF Counts, Answers
  <2>2. CASE WithinLimits(today) /\ Step(c, "count", "insert")
    <3>1. \A d \in today..LastDay : Room(d)
      BY <2>2, LimitsLeaveRoom
    <3> QED BY <1>1, <1>2, <1>7, <2>2, <3>1, CallerStep DEF Counts, Step
  <2> QED BY <1>7, <2>1, <2>2 DEF Counts
<1>8. CASE Inserts(c)
  <2>1. Room(today) /\ today \in 0..LastDay
    BY <1>1, <1>2, <1>8, AdmissionAssumption DEF AdmissionAssumption, Inserts
  <2> QED BY <1>1, <1>2, <1>8, <2>1, CallerStep DEF Inserts, Row
<1>9. CASE Aborts(c)
  BY <1>1, <1>2, <1>9, CallerStep DEF Aborts, Resting
<1>10. CASE Commits(c)
  <2>1. CASE call[c].row = None
    BY <1>1, <1>2, <1>10, <2>1, CallerStep DEF Commits, Resting
  <2>2. CASE call[c].row # None
    BY <1>10, <2>2, CommitIInv
  <2> QED BY <2>1, <2>2
<1> QED BY <1>3, <1>4, <1>5, <1>6, <1>7, <1>8, <1>9, <1>10 DEF CallStep

LEMMA IInvNext == IInv /\ [Next]_vars => IInv'
<1> SUFFICES ASSUME IInv, [Next]_vars PROVE IInv'
  OBVIOUS
<1>1. CASE Midnight
  <2>1. TypeOK' /\ today' = today + 1 /\ today \in 0..LastDay
    BY <1>1, AdmissionAssumption DEF AdmissionAssumption, Midnight, IInv, TypeOK
  <2>2. (today + 1)..LastDay \subseteq today..LastDay
    BY <2>1, AdmissionAssumption DEF AdmissionAssumption
  <2>3. RoomIsLeft'
    BY <1>1, <2>1, <2>2, SameLedger DEF Midnight, IInv, RoomIsLeft
  <2>4. AnswerIsLast' /\ HoldsLock' /\ KeyIsNew'
    BY <1>1, SameLedger
       DEF Midnight, IInv, AnswerIsLast, HoldsLock, KeyIsNew
  <2> QED BY <1>1, <2>1, <2>3, <2>4, SameLedger DEF Midnight, IInv
<1>2. CASE UNCHANGED vars
  BY <1>2, SameLedger
     DEF vars, IInv, TypeOK, AnswerIsLast, HoldsLock, KeyIsNew, RoomIsLeft
<1> QED BY <1>1, <1>2, CallIInv DEF Next

LEMMA Invariance == Spec => []IInv
  BY InitIInv, IInvNext, PTL DEF Spec

-------------------------------------------------------------------------------
\* Type correctness.
THEOREM AdmissionTypes == Spec => []TypeOK
<1>1. IInv => TypeOK
  BY DEF IInv
<1> QED BY <1>1, Invariance, PTL

\* No day and no month has more admissions than its limit, however many
\* replicas ask at once and wherever midnight falls, for every calendar.
THEOREM BudgetHolds == Spec => []LimitsHold
<1>1. IInv => LimitsHold
  BY DEF IInv
<1> QED BY <1>1, Invariance, PTL

\* A key is admitted once.
THEOREM AdmittedOnce == Spec => []KeysAreAdmittedOnce
<1>1. IInv => KeysAreAdmittedOnce
  BY DEF IInv
<1> QED BY <1>1, Invariance, PTL

\* A key that is in the ledger is not refused.
THEOREM AdmittedIsNotRefused == Spec => []AdmittedKeysAreNotRefused
<1>1. IInv => AdmittedKeysAreNotRefused
  BY DEF IInv, KeyIsNew, AdmittedKeysAreNotRefused
<1> QED BY <1>1, Invariance, PTL

\* The refinement of AdmissionLedger.  Nothing is stamped with a day to come,
\* so that counting from the start of today counts today; and whoever is at
\* work has a key.
DaysArePast ==
    /\ \A row \in ledger : row.day <= today
    /\ \A c \in Callers :
           /\ call[c].row # None => call[c].row.day <= today
           /\ call[c].pc # "idle" => call[c].key \in Keys

LEMMA DaysStart == Init => DaysArePast
  BY DEF Init, Resting, DaysArePast

LEMMA DaysMove ==
    ASSUME IInv, DaysArePast, [Next]_vars
    PROVE  DaysArePast'
<1>1. /\ call \in [Callers ->
             [pc : {"idle", "look", "lock", "relook", "count", "insert", "done"},
              key : Keys \cup {None},
              row : Row \cup {None},
              answer : {"none", "existing", "limited", "admitted"}]]
      /\ today \in Nat /\ ledger \subseteq Row
  BY AdmissionAssumption DEF AdmissionAssumption, IInv, TypeOK
<1>2. ASSUME NEW c \in Callers, NEW n, call' = [call EXCEPT ![c] = n],
             n.row # None => n.row.day <= today, today' = today,
             n.pc # "idle" => n.key \in Keys,
             ledger' = ledger \/ (call[c].row # None /\ ledger' = ledger \cup {call[c].row})
      PROVE  DaysArePast'
  BY <1>1, <1>2 DEF DaysArePast
<1>3. ASSUME NEW c \in Callers, NEW k \in Keys, Asks(c, k)
      PROVE  DaysArePast'
  BY <1>2, <1>3 DEF Asks
<1>4. ASSUME NEW c \in Callers, Looks(c) \/ Locks(c) \/ Relooks(c) \/ Counts(c)
      PROVE  DaysArePast'
  <2>1. /\ \A e \in Callers : call'[e].row = call[e].row /\ call'[e].key = call[e].key
        /\ \A e \in Callers : call'[e].pc # "idle" => call[e].pc # "idle"
        /\ ledger' = ledger /\ today' = today
    BY <1>1, <1>4 DEF Looks, Locks, Relooks, Counts, Step, Answers
  <2> QED BY <2>1 DEF DaysArePast
<1>5. ASSUME NEW c \in Callers, Inserts(c)
      PROVE  DaysArePast'
  <2>1. /\ call'[c].row.day = today
        /\ \A e \in Callers \ {c} : call'[e].row = call[e].row
        /\ \A e \in Callers : call'[e].key = call[e].key
        /\ \A e \in Callers : call'[e].pc # "idle" => call[e].pc # "idle"
        /\ ledger' = ledger /\ today' = today
    BY <1>1, <1>5 DEF Inserts
  <2> QED BY <1>1, <2>1 DEF DaysArePast
<1>6. ASSUME NEW c \in Callers, Commits(c) \/ Aborts(c)
      PROVE  DaysArePast'
  BY <1>2, <1>6 DEF Commits, Aborts, Resting
<1>7. CASE Midnight
  BY <1>1, <1>7 DEF Midnight, DaysArePast, IInv, TypeOK, Row
<1>8. CASE UNCHANGED vars
  BY <1>8 DEF vars, DaysArePast
<1> QED BY <1>3, <1>4, <1>5, <1>6, <1>7, <1>8 DEF Next, CallStep

LEMMA CountedIsToday ==
    ASSUME IInv, DaysArePast
    PROVE  WithinLimits(today) <=> Room(today)
<1>1. ledger \subseteq Row /\ today \in 0..LastDay /\ LastDay \in Nat
  BY AdmissionAssumption DEF AdmissionAssumption, IInv, TypeOK
<1>2. DayRows(today) = OnDay(today)
  BY <1>1 DEF DayRows, OnDay, DaysArePast, Row
<1>3. ASSUME NEW row \in ledger
      PROVE  Month[row.day] >= Month[today] <=> Month[row.day] = Month[today]
  <2>1. row.day \in 0..LastDay /\ row.day <= today
    BY <1>1 DEF DaysArePast, Row
  <2>2. /\ Month[row.day] <= Month[today]
        /\ Month[row.day] \in Nat /\ Month[today] \in Nat
    BY <1>1, <2>1, AdmissionAssumption DEF AdmissionAssumption
  <2> QED BY <2>2
<1>4. MonthRows(today) = InMonth(today)
  BY <1>3 DEF MonthRows, InMonth
<1> QED BY <1>2, <1>4 DEF WithinLimits, Room

LEMMA SameRefused ==
    ASSUME \A c \in Callers :
               /\ call'[c].answer = "limited" <=> call[c].answer = "limited"
               /\ call[c].answer = "limited" => call'[c].key = call[c].key
    PROVE  Refused' = Refused
  BY DEF Refused

\* The two modules count alike.
LEMMA SameCount == \A S : Ledger!Cardinality(S) = Cardinality(S)
  BY Zenon DEF Ledger!Cardinality, Cardinality

LEMMA LeftIsRoom == \A d : Ledger!Left(d) <=> Room(d)
  BY SameCount DEF Ledger!Left, Room, OnDay, InMonth

LEMMA NewIsNotAdmitted == \A k : Ledger!IsNew(k) <=> ~Admitted(k)
  BY DEF Ledger!IsNew, Admitted

\* Who leaves is refused no longer.
LEMMA LeavesRefused ==
    ASSUME NEW c \in Callers, call'[c].answer # "limited",
           \A e \in Callers \ {c} : call'[e] = call[e]
    PROVE  Refused' = {r \in Refused : r.caller # c}
  BY DEF Refused

\* The steps of one caller: the count that fails is the refusal, the commit of
\* a row the admission.
LEMMA CallAdmits ==
    ASSUME IInv, DaysArePast, NEW c \in Callers,
           (\E k \in Keys : Asks(c, k)) \/ CallStep(c) \/ Aborts(c)
    PROVE  Ledger!Next \/ UNCHANGED <<ledger, Refused, today>>
<1>1. /\ call \in [Callers ->
             [pc : {"idle", "look", "lock", "relook", "count", "insert", "done"},
              key : Keys \cup {None},
              row : Row \cup {None},
              answer : {"none", "existing", "limited", "admitted"}]]
      /\ today \in Nat /\ ledger \subseteq Row
  BY AdmissionAssumption DEF AdmissionAssumption, IInv, TypeOK
<1>2. call[c].pc # "done" => call[c].answer = "none" /\ call[c].row = None
  BY DEF IInv, AnswerIsLast
<1>3. ASSUME NEW k \in Keys, Asks(c, k)
      PROVE  UNCHANGED <<ledger, Refused, today>>
  <2>1. /\ call'[c].answer = "none" /\ call[c].answer = "none"
        /\ \A e \in Callers \ {c} : call'[e] = call[e]
    BY <1>1, <1>2, <1>3 DEF Asks
  <2> QED BY <1>3, <2>1, SameRefused DEF Asks
<1>4. CASE Looks(c) \/ Locks(c) \/ Relooks(c) \/ Inserts(c)
           \/ (Counts(c) /\ WithinLimits(today))
  <2>1. /\ call'[c].answer # "limited" /\ call[c].answer = "none"
        /\ \A e \in Callers \ {c} : call'[e] = call[e]
    BY <1>1, <1>2, <1>4 DEF Looks, Locks, Relooks, Inserts, Counts, Step, Answers
  <2>2. Refused' = Refused
    BY <2>1, SameRefused
  <2> QED BY <1>4, <2>2 DEF Looks, Locks, Relooks, Inserts, Counts
<1>5. CASE Counts(c) /\ ~WithinLimits(today)
  <2>1. /\ call[c].pc = "count" /\ call'[c].answer = "limited"
        /\ call'[c].key = call[c].key
        /\ \A e \in Callers \ {c} : call'[e] = call[e]
        /\ UNCHANGED <<ledger, today>>
    BY <1>1, <1>5 DEF Counts, Answers
  <2>2. ~Room(today) /\ ~Admitted(call[c].key) /\ call[c].key \in Keys
    BY <1>5, <2>1, CountedIsToday DEF IInv, KeyIsNew, DaysArePast
  <2>3. Refused' = Refused \cup {[caller |-> c, key |-> call[c].key]}
    BY <2>1, <1>2 DEF Refused
  <2>4. Ledger!Refuse(c, call[c].key)
    BY <2>1, <2>2, <2>3, LeftIsRoom, NewIsNotAdmitted DEF Ledger!Refuse
  <2> QED BY <2>2, <2>4 DEF Ledger!Next
<1>6. CASE Aborts(c) \/ (Commits(c) /\ call[c].row = None)
  <2>1. /\ call'[c].answer = "none"
        /\ \A e \in Callers \ {c} : call'[e] = call[e]
        /\ UNCHANGED <<ledger, today>>
    BY <1>1, <1>6 DEF Aborts, Commits, Resting
  <2>2. Ledger!Leave(c)
    BY <2>1, LeavesRefused DEF Ledger!Leave
  <2> QED BY <2>2 DEF Ledger!Next
<1>7. CASE Commits(c) /\ call[c].row # None
  <2> DEFINE r == call[c].row
  <2>1. /\ r \in Row /\ r.key = call[c].key /\ call[c].answer = "admitted"
        /\ Room(r.day) /\ r.day <= today /\ ~Admitted(r.key)
    BY <1>1, <1>7 DEF IInv, RoomIsLeft, KeyIsNew, DaysArePast
  <2>2. /\ call'[c].answer = "none"
        /\ \A e \in Callers \ {c} : call'[e] = call[e]
        /\ ledger' = ledger \cup {r} /\ today' = today
    BY <1>1, <1>7 DEF Commits, Resting
  <2>3. Refused' = Refused
    BY <2>1, <2>2, SameRefused
  <2>4. r = [key |-> r.key, day |-> r.day] /\ r.key \in Keys /\ r.day \in 0..today
    BY <1>1, <2>1 DEF Row
  <2>5. Ledger!Admit(r.key, r.day)
    BY <2>1, <2>2, <2>3, <2>4, LeftIsRoom, NewIsNotAdmitted DEF Ledger!Admit
  <2> QED BY <2>4, <2>5 DEF Ledger!Next
<1> QED BY <1>3, <1>4, <1>5, <1>6, <1>7 DEF CallStep

\* Looking, locking, counting and inserting implement AdmissionLedger, where an
\* admission and a refusal are one step each, decided on today's budget: as
\* CloudVerification has it.
THEOREM OneStepAdmissions == Spec => AdmitsInOneStep
<1>1. Init => Ledger!Init
  BY DEF Init, Resting, Refused, Ledger!Init
<1>2. ASSUME IInv, DaysArePast, [Next]_vars
      PROVE  [Ledger!Next]_(Ledger!vars)
  <2>1. CASE Midnight
    <3>1. Refused' = Refused
      BY <2>1, SameRefused DEF Midnight
    <3> QED BY <2>1, <3>1 DEF Midnight, Ledger!Midnight, Ledger!Next
  <2>2. CASE UNCHANGED vars
    BY <2>2, SameRefused DEF vars, Ledger!vars
  <2>3. ASSUME NEW c \in Callers,
               (\E k \in Keys : Asks(c, k)) \/ CallStep(c) \/ Aborts(c)
        PROVE  [Ledger!Next]_(Ledger!vars)
    BY <1>2, <2>3, CallAdmits DEF Ledger!vars
  <2> QED BY <1>2, <2>1, <2>2, <2>3 DEF Next
<1>3. IInv /\ DaysArePast /\ [Next]_vars => DaysArePast'
  BY DaysMove
<1>4. IInv /\ DaysArePast /\ [Next]_vars => [Ledger!Next]_(Ledger!vars)
  BY <1>2
<1> QED BY <1>1, <1>3, <1>4, DaysStart, Invariance, PTL
        DEF Spec, AdmitsInOneStep, Ledger!Spec

-------------------------------------------------------------------------------
(***************************************************************************)
(* The API keys of an account (ShieldApi).                                 *)
(*                                                                         *)
(* A call counts what is stamped since a minute before its own clock, and  *)
(* what is stamped from its month on.  Its row is stamped later than that  *)
(* clock, so every minute, and the month, that the row falls in lies in    *)
(* what was counted; and the lock keeps the count true until the row is    *)
(* there.                                                                  *)
(***************************************************************************)

\* A minute from tick t, and the month of tick t.
MinuteFrom(t) == t..(t + MinuteTicks)
MonthAt(t) == {u \in Ticks : MonthOf[u] = MonthOf[t]}

\* One request at a time has counted and not yet recorded: the account's lock.
OneRecorder ==
    \A c, d \in ApiCalls : guard[c].step = "record" /\ guard[d].step = "record" => c = d

\* What it has counted still fits its limits.
CountIsFresh == \A c \in ApiCalls : guard[c].step = "record" => Fits(guard[c])

\* Rows of one key and tick are numbered from one: a new row is no old one.
RowsAreNumbered ==
    \A row \in requests : row.nth <= RequestsOf({row.key}, {row.at})

ShieldInv ==
    /\ ShieldTypeOK
    /\ IsFiniteSet(requests)
    /\ OneRecorder
    /\ CountIsFresh
    /\ RowsAreNumbered
    /\ MinuteLimitHolds
    /\ MonthlyQuotaHolds

\* Every set of rows is counted by a natural number, larger sets by larger ones.
LEMMA RequestsAreCounted ==
    ASSUME IsFiniteSet(requests), NEW ks, NEW ts, NEW us, ts \subseteq us
    PROVE  /\ RequestsOf(ks, ts) \in Nat
           /\ RequestsOf(ks, us) \in Nat
           /\ RequestsOf(ks, ts) <= RequestsOf(ks, us)
<1> DEFINE R(zs) == {row \in requests : row.key \in ks /\ row.at \in zs}
<1>1. R(us) \in SUBSET requests /\ R(ts) \in SUBSET R(us)
  OBVIOUS
<1>2. IsFiniteSet(R(us)) /\ IsFiniteSet(R(ts)) /\ Cardinality(R(ts)) <= Cardinality(R(us))
  BY <1>1, FS_Subset
<1>3. Cardinality(R(us)) \in Nat /\ Cardinality(R(ts)) \in Nat
  BY <1>2, FS_CardinalityType
<1> QED BY <1>2, <1>3 DEF RequestsOf

\* A row that is added counts once where it belongs and nowhere else.
LEMMA AddedRequest ==
    ASSUME IsFiniteSet(requests), NEW row, requests' = requests \cup {row}, NEW ks, NEW ts
    PROVE  /\ RequestsOf(ks, ts) \in Nat
           /\ RequestsOf(ks, ts)' =
                  IF row.key \in ks /\ row.at \in ts /\ row \notin requests
                  THEN RequestsOf(ks, ts) + 1 ELSE RequestsOf(ks, ts)
<1> DEFINE R == {r \in requests : r.key \in ks /\ r.at \in ts}
           S == {r \in requests' : r.key \in ks /\ r.at \in ts}
<1>1. IsFiniteSet(R) /\ Cardinality(R) \in Nat
  <2>1. R \in SUBSET requests
    OBVIOUS
  <2> QED BY <2>1, FS_Subset, FS_CardinalityType
<1>2. CASE row.key \in ks /\ row.at \in ts /\ row \notin requests
  <2>1. S = R \cup {row} /\ row \notin R
    BY <1>2
  <2>2. Cardinality(S) = Cardinality(R) + 1
    <3> HIDE DEF R, S
    <3> QED BY <1>1, <2>1, FS_AddElement
  <2> QED BY <1>1, <1>2, <2>2 DEF RequestsOf
<1>3. CASE ~(row.key \in ks /\ row.at \in ts /\ row \notin requests)
  <2>1. S = R
    BY <1>3
  <2> QED BY <1>1, <1>3, <2>1 DEF RequestsOf
<1> QED BY <1>2, <1>3

-------------------------------------------------------------------------------
LEMMA ShieldStarts == ShieldInit => ShieldInv
<1> SUFFICES ASSUME ShieldInit PROVE ShieldInv
  OBVIOUS
<1>1. ShieldTypeOK /\ OneRecorder /\ CountIsFresh /\ RowsAreNumbered
  <2>1. 0 \in Ticks
    BY ShieldAssumption DEF ShieldAssumption, Ticks
  <2> QED BY <2>1 DEF ShieldInit, ShieldTypeOK, KeyStatus, GuardCall, Outside,
                      OneRecorder, CountIsFresh, RowsAreNumbered
<1>2. IsFiniteSet(requests) /\ \A ks, ts : RequestsOf(ks, ts) = 0
  <2>1. requests = {}
    BY DEF ShieldInit
  <2>2. \A ks, ts : {row \in requests : row.key \in ks /\ row.at \in ts} = {}
    BY <2>1
  <2> QED BY <2>1, <2>2, FS_EmptySet DEF RequestsOf
<1>3. limits.perMinute \in Nat /\ limits.monthly \in Nat /\ limits \in Limits
  BY <1>1, ShieldAssumption DEF ShieldTypeOK, ShieldAssumption
<1>4. MinuteLimitHolds /\ MonthlyQuotaHolds
  BY <1>2, <1>3 DEF MinuteLimitHolds, MonthlyQuotaHolds
<1> QED BY <1>1, <1>2, <1>4 DEF ShieldInv

\* A step that adds no request keeps what is counted.
LEMMA NothingRecorded ==
    ASSUME ShieldInv, UNCHANGED requests, ShieldTypeOK', OneRecorder', CountIsFresh'
    PROVE  ShieldInv'
<1>1. \A ks, ts : RequestsOf(ks, ts)' = RequestsOf(ks, ts)
  BY DEF RequestsOf
<1>2. IsFiniteSet(requests)' /\ RowsAreNumbered'
  BY <1>1 DEF ShieldInv, RowsAreNumbered
<1>3. MinuteLimitHolds' /\ MonthlyQuotaHolds'
  BY <1>1 DEF ShieldInv, MinuteLimitHolds, MonthlyQuotaHolds
<1> QED BY <1>2, <1>3 DEF ShieldInv

\* A guarded call that goes on or leaves.
LEMMA GuardMoves ==
    ASSUME ShieldInv, UNCHANGED <<tick, key, limits, requests, rotation>>,
           NEW c \in ApiCalls, NEW g \in GuardCall, guard' = [guard EXCEPT ![c] = g],
           g.step = "record" => LockIsFree(c) /\ Fits(g)
    PROVE  ShieldInv'
<1>1. guard \in [ApiCalls -> GuardCall]
  BY DEF ShieldInv, ShieldTypeOK
<1>2. guard' \in [ApiCalls -> GuardCall]
  BY <1>1
<1>3. ShieldTypeOK'
  BY <1>2 DEF ShieldInv, ShieldTypeOK
<1>4. OneRecorder'
  BY <1>1 DEF ShieldInv, OneRecorder, LockIsFree
<1>5. CountIsFresh'
  <2>1. \A h : Fits(h)' <=> Fits(h)
    BY DEF Fits, RequestsOf
  <2>2. \A d \in ApiCalls : d # c => guard'[d] = guard[d]
    BY <1>1
  <2>3. guard'[c] = g
    BY <1>1
  <2> QED BY <2>1, <2>2, <2>3 DEF ShieldInv, CountIsFresh, Fits, RequestsOf
<1> QED BY <1>3, <1>4, <1>5, NothingRecorded

\* What the holder of the lock has counted covers every minute and every month
\* its row can fall in, so the row still fits there.
LEMMA RowStillFits ==
    ASSUME ShieldInv, NEW c \in ApiCalls, guard[c].step = "record",
           NEW stamp \in guard[c].now..tick, NEW t \in Ticks
    PROVE  /\ stamp \in Ticks
           /\ guard[c].key \in ApiKeys /\ guard[c].limits \in Limits
           /\ stamp \in MinuteFrom(t) =>
                  RequestsOf({guard[c].key}, MinuteFrom(t)) < guard[c].limits.perMinute
           /\ stamp \in MonthAt(t) =>
                  RequestsOf(ApiKeys, MonthAt(t)) < guard[c].limits.monthly
<1> DEFINE g == guard[c]
<1>1. g.key \in ApiKeys /\ g.limits \in Limits /\ g.now \in Ticks /\ tick \in Ticks
  BY DEF ShieldInv, ShieldTypeOK, GuardCall, Outside
<1>2. Fits(g)
  BY DEF ShieldInv, CountIsFresh
<1>3. g.limits.perMinute \in Nat /\ g.limits.monthly \in Nat
  BY <1>1, ShieldAssumption DEF ShieldAssumption
<1>4. IsFiniteSet(requests) /\ requests \subseteq RequestRow
  BY DEF ShieldInv, ShieldTypeOK
<1>5. stamp \in Ticks /\ g.now <= stamp
  <2>1. stamp \in g.now..tick
    OBVIOUS
  <2> HIDE DEF g
  <2> QED BY <1>1, <2>1, ShieldAssumption DEF Ticks, ShieldAssumption
<1> HIDE DEF g
<1>6. stamp \in MinuteFrom(t) => RequestsOf({g.key}, MinuteFrom(t)) < g.limits.perMinute
  <2> SUFFICES ASSUME stamp \in MinuteFrom(t)
               PROVE  RequestsOf({g.key}, MinuteFrom(t)) < g.limits.perMinute
    OBVIOUS
  <2>1. MinuteFrom(t) \cap Ticks \subseteq SlidingMinute(g.now)
    BY <1>1, <1>5, ShieldAssumption DEF MinuteFrom, SlidingMinute, Ticks, ShieldAssumption
  <2>2. RequestsOf({g.key}, MinuteFrom(t)) = RequestsOf({g.key}, MinuteFrom(t) \cap Ticks)
    <3>1. \A row \in requests : row.at \in Ticks
      BY <1>4 DEF RequestRow
    <3>2. {row \in requests : row.key \in {g.key} /\ row.at \in MinuteFrom(t)}
            = {row \in requests : row.key \in {g.key} /\ row.at \in MinuteFrom(t) \cap Ticks}
      BY <3>1
    <3> QED BY <3>2 DEF RequestsOf
  <2>3. RequestsOf({g.key}, SlidingMinute(g.now)) < g.limits.perMinute
    BY <1>2 DEF Fits
  <2> DEFINE ts == MinuteFrom(t) \cap Ticks  us == SlidingMinute(g.now)
  <2> HIDE DEF ts, us
  <2>4. /\ RequestsOf({g.key}, ts) \in Nat /\ RequestsOf({g.key}, us) \in Nat
        /\ RequestsOf({g.key}, ts) <= RequestsOf({g.key}, us)
    BY <1>4, <2>1, RequestsAreCounted DEF ts, us
  <2> QED BY <1>3, <2>2, <2>3, <2>4 DEF ts, us
<1>7. stamp \in MonthAt(t) => RequestsOf(ApiKeys, MonthAt(t)) < g.limits.monthly
  <2> SUFFICES ASSUME stamp \in MonthAt(t)
               PROVE  RequestsOf(ApiKeys, MonthAt(t)) < g.limits.monthly
    OBVIOUS
  <2>1. MonthOf[g.now] <= MonthOf[stamp] /\ MonthOf[stamp] = MonthOf[t]
    BY <1>1, <1>5, ShieldAssumption DEF MonthAt, Ticks, ShieldAssumption
  <2>2. MonthAt(t) \subseteq ThisMonth(g.now)
    BY <2>1 DEF MonthAt, ThisMonth
  <2>3. RequestsOf(ApiKeys, ThisMonth(g.now)) < g.limits.monthly
    BY <1>2 DEF Fits
  <2> DEFINE ts == MonthAt(t)  us == ThisMonth(g.now)
  <2> HIDE DEF ts, us
  <2>4. /\ RequestsOf(ApiKeys, ts) \in Nat /\ RequestsOf(ApiKeys, us) \in Nat
        /\ RequestsOf(ApiKeys, ts) <= RequestsOf(ApiKeys, us)
    BY <1>4, <2>2, RequestsAreCounted DEF ts, us
  <2> QED BY <1>3, <2>3, <2>4 DEF ts, us
<1> QED BY <1>1, <1>5, <1>6, <1>7 DEF g

\* The row of a request that is let through.
LEMMA RecordMoves == ASSUME ShieldInv, NEW c \in ApiCalls, RecordRequest(c) PROVE ShieldInv'
<1> DEFINE g == guard[c]
<1>1. PICK stamp \in g.now..tick :
          LET before == RequestsOf({g.key}, {stamp}) IN
          /\ before < MaxPerTick
          /\ requests' = requests \cup {[key |-> g.key, at |-> stamp, nth |-> before + 1]}
  BY DEF RecordRequest
<1> DEFINE before == RequestsOf({g.key}, {stamp})
           row == [key |-> g.key, at |-> stamp, nth |-> before + 1]
<1>2. g.step = "record" /\ guard' = [guard EXCEPT ![c] = Outside]
      /\ UNCHANGED <<tick, key, limits, rotation>>
  BY DEF RecordRequest, Leaves
<1>3. guard \in [ApiCalls -> GuardCall] /\ IsFiniteSet(requests) /\ requests \subseteq RequestRow
  BY DEF ShieldInv, ShieldTypeOK
<1>4. stamp \in Ticks /\ g.key \in ApiKeys /\ g.limits \in Limits
  <2>1. 0 \in Ticks
    BY ShieldAssumption DEF Ticks, ShieldAssumption
  <2> QED BY <1>2, <2>1, RowStillFits
<1>5. requests' = requests \cup {row} /\ before < MaxPerTick /\ before \in Nat
  <2>1. before \in Nat
    BY <1>3, RequestsAreCounted
  <2> QED BY <1>1, <2>1
<1>6. row \in RequestRow
  <2>1. before + 1 \in 1..MaxPerTick
    BY <1>5, ShieldAssumption DEF ShieldAssumption
  <2> HIDE DEF before
  <2> QED BY <1>4, <2>1 DEF RequestRow
<1>7. row \notin requests
  <2> SUFFICES ASSUME row \in requests PROVE FALSE
    OBVIOUS
  <2>1. row.nth <= RequestsOf({row.key}, {row.at})
    BY DEF ShieldInv, RowsAreNumbered
  <2>2. row.nth = before + 1 /\ row.key = g.key /\ row.at = stamp
    OBVIOUS
  <2> QED BY <1>5, <2>1, <2>2
<1>8. row.key = g.key /\ row.at = stamp /\ row.nth = before + 1
  OBVIOUS
<1> HIDE DEF before, row
<1>9. \A ks, ts : /\ RequestsOf(ks, ts) \in Nat
                  /\ RequestsOf(ks, ts)' = IF g.key \in ks /\ stamp \in ts
                                           THEN RequestsOf(ks, ts) + 1 ELSE RequestsOf(ks, ts)
  BY <1>3, <1>5, <1>7, <1>8, AddedRequest
<1>10. ShieldTypeOK'
  <2>1. guard' \in [ApiCalls -> GuardCall]
    BY <1>2, <1>3 DEF GuardCall
  <2>2. requests' \subseteq RequestRow
    BY <1>3, <1>5, <1>6
  <2> QED BY <1>2, <2>1, <2>2 DEF ShieldInv, ShieldTypeOK
<1>11. IsFiniteSet(requests)'
  BY <1>3, <1>5, FS_AddElement
<1>12. OneRecorder' /\ CountIsFresh'
  <2>1. \A d \in ApiCalls : guard'[d].step # "record"
    BY <1>2, <1>3 DEF ShieldInv, OneRecorder, Outside
  <2> QED BY <2>1 DEF OneRecorder, CountIsFresh
<1>13. RowsAreNumbered'
  <2> SUFFICES ASSUME NEW old \in requests' PROVE old.nth <= RequestsOf({old.key}, {old.at})'
    BY DEF RowsAreNumbered
  <2>1. CASE old \in requests
    <3>1. old.nth <= RequestsOf({old.key}, {old.at})
      BY <2>1 DEF ShieldInv, RowsAreNumbered
    <3>2. old.nth \in Nat
      BY <1>3, <2>1, ShieldAssumption DEF RequestRow, ShieldAssumption
    <3> QED BY <1>9, <3>1, <3>2
  <2>2. CASE old = row
    BY <1>5, <1>8, <1>9, <2>2 DEF before
  <2> QED BY <1>5, <2>1, <2>2
<1>14. MinuteLimitHolds'
  <2> SUFFICES ASSUME NEW k \in ApiKeys, NEW t \in Ticks
               PROVE  \E l \in Limits : RequestsOf({k}, MinuteFrom(t))' <= l.perMinute
    BY DEF MinuteLimitHolds, MinuteFrom
  <2>1. CASE k = g.key /\ stamp \in MinuteFrom(t)
    <3>1. RequestsOf({g.key}, MinuteFrom(t)) < g.limits.perMinute
      BY <1>2, <2>1, RowStillFits
    <3>2. g.limits.perMinute \in Nat
      BY <1>4, ShieldAssumption DEF ShieldAssumption
    <3>3. RequestsOf({k}, MinuteFrom(t))' = RequestsOf({k}, MinuteFrom(t)) + 1
      BY <1>9, <2>1
    <3>4. RequestsOf({k}, MinuteFrom(t)) \in Nat
      BY <1>9
    <3> QED BY <1>4, <2>1, <3>1, <3>2, <3>3, <3>4
  <2>2. CASE ~(k = g.key /\ stamp \in MinuteFrom(t))
    <3>1. RequestsOf({k}, MinuteFrom(t))' = RequestsOf({k}, MinuteFrom(t))
      BY <1>9, <2>2
    <3> QED BY <3>1 DEF ShieldInv, MinuteLimitHolds, MinuteFrom
  <2> QED BY <2>1, <2>2
<1>15. MonthlyQuotaHolds'
  <2> SUFFICES ASSUME NEW t \in Ticks
               PROVE  \E l \in Limits : RequestsOf(ApiKeys, MonthAt(t))' <= l.monthly
    BY DEF MonthlyQuotaHolds, MonthAt
  <2>1. CASE stamp \in MonthAt(t)
    <3>1. RequestsOf(ApiKeys, MonthAt(t)) < g.limits.monthly
      BY <1>2, <2>1, RowStillFits
    <3>2. g.limits.monthly \in Nat
      BY <1>4, ShieldAssumption DEF ShieldAssumption
    <3>3. RequestsOf(ApiKeys, MonthAt(t))' = RequestsOf(ApiKeys, MonthAt(t)) + 1
      BY <1>4, <1>9, <2>1
    <3>4. RequestsOf(ApiKeys, MonthAt(t)) \in Nat
      BY <1>9
    <3> QED BY <1>4, <3>1, <3>2, <3>3, <3>4
  <2>2. CASE stamp \notin MonthAt(t)
    <3>1. RequestsOf(ApiKeys, MonthAt(t))' = RequestsOf(ApiKeys, MonthAt(t))
      BY <1>9, <2>2
    <3> QED BY <3>1 DEF ShieldInv, MonthlyQuotaHolds, MonthAt
  <2> QED BY <2>1, <2>2
<1> QED BY <1>10, <1>11, <1>12, <1>13, <1>14, <1>15 DEF ShieldInv

LEMMA ShieldMoves == ShieldInv /\ [ShieldNext]_shieldVars => ShieldInv'
<1> SUFFICES ASSUME ShieldInv, [ShieldNext]_shieldVars PROVE ShieldInv'
  OBVIOUS
<1>1. ShieldTypeOK /\ OneRecorder /\ CountIsFresh
  BY DEF ShieldInv
<1>2. ASSUME UNCHANGED <<requests, guard>>, tick' \in Ticks, limits' \in Limits,
             key' \in [ApiKeys -> KeyStatus], rotation' \in [Rotators -> ApiKeys \cup {NoKey}]
      PROVE  ShieldInv'
  <2>1. ShieldTypeOK' /\ OneRecorder'
    BY <1>1, <1>2 DEF ShieldTypeOK, OneRecorder
  <2>2. CountIsFresh'
    BY <1>1, <1>2 DEF CountIsFresh, Fits, RequestsOf
  <2> QED BY <1>2, <2>1, <2>2, NothingRecorded
<1>3. CASE UNCHANGED shieldVars
  BY <1>1, <1>2, <1>3 DEF ShieldTypeOK, shieldVars
<1>4. ASSUME NEW k \in ApiKeys,
             \/ CreateKey(k) \/ RevokeKey(k)
             \/ \E r \in Rotators : StartRotation(r, k) \/ Rotate(r, k)
      PROVE  ShieldInv'
  <2>1. UNCHANGED <<tick, limits, requests, guard>>
    BY <1>4 DEF CreateKey, RevokeKey, StartRotation, Rotate
  <2>2. key' \in [ApiKeys -> KeyStatus]
    BY <1>1, <1>4 DEF CreateKey, RevokeKey, StartRotation, Rotate, ShieldTypeOK, KeyStatus
  <2>3. rotation' \in [Rotators -> ApiKeys \cup {NoKey}]
    BY <1>1, <1>4 DEF CreateKey, RevokeKey, StartRotation, Rotate, ShieldTypeOK
  <2> QED BY <1>1, <1>2, <2>1, <2>2, <2>3 DEF ShieldTypeOK
<1>5. CASE (\E l \in Limits \ {limits} : UpdateLimits(l)) \/ ClockTicks
  <2>1. tick' \in Ticks
    BY <1>1, <1>5, ShieldAssumption
       DEF UpdateLimits, ClockTicks, ShieldTypeOK, Ticks, ShieldAssumption
  <2> QED BY <1>1, <1>2, <1>5, <2>1 DEF UpdateLimits, ClockTicks, ShieldTypeOK
<1>6. ASSUME NEW c \in ApiCalls, NEW k \in ApiKeys, ReadKey(c, k)
      PROVE  ShieldInv'
  <2> DEFINE g == [step |-> "member", key |-> k, now |-> tick, limits |-> limits]
  <2>1. g \in GuardCall /\ g.step = "member"
    BY <1>1 DEF ShieldTypeOK, GuardCall
  <2>2. guard' = [guard EXCEPT ![c] = g] /\ UNCHANGED <<tick, key, limits, requests, rotation>>
    BY <1>6 DEF ReadKey
  <2> HIDE DEF g
  <2> QED BY <2>1, <2>2, GuardMoves
<1>7. ASSUME NEW c \in ApiCalls, ReadMembership(c) \/ CountRequests(c)
      PROVE  ShieldInv'
  <2>1. UNCHANGED <<tick, key, limits, requests, rotation>>
    BY <1>7 DEF ReadMembership, CountRequests
  <2>2. Outside \in GuardCall /\ Outside.step = "outside"
    BY DEF GuardCall, Outside
  <2>3. CASE Leaves(c)
    BY <2>1, <2>2, <2>3, GuardMoves DEF Leaves
  <2>4. ASSUME NEW step \in {"lock", "record"}, Proceeds(c, step), guard[c].step # "outside",
               step = "record" => LockIsFree(c) /\ Fits(guard[c])
        PROVE  ShieldInv'
    <3> DEFINE g == [guard[c] EXCEPT !.step = step]
    <3>1. guard[c] \in [step : {"member", "lock", "record"}, key : ApiKeys,
                        now : Ticks, limits : Limits]
      BY <1>1, <2>2, <2>4 DEF ShieldTypeOK, GuardCall
    <3>2. g \in GuardCall /\ g.step = step /\ guard' = [guard EXCEPT ![c] = g]
      BY <2>4, <3>1 DEF GuardCall, Proceeds
    <3>3. g.key = guard[c].key /\ g.now = guard[c].now /\ g.limits = guard[c].limits
      BY <3>1
    <3>4. Fits(g) <=> Fits(guard[c])
      BY <3>3 DEF Fits
    <3> HIDE DEF g
    <3> QED BY <2>1, <2>4, <3>2, <3>4, GuardMoves
  <2>5. CASE ReadMembership(c)
    BY <2>3, <2>4, <2>5 DEF ReadMembership
  <2>6. CASE CountRequests(c)
    BY <2>3, <2>4, <2>6 DEF CountRequests
  <2> QED BY <1>7, <2>5, <2>6
<1> QED BY <1>3, <1>4, <1>5, <1>6, <1>7, RecordMoves DEF ShieldNext

LEMMA ShieldInvariant == ShieldSpec => []ShieldInv
  BY ShieldStarts, ShieldMoves, PTL DEF ShieldSpec

\* Keys, limits, the requests recorded and those being guarded keep their types.
THEOREM ShieldTypes == ShieldSpec => []ShieldTypeOK
<1>1. ShieldInv => ShieldTypeOK
  BY DEF ShieldInv
<1> QED BY <1>1, ShieldInvariant, PTL

\* The requests of an account are counted and recorded one at a time, whatever
\* keys they come with.
THEOREM OneAtATime == ShieldSpec => []OneRecorder
<1>1. ShieldInv => OneRecorder
  BY DEF ShieldInv
<1> QED BY <1>1, ShieldInvariant, PTL

\* No key gets more requests through in a minute than the highest limit allows,
\* for any number of keys, calls and rotations and any limits.
THEOREM MinuteLimit == ShieldSpec => []MinuteLimitHolds
<1>1. ShieldInv => MinuteLimitHolds
  BY DEF ShieldInv
<1> QED BY <1>1, ShieldInvariant, PTL

\* The keys of an account together stay within its monthly quota, for every
\* calendar.
THEOREM MonthlyQuota == ShieldSpec => []MonthlyQuotaHolds
<1>1. ShieldInv => MonthlyQuotaHolds
  BY DEF ShieldInv
<1> QED BY <1>1, ShieldInvariant, PTL

\* A request that is recorded leaves its key and its account within the limits
\* its own call has read, in every minute and month it counts for.
EveryRecordFits ==
    \A k \in ApiKeys, t \in Ticks :
        /\ RequestsOf({k}, MinuteFrom(t))' > RequestsOf({k}, MinuteFrom(t)) =>
             \E c \in ApiCalls : /\ guard[c].step = "record" /\ guard[c].key = k
                                 /\ RequestsOf({k}, MinuteFrom(t))' <= guard[c].limits.perMinute
        /\ RequestsOf(ApiKeys, MonthAt(t))' > RequestsOf(ApiKeys, MonthAt(t)) =>
             \E c \in ApiCalls : /\ guard[c].step = "record"
                                 /\ RequestsOf(ApiKeys, MonthAt(t))' <= guard[c].limits.monthly

LEMMA RecordFits == ShieldInv /\ [ShieldNext]_shieldVars => EveryRecordFits
<1> SUFFICES ASSUME ShieldInv, [ShieldNext]_shieldVars PROVE EveryRecordFits
  OBVIOUS
<1>1. IsFiniteSet(requests)
  BY DEF ShieldInv
<1>2. \A ks, ts : RequestsOf(ks, ts) \in Nat
  BY <1>1, RequestsAreCounted
<1>3. CASE UNCHANGED requests
  <2>1. \A ks, ts : RequestsOf(ks, ts)' = RequestsOf(ks, ts)
    BY <1>3 DEF RequestsOf
  <2> QED BY <1>2, <2>1 DEF EveryRecordFits
<1>4. ASSUME NEW c \in ApiCalls, RecordRequest(c) PROVE EveryRecordFits
  <2>1. PICK stamp \in guard[c].now..tick : \E n :
            requests' = requests \cup {[key |-> guard[c].key, at |-> stamp, nth |-> n]}
    BY <1>4 DEF RecordRequest
  <2>2. PICK n : requests' = requests \cup {[key |-> guard[c].key, at |-> stamp, nth |-> n]}
    BY <2>1
  <2>3. guard[c].step = "record"
    BY <1>4 DEF RecordRequest
  <2>4. \A ks, ts : RequestsOf(ks, ts)' > RequestsOf(ks, ts) =>
            /\ guard[c].key \in ks /\ stamp \in ts
            /\ RequestsOf(ks, ts)' = RequestsOf(ks, ts) + 1
    <3> DEFINE row == [key |-> guard[c].key, at |-> stamp, nth |-> n]
    <3>1. row.key = guard[c].key /\ row.at = stamp
      OBVIOUS
    <3>2. requests' = requests \cup {row}
      BY <2>2
    <3> HIDE DEF row
    <3> QED BY <1>1, <1>2, <3>1, <3>2, AddedRequest
  <2>5. guard[c].limits.perMinute \in Nat /\ guard[c].limits.monthly \in Nat
    <3>1. 0 \in Ticks
      BY ShieldAssumption DEF Ticks, ShieldAssumption
    <3>2. guard[c].limits \in Limits
      BY <2>3, <3>1, RowStillFits
    <3> QED BY <3>2, ShieldAssumption DEF ShieldAssumption
  <2> SUFFICES ASSUME NEW k \in ApiKeys, NEW t \in Ticks
               PROVE  /\ RequestsOf({k}, MinuteFrom(t))' > RequestsOf({k}, MinuteFrom(t)) =>
                           /\ guard[c].key = k
                           /\ RequestsOf({k}, MinuteFrom(t))' <= guard[c].limits.perMinute
                      /\ RequestsOf(ApiKeys, MonthAt(t))' > RequestsOf(ApiKeys, MonthAt(t)) =>
                           RequestsOf(ApiKeys, MonthAt(t))' <= guard[c].limits.monthly
    BY <2>3 DEF EveryRecordFits
  <2>6. ASSUME RequestsOf({k}, MinuteFrom(t))' > RequestsOf({k}, MinuteFrom(t))
        PROVE  /\ guard[c].key = k
               /\ RequestsOf({k}, MinuteFrom(t))' <= guard[c].limits.perMinute
    <3>1. /\ guard[c].key = k /\ stamp \in MinuteFrom(t)
          /\ RequestsOf({k}, MinuteFrom(t))' = RequestsOf({k}, MinuteFrom(t)) + 1
      BY <2>4, <2>6
    <3>2. RequestsOf({k}, MinuteFrom(t)) < guard[c].limits.perMinute
      BY <2>3, <3>1, RowStillFits
    <3>3. RequestsOf({k}, MinuteFrom(t)) \in Nat
      BY <1>2
    <3> QED BY <2>5, <3>1, <3>2, <3>3
  <2>7. ASSUME RequestsOf(ApiKeys, MonthAt(t))' > RequestsOf(ApiKeys, MonthAt(t))
        PROVE  RequestsOf(ApiKeys, MonthAt(t))' <= guard[c].limits.monthly
    <3>1. /\ stamp \in MonthAt(t)
          /\ RequestsOf(ApiKeys, MonthAt(t))' = RequestsOf(ApiKeys, MonthAt(t)) + 1
      BY <2>4, <2>7
    <3>2. RequestsOf(ApiKeys, MonthAt(t)) < guard[c].limits.monthly
      BY <2>3, <3>1, RowStillFits
    <3>3. RequestsOf(ApiKeys, MonthAt(t)) \in Nat
      BY <1>2
    <3> QED BY <2>5, <3>1, <3>2, <3>3
  <2> QED BY <2>6, <2>7
<1> QED BY <1>3, <1>4 DEF ShieldNext, shieldVars, CreateKey, RevokeKey, StartRotation, Rotate,
        ReadKey, UpdateLimits, ClockTicks, ReadMembership, CountRequests

\* A request is recorded only within the limits its own call has read, also when
\* an administrator has changed them and other calls were let through meanwhile.
THEOREM RecordsFit == ShieldSpec => [][EveryRecordFits]_shieldVars
  BY ShieldInvariant, RecordFits, PTL DEF ShieldSpec
===============================================================================
