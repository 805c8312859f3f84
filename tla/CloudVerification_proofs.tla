------------------------ MODULE CloudVerification_proofs ------------------------
(***************************************************************************)
(* Proofs about CloudVerification, and in the last part about SmsIngest    *)
(* next to it, for every set of messages, workers, requests and queue      *)
(* slots, every limit and any number of faults.                            *)
(***************************************************************************)
EXTENDS SmsIngest, TLAPS

\* Every write of a job row leaves a job row.
LEMMA RowTypes ==
    ASSUME NEW row \in JobRow
    PROVE  /\ \A s \in {"verified", "failed", "retryable_failure"} :
                  Released(row, s) \in JobRow
           /\ \A w \in Workers : row.attempts < MaxAttempts
                                     => Claimed(row, w) \in JobRow
           /\ Marked(row) \in JobRow
           /\ Deferred(row) \in JobRow
           /\ PutOff(row) \in JobRow
           /\ TakenBack(row) \in JobRow
           /\ [row EXCEPT !.due = TRUE] \in JobRow
           /\ \A b \in BOOLEAN : [row EXCEPT !.live = b] \in JobRow
           /\ [row EXCEPT !.published = "stale"] \in JobRow
<1>1. ASSUME NEW s \in {"verified", "failed", "retryable_failure"}
      PROVE  Released(row, s) \in JobRow
  BY DEF Released, JobRow, Open, Waiting, Terminal
<1>2. ASSUME NEW w \in Workers, row.attempts < MaxAttempts
      PROVE  Claimed(row, w) \in JobRow
  <2>1. row.attempts \in 0..MaxAttempts
    BY DEF JobRow
  <2>2. row.attempts + 1 \in 0..MaxAttempts
    BY <1>2, <2>1, CloudAssumption DEF CloudAssumption
  <2> QED BY <2>2 DEF Claimed, JobRow, Open
<1>3. Marked(row) \in JobRow
  BY DEF Marked, JobRow, Open, Waiting
<1>4. Deferred(row) \in JobRow
  BY DEF Deferred, JobRow, Open, Waiting
<1>5. PutOff(row) \in JobRow
  BY <1>1 DEF PutOff, JobRow
<1>6. TakenBack(row) \in JobRow
  BY <1>1 DEF TakenBack, JobRow
<1>7. /\ [row EXCEPT !.due = TRUE] \in JobRow
      /\ \A b \in BOOLEAN : [row EXCEPT !.live = b] \in JobRow
      /\ [row EXCEPT !.published = "stale"] \in JobRow
  BY DEF JobRow
<1> QED BY <1>1, <1>2, <1>3, <1>4, <1>5, <1>6, <1>7

LEMMA NewRowTypes ==
    /\ NoJob \in JobRow
    /\ \A s \in {"pending", "verified", "failed"} : NewJob(s) \in JobRow
  BY CloudAssumption
     DEF CloudAssumption, NoJob, NewJob, JobRow, Open, Waiting, Terminal

\* A verdict or a purge leaves a message row.
LEMMA VerdictTypes ==
    ASSUME NEW row \in SmsRow, NEW b \in Buckets,
           NEW seen \in {"none", "pending", "acted"}
    PROVE  Judged(row, seen, b) \in SmsRow /\ Purged(row) \in SmsRow
<1>1. PendingAfter(row, seen, b = "blocked", row.blocked) \in Nat
  BY DEF PendingAfter, SmsRow
<1>2. Judged(row, seen, b) \in SmsRow
  BY <1>1 DEF Judged, SmsRow
<1>3. Purged(row) \in SmsRow
  BY DEF Purged, SmsRow
<1> QED BY <1>2, <1>3

\* Every use of the queue leaves a queue.
LEMMA QueueTypes ==
    ASSUME NEW q \in [Slots -> Delivery], NEW s
    PROVE  /\ \A m \in Messages \cup {None} : Sent(q, s, m) \in [Slots -> Delivery]
           /\ \A w \in Workers : Received(q, s, w) \in [Slots -> Delivery]
           /\ Hidden(q, s) \in [Slots -> Delivery]
           /\ Deleted(q, s) \in [Slots -> Delivery]
  BY DEF Sent, Received, Hidden, Deleted, FreeSlot, Delivery

-------------------------------------------------------------------------------
LEMMA TypeInit == Init => TypeOK
  BY CloudAssumption, NewRowTypes
     DEF CloudAssumption, Init, InitWork, TypeOK, Delivery, FreeSlot,
         RestingWorker, WorkerPlace, RestingRepair, Idle, PublisherPlace,
         Selected

\* A request keeps the types.
LEMMA RequestTypes ==
    ASSUME TypeOK, NEW r \in Requests, NEW m \in Messages, RequestStep(r, m)
    PROVE  TypeOK'
<1> USE CloudAssumption DEF CloudAssumption
<1>1. CASE GetForOwner(r, m)
  <2>1. job' \in [Messages -> JobRow]
    BY <1>1, NewRowTypes DEF GetForOwner, CreateJob, TypeOK
  <2>2. pub' \in [Publishers -> PublisherPlace]
    BY <1>1 DEF GetForOwner, Publishing, Idle, PublisherPlace, Publishers, TypeOK
  <2>3. /\ admitted' \in [day : 0..DailyLimit, month : 0..MonthlyLimit]
        /\ credit' \in [Messages -> Int]
    BY <1>1 DEF GetForOwner, CreateJob, Admit, Grant, BudgetLeft, TypeOK
  <2> QED BY <1>1, <2>1, <2>2, <2>3 DEF GetForOwner, TypeOK
<1>2. CASE RetryCreates(r, m)
  <2>1. job' \in [Messages -> JobRow]
    BY <1>2, NewRowTypes DEF RetryCreates, CreateJob, TypeOK
  <2>2. pub' \in [Publishers -> PublisherPlace]
    BY <1>2 DEF RetryCreates, Publishing, PublisherPlace, Publishers, TypeOK
  <2>3. /\ admitted' \in [day : 0..DailyLimit, month : 0..MonthlyLimit]
        /\ credit' \in [Messages -> Int]
    BY <1>2 DEF RetryCreates, CreateJob, Admit, Grant, BudgetLeft, TypeOK
  <2> QED BY <1>2, <2>1, <2>2, <2>3 DEF RetryCreates, TypeOK
<1>3. CASE RetryPublishes(r, m)
  BY <1>3 DEF RetryPublishes, Publishing, PublisherPlace, Publishers, TypeOK
<1>4. CASE RetryResets(r, m)
  <2>1. job' \in [Messages -> JobRow]
    BY <1>4, NewRowTypes DEF RetryResets, TypeOK
  <2>2. pub' \in [Publishers -> PublisherPlace]
    BY <1>4 DEF RetryResets, Publishing, PublisherPlace, Publishers, TypeOK
  <2>3. /\ admitted' \in [day : 0..DailyLimit, month : 0..MonthlyLimit]
        /\ credit' \in [Messages -> Int]
    BY <1>4 DEF RetryResets, Admit, Grant, BudgetLeft, TypeOK
  <2> QED BY <1>4, <2>1, <2>2, <2>3 DEF RetryResets, TypeOK
<1> QED BY <1>1, <1>2, <1>3, <1>4 DEF RequestStep

\* Writing one row of the job table, or none when m is not a message.
LEMMA RowUpdate ==
    ASSUME NEW j \in [Messages -> JobRow], NEW m, NEW row,
           m \in Messages => row \in JobRow
    PROVE  [j EXCEPT ![m] = row] \in [Messages -> JobRow]
  OBVIOUS

\* publishAfterCommit keeps the types.
LEMMA PublishTypes ==
    ASSUME TypeOK, NEW p \in Publishers, PublishStep(p)
    PROVE  TypeOK'
<1>1. CASE PublishReads(p)
  <2>1. pub' \in [Publishers -> PublisherPlace]
    BY <1>1 DEF PublishReads, Idle, PublisherPlace, TypeOK
  <2> QED BY <1>1, <2>1 DEF PublishReads, TypeOK
<1>2. CASE PublishSends(p)
  <2>1. pub' \in [Publishers -> PublisherPlace]
    BY <1>2 DEF PublishSends, PublisherPlace, TypeOK
  <2>2. pub[p].msg \in Messages \cup {None}
    BY DEF PublisherPlace, TypeOK
  <2>3. queue' \in [Slots -> Delivery]
    <3>1. PICK s \in Slots : queue' = Sent(queue, s, pub[p].msg)
      BY <1>2 DEF PublishSends
    <3>2. queue \in [Slots -> Delivery]
      BY DEF TypeOK
    <3> QED BY <2>2, <3>1, <3>2, QueueTypes
  <2> QED BY <1>2, <2>1, <2>3 DEF PublishSends, TypeOK
<1>3. CASE PublishMarks(p)
  <2>1. pub' \in [Publishers -> PublisherPlace]
    BY <1>3 DEF PublishMarks, Idle, PublisherPlace, TypeOK
  <2>2. pub[p].msg \in Messages => Marked(job[pub[p].msg]) \in JobRow
    BY RowTypes DEF TypeOK
  <2>3. job' \in [Messages -> JobRow]
    BY <1>3, <2>2, RowUpdate DEF PublishMarks, TypeOK
  <2> QED BY <1>3, <2>1, <2>3 DEF PublishMarks, TypeOK
<1>4. CASE PublishDefers(p)
  <2>1. pub' \in [Publishers -> PublisherPlace]
    BY <1>4 DEF PublishDefers, Idle, PublisherPlace, TypeOK
  <2>2. pub[p].msg \in Messages => Deferred(job[pub[p].msg]) \in JobRow
    BY RowTypes DEF TypeOK
  <2>3. job' \in [Messages -> JobRow]
    BY <1>4, <2>2, RowUpdate DEF PublishDefers, TypeOK
  <2> QED BY <1>4, <2>1, <2>3 DEF PublishDefers, TypeOK
<1> QED BY <1>1, <1>2, <1>3, <1>4 DEF PublishStep

\* The repair run keeps the types.
LEMMA RepairTypes ==
    ASSUME TypeOK, RepairStep
    PROVE  TypeOK'
<1>1. CASE RepairSelects
  <2>1. repair'.todo \subseteq Selected /\ repair'.poison = repair.poison
    <3> SUFFICES ASSUME NEW t \in repair'.todo
                 PROVE  t \in Selected /\ repair'.poison = repair.poison
      BY <1>1 DEF RepairSelects, TypeOK
    <3>1. PICK m \in Messages :
              t = [msg |-> m, held |-> job[m].status = "processing",
                   spent |-> Spent(job[m])]
      BY <1>1 DEF RepairSelects, TypeOK
    <3> QED BY <1>1, <3>1 DEF RepairSelects, Selected, Spent, TypeOK
  <2>2. repair' \in [todo : SUBSET Selected, poison : Messages \cup {None}]
    BY <1>1, <2>1 DEF RepairSelects, TypeOK
  <2> QED BY <1>1, <2>2 DEF RepairSelects, TypeOK
<1>2. CASE RepairPoisons
  BY <1>2 DEF RepairPoisons, TypeOK
<1>3. ASSUME NEW t \in Selected, RepairExhausts(t)
      PROVE  TypeOK'
  <2>1. t.msg \in Messages
    BY DEF Selected
  <2>2. Released(job[t.msg], "failed") \in JobRow
    BY <2>1, RowTypes DEF TypeOK
  <2>3. job' \in [Messages -> JobRow]
    BY <1>3, <2>2, RowUpdate DEF RepairExhausts, TypeOK
  <2>4. repair' \in [todo : SUBSET Selected, poison : Messages \cup {None}]
    BY <1>3, <2>1 DEF RepairExhausts, TypeOK
  <2> QED BY <1>3, <2>3, <2>4 DEF RepairExhausts, TypeOK
<1>4. ASSUME NEW t \in Selected, RepairRepublishes(t)
      PROVE  TypeOK'
  <2>1. t.msg \in Messages
    BY DEF Selected
  <2>2. TakenBack(job[t.msg]) \in JobRow
    BY <2>1, RowTypes DEF TypeOK
  <2>3. job' \in [Messages -> JobRow]
    BY <1>4, <2>2, RowUpdate DEF RepairRepublishes, TypeOK
  <2>4. repair' \in [todo : SUBSET Selected, poison : Messages \cup {None}]
    BY <1>4 DEF RepairRepublishes, TypeOK
  <2>5. pub' \in [Publishers -> PublisherPlace]
    BY <1>4, <2>1 DEF RepairRepublishes, Publishing, PublisherPlace, TypeOK
  <2> QED BY <1>4, <2>3, <2>4, <2>5 DEF RepairRepublishes, TypeOK
<1> QED BY <1>1, <1>2, <1>3, <1>4 DEF RepairStep

\* A worker that moves on or rests stays in a place there is.
LEMMA PlaceTypes ==
    ASSUME NEW w \in Workers, worker \in [Workers -> WorkerPlace]
    PROVE  /\ Rest(w) => worker' \in [Workers -> WorkerPlace]
           /\ \A pc \in {"claim", "recheck", "exhaust", "poison", "delete",
                         "snapshot", "infer", "ack", "error", "fail",
                         "backoff", "hide"} :
                  Goto(w, pc) => worker' \in [Workers -> WorkerPlace]
<1>1. Rest(w) => worker' \in [Workers -> WorkerPlace]
  BY DEF Rest, RestingWorker, WorkerPlace
<1>2. ASSUME NEW pc \in {"claim", "recheck", "exhaust", "poison", "delete",
                         "snapshot", "infer", "ack", "error", "fail",
                         "backoff", "hide"}, Goto(w, pc)
      PROVE  worker' \in [Workers -> WorkerPlace]
  BY <1>2 DEF Goto, WorkerPlace
<1> QED BY <1>1, <1>2

\* A step of a worker that only changes its own place keeps the types.
LEMMA MoveTypes ==
    ASSUME TypeOK, NEW w \in Workers,
           \/ WorkerReads(w) \/ WorkerMissesClaim(w) \/ WorkerRechecks(w)
           \/ WorkerPoisons(w) \/ InferenceFails(w) \/ LeaseWasLost(w)
           \/ WorkerRecovers(w) \/ WorkerSnapshots(w)
    PROVE  TypeOK'
<1> SUFFICES /\ worker' \in [Workers -> WorkerPlace]
             /\ UNCHANGED <<job, sms, queue, pub, repair, admitted, credit, faults>>
  BY DEF TypeOK
<1>1. worker \in [Workers -> WorkerPlace]
  BY DEF TypeOK
<1>2. CASE WorkerReads(w)
  BY <1>1, <1>2, PlaceTypes DEF WorkerReads
<1>3. CASE WorkerMissesClaim(w)
  BY <1>1, <1>3, PlaceTypes DEF WorkerMissesClaim
<1>4. CASE WorkerRechecks(w)
  BY <1>1, <1>4, PlaceTypes DEF WorkerRechecks
<1>5. CASE WorkerPoisons(w)
  BY <1>1, <1>5, PlaceTypes DEF WorkerPoisons
<1>6. CASE InferenceFails(w)
  BY <1>1, <1>6, PlaceTypes DEF InferenceFails
<1>7. CASE LeaseWasLost(w)
  BY <1>1, <1>7, PlaceTypes DEF LeaseWasLost
<1>8. CASE WorkerRecovers(w)
  BY <1>1, <1>8, PlaceTypes DEF WorkerRecovers
<1>9. CASE WorkerSnapshots(w)
  <2>1. AlertsSeen(sms[worker[w].msg]) \in {"none", "pending", "acted"}
    BY DEF AlertsSeen
  <2>2. PICK pc \in {"infer", "error"}, seen \in {"none", "pending", "acted"} :
            worker' = [worker EXCEPT ![w].pc = pc, ![w].seen = seen]
    <3>1. worker[w].seen \in {"none", "pending", "acted"}
      BY <1>1 DEF WorkerPlace
    <3>2. CASE job[worker[w].msg].owner = w
      BY <1>9, <2>1, <3>2 DEF WorkerSnapshots
    <3>3. CASE job[worker[w].msg].owner # w
      BY <1>9, <3>1, <3>3 DEF WorkerSnapshots
    <3> QED BY <3>2, <3>3
  <2>3. [worker[w] EXCEPT !.pc = pc, !.seen = seen] \in WorkerPlace
    BY <1>1, <2>2 DEF WorkerPlace
  <2>4. worker' = [worker EXCEPT ![w] = [worker[w] EXCEPT !.pc = pc, !.seen = seen]]
    BY <2>2, Zenon
  <2>5. worker' \in [Workers -> WorkerPlace]
    BY <1>1, <2>3, <2>4, Zenon
  <2> QED BY <1>9, <2>5 DEF WorkerSnapshots
<1> QED BY <1>2, <1>3, <1>4, <1>5, <1>6, <1>7, <1>8, <1>9

\* A step of a worker that deals with its delivery keeps the types.
LEMMA DeliveryTypes ==
    ASSUME TypeOK, NEW w \in Workers,
           WorkerDeletes(w) \/ WorkerAcks(w) \/ WorkerHides(w)
    PROVE  TypeOK'
<1>1. worker \in [Workers -> WorkerPlace] /\ queue \in [Slots -> Delivery]
  BY DEF TypeOK
<1>2. worker' \in [Workers -> WorkerPlace]
  BY <1>1, PlaceTypes DEF WorkerDeletes, WorkerAcks, WorkerHides
<1>3. queue' \in [Slots -> Delivery]
  BY <1>1, QueueTypes DEF WorkerDeletes, WorkerAcks, WorkerHides
<1>4. UNCHANGED <<job, sms, pub, repair, admitted, credit, faults>>
  BY DEF WorkerDeletes, WorkerAcks, WorkerHides
<1> QED BY <1>2, <1>3, <1>4 DEF TypeOK

\* A step of a worker that writes the job row keeps the types.
LEMMA JobWriteTypes ==
    ASSUME TypeOK, NEW w \in Workers,
           \/ WorkerClaims(w) \/ WorkerExhausts(w) \/ WorkerFails(w)
           \/ WorkerBacksOff(w) \/ \E b \in Buckets : CommitResult(w, b)
    PROVE  TypeOK'
<1> DEFINE m == worker[w].msg
           row == job[m]
<1>1. /\ worker \in [Workers -> WorkerPlace]
      /\ job \in [Messages -> JobRow]
      /\ sms \in [Messages -> SmsRow]
      /\ m \in Messages => row \in JobRow
  BY DEF TypeOK
<1>2. CASE WorkerClaims(w)
  <2>1. m \in Messages => Claimed(row, w) \in JobRow
    BY <1>1, <1>2, RowTypes DEF WorkerClaims, Claimable
  <2>2. job' \in [Messages -> JobRow]
    BY <1>1, <1>2, <2>1, RowUpdate DEF WorkerClaims
  <2>3. worker' \in [Workers -> WorkerPlace]
    BY <1>1, <1>2, PlaceTypes DEF WorkerClaims
  <2>4. credit' \in [Messages -> Int]
    <3>1. credit \in [Messages -> Int]
      BY DEF TypeOK
    <3>2. m \in Messages => credit[m] - 1 \in Int
      BY <3>1
    <3> QED BY <1>2, <3>1, <3>2 DEF WorkerClaims
  <2> QED BY <1>2, <2>2, <2>3, <2>4 DEF WorkerClaims, TypeOK
<1>3. CASE WorkerExhausts(w)
  <2>1. m \in Messages => Released(row, "failed") \in JobRow
    BY <1>1, RowTypes
  <2>2. job' \in [Messages -> JobRow]
    BY <1>1, <1>3, <2>1, RowUpdate DEF WorkerExhausts
  <2>3. worker' \in [Workers -> WorkerPlace]
    BY <1>1, <1>3, PlaceTypes DEF WorkerExhausts
  <2> QED BY <1>3, <2>2, <2>3 DEF WorkerExhausts, TypeOK
<1>4. CASE WorkerFails(w)
  <2>1. m \in Messages => Released(row, "failed") \in JobRow
    BY <1>1, RowTypes
  <2>2. job' \in [Messages -> JobRow]
    BY <1>1, <1>4, <2>1, RowUpdate DEF WorkerFails
  <2>3. worker' \in [Workers -> WorkerPlace]
    BY <1>1, <1>4, PlaceTypes DEF WorkerFails
  <2> QED BY <1>4, <2>2, <2>3 DEF WorkerFails, TypeOK
<1>5. CASE WorkerBacksOff(w)
  <2>1. m \in Messages => PutOff(row) \in JobRow
    BY <1>1, RowTypes
  <2>2. job' \in [Messages -> JobRow]
    BY <1>1, <1>5, <2>1, RowUpdate DEF WorkerBacksOff
  <2>3. worker' \in [Workers -> WorkerPlace]
    BY <1>1, <1>5, PlaceTypes DEF WorkerBacksOff
  <2> QED BY <1>5, <2>2, <2>3 DEF WorkerBacksOff, TypeOK
<1>6. ASSUME NEW b \in Buckets, CommitResult(w, b)
      PROVE  TypeOK'
  <2>1. m \in Messages => Released(row, "verified") \in JobRow
    BY <1>1, RowTypes
  <2>2. job' \in [Messages -> JobRow]
    BY <1>1, <1>6, <2>1, RowUpdate DEF CommitResult
  <2>3. worker' \in [Workers -> WorkerPlace]
    BY <1>1, <1>6, PlaceTypes DEF CommitResult
  <2>4. worker[w].seen \in {"none", "pending", "acted"}
    BY <1>1 DEF WorkerPlace
  <2>5. m \in Messages => Judged(sms[m], worker[w].seen, b) \in SmsRow
    BY <1>1, <2>4, VerdictTypes
  <2>6. sms' \in [Messages -> SmsRow]
    BY <1>1, <1>6, <2>5 DEF CommitResult
  <2>7. faults' \in 0..MaxFaults
    BY <1>6, CloudAssumption DEF CloudAssumption, CommitResult, TypeOK
  <2> QED BY <1>6, <2>2, <2>3, <2>6, <2>7 DEF CommitResult, TypeOK
<1> QED BY <1>2, <1>3, <1>4, <1>5, <1>6

\* A worker keeps the types.
LEMMA WorkerTypes ==
    ASSUME TypeOK, NEW w \in Workers, WorkerStep(w)
    PROVE  TypeOK'
  BY MoveTypes, DeliveryTypes, JobWriteTypes DEF WorkerStep

\* Taking up a delivery and renewing it keep the types.
LEMMA ReceiptTypes ==
    ASSUME TypeOK, NEW w \in Workers,
           WorkerRenews(w) \/ \E s \in Slots : Receive(w, s)
    PROVE  TypeOK'
<1>1. ASSUME NEW s \in Slots, Receive(w, s)
      PROVE  TypeOK'
  <2>1. queue' \in [Slots -> Delivery]
    BY <1>1, QueueTypes DEF Receive, TypeOK
  <2>2. queue[s].msg \in Messages \cup {None}
    BY DEF TypeOK, Delivery
  <2>3. worker' \in [Workers -> WorkerPlace]
    BY <1>1, <2>2 DEF Receive, WorkerPlace, TypeOK
  <2> QED BY <1>1, <2>1, <2>3 DEF Receive, TypeOK
<1>2. CASE WorkerRenews(w)
  <2>1. queue' \in [Slots -> Delivery]
    BY <1>2, QueueTypes DEF WorkerRenews, TypeOK
  <2>2. job' \in [Messages -> JobRow]
    <3>1. worker[w].msg \in Messages =>
              [job[worker[w].msg] EXCEPT !.live = TRUE] \in JobRow
      BY RowTypes DEF TypeOK
    <3> QED BY <1>2, <3>1, RowUpdate DEF WorkerRenews, TypeOK
  <2> QED BY <1>2, <2>1, <2>2 DEF WorkerRenews, TypeOK
<1> QED BY <1>1, <1>2

\* The passage of time keeps the types.
LEMMA TimeTypes ==
    ASSUME TypeOK, TimePasses
    PROVE  TypeOK'
<1>1. ASSUME NEW m \in Messages, BecomesDue(m)
      PROVE  TypeOK'
  <2>1. job' \in [Messages -> JobRow]
    BY <1>1, RowTypes, RowUpdate DEF BecomesDue, TypeOK
  <2> QED BY <1>1, <2>1 DEF BecomesDue, TypeOK
<1>2. ASSUME NEW m \in Messages, LeaseExpires(m)
      PROVE  TypeOK'
  <2>1. job' \in [Messages -> JobRow]
    BY <1>2, RowTypes, RowUpdate DEF LeaseExpires, TypeOK
  <2> QED BY <1>2, <2>1 DEF LeaseExpires, TypeOK
<1>3. ASSUME NEW m \in Messages, PublicationAges(m)
      PROVE  TypeOK'
  <2>1. job' \in [Messages -> JobRow]
    BY <1>3, RowTypes, RowUpdate DEF PublicationAges, TypeOK
  <2> QED BY <1>3, <2>1 DEF PublicationAges, TypeOK
<1>4. ASSUME NEW s \in Slots, DeliveryReappears(s)
      PROVE  TypeOK'
  <2>1. queue' \in [Slots -> Delivery]
    BY <1>4 DEF DeliveryReappears, Delivery, TypeOK
  <2> QED BY <1>4, <2>1 DEF DeliveryReappears, TypeOK
<1>5. CASE NewDay
  <2>1. admitted' \in [day : 0..DailyLimit, month : 0..MonthlyLimit]
    BY <1>5, CloudAssumption DEF CloudAssumption, NewDay, TypeOK
  <2> QED BY <1>5, <2>1 DEF NewDay, TypeOK
<1> QED BY <1>1, <1>2, <1>3, <1>4, <1>5 DEF TimePasses

\* A fault keeps the types.
LEMMA FaultTypes ==
    ASSUME TypeOK, Fault
    PROVE  TypeOK'
<1>1. faults' \in 0..MaxFaults
  BY CloudAssumption
     DEF CloudAssumption, Fault, PublishFails, PublisherCrashes, WorkerCrashes,
         DeliveryLost, TypeOK
<1>2. ASSUME NEW p \in Publishers, PublishFails(p)
      PROVE  TypeOK'
  <2>1. pub' \in [Publishers -> PublisherPlace]
    BY <1>2 DEF PublishFails, PublisherPlace, TypeOK
  <2> QED BY <1>1, <1>2, <2>1 DEF PublishFails, TypeOK
<1>3. ASSUME NEW p \in Publishers, PublisherCrashes(p)
      PROVE  TypeOK'
  <2>1. pub' \in [Publishers -> PublisherPlace]
    BY <1>3 DEF PublisherCrashes, Idle, PublisherPlace, TypeOK
  <2>2. repair' \in [todo : SUBSET Selected, poison : Messages \cup {None}]
    BY <1>3 DEF PublisherCrashes, RestingRepair, TypeOK
  <2> QED BY <1>1, <1>3, <2>1, <2>2 DEF PublisherCrashes, TypeOK
<1>4. ASSUME NEW w \in Workers, WorkerCrashes(w)
      PROVE  TypeOK'
  <2>1. worker' \in [Workers -> WorkerPlace]
    BY <1>4, PlaceTypes DEF WorkerCrashes, TypeOK
  <2> QED BY <1>1, <1>4, <2>1 DEF WorkerCrashes, TypeOK
<1>5. ASSUME NEW s \in Slots, DeliveryLost(s)
      PROVE  TypeOK'
  <2>1. queue' \in [Slots -> Delivery]
    BY <1>5, QueueTypes DEF DeliveryLost, TypeOK
  <2> QED BY <1>1, <1>5, <2>1 DEF DeliveryLost, TypeOK
<1> QED BY <1>2, <1>3, <1>4, <1>5 DEF Fault

\* The purge and the wake request keep the types.
LEMMA PurgeTypes ==
    ASSUME TypeOK, Wake \/ \E m \in Messages : PurgeExpiredData(m)
    PROVE  TypeOK'
<1>1. CASE Wake
  <2>1. admitted' \in [day : 0..DailyLimit, month : 0..MonthlyLimit]
    BY <1>1, CloudAssumption DEF CloudAssumption, Wake, Admit, BudgetLeft, TypeOK
  <2> QED BY <1>1, <2>1 DEF Wake, TypeOK
<1>2. ASSUME NEW m \in Messages, PurgeExpiredData(m)
      PROVE  TypeOK'
  <2>1. sms' \in [Messages -> SmsRow]
    BY <1>2, VerdictTypes DEF PurgeExpiredData, Buckets, TypeOK
  <2>2. job' \in [Messages -> JobRow]
    BY <1>2, NewRowTypes, RowUpdate DEF PurgeExpiredData, TypeOK
  <2> QED BY <1>2, <2>1, <2>2 DEF PurgeExpiredData, TypeOK
<1> QED BY <1>1, <1>2

LEMMA TypeNext == TypeOK /\ [Next]_vars => TypeOK'
<1> SUFFICES ASSUME TypeOK, [Next]_vars PROVE TypeOK'
  OBVIOUS
<1>1. CASE Next
  BY <1>1, RequestTypes, PublishTypes, RepairTypes, WorkerTypes, ReceiptTypes,
     TimeTypes, FaultTypes, PurgeTypes
     DEF Next
<1>2. CASE UNCHANGED vars
  BY <1>2 DEF vars, TypeOK
<1> QED BY <1>1, <1>2

\* Type correctness: in particular no interleaving of requests, workers,
\* repair runs and faults takes a job's attempts beyond MaxAttempts or a
\* counter of admissions beyond its limit.
THEOREM TypeCorrect == Spec => []TypeOK
  BY TypeInit, TypeNext, PTL DEF Spec

-------------------------------------------------------------------------------
(***************************************************************************)
(* How a step may change the row of one job.  Every property of the rows   *)
(* follows from this list instead of from the actions one by one.          *)
(***************************************************************************)
Opens(m) ==
    /\ job[m].status \in {"absent", "failed", "retryable_failure"}
    /\ job'[m] = NewJob("pending")
    /\ credit'[m] = credit[m] + MaxAttempts

IsRefused(m) ==
    /\ job[m].status = "absent"
    /\ job'[m] = NewJob("failed")
    /\ credit'[m] = credit[m]

IsPublished(m) ==
    /\ Publishable(job[m])
    /\ job'[m] \in {Marked(job[m]), Deferred(job[m])}
    /\ credit'[m] = credit[m]

IsExhausted(m) ==
    /\ Exhaustible(job[m])
    /\ job'[m] = Released(job[m], "failed")
    /\ credit'[m] = credit[m]

IsTakenBack(m) ==
    /\ job[m].status = "processing"
    /\ ~job[m].live
    /\ job'[m] = TakenBack(job[m])
    /\ credit'[m] = credit[m]

IsClaimed(m, w) ==
    /\ Claimable(job[m])
    /\ job'[m] = Claimed(job[m], w)
    /\ worker'[w] # worker[w]
    /\ credit'[m] = credit[m] - 1

IsGivenUp(m, w) ==
    /\ job[m].owner = w
    /\ \/ worker[w].pc = "fail" /\ worker[w].msg = m
          /\ job'[m] = Released(job[m], "failed")
       \/ job'[m] = PutOff(job[m])
    /\ worker'[w] # worker[w]
    /\ credit'[m] = credit[m]

IsVerified(m, w) ==
    /\ HoldsLease(w, job[m])
    /\ job'[m] = Released(job[m], "verified")
    /\ worker'[w] # worker[w]
    /\ credit'[m] = credit[m]

IsRenewed(m, w) ==
    /\ job[m].owner = w
    /\ job'[m] = [job[m] EXCEPT !.live = TRUE]
    /\ credit'[m] = credit[m]

GetsOlder(m) ==
    /\ \/ job[m].status # "absent" /\ job'[m] = [job[m] EXCEPT !.due = TRUE]
       \/ job'[m] = [job[m] EXCEPT !.live = FALSE]
       \/ job'[m] = [job[m] EXCEPT !.published = "stale"]
    /\ credit'[m] = credit[m]

IsPurged(m) ==
    /\ sms'[m].life = "purged"
    /\ job'[m] = NoJob
    /\ credit'[m] = credit[m]

RowMove(m) ==
    \/ job'[m] = job[m] /\ credit'[m] = credit[m]
    \/ Opens(m) \/ IsRefused(m) \/ IsPublished(m) \/ IsExhausted(m)
    \/ IsTakenBack(m) \/ GetsOlder(m) \/ IsPurged(m)
    \/ \E w \in Workers : \/ IsClaimed(m, w) \/ IsGivenUp(m, w)
                          \/ IsVerified(m, w) \/ IsRenewed(m, w)

\* A request opens or refuses a job or leaves the row alone.
LEMMA RequestMoves ==
    ASSUME TypeOK, NEW m \in Messages, NEW r \in Requests, NEW n \in Messages,
           RequestStep(r, n)
    PROVE  RowMove(m)
<1>1. job \in [Messages -> JobRow] /\ credit \in [Messages -> Int]
  BY DEF TypeOK
<1>2. ASSUME CreateJob(n, FALSE)
      PROVE  RowMove(m)
  <2>1. CASE BudgetLeft
    BY <1>1, <1>2, <2>1 DEF CreateJob, Grant, RowMove, Opens
  <2>2. CASE ~BudgetLeft
    BY <1>1, <1>2, <2>2 DEF CreateJob, RowMove, IsRefused
  <2> QED BY <2>1, <2>2
<1>3. CASE GetForOwner(r, n) \/ RetryCreates(r, n)
  BY <1>2, <1>3 DEF GetForOwner, RetryCreates
<1>4. CASE RetryPublishes(r, n)
  BY <1>4 DEF RetryPublishes, RowMove
<1>5. CASE RetryResets(r, n)
  BY <1>1, <1>5 DEF RetryResets, Grant, RowMove, Opens
<1> QED BY <1>3, <1>4, <1>5 DEF RequestStep

\* Publishing marks or defers a row nobody has claimed.
LEMMA PublishMoves ==
    ASSUME TypeOK, NEW m \in Messages, NEW p \in Publishers, PublishStep(p)
    PROVE  RowMove(m)
<1>1. job \in [Messages -> JobRow]
  BY DEF TypeOK
<1>2. CASE PublishReads(p) \/ PublishSends(p)
  BY <1>2 DEF PublishReads, PublishSends, RowMove
<1>3. CASE PublishMarks(p)
  BY <1>1, <1>3 DEF PublishMarks, RowMove, IsPublished
<1>4. CASE PublishDefers(p)
  BY <1>1, <1>4 DEF PublishDefers, RowMove, IsPublished
<1> QED BY <1>2, <1>3, <1>4 DEF PublishStep

\* The repair run ends a spent job or takes one back whose lease is over.
LEMMA RepairMoves ==
    ASSUME TypeOK, NEW m \in Messages, RepairStep
    PROVE  RowMove(m)
<1>1. job \in [Messages -> JobRow]
  BY DEF TypeOK
<1>2. CASE RepairSelects \/ RepairPoisons
  BY <1>2 DEF RepairSelects, RepairPoisons, RowMove
<1>3. ASSUME NEW t \in Selected, RepairExhausts(t)
      PROVE  RowMove(m)
  BY <1>1, <1>3 DEF RepairExhausts, RowMove, IsExhausted
<1>4. ASSUME NEW t \in Selected, RepairRepublishes(t)
      PROVE  RowMove(m)
  BY <1>1, <1>4 DEF RepairRepublishes, RowMove, IsTakenBack
<1> QED BY <1>2, <1>3, <1>4 DEF RepairStep

\* A worker claims what is claimable, ends what is spent, gives up or renews
\* what it owns and verifies what it holds.
LEMMA WorkerMoves ==
    ASSUME TypeOK, NEW m \in Messages, NEW w \in Workers,
           WorkerStep(w) \/ WorkerRenews(w)
    PROVE  RowMove(m)
<1>1. /\ job \in [Messages -> JobRow]
      /\ credit \in [Messages -> Int]
      /\ worker \in [Workers -> WorkerPlace]
  BY DEF TypeOK
<1>2. CASE WorkerClaims(w)
  <2>1. CASE worker[w].msg = m
    <3>1. worker'[w] # worker[w]
      BY <1>1, <1>2 DEF WorkerClaims, Goto, WorkerPlace
    <3> QED BY <1>1, <1>2, <2>1, <3>1 DEF WorkerClaims, RowMove, IsClaimed
  <2>2. CASE worker[w].msg # m
    BY <1>1, <1>2, <2>2 DEF WorkerClaims, RowMove
  <2> QED BY <2>1, <2>2
<1>3. CASE WorkerExhausts(w)
  BY <1>1, <1>3 DEF WorkerExhausts, RowMove, IsExhausted
<1>4. CASE WorkerFails(w)
  <2>1. worker'[w] # worker[w]
    BY <1>1, <1>4 DEF WorkerFails, Goto, WorkerPlace
  <2> QED BY <1>1, <1>4, <2>1 DEF WorkerFails, RowMove, IsGivenUp
<1>5. CASE WorkerBacksOff(w)
  <2>1. worker'[w] # worker[w]
    BY <1>1, <1>5 DEF WorkerBacksOff, Goto, WorkerPlace
  <2> QED BY <1>1, <1>5, <2>1 DEF WorkerBacksOff, RowMove, IsGivenUp
<1>6. ASSUME NEW b \in Buckets, CommitResult(w, b)
      PROVE  RowMove(m)
  <2>1. worker'[w] # worker[w]
    BY <1>1, <1>6 DEF CommitResult, Goto, WorkerPlace
  <2> QED BY <1>1, <1>6, <2>1 DEF CommitResult, RowMove, IsVerified
<1>7. CASE WorkerRenews(w)
  BY <1>1, <1>7 DEF WorkerRenews, RowMove, IsRenewed
<1>8. CASE \/ WorkerReads(w) \/ WorkerMissesClaim(w) \/ WorkerRechecks(w)
           \/ WorkerPoisons(w) \/ WorkerDeletes(w) \/ WorkerSnapshots(w)
           \/ InferenceFails(w) \/ LeaseWasLost(w) \/ WorkerAcks(w)
           \/ WorkerRecovers(w) \/ WorkerHides(w)
  BY <1>8 DEF WorkerReads, WorkerMissesClaim, WorkerRechecks, WorkerPoisons,
              WorkerDeletes, WorkerSnapshots, InferenceFails, LeaseWasLost,
              WorkerAcks, WorkerRecovers, WorkerHides, RowMove
<1> QED BY <1>2, <1>3, <1>4, <1>5, <1>6, <1>7, <1>8 DEF WorkerStep

\* No step changes a job's row in any other way.
LEMMA RowMoves ==
    ASSUME TypeOK, NEW m \in Messages, [Next]_vars
    PROVE  RowMove(m)
<1>1. /\ job \in [Messages -> JobRow]
      /\ sms \in [Messages -> SmsRow]
  BY DEF TypeOK
<1>2. ASSUME NEW w \in Workers, NEW s \in Slots, Receive(w, s)
      PROVE  RowMove(m)
  BY <1>2 DEF Receive, RowMove
<1>3. CASE Wake \/ Fault \/ UNCHANGED vars
  BY <1>3 DEF Wake, Fault, PublishFails, PublisherCrashes, WorkerCrashes,
              DeliveryLost, vars, RowMove
<1>4. CASE TimePasses
  BY <1>1, <1>4 DEF TimePasses, BecomesDue, LeaseExpires, PublicationAges,
                    DeliveryReappears, NewDay, RowMove, GetsOlder
<1>5. ASSUME NEW n \in Messages, PurgeExpiredData(n)
      PROVE  RowMove(m)
  <2>1. n = m => sms'[m].life = "purged"
    BY <1>1, <1>5 DEF PurgeExpiredData, Purged, SmsRow
  <2> QED BY <1>1, <1>5, <2>1 DEF PurgeExpiredData, RowMove, IsPurged
<1> QED BY <1>2, <1>3, <1>4, <1>5, RequestMoves, PublishMoves, RepairMoves,
           WorkerMoves
        DEF Next

\* What the writes of a row leave in the fields the properties are about.
LEMMA WrittenFields ==
    ASSUME NEW row \in JobRow
    PROVE  /\ \A s \in {"verified", "failed", "retryable_failure"} :
                  LET new == Released(row, s)
                  IN  /\ new.status = s /\ new.owner = None /\ ~new.live
                      /\ new.attempts = row.attempts
           /\ \A w \in Workers :
                  LET new == Claimed(row, w)
                  IN  /\ new.status = "processing" /\ new.owner = w /\ new.live
                      /\ new.attempts = row.attempts + 1
           /\ \A new \in {PutOff(row), TakenBack(row)} :
                  /\ new.status = "retryable_failure" /\ new.owner = None
                  /\ ~new.live /\ new.attempts = row.attempts
           /\ \A new \in {Marked(row), Deferred(row)} :
                  /\ new.status \in Waiting /\ new.owner = row.owner
                  /\ new.live = row.live /\ new.attempts = row.attempts
           /\ \A s : LET new == NewJob(s)
                     IN  /\ new.status = s /\ new.owner = None /\ ~new.live
                         /\ new.attempts = 0
<1>1. ASSUME NEW s \in {"verified", "failed", "retryable_failure"}
      PROVE  /\ Released(row, s).status = s /\ Released(row, s).owner = None
             /\ ~Released(row, s).live /\ Released(row, s).attempts = row.attempts
  BY DEF Released, JobRow
<1>2. ASSUME NEW w \in Workers
      PROVE  /\ Claimed(row, w).status = "processing" /\ Claimed(row, w).owner = w
             /\ Claimed(row, w).live
             /\ Claimed(row, w).attempts = row.attempts + 1
  BY DEF Claimed, JobRow
<1>3. /\ PutOff(row).status = "retryable_failure" /\ PutOff(row).owner = None
      /\ ~PutOff(row).live /\ PutOff(row).attempts = row.attempts
  <2>1. Released(row, "retryable_failure") \in JobRow
    BY RowTypes
  <2> QED BY <1>1, <2>1 DEF PutOff, JobRow
<1>4. /\ TakenBack(row).status = "retryable_failure" /\ TakenBack(row).owner = None
      /\ ~TakenBack(row).live /\ TakenBack(row).attempts = row.attempts
  <2>1. Released(row, "retryable_failure") \in JobRow
    BY RowTypes
  <2> QED BY <1>1, <2>1 DEF TakenBack, JobRow
<1>5. /\ Marked(row).status \in Waiting /\ Marked(row).owner = row.owner
      /\ Marked(row).live = row.live /\ Marked(row).attempts = row.attempts
  BY DEF Marked, Waiting, JobRow
<1>6. /\ Deferred(row).status \in Waiting /\ Deferred(row).owner = row.owner
      /\ Deferred(row).live = row.live /\ Deferred(row).attempts = row.attempts
  BY DEF Deferred, Waiting, JobRow
<1>7. ASSUME NEW s
      PROVE  /\ NewJob(s).status = s /\ NewJob(s).owner = None
             /\ ~NewJob(s).live /\ NewJob(s).attempts = 0
  BY DEF NewJob
<1> QED BY <1>1, <1>2, <1>3, <1>4, <1>5, <1>6, <1>7

\* The same for the moves that touch a single field, and for no job.
LEMMA AgedFields ==
    ASSUME TypeOK, NEW m \in Messages,
           GetsOlder(m) \/ \E w \in Workers : IsRenewed(m, w)
    PROVE  /\ job'[m].status = job[m].status /\ job'[m].owner = job[m].owner
           /\ job'[m].attempts = job[m].attempts
           /\ GetsOlder(m) /\ job'[m].live => job[m].live
<1>1. job[m] \in JobRow
  BY DEF TypeOK
<1>2. CASE job'[m] = [job[m] EXCEPT !.due = TRUE]
  BY <1>1, <1>2 DEF JobRow
<1>3. CASE job'[m] = [job[m] EXCEPT !.live = FALSE]
  BY <1>1, <1>3 DEF JobRow
<1>4. CASE job'[m] = [job[m] EXCEPT !.published = "stale"]
  BY <1>1, <1>4 DEF JobRow
<1>5. CASE ~GetsOlder(m) /\ job'[m] = [job[m] EXCEPT !.live = TRUE]
  BY <1>1, <1>5 DEF JobRow
<1> QED BY <1>2, <1>3, <1>4, <1>5 DEF GetsOlder, IsRenewed

LEMMA NoJobFields ==
    /\ NoJob.status = "absent" /\ NoJob.owner = None /\ ~NoJob.live
    /\ NoJob.attempts = 0
  BY DEF NoJob

-------------------------------------------------------------------------------
(***************************************************************************)
(* The lease                                                               *)
(***************************************************************************)
LeaseFits(row) ==
    /\ row.owner # None <=> row.status = "processing"
    /\ row.live => row.owner # None

LEMMA LeaseNext ==
    ASSUME TypeOK, LeaseMeansProcessing, [Next]_vars
    PROVE  LeaseMeansProcessing'
<1> SUFFICES ASSUME NEW m \in Messages
             PROVE  LeaseFits(job[m])'
  BY DEF LeaseMeansProcessing, LeaseFits
<1> DEFINE row == job[m]
<1>1. row \in JobRow /\ RowMove(m) /\ LeaseFits(row)
  BY RowMoves DEF TypeOK, LeaseMeansProcessing, LeaseFits
<1>2. CASE job'[m] = job[m]
  BY <1>1, <1>2 DEF LeaseFits
<1>3. CASE Opens(m) \/ IsRefused(m)
  BY <1>1, <1>3, WrittenFields DEF Opens, IsRefused, LeaseFits
<1>4. CASE IsPublished(m)
  BY <1>1, <1>4, WrittenFields DEF IsPublished, Publishable, Waiting, LeaseFits
<1>5. CASE IsExhausted(m)
  BY <1>1, <1>5, WrittenFields DEF IsExhausted, LeaseFits
<1>6. CASE IsTakenBack(m)
  BY <1>1, <1>6, WrittenFields DEF IsTakenBack, LeaseFits
<1>7. CASE GetsOlder(m) \/ IsPurged(m)
  BY <1>1, <1>7, AgedFields, NoJobFields DEF IsPurged, LeaseFits
<1>8. ASSUME NEW w \in Workers,
             IsClaimed(m, w) \/ IsGivenUp(m, w) \/ IsVerified(m, w)
      PROVE  LeaseFits(job[m])'
  BY <1>1, <1>8, WrittenFields, QueueAssumption
     DEF IsClaimed, IsGivenUp, IsVerified, LeaseFits, QueueAssumption
<1>9. ASSUME NEW w \in Workers, IsRenewed(m, w)
      PROVE  LeaseFits(job[m])'
  BY <1>1, <1>9, AgedFields, QueueAssumption
     DEF IsRenewed, LeaseFits, QueueAssumption
<1> QED BY <1>1, <1>2, <1>3, <1>4, <1>5, <1>6, <1>7, <1>8, <1>9 DEF RowMove

LEMMA LeaseInit == Init => LeaseMeansProcessing
  BY DEF Init, InitWork, NoJob, LeaseMeansProcessing

\* Exactly the jobs being processed have a lease owner, for any number of
\* messages, workers, requests and faults.
THEOREM LeaseCorrect == Spec => []LeaseMeansProcessing
<1>1. Init => TypeOK /\ LeaseMeansProcessing
  BY TypeInit, LeaseInit
<1>2. TypeOK /\ LeaseMeansProcessing /\ [Next]_vars
          => (TypeOK /\ LeaseMeansProcessing)'
  BY TypeNext, LeaseNext
<1> QED BY <1>1, <1>2, PTL DEF Spec

\* A step that leaves a verified job alone.
VerifiedStays ==
    \A m \in Messages :
        job[m].status = "verified" =>
            job'[m].status = "verified" \/ sms'[m].life = "purged"

LEMMA VerifiedStep ==
    ASSUME TypeOK, LeaseMeansProcessing, [Next]_vars
    PROVE  VerifiedStays
<1> SUFFICES ASSUME NEW m \in Messages, job[m].status = "verified",
                    sms'[m].life # "purged"
             PROVE  job'[m].status = "verified"
  BY DEF VerifiedStays
<1>1. job[m] \in JobRow /\ RowMove(m) /\ job[m].owner = None
  BY RowMoves DEF TypeOK, LeaseMeansProcessing
<1>2. \/ job'[m] = job[m]
      \/ GetsOlder(m)
  BY <1>1, QueueAssumption
     DEF RowMove, Opens, IsRefused, IsPublished, IsExhausted, IsTakenBack,
         IsPurged, IsClaimed, IsGivenUp, IsVerified, IsRenewed, Publishable,
         Exhaustible, Claimable, HoldsLease, Open, Waiting, QueueAssumption
<1> QED BY <1>2, AgedFields

\* A committed result is final, for any number of late workers, stale repair
\* selections, late publications and retries.
THEOREM VerifiedForGood == Spec => VerifiedIsFinal
<1>1. TypeOK /\ LeaseMeansProcessing /\ [Next]_vars => [VerifiedStays]_vars
  BY VerifiedStep
<1>2. [][VerifiedStays]_vars => VerifiedIsFinal
  BY PTL DEF VerifiedIsFinal, VerifiedStays
<1> QED BY <1>1, <1>2, TypeCorrect, LeaseCorrect, PTL DEF Spec

\* A step that leaves a live lease to its worker.
LiveLeaseStays ==
    \A m \in Messages :
        job[m].live /\ job'[m].owner # job[m].owner /\ sms'[m].life # "purged" =>
            worker'[job[m].owner] # worker[job[m].owner]

LEMMA LiveLeaseStep ==
    ASSUME TypeOK, LeaseMeansProcessing, [Next]_vars
    PROVE  LiveLeaseStays
<1> SUFFICES ASSUME NEW m \in Messages, job[m].live,
                    job'[m].owner # job[m].owner, sms'[m].life # "purged"
             PROVE  worker'[job[m].owner] # worker[job[m].owner]
  BY DEF LiveLeaseStays
<1>1. /\ job[m] \in JobRow /\ RowMove(m)
      /\ job[m].owner # None /\ job[m].status = "processing"
  BY RowMoves DEF TypeOK, LeaseMeansProcessing
<1>2. \/ job'[m] = job[m]
      \/ GetsOlder(m)
      \/ \E w \in Workers : IsGivenUp(m, w) \/ IsVerified(m, w) \/ IsRenewed(m, w)
  BY <1>1
     DEF RowMove, Opens, IsRefused, IsPublished, IsExhausted, IsTakenBack,
         IsPurged, IsClaimed, Publishable, Exhaustible, Claimable, Unleased,
         Waiting
<1>3. ~GetsOlder(m) /\ ~\E w \in Workers : IsRenewed(m, w)
  BY AgedFields
<1> QED BY <1>2, <1>3 DEF IsGivenUp, IsVerified, HoldsLease

\* A lease that has not run out is ended by its own worker only, whoever else
\* acts on an older look at the row.
THEOREM LiveLeaseSafe == Spec => LiveLeaseIsRespected
<1>1. TypeOK /\ LeaseMeansProcessing /\ [Next]_vars => [LiveLeaseStays]_vars
  BY LiveLeaseStep
<1>2. [][LiveLeaseStays]_vars => LiveLeaseIsRespected
  BY PTL DEF LiveLeaseIsRespected, LiveLeaseStays
<1> QED BY <1>1, <1>2, TypeCorrect, LeaseCorrect, PTL DEF Spec

-------------------------------------------------------------------------------
(***************************************************************************)
(* Inference within admissions.  The credit of a message is inductive only *)
(* together with what its job may still spend.                             *)
(***************************************************************************)
CreditCovers ==
    \A m \in Messages :
        /\ credit[m] >= 0
        /\ job[m].status \in Open => credit[m] >= MaxAttempts - job[m].attempts

LEMMA CreditNext ==
    ASSUME TypeOK, LeaseMeansProcessing, CreditCovers, [Next]_vars
    PROVE  CreditCovers'
<1> SUFFICES ASSUME NEW m \in Messages
             PROVE  /\ credit'[m] >= 0
                    /\ job'[m].status \in Open =>
                           credit'[m] >= MaxAttempts - job'[m].attempts
  BY DEF CreditCovers
<1>0. job[m].owner # None => job[m].status = "processing"
  BY DEF LeaseMeansProcessing
<1>1. /\ job[m] \in JobRow /\ RowMove(m)
      /\ credit[m] \in Int /\ credit[m] >= 0
      /\ job[m].status \in Open => credit[m] >= MaxAttempts - job[m].attempts
      /\ job[m].attempts \in Int /\ MaxAttempts \in Nat
  BY RowMoves, CloudAssumption DEF TypeOK, CreditCovers, JobRow, CloudAssumption
<1>2. CASE job'[m] = job[m] /\ credit'[m] = credit[m]
  BY <1>1, <1>2
<1>3. CASE Opens(m) \/ IsRefused(m)
  BY <1>1, <1>3, WrittenFields DEF Opens, IsRefused, Open, Waiting
<1>4. CASE IsPublished(m) \/ IsExhausted(m) \/ IsTakenBack(m)
  BY <1>1, <1>4, WrittenFields
     DEF IsPublished, IsExhausted, IsTakenBack, Publishable, Open, Waiting
<1>5. CASE GetsOlder(m)
  BY <1>1, <1>5, AgedFields DEF GetsOlder
<1>6. CASE IsPurged(m)
  BY <1>1, <1>6, NoJobFields DEF IsPurged, Open, Waiting
<1>7. ASSUME NEW w \in Workers, IsClaimed(m, w)
      PROVE  /\ credit'[m] >= 0
             /\ job'[m].status \in Open =>
                    credit'[m] >= MaxAttempts - job'[m].attempts
  <2>1. job'[m].attempts = job[m].attempts + 1 /\ credit'[m] = credit[m] - 1
    BY <1>1, <1>7, WrittenFields DEF IsClaimed
  <2>2. credit[m] >= MaxAttempts - job[m].attempts /\ job[m].attempts < MaxAttempts
    BY <1>1, <1>7 DEF IsClaimed, Claimable
  <2> QED BY <1>1, <2>1, <2>2
<1>8. ASSUME NEW w \in Workers, IsGivenUp(m, w)
      PROVE  /\ credit'[m] >= 0
             /\ job'[m].status \in Open =>
                    credit'[m] >= MaxAttempts - job'[m].attempts
  <2>1. job[m].owner = w /\ credit'[m] = credit[m]
    BY <1>8 DEF IsGivenUp
  <2>2. job[m].status \in Open
    BY <1>1, <2>1, <1>0, QueueAssumption DEF QueueAssumption, Open
  <2>3. job'[m].attempts = job[m].attempts
    BY <1>1, <1>8, WrittenFields DEF IsGivenUp
  <2> QED BY <1>1, <2>1, <2>2, <2>3
<1>9. ASSUME NEW w \in Workers, IsVerified(m, w)
      PROVE  /\ credit'[m] >= 0
             /\ job'[m].status \in Open =>
                    credit'[m] >= MaxAttempts - job'[m].attempts
  BY <1>1, <1>9, WrittenFields DEF IsVerified, Open, Waiting
<1>10. ASSUME NEW w \in Workers, IsRenewed(m, w)
       PROVE  /\ credit'[m] >= 0
              /\ job'[m].status \in Open =>
                     credit'[m] >= MaxAttempts - job'[m].attempts
  BY <1>1, <1>10, AgedFields DEF IsRenewed
<1> QED BY <1>1, <1>2, <1>3, <1>4, <1>5, <1>6, <1>7, <1>8, <1>9, <1>10
        DEF RowMove

\* No message is ever inferred more often than its admissions paid for,
\* whatever MaxAttempts, the limits and the number of retries and faults.
THEOREM InferenceBounded == Spec => []InferenceWithinAdmissions
<1>1. Init => CreditCovers
  BY DEF Init, InitWork, NoJob, Open, Waiting, CreditCovers
<1>2. TypeOK /\ LeaseMeansProcessing /\ CreditCovers /\ [Next]_vars
          => CreditCovers'
  BY CreditNext
<1>3. CreditCovers => InferenceWithinAdmissions
  BY DEF CreditCovers, InferenceWithinAdmissions
<1> QED BY <1>1, <1>2, <1>3, TypeCorrect, LeaseCorrect, PTL DEF Spec

-------------------------------------------------------------------------------
(***************************************************************************)
(* Failing.  A worker on its way to fail a job that is still its own saw   *)
(* the last attempt used, and only a claim, which names its worker, uses   *)
(* another.                                                                *)
(***************************************************************************)
FailMeansSpent ==
    \A w \in Workers, m \in Messages :
        worker[w].pc = "fail" /\ worker[w].msg = m /\ job[m].owner = w =>
            Spent(job[m])

\* A worker that is about to fail its job has just looked at it or has been
\* there before, with the same job.
LEMMA ReachesFail ==
    ASSUME TypeOK, NEW w \in Workers, [Next]_vars, worker'[w].pc = "fail"
    PROVE  \/ worker'[w] = worker[w]
           \/ /\ worker'[w].msg = worker[w].msg
              /\ job' = job
              /\ LET row == job[worker[w].msg]
                 IN  row.status = "absent" \/ Spent(row)
<1>1. worker \in [Workers -> WorkerPlace]
  BY DEF TypeOK
<1>2. CASE worker' = worker
  BY <1>2
<1>3. ASSUME NEW v \in Workers, WorkerRecovers(v)
      PROVE  \/ worker'[w] = worker[w]
             \/ /\ worker'[w].msg = worker[w].msg
                /\ job' = job
                /\ LET row == job[worker[w].msg]
                   IN  row.status = "absent" \/ Spent(row)
  <2>1. CASE v = w
    BY <1>1, <1>3, <2>1 DEF WorkerRecovers, Goto, WorkerPlace
  <2>2. CASE v # w
    BY <1>1, <1>3, <2>2 DEF WorkerRecovers, Goto
  <2> QED BY <2>1, <2>2
<1>4. ASSUME NEW v \in Workers,
             \/ WorkerReads(v) \/ WorkerClaims(v) \/ WorkerMissesClaim(v)
             \/ WorkerRechecks(v) \/ WorkerExhausts(v) \/ WorkerPoisons(v)
             \/ WorkerFails(v) \/ WorkerBacksOff(v) \/ InferenceFails(v)
             \/ LeaseWasLost(v) \/ WorkerAcks(v) \/ WorkerDeletes(v)
             \/ WorkerHides(v) \/ WorkerCrashes(v)
      PROVE  worker'[w] = worker[w]
  BY <1>1, <1>4
     DEF WorkerReads, WorkerClaims, WorkerMissesClaim, WorkerRechecks,
         WorkerExhausts, WorkerPoisons, WorkerFails, WorkerBacksOff,
         InferenceFails, LeaseWasLost, WorkerAcks, WorkerDeletes, WorkerHides,
         WorkerCrashes, Goto, Rest, RestingWorker, WorkerPlace
<1>5. ASSUME NEW v \in Workers, NEW s \in Slots, Receive(v, s)
      PROVE  worker'[w] = worker[w]
  BY <1>1, <1>5 DEF Receive, WorkerPlace
<1>6. ASSUME NEW v \in Workers, NEW b \in Buckets, CommitResult(v, b)
      PROVE  worker'[w] = worker[w]
  BY <1>1, <1>6 DEF CommitResult, Goto, WorkerPlace
<1>7. ASSUME NEW v \in Workers, WorkerSnapshots(v)
      PROVE  worker'[w] = worker[w]
  BY <1>1, <1>7 DEF WorkerSnapshots, WorkerPlace
<1>8. ASSUME NEW r \in Requests, NEW m \in Messages, RequestStep(r, m)
      PROVE  worker' = worker
  BY <1>8 DEF RequestStep, GetForOwner, RetryCreates, RetryPublishes, RetryResets
<1>9. ASSUME NEW p \in Publishers,
             PublishStep(p) \/ PublishFails(p) \/ PublisherCrashes(p)
      PROVE  worker' = worker
  BY <1>9 DEF PublishStep, PublishReads, PublishSends, PublishMarks,
              PublishDefers, PublishFails, PublisherCrashes
<1>10. CASE RepairStep \/ Wake \/ TimePasses \/ UNCHANGED vars
            \/ (\E s \in Slots : DeliveryLost(s))
            \/ (\E v \in Workers : WorkerRenews(v))
            \/ (\E m \in Messages : PurgeExpiredData(m))
  BY <1>10 DEF RepairStep, RepairSelects, RepairPoisons, RepairExhausts,
               RepairRepublishes, Wake, TimePasses, BecomesDue, LeaseExpires,
               PublicationAges, DeliveryReappears, NewDay, DeliveryLost,
               WorkerRenews, PurgeExpiredData, vars
<1> QED BY <1>2, <1>3, <1>4, <1>5, <1>6, <1>7, <1>8, <1>9, <1>10
        DEF Next, WorkerStep, Fault

LEMMA FailMeansSpentNext ==
    ASSUME TypeOK, LeaseMeansProcessing, FailMeansSpent, [Next]_vars
    PROVE  FailMeansSpent'
<1> SUFFICES ASSUME NEW w \in Workers, NEW m \in Messages,
                    worker'[w].pc = "fail", worker'[w].msg = m,
                    job'[m].owner = w
             PROVE  Spent(job'[m])
  BY DEF FailMeansSpent
<1>1. job[m] \in JobRow /\ RowMove(m) /\ w # None
  BY RowMoves, QueueAssumption DEF TypeOK, QueueAssumption
<1>2. CASE job' = job /\ (job[m].status = "absent" \/ Spent(job[m]))
  BY <1>1, <1>2 DEF LeaseMeansProcessing
<1>3. CASE worker'[w] = worker[w]
  <2>1. worker[w].pc = "fail" /\ worker[w].msg = m
    BY <1>3
  <2>2. job[m].owner = w => Spent(job[m])
    BY <2>1 DEF FailMeansSpent
  <2>3. CASE job'[m] = job[m]
    BY <2>2, <2>3
  <2>4. CASE Opens(m) \/ IsRefused(m) \/ IsExhausted(m) \/ IsTakenBack(m)
    BY <1>1, <2>4, WrittenFields DEF Opens, IsRefused, IsExhausted, IsTakenBack
  <2>5. CASE IsPublished(m)
    BY <1>1, <2>5, WrittenFields DEF IsPublished, Publishable
  <2>6. CASE IsPurged(m)
    BY <1>1, <2>6, NoJobFields DEF IsPurged
  <2>7. CASE GetsOlder(m) \/ \E v \in Workers : IsRenewed(m, v)
    <3>1. job'[m].owner = job[m].owner /\ job'[m].attempts = job[m].attempts
      BY <2>7, AgedFields
    <3> QED BY <2>2, <3>1 DEF Spent
  <2>8. ASSUME NEW v \in Workers, IsGivenUp(m, v) \/ IsVerified(m, v)
        PROVE  Spent(job'[m])
    BY <1>1, <2>8, WrittenFields DEF IsGivenUp, IsVerified
  <2>9. ASSUME NEW v \in Workers, IsClaimed(m, v)
        PROVE  Spent(job'[m])
    <3>1. v = w
      BY <1>1, <2>9, WrittenFields DEF IsClaimed
    <3> QED BY <1>3, <2>9, <3>1 DEF IsClaimed
  <2> QED BY <1>1, <2>3, <2>4, <2>5, <2>6, <2>7, <2>8, <2>9 DEF RowMove
<1> QED BY <1>2, <1>3, ReachesFail

LEMMA FailMeansSpentInit == Init => FailMeansSpent
  BY DEF Init, InitWork, RestingWorker, FailMeansSpent

\* A step that fails no open job with attempts left.
FailsTheSpent ==
    \A m \in Messages :
        job[m].status \in Open /\ job'[m].status = "failed" => Spent(job[m])

LEMMA FailsTheSpentStep ==
    ASSUME TypeOK, FailMeansSpent, [Next]_vars
    PROVE  FailsTheSpent
<1> SUFFICES ASSUME NEW m \in Messages, job[m].status \in Open,
                    job'[m].status = "failed"
             PROVE  Spent(job[m])
  BY DEF FailsTheSpent
<1>1. job[m] \in JobRow /\ RowMove(m)
  BY RowMoves DEF TypeOK
<1>2. \/ IsExhausted(m)
      \/ \E w \in Workers : IsGivenUp(m, w)
  <2>1. job'[m].status # job[m].status
    BY DEF Open, Waiting
  <2>2. ~GetsOlder(m) /\ ~\E w \in Workers : IsRenewed(m, w)
    BY <2>1, AgedFields
  <2> QED BY <1>1, <2>1, <2>2, WrittenFields, NoJobFields
          DEF RowMove, Opens, IsRefused, IsPublished, IsTakenBack, IsPurged,
              IsClaimed, IsVerified, Open, Waiting
<1>3. ASSUME NEW w \in Workers, IsGivenUp(m, w)
      PROVE  Spent(job[m])
  <2>1. job'[m] # PutOff(job[m])
    BY <1>1, WrittenFields
  <2> QED BY <1>3, <2>1 DEF IsGivenUp, FailMeansSpent
<1> QED BY <1>2, <1>3 DEF IsExhausted, Exhaustible

\* An open job is given up only once all its attempts are used, for any
\* number of workers that lost their leases and any stale repair selection.
THEOREM FailsOnceSpent == Spec => FailsOnlyWhenSpent
<1>1. TypeOK /\ LeaseMeansProcessing /\ FailMeansSpent /\ [Next]_vars
          => FailMeansSpent'
  BY FailMeansSpentNext
<1>2. Spec => []FailMeansSpent
  BY <1>1, FailMeansSpentInit, TypeCorrect, LeaseCorrect, PTL DEF Spec
<1>3. TypeOK /\ FailMeansSpent /\ [Next]_vars => [FailsTheSpent]_vars
  BY FailsTheSpentStep
<1>4. [][FailsTheSpent]_vars => FailsOnlyWhenSpent
  BY PTL DEF FailsOnlyWhenSpent, FailsTheSpent
<1> QED BY <1>2, <1>3, <1>4, TypeCorrect, PTL DEF Spec

-------------------------------------------------------------------------------
(***************************************************************************)
(* The refinement of VerificationPromise.  The names below are its         *)
(* variables, as KeepsPromise maps them.                                   *)
(***************************************************************************)
PromisedStates == [m \in Messages |-> PromisedState(job[m])]
PromisedAttempts == [m \in Messages |-> job[m].attempts]
Asks(w, m) == worker[w].msg = m /\ worker[w].pc \in {"snapshot", "infer"}
PromisedAsking == [m \in Messages |-> {w \in Workers : Asks(w, m)}]

\* A message without a job starts from zero attempts.
AbsentIsNew == \A m \in Messages : job[m].status = "absent" => job[m].attempts = 0

\* What the steps of the refinement rest on.
KeptFacts ==
    /\ TypeOK
    /\ LeaseMeansProcessing
    /\ CreditCovers
    /\ FailMeansSpent
    /\ AbsentIsNew

LEMMA AbsentIsNewNext ==
    ASSUME TypeOK, LeaseMeansProcessing, AbsentIsNew, [Next]_vars
    PROVE  AbsentIsNew'
<1> SUFFICES ASSUME NEW m \in Messages, job'[m].status = "absent"
             PROVE  job'[m].attempts = 0
  BY DEF AbsentIsNew
<1>1. job[m] \in JobRow /\ RowMove(m)
  BY RowMoves DEF TypeOK
<1>2. CASE job'[m] = job[m]
  BY <1>2 DEF AbsentIsNew
<1>3. CASE GetsOlder(m) \/ \E w \in Workers : IsRenewed(m, w)
  BY <1>3, AgedFields DEF AbsentIsNew
<1>4. CASE IsPurged(m)
  BY <1>4, NoJobFields DEF IsPurged
<1>5. ASSUME job'[m] # job[m], ~GetsOlder(m), ~IsPurged(m),
             ~\E w \in Workers : IsRenewed(m, w)
      PROVE  FALSE
  BY <1>1, <1>5, WrittenFields
     DEF RowMove, Opens, IsRefused, IsPublished, IsExhausted, IsTakenBack,
         IsClaimed, IsGivenUp, IsVerified, Waiting
<1> QED BY <1>2, <1>3, <1>4, <1>5

LEMMA PromisedCases ==
    ASSUME NEW row
    PROVE  /\ row.status = "absent" => PromisedState(row) = "none"
           /\ row.status \in Open => PromisedState(row) = "open"
           /\ row.status = "failed" => PromisedState(row) = "failed"
           /\ row.status = "verified" => PromisedState(row) = "verified"
  BY DEF PromisedState, Terminal, Open, Waiting

\* A step that writes one row.
LEMMA OneRowPromised ==
    ASSUME TypeOK, NEW n \in Messages, NEW row, job' = [job EXCEPT ![n] = row]
    PROVE  /\ PromisedStates' = [PromisedStates EXCEPT ![n] = PromisedState(row)]
           /\ PromisedAttempts' = [PromisedAttempts EXCEPT ![n] = row.attempts]
  BY DEF TypeOK, PromisedStates, PromisedAttempts

\* A step that changes nothing the promise can see of the rows.
LEMMA RowsUnpromised ==
    ASSUME \A m \in Messages : /\ PromisedState(job'[m]) = PromisedState(job[m])
                               /\ job'[m].attempts = job[m].attempts
    PROVE  UNCHANGED <<PromisedStates, PromisedAttempts>>
  BY DEF PromisedStates, PromisedAttempts

LEMMA SameAsking ==
    ASSUME \A w \in Workers, m \in Messages : Asks(w, m)' <=> Asks(w, m)
    PROVE  UNCHANGED PromisedAsking
  BY DEF PromisedAsking

\* A worker that starts to ask, or stops.
LEMMA StartsAsking ==
    ASSUME TypeOK, NEW w \in Workers, NEW n \in Messages,
           Goto(w, "snapshot"), worker[w].msg = n, worker[w].pc = "claim"
    PROVE  PromisedAsking' = [PromisedAsking EXCEPT ![n] = @ \cup {w}]
<1>1. worker \in [Workers -> WorkerPlace]
  BY DEF TypeOK
<1>2. \A v \in Workers, m \in Messages :
          Asks(v, m)' <=> Asks(v, m) \/ (v = w /\ m = n)
  BY <1>1 DEF Goto, Asks, WorkerPlace
<1> QED BY <1>2 DEF PromisedAsking

LEMMA StopsAsking ==
    ASSUME TypeOK, NEW w \in Workers, NEW n \in Messages, Asks(w, n),
           \A m \in Messages : ~Asks(w, m)',
           \A v \in Workers \ {w} : worker'[v] = worker[v]
    PROVE  /\ w \in PromisedAsking[n]
           /\ PromisedAsking' = [PromisedAsking EXCEPT ![n] = @ \ {w}]
<1>1. \A v \in Workers, m \in Messages :
          Asks(v, m)' <=> Asks(v, m) /\ ~(v = w /\ m = n)
  BY DEF Asks
<1> QED BY <1>1 DEF PromisedAsking


\* Every step of the machinery is one of the promise's, or none.
PromiseKept ==
    \/ Promise!Next
    \/ UNCHANGED <<PromisedStates, PromisedAttempts, credit, PromisedAsking,
                   admitted.month>>

LEMMA PromiseStep == PromiseKept => [Promise!Next]_(Promise!vars)
  BY DEF PromiseKept, Promise!vars, PromisedStates, PromisedAttempts,
         PromisedAsking, Asks

\* A job that is opened anew, in the terms of the promise.
LEMMA OpeningKept ==
    ASSUME KeptFacts, NEW m \in Messages, BudgetLeft, Admit, Grant(m),
           job[m].status # "verified",
           job' = [job EXCEPT ![m] = NewJob("pending")], worker' = worker
    PROVE  PromiseKept
<1>1. /\ PromisedStates' = [PromisedStates EXCEPT ![m] = "open"]
      /\ PromisedAttempts' = [PromisedAttempts EXCEPT ![m] = 0]
  <2>1. NewJob("pending").status \in Open /\ NewJob("pending").attempts = 0
    BY DEF NewJob, Open, Waiting
  <2> QED BY <2>1, OneRowPromised, PromisedCases DEF KeptFacts
<1>2. UNCHANGED PromisedAsking
  BY SameAsking DEF Asks
<1>3. /\ admitted.month < MonthlyLimit
      /\ admitted'.month = admitted.month + 1
  BY DEF BudgetLeft, Admit
<1>4. PromisedStates[m] # "verified"
  <2>1. job[m].status \in {"absent", "failed"} \cup Open
    BY DEF KeptFacts, TypeOK, JobRow, Terminal
  <2> QED BY <2>1, PromisedCases DEF PromisedStates
<1>5. Promise!Admit(m)
  BY <1>1, <1>2, <1>3, <1>4
     DEF Promise!Admit, Promise!Become, Grant, PromisedStates,
         PromisedAttempts, PromisedAsking, Asks
<1> QED BY <1>5 DEF PromiseKept, Promise!Next

\* A job that ends as failed, or had failed before.
LEMMA GivingUpKept ==
    ASSUME KeptFacts, NEW m \in Messages, Spent(job[m]),
           job[m].status \in Open \cup {"failed"},
           job' = [job EXCEPT ![m] = Released(job[m], "failed")],
           UNCHANGED <<credit, admitted, PromisedAsking>>
    PROVE  PromiseKept
<1>1. job[m] \in JobRow
  BY DEF KeptFacts, TypeOK
<1>2. /\ Released(job[m], "failed").status = "failed"
      /\ Released(job[m], "failed").attempts = job[m].attempts
  BY <1>1, WrittenFields
<1>3. PromisedState(Released(job[m], "failed")) = "failed"
  BY <1>2, PromisedCases
<1>4. /\ PromisedStates' = [PromisedStates EXCEPT ![m] = "failed"]
      /\ UNCHANGED PromisedAttempts
  <2>1. /\ PromisedStates' = [PromisedStates EXCEPT
               ![m] = PromisedState(Released(job[m], "failed"))]
        /\ PromisedAttempts' = [PromisedAttempts EXCEPT
               ![m] = Released(job[m], "failed").attempts]
    BY OneRowPromised, Zenon DEF KeptFacts
  <2> QED BY <1>2, <1>3, <2>1 DEF PromisedAttempts
<1>5. CASE job[m].status \in Open
  <2>1. PromisedStates[m] = "open"
    BY <1>5, PromisedCases DEF PromisedStates
  <2>2. PromisedAttempts[m] = MaxAttempts
    BY <1>1, CloudAssumption
       DEF Spent, JobRow, PromisedAttempts, CloudAssumption
  <2>3. Promise!GiveUp(m)
    BY <1>4, <2>1, <2>2
       DEF Promise!GiveUp, Promise!Become, PromisedStates, PromisedAttempts,
           PromisedAsking, Asks
  <2> QED BY <2>3 DEF PromiseKept, Promise!Next
<1>6. CASE job[m].status = "failed"
  <2>1. PromisedStates[m] = "failed"
    BY <1>6, PromisedCases DEF PromisedStates
  <2>2. UNCHANGED PromisedStates
    BY <1>4, <2>1 DEF PromisedStates
  <2> QED BY <1>4, <2>2 DEF PromiseKept
<1> QED BY <1>5, <1>6

\* A worker that stops asking and has written nothing.
LEMMA NoAnswerKept ==
    ASSUME KeptFacts, NEW w \in Workers,
           \A m \in Messages : ~Asks(w, m)',
           \A v \in Workers \ {w} : worker'[v] = worker[v],
           UNCHANGED <<job, credit, admitted>>
    PROVE  PromiseKept
<1>1. UNCHANGED <<PromisedStates, PromisedAttempts>>
  BY DEF PromisedStates, PromisedAttempts
<1>2. ASSUME NEW m \in Messages, Asks(w, m)
      PROVE  Promise!NoAnswer(m, w)
  <2>1. /\ w \in PromisedAsking[m]
        /\ PromisedAsking' = [PromisedAsking EXCEPT ![m] = @ \ {w}]
    BY <1>2, StopsAsking DEF KeptFacts
  <2> QED BY <1>1, <2>1
          DEF Promise!NoAnswer, PromisedStates, PromisedAttempts,
              PromisedAsking, Asks
<1>3. CASE \A m \in Messages : ~Asks(w, m)
  <2>1. UNCHANGED PromisedAsking
    BY <1>3, SameAsking DEF Asks
  <2> QED BY <1>1, <2>1 DEF PromiseKept
<1> QED BY <1>2, <1>3 DEF PromiseKept, Promise!Next


\* A step that keeps every row's status open, or as it is, and asks nobody.
LEMMA StutterKept ==
    ASSUME \A m \in Messages :
               \/ job'[m] = job[m]
               \/ /\ job[m].status \in Open /\ job'[m].status \in Open
                  /\ job'[m].attempts = job[m].attempts
               \/ /\ job'[m].status = job[m].status
                  /\ job'[m].attempts = job[m].attempts
                  /\ job[m] \in JobRow,
           \A w \in Workers, m \in Messages : Asks(w, m)' <=> Asks(w, m),
           UNCHANGED credit, admitted'.month = admitted.month
    PROVE  PromiseKept
<1>1. ASSUME NEW m \in Messages
      PROVE  /\ PromisedState(job'[m]) = PromisedState(job[m])
             /\ job'[m].attempts = job[m].attempts
  <2>1. CASE job'[m] = job[m]
    BY <2>1
  <2>2. CASE job[m].status \in Open /\ job'[m].status \in Open
    <3>1. job'[m].attempts = job[m].attempts
      BY <2>2
    <3> QED BY <2>2, <3>1, PromisedCases
  <2>3. CASE /\ job'[m].status = job[m].status
             /\ job'[m].attempts = job[m].attempts
             /\ job[m] \in JobRow
    <3>1. job[m].status \in {"absent", "verified", "failed"} \cup Open
      BY <2>3 DEF JobRow, Terminal
    <3> QED BY <2>3, <3>1, PromisedCases
  <2> QED BY <2>1, <2>2, <2>3
<1>2. UNCHANGED <<PromisedStates, PromisedAttempts>>
  BY <1>1, RowsUnpromised
<1>3. UNCHANGED PromisedAsking
  BY SameAsking
<1> QED BY <1>2, <1>3 DEF PromiseKept

\* A job that is made without a verdict is opened or refused.
LEMMA CreateKept ==
    ASSUME KeptFacts, NEW n \in Messages, CreateJob(n, FALSE), worker' = worker
    PROVE  PromiseKept
<1>1. CASE BudgetLeft
  BY <1>1, OpeningKept DEF CreateJob
<1>2. CASE ~BudgetLeft
  <2>1. /\ job[n].status = "absent"
        /\ job' = [job EXCEPT ![n] = NewJob("failed")]
        /\ UNCHANGED <<admitted, credit>>
    BY <1>2 DEF CreateJob
  <2>2. PromisedState(NewJob("failed")) = "failed" /\ NewJob("failed").attempts = 0
    <3>1. NewJob("failed").status = "failed" /\ NewJob("failed").attempts = 0
      BY DEF NewJob
    <3> QED BY <3>1, PromisedCases
  <2>3. /\ PromisedStates' = [PromisedStates EXCEPT
               ![n] = PromisedState(NewJob("failed"))]
        /\ PromisedAttempts' = [PromisedAttempts EXCEPT
               ![n] = NewJob("failed").attempts]
    BY <2>1, OneRowPromised, Zenon DEF KeptFacts
  <2>4. PromisedAttempts[n] = 0 /\ PromisedStates[n] = "none"
    BY <2>1, PromisedCases
       DEF KeptFacts, AbsentIsNew, PromisedAttempts, PromisedStates
  <2>5. UNCHANGED PromisedAttempts
    BY <2>2, <2>3, <2>4 DEF PromisedAttempts
  <2>6. UNCHANGED PromisedAsking
    BY SameAsking DEF Asks
  <2>7. Promise!Refuse(n)
    BY <2>1, <2>2, <2>3, <2>4, <2>5, <2>6
       DEF Promise!Refuse, Promise!Become, PromisedStates,
           PromisedAttempts, PromisedAsking, Asks
  <2> QED BY <2>7 DEF PromiseKept, Promise!Next
<1> QED BY <1>1, <1>2

\* Requests open a job, have it refused, or only publish it.
LEMMA RequestKept ==
    ASSUME KeptFacts, NEW r \in Requests, NEW n \in Messages, RequestStep(r, n)
    PROVE  PromiseKept
<1>1. CASE GetForOwner(r, n) \/ RetryCreates(r, n)
  BY <1>1, CreateKept DEF GetForOwner, RetryCreates
<1>2. CASE RetryPublishes(r, n)
  BY <1>2, StutterKept DEF RetryPublishes, Asks
<1>3. CASE RetryResets(r, n)
  <2>1. job[n].status # "verified"
    BY <1>3 DEF RetryResets
  <2> QED BY <1>3, <2>1, OpeningKept DEF RetryResets
<1> QED BY <1>1, <1>2, <1>3 DEF RequestStep

\* Publishing keeps an open job open.
LEMMA PublishKept ==
    ASSUME KeptFacts, NEW p \in Publishers, PublishStep(p)
    PROVE  PromiseKept
<1>1. job \in [Messages -> JobRow]
  BY DEF KeptFacts, TypeOK
<1>2. \A w \in Workers, m \in Messages : Asks(w, m)' <=> Asks(w, m)
  BY DEF PublishStep, PublishReads, PublishSends, PublishMarks,
         PublishDefers, Asks
<1>3. UNCHANGED <<credit, admitted>>
  BY DEF PublishStep, PublishReads, PublishSends, PublishMarks, PublishDefers
<1>4. ASSUME NEW m \in Messages, job'[m] # job[m]
      PROVE  /\ job[m].status \in Open /\ job'[m].status \in Open
             /\ job'[m].attempts = job[m].attempts
  <2>1. Publishable(job[m]) /\ job'[m] \in {Marked(job[m]), Deferred(job[m])}
    BY <1>1, <1>4
       DEF PublishStep, PublishReads, PublishSends, PublishMarks, PublishDefers
  <2> QED BY <1>1, <2>1, WrittenFields DEF Publishable, Open
<1> QED BY <1>2, <1>3, <1>4, StutterKept

\* The repair run gives a spent job up, and keeps the others open.
LEMMA RepairKept ==
    ASSUME KeptFacts, RepairStep
    PROVE  PromiseKept
<1>1. job \in [Messages -> JobRow]
  BY DEF KeptFacts, TypeOK
<1>2. \A w \in Workers, m \in Messages : Asks(w, m)' <=> Asks(w, m)
  BY DEF RepairStep, RepairSelects, RepairPoisons, RepairExhausts,
         RepairRepublishes, Asks
<1>3. UNCHANGED <<credit, admitted>>
  BY DEF RepairStep, RepairSelects, RepairPoisons, RepairExhausts,
         RepairRepublishes
<1>4. CASE RepairSelects \/ RepairPoisons
  <2>1. job' = job
    BY <1>4 DEF RepairSelects, RepairPoisons
  <2> QED BY <1>2, <1>3, <2>1, StutterKept
<1>5. ASSUME NEW t \in Selected, RepairExhausts(t)
      PROVE  PromiseKept
  <2>1. t.msg \in Messages
    BY DEF Selected
  <2>2. CASE Exhaustible(job[t.msg])
    <3>1. /\ Spent(job[t.msg])
          /\ job[t.msg].status \in Open \cup {"failed"}
      BY <1>1, <2>1, <2>2 DEF Exhaustible, JobRow, Terminal
    <3>2. job' = [job EXCEPT ![t.msg] = Released(job[t.msg], "failed")]
      BY <1>5, <2>2 DEF RepairExhausts
    <3>3. UNCHANGED PromisedAsking
      BY <1>2, SameAsking
    <3> QED BY <1>3, <2>1, <3>1, <3>2, <3>3, GivingUpKept
  <2>3. CASE ~Exhaustible(job[t.msg])
    <3>1. job' = job
      BY <1>5, <2>3 DEF RepairExhausts
    <3> QED BY <1>2, <1>3, <3>1, StutterKept
  <2> QED BY <2>2, <2>3
<1>6. ASSUME NEW t \in Selected, RepairRepublishes(t)
      PROVE  PromiseKept
  <2>1. ASSUME NEW m \in Messages, job'[m] # job[m]
        PROVE  /\ job[m].status \in Open /\ job'[m].status \in Open
               /\ job'[m].attempts = job[m].attempts
    <3>1. job[m].status = "processing" /\ job'[m] = TakenBack(job[m])
      BY <1>1, <1>6, <2>1 DEF RepairRepublishes
    <3> QED BY <1>1, <3>1, WrittenFields DEF Open, Waiting
  <2> QED BY <1>2, <1>3, <2>1, StutterKept
<1> QED BY <1>4, <1>5, <1>6 DEF RepairStep


\* A claim is a question the promise allows: the job is open, an attempt is
\* left, and the credit covers it.
LEMMA ClaimKept ==
    ASSUME KeptFacts, NEW w \in Workers, WorkerClaims(w)
    PROVE  PromiseKept
<1> DEFINE mine == worker[w].msg
<1>1. /\ job \in [Messages -> JobRow]
      /\ credit \in [Messages -> Int]
      /\ worker \in [Workers -> WorkerPlace]
  BY DEF KeptFacts, TypeOK
<1>2. /\ worker[w].pc = "claim" /\ Goto(w, "snapshot")
      /\ Claimable(job[mine])
      /\ job' = [job EXCEPT ![mine] = Claimed(job[mine], w)]
      /\ credit' = [credit EXCEPT ![mine] = credit[mine] - 1]
      /\ UNCHANGED admitted
  BY DEF WorkerClaims
<1>3. ASSUME NEW n \in Messages, mine = n
      PROVE  PromiseKept
  <2>1. /\ worker[w].pc = "claim" /\ worker[w].msg = n /\ Goto(w, "snapshot")
        /\ Claimable(job[n])
        /\ job' = [job EXCEPT ![n] = Claimed(job[n], w)]
        /\ credit' = [credit EXCEPT ![n] = credit[n] - 1]
        /\ UNCHANGED admitted
    BY <1>2, <1>3
  <2>2. job[n] \in JobRow
    BY <1>1, <1>3
  <2>3. /\ Claimed(job[n], w).status \in Open
        /\ Claimed(job[n], w).attempts = job[n].attempts + 1
    BY <2>2, WrittenFields DEF Open
  <2>4. /\ PromisedStates' = [PromisedStates EXCEPT
               ![n] = PromisedState(Claimed(job[n], w))]
        /\ PromisedAttempts' = [PromisedAttempts EXCEPT
               ![n] = Claimed(job[n], w).attempts]
    BY <2>1, <1>3, OneRowPromised, Zenon DEF KeptFacts
  <2>5. PromisedState(Claimed(job[n], w)) = "open" /\ PromisedStates[n] = "open"
    BY <2>1, <1>3, <2>3, PromisedCases DEF Claimable, PromisedStates
  <2>6. UNCHANGED PromisedStates
    BY <2>4, <2>5 DEF PromisedStates
  <2>7. /\ PromisedAttempts[n] = job[n].attempts
        /\ PromisedAttempts' = [PromisedAttempts EXCEPT ![n] = @ + 1]
    BY <1>3, <2>3, <2>4 DEF PromisedAttempts
  <2>8. job[n].attempts < MaxAttempts /\ credit[n] > 0
    <3>1. /\ job[n].attempts < MaxAttempts
          /\ credit[n] >= MaxAttempts - job[n].attempts
      BY <2>1, <1>3 DEF Claimable, KeptFacts, CreditCovers
    <3>2. credit[n] \in Int /\ job[n].attempts \in Int /\ MaxAttempts \in Int
      BY <1>1, <1>3, <2>2, CloudAssumption DEF JobRow, CloudAssumption
    <3> QED BY <3>1, <3>2
  <2>9. PromisedAsking' = [PromisedAsking EXCEPT ![n] = @ \cup {w}]
    BY <2>1, <1>3, StartsAsking DEF KeptFacts
  <2>10. Promise!Ask(n, w)
    BY <2>1, <2>5, <2>6, <2>7, <2>8, <2>9
       DEF Promise!Ask, PromisedStates, PromisedAttempts, PromisedAsking, Asks
  <2> QED BY <1>3, <2>10 DEF PromiseKept, Promise!Next
<1>4. CASE mine \notin Messages
  <2>1. job' = job /\ credit' = credit
    BY <1>1, <1>2, <1>4
  <2>2. \A v \in Workers, m \in Messages : Asks(v, m)' <=> Asks(v, m)
    BY <1>1, <1>2, <1>4 DEF Goto, Asks, WorkerPlace
  <2> QED BY <1>2, <2>1, <2>2, StutterKept
<1> QED BY <1>3, <1>4

\* A commit is an answer to the worker that asks.
LEMMA CommitKept ==
    ASSUME KeptFacts, NEW w \in Workers, NEW b \in Buckets, CommitResult(w, b)
    PROVE  PromiseKept
<1> DEFINE mine == worker[w].msg
<1>1. /\ job \in [Messages -> JobRow]
      /\ worker \in [Workers -> WorkerPlace]
  BY DEF KeptFacts, TypeOK
<1>2. /\ worker[w].pc = "infer" /\ HoldsLease(w, job[mine])
      /\ job' = [job EXCEPT ![mine] = Released(job[mine], "verified")]
      /\ \E pc \in {"ack", "error"} : Goto(w, pc)
      /\ UNCHANGED <<credit, admitted>>
  BY DEF CommitResult
<1>3. /\ \A m \in Messages : ~Asks(w, m)'
      /\ \A v \in Workers \ {w} : worker'[v] = worker[v]
  BY <1>1, <1>2 DEF Goto, Asks, WorkerPlace
<1>4. ASSUME NEW n \in Messages, mine = n
      PROVE  PromiseKept
  <2>1. /\ worker[w].pc = "infer" /\ worker[w].msg = n /\ HoldsLease(w, job[n])
        /\ job' = [job EXCEPT ![n] = Released(job[n], "verified")]
        /\ UNCHANGED <<credit, admitted>>
    BY <1>2, <1>4
  <2>2. job[n] \in JobRow
    BY <1>1, <1>4
  <2>3. /\ Released(job[n], "verified").status = "verified"
        /\ Released(job[n], "verified").attempts = job[n].attempts
    BY <2>2, WrittenFields
  <2>4. /\ PromisedStates' = [PromisedStates EXCEPT
               ![n] = PromisedState(Released(job[n], "verified"))]
        /\ PromisedAttempts' = [PromisedAttempts EXCEPT
               ![n] = Released(job[n], "verified").attempts]
    BY <2>1, <1>4, OneRowPromised, Zenon DEF KeptFacts
  <2>5. PromisedState(Released(job[n], "verified")) = "verified"
    BY <2>3, PromisedCases
  <2>6. PromisedStates[n] = "open"
    BY <2>1, <1>4, PromisedCases DEF HoldsLease, Open, PromisedStates
  <2>7. UNCHANGED PromisedAttempts
    BY <2>3, <2>4 DEF PromisedAttempts
  <2>8. /\ w \in PromisedAsking[n]
        /\ PromisedAsking' = [PromisedAsking EXCEPT ![n] = @ \ {w}]
    <3>1. Asks(w, n)
      BY <2>1 DEF Asks
    <3> QED BY <1>3, <1>4, <3>1, StopsAsking DEF KeptFacts
  <2>9. Promise!Answer(n, w)
    BY <2>1, <2>4, <2>5, <2>6, <2>7, <2>8
       DEF Promise!Answer, Promise!Become, PromisedStates, PromisedAttempts,
           PromisedAsking, Asks
  <2> QED BY <1>4, <2>9 DEF PromiseKept, Promise!Next
<1>5. CASE mine \notin Messages
  <2>1. job' = job
    BY <1>1, <1>2, <1>5
  <2> QED BY <1>2, <1>3, <2>1, NoAnswerKept
<1> QED BY <1>4, <1>5

\* A worker ends a job that is spent, or finds it changed.
LEMMA EndingKept ==
    ASSUME KeptFacts, NEW w \in Workers, WorkerExhausts(w) \/ WorkerFails(w)
    PROVE  PromiseKept
<1> DEFINE n == worker[w].msg
<1>1. /\ job \in [Messages -> JobRow]
      /\ worker \in [Workers -> WorkerPlace]
  BY DEF KeptFacts, TypeOK
<1>2. /\ \A v \in Workers, m \in Messages : Asks(v, m)' <=> Asks(v, m)
      /\ UNCHANGED <<credit, admitted>>
  BY <1>1 DEF WorkerExhausts, WorkerFails, Goto, Asks, WorkerPlace
<1>3. UNCHANGED PromisedAsking
  BY <1>2, SameAsking
<1>4. CASE job' = job
  BY <1>2, <1>4, StutterKept
<1>5. CASE /\ n \in Messages
           /\ Spent(job[n]) /\ job[n].status \in Open \cup {"failed"}
           /\ job' = [job EXCEPT ![n] = Released(job[n], "failed")]
  BY <1>2, <1>3, <1>5, GivingUpKept
<1>6. CASE WorkerExhausts(w) /\ n \in Messages
  <2>1. Exhaustible(job[n]) => Spent(job[n]) /\ job[n].status \in Open \cup {"failed"}
    BY <1>1, <1>6 DEF Exhaustible, JobRow, Terminal
  <2> QED BY <1>4, <1>5, <1>6, <2>1 DEF WorkerExhausts
<1>7. CASE WorkerFails(w) /\ n \in Messages
  <2>1. job[n].owner = w => Spent(job[n]) /\ job[n].status \in Open
    BY <1>7, QueueAssumption
       DEF WorkerFails, KeptFacts, FailMeansSpent, LeaseMeansProcessing, Open,
           QueueAssumption
  <2> QED BY <1>4, <1>5, <1>7, <2>1 DEF WorkerFails
<1>8. CASE n \notin Messages
  <2>1. job' = job
    BY <1>1, <1>8 DEF WorkerExhausts, WorkerFails
  <2> QED BY <1>4, <2>1
<1> QED BY <1>6, <1>7, <1>8

\* Putting a job off and renewing its lease keep it as open as it was.
LEMMA HoldingKept ==
    ASSUME KeptFacts, NEW w \in Workers, WorkerBacksOff(w) \/ WorkerRenews(w)
    PROVE  PromiseKept
<1> DEFINE n == worker[w].msg
<1>1. /\ job \in [Messages -> JobRow]
      /\ worker \in [Workers -> WorkerPlace]
  BY DEF KeptFacts, TypeOK
<1>2. /\ \A v \in Workers, m \in Messages : Asks(v, m)' <=> Asks(v, m)
      /\ UNCHANGED <<credit, admitted>>
  BY <1>1 DEF WorkerBacksOff, WorkerRenews, Goto, Asks, WorkerPlace
<1>3. ASSUME NEW m \in Messages, job'[m] # job[m]
      PROVE  /\ job[m].status \in Open /\ job'[m].status \in Open
             /\ job'[m].attempts = job[m].attempts
  <2>1. /\ job[m].owner = w
        /\ job'[m] \in {PutOff(job[m]), [job[m] EXCEPT !.live = TRUE]}
    BY <1>1, <1>3 DEF WorkerBacksOff, WorkerRenews
  <2>2. job[m].status = "processing" /\ job[m] \in JobRow
    BY <1>1, <2>1, QueueAssumption
       DEF KeptFacts, LeaseMeansProcessing, QueueAssumption
  <2>3. CASE job'[m] = PutOff(job[m])
    BY <2>2, <2>3, WrittenFields DEF Open, Waiting
  <2>4. CASE job'[m] = [job[m] EXCEPT !.live = TRUE]
    BY <2>2, <2>4 DEF JobRow, Open
  <2> QED BY <2>1, <2>3, <2>4
<1> QED BY <1>2, <1>3, StutterKept


\* The other steps of a worker move only itself and the queue; those that
\* leave the call of the model end its question.
LEMMA MovingKept ==
    ASSUME KeptFacts, NEW w \in Workers,
           \/ WorkerReads(w) \/ WorkerMissesClaim(w) \/ WorkerRechecks(w)
           \/ WorkerPoisons(w) \/ WorkerDeletes(w) \/ WorkerSnapshots(w)
           \/ InferenceFails(w) \/ LeaseWasLost(w) \/ WorkerAcks(w)
           \/ WorkerRecovers(w) \/ WorkerHides(w) \/ WorkerCrashes(w)
           \/ \E s \in Slots : Receive(w, s)
    PROVE  PromiseKept
<1>1. worker \in [Workers -> WorkerPlace]
  BY DEF KeptFacts, TypeOK
<1>2. UNCHANGED <<job, credit, admitted>>
  BY DEF WorkerReads, WorkerMissesClaim, WorkerRechecks, WorkerPoisons,
         WorkerDeletes, WorkerSnapshots, InferenceFails, LeaseWasLost,
         WorkerAcks, WorkerRecovers, WorkerHides, WorkerCrashes, Receive
<1>3. CASE \/ InferenceFails(w) \/ LeaseWasLost(w) \/ WorkerCrashes(w)
           \/ WorkerReads(w) \/ WorkerMissesClaim(w) \/ WorkerRecovers(w)
           \/ WorkerPoisons(w) \/ WorkerDeletes(w) \/ WorkerHides(w)
  <2>1. /\ worker'[w].pc \notin {"snapshot", "infer"}
        /\ \A v \in Workers \ {w} : worker'[v] = worker[v]
    BY <1>1, <1>3
       DEF InferenceFails, LeaseWasLost, WorkerCrashes, WorkerReads,
           WorkerMissesClaim, WorkerRecovers, WorkerPoisons, WorkerDeletes,
           WorkerHides, Goto, Rest, RestingWorker, WorkerPlace
  <2> QED BY <1>2, <2>1, NoAnswerKept DEF Asks
<1>4. CASE WorkerRechecks(w) \/ WorkerAcks(w) \/ \E s \in Slots : Receive(w, s)
  <2>1. /\ worker'[w].pc \notin {"snapshot", "infer"}
        /\ \A v \in Workers \ {w} : worker'[v] = worker[v]
    BY <1>1, <1>4
       DEF WorkerRechecks, WorkerAcks, Receive, Goto, Rest, RestingWorker,
           WorkerPlace
  <2> QED BY <1>2, <2>1, NoAnswerKept DEF Asks
<1>5. CASE WorkerSnapshots(w)
  <2>1. \A v \in Workers \ {w} : worker'[v] = worker[v]
    BY <1>1, <1>5 DEF WorkerSnapshots
  <2>2. CASE job[worker[w].msg].owner = w
    <3>1. /\ worker[w].pc = "snapshot" /\ worker'[w].pc = "infer"
          /\ worker'[w].msg = worker[w].msg
      BY <1>1, <1>5, <2>2 DEF WorkerSnapshots, WorkerPlace
    <3>2. \A v \in Workers, m \in Messages : Asks(v, m)' <=> Asks(v, m)
      BY <2>1, <3>1 DEF Asks
    <3> QED BY <1>2, <3>2, StutterKept
  <2>3. CASE job[worker[w].msg].owner # w
    <3>1. worker'[w].pc = "error"
      BY <1>1, <1>5, <2>3 DEF WorkerSnapshots, WorkerPlace
    <3> QED BY <1>2, <2>1, <3>1, NoAnswerKept DEF Asks
  <2> QED BY <2>2, <2>3
<1> QED BY <1>3, <1>4, <1>5

\* Clocks, lost deliveries and dying requests are nothing to the promise.
LEMMA RestKept ==
    ASSUME KeptFacts,
           \/ TimePasses
           \/ \E p \in Publishers : PublishFails(p) \/ PublisherCrashes(p)
           \/ \E s \in Slots : DeliveryLost(s)
           \/ UNCHANGED vars
    PROVE  PromiseKept
<1>1. /\ job \in [Messages -> JobRow]
      /\ admitted \in [day : 0..DailyLimit, month : 0..MonthlyLimit]
  BY DEF KeptFacts, TypeOK
<1>2. \A w \in Workers, m \in Messages : Asks(w, m)' <=> Asks(w, m)
  BY DEF TimePasses, BecomesDue, LeaseExpires, PublicationAges,
         DeliveryReappears, NewDay, PublishFails, PublisherCrashes,
         DeliveryLost, vars, Asks
<1>3. UNCHANGED credit /\ admitted'.month = admitted.month
  BY <1>1
     DEF TimePasses, BecomesDue, LeaseExpires, PublicationAges,
         DeliveryReappears, NewDay, PublishFails, PublisherCrashes,
         DeliveryLost, vars
<1>4. ASSUME NEW m \in Messages, job'[m] # job[m]
      PROVE  /\ job'[m].status = job[m].status
             /\ job'[m].attempts = job[m].attempts
             /\ job[m] \in JobRow
  <2>1. GetsOlder(m)
    BY <1>1, <1>3, <1>4
       DEF TimePasses, BecomesDue, LeaseExpires, PublicationAges,
           DeliveryReappears, NewDay, PublishFails, PublisherCrashes,
           DeliveryLost, vars, GetsOlder
  <2> QED BY <1>1, <2>1, AgedFields DEF KeptFacts
<1> QED BY <1>2, <1>3, <1>4, StutterKept

\* A wake request takes an admission of its own.
LEMMA WakeKept ==
    ASSUME KeptFacts, Wake
    PROVE  PromiseKept
<1>1. UNCHANGED <<PromisedStates, PromisedAttempts, PromisedAsking, credit>>
  BY DEF Wake, PromisedStates, PromisedAttempts, PromisedAsking, Asks
<1>2. admitted.month < MonthlyLimit /\ admitted'.month = admitted.month + 1
  BY DEF Wake, BudgetLeft, Admit
<1>3. Promise!AdmitOther
  BY <1>1, <1>2 DEF Promise!AdmitOther, PromisedStates, PromisedAttempts,
                    PromisedAsking, Asks
<1> QED BY <1>3 DEF PromiseKept, Promise!Next

\* A purge is the one way for a message to be forgotten.
LEMMA PurgeKept ==
    ASSUME KeptFacts, NEW n \in Messages, PurgeExpiredData(n)
    PROVE  PromiseKept
<1>1. /\ job' = [job EXCEPT ![n] = NoJob]
      /\ UNCHANGED <<worker, credit, admitted>>
  BY DEF PurgeExpiredData
<1>2. /\ PromisedStates' = [PromisedStates EXCEPT ![n] = PromisedState(NoJob)]
      /\ PromisedAttempts' = [PromisedAttempts EXCEPT ![n] = NoJob.attempts]
  BY <1>1, OneRowPromised, Zenon DEF KeptFacts
<1>3. PromisedState(NoJob) = "none" /\ NoJob.attempts = 0
  BY NoJobFields, PromisedCases
<1>4. UNCHANGED PromisedAsking
  BY <1>1, SameAsking DEF Asks
<1>5. Promise!Forget(n)
  BY <1>1, <1>2, <1>3, <1>4
     DEF Promise!Forget, Promise!Become, PromisedStates, PromisedAttempts,
         PromisedAsking, Asks
<1> QED BY <1>5 DEF PromiseKept, Promise!Next

LEMMA NextKept ==
    ASSUME KeptFacts, [Next]_vars
    PROVE  PromiseKept
  BY RequestKept, PublishKept, RepairKept, ClaimKept, CommitKept, EndingKept,
     HoldingKept, MovingKept, RestKept, WakeKept, PurgeKept
     DEF Next, WorkerStep, Fault

LEMMA PromiseInit == Init => Promise!Init
<1> SUFFICES ASSUME Init PROVE Promise!Init
  OBVIOUS
<1>1. /\ job = [m \in Messages |-> NoJob]
      /\ worker = [w \in Workers |-> RestingWorker]
      /\ credit = [m \in Messages |-> 0] /\ admitted = [day |-> 0, month |-> 0]
  BY DEF Init, InitWork
<1>2. \A m \in Messages : PromisedState(job[m]) = "none" /\ job[m].attempts = 0
  BY <1>1, NoJobFields, PromisedCases
<1>3. \A w \in Workers : worker[w].pc = "idle"
  BY <1>1 DEF RestingWorker
<1> QED BY <1>1, <1>2, <1>3 DEF Promise!Init

\* The outbox, the queue, leases, the catch block and repairs implement
\* VerificationPromise, for any number of messages, workers and faults: a
\* message is verified by a call its admissions paid for, and given up only
\* after all attempts of an admission.
THEOREM MachineryKeepsPromise == Spec => KeepsPromise
<1>1. Init => AbsentIsNew
  BY NoJobFields DEF Init, InitWork, AbsentIsNew
<1>2. TypeOK /\ LeaseMeansProcessing /\ AbsentIsNew /\ [Next]_vars => AbsentIsNew'
  BY AbsentIsNewNext
<1>3. Init => CreditCovers
  BY DEF Init, InitWork, NoJob, Open, Waiting, CreditCovers
<1>4. TypeOK /\ LeaseMeansProcessing /\ CreditCovers /\ [Next]_vars => CreditCovers'
  BY CreditNext
<1>5. TypeOK /\ LeaseMeansProcessing /\ FailMeansSpent /\ [Next]_vars
          => FailMeansSpent'
  BY FailMeansSpentNext
<1>6. Spec => []KeptFacts
  BY <1>1, <1>2, <1>3, <1>4, <1>5, FailMeansSpentInit, TypeCorrect,
     LeaseCorrect, PTL DEF Spec, KeptFacts
<1>7. KeptFacts /\ [Next]_vars => [Promise!Next]_(Promise!vars)
  BY NextKept, PromiseStep
<1> QED BY <1>6, <1>7, PromiseInit, PTL DEF Spec, KeepsPromise, Promise!Spec

-------------------------------------------------------------------------------
(***************************************************************************)
(* One alert.  The worker decides from the alerts it saw before it asked   *)
(* the model; while the job is still its own, nobody but itself judges     *)
(* the message, so what it saw is still so.                                *)
(***************************************************************************)
SeenIsCurrent ==
    \A w \in Workers, m \in Messages :
        worker[w].pc = "infer" /\ worker[w].msg = m /\ job[m].owner = w =>
            worker[w].seen = AlertsSeen(sms[m])

\* Only a commit and the purge write a message.
LEMMA MessageMoves ==
    ASSUME TypeOK, NEW m \in Messages, [Next]_vars
    PROVE  \/ sms'[m] = sms[m]
           \/ job'[m] = NoJob /\ sms'[m] = Purged(sms[m])
           \/ \E w \in Workers, b \in Buckets :
                  /\ worker[w].msg = m
                  /\ worker[w].pc = "infer" /\ worker'[w].pc # "infer"
                  /\ HoldsLease(w, job[m])
                  /\ sms'[m] = Judged(sms[m], worker[w].seen, b)
<1>1. /\ worker \in [Workers -> WorkerPlace]
      /\ sms \in [Messages -> SmsRow]
      /\ job \in [Messages -> JobRow]
  BY DEF TypeOK
<1>2. ASSUME NEW w \in Workers, NEW b \in Buckets, CommitResult(w, b)
      PROVE  \/ sms'[m] = sms[m]
             \/ /\ worker[w].msg = m
                /\ worker[w].pc = "infer" /\ worker'[w].pc # "infer"
                /\ HoldsLease(w, job[m])
                /\ sms'[m] = Judged(sms[m], worker[w].seen, b)
  <2>1. worker'[w].pc # "infer"
    BY <1>1, <1>2 DEF CommitResult, Goto, WorkerPlace
  <2> QED BY <1>1, <1>2, <2>1 DEF CommitResult
<1>3. ASSUME NEW n \in Messages, PurgeExpiredData(n)
      PROVE  \/ sms'[m] = sms[m]
             \/ job'[m] = NoJob /\ sms'[m] = Purged(sms[m])
  BY <1>1, <1>3 DEF PurgeExpiredData
<1>4. ASSUME NEW w \in Workers,
             \/ WorkerReads(w) \/ WorkerMissesClaim(w) \/ WorkerRechecks(w)
             \/ WorkerPoisons(w) \/ WorkerDeletes(w) \/ WorkerSnapshots(w)
             \/ InferenceFails(w) \/ LeaseWasLost(w) \/ WorkerAcks(w)
             \/ WorkerRecovers(w) \/ WorkerHides(w) \/ WorkerCrashes(w)
             \/ WorkerClaims(w) \/ WorkerExhausts(w) \/ WorkerFails(w)
             \/ WorkerBacksOff(w) \/ WorkerRenews(w)
             \/ \E s \in Slots : Receive(w, s)
      PROVE  sms' = sms
  BY <1>4
     DEF WorkerReads, WorkerMissesClaim, WorkerRechecks, WorkerPoisons,
         WorkerDeletes, WorkerSnapshots, InferenceFails, LeaseWasLost,
         WorkerAcks, WorkerRecovers, WorkerHides, WorkerCrashes, WorkerClaims,
         WorkerExhausts, WorkerFails, WorkerBacksOff, WorkerRenews, Receive
<1>5. ASSUME NEW p \in Publishers,
             PublishStep(p) \/ PublishFails(p) \/ PublisherCrashes(p)
      PROVE  sms' = sms
  BY <1>5 DEF PublishStep, PublishReads, PublishSends, PublishMarks,
              PublishDefers, PublishFails, PublisherCrashes
<1>6. ASSUME NEW r \in Requests, NEW n \in Messages, RequestStep(r, n)
      PROVE  sms' = sms
  BY <1>6 DEF RequestStep, GetForOwner, RetryCreates, RetryPublishes, RetryResets
<1>7. CASE RepairStep \/ Wake \/ TimePasses \/ UNCHANGED vars
           \/ (\E s \in Slots : DeliveryLost(s))
  BY <1>7 DEF RepairStep, RepairSelects, RepairPoisons, RepairExhausts,
              RepairRepublishes, Wake, TimePasses, BecomesDue, LeaseExpires,
              PublicationAges, DeliveryReappears, NewDay, DeliveryLost, vars
<1> QED BY <1>2, <1>3, <1>4, <1>5, <1>6, <1>7 DEF Next, WorkerStep, Fault

\* A worker that asks the model has just seen the alerts, or asked before.
LEMMA ReachesInfer ==
    ASSUME TypeOK, NEW w \in Workers, [Next]_vars, worker'[w].pc = "infer"
    PROVE  \/ worker'[w] = worker[w]
           \/ /\ sms' = sms
              /\ worker'[w].msg = worker[w].msg
              /\ worker'[w].seen = AlertsSeen(sms[worker[w].msg])
<1>1. worker \in [Workers -> WorkerPlace]
  BY DEF TypeOK
<1>2. CASE worker' = worker
  BY <1>2
<1>3. ASSUME NEW v \in Workers, WorkerSnapshots(v)
      PROVE  \/ worker'[w] = worker[w]
             \/ /\ sms' = sms
                /\ worker'[w].msg = worker[w].msg
                /\ worker'[w].seen = AlertsSeen(sms[worker[w].msg])
  <2>1. CASE v # w
    BY <1>1, <1>3, <2>1 DEF WorkerSnapshots
  <2>2. CASE v = w /\ job[worker[w].msg].owner = w
    BY <1>1, <1>3, <2>2 DEF WorkerSnapshots, WorkerPlace
  <2>3. CASE v = w /\ job[worker[w].msg].owner # w
    BY <1>1, <1>3, <2>3 DEF WorkerSnapshots, WorkerPlace
  <2> QED BY <2>1, <2>2, <2>3
<1>4. ASSUME NEW v \in Workers,
             \/ WorkerReads(v) \/ WorkerClaims(v) \/ WorkerMissesClaim(v)
             \/ WorkerExhausts(v) \/ WorkerPoisons(v) \/ WorkerFails(v)
             \/ WorkerBacksOff(v) \/ InferenceFails(v) \/ LeaseWasLost(v)
             \/ WorkerDeletes(v) \/ WorkerHides(v) \/ WorkerCrashes(v)
             \/ WorkerRecovers(v)
      PROVE  worker'[w] = worker[w]
  BY <1>1, <1>4
     DEF WorkerReads, WorkerClaims, WorkerMissesClaim, WorkerExhausts,
         WorkerPoisons, WorkerFails, WorkerBacksOff, InferenceFails,
         LeaseWasLost, WorkerDeletes, WorkerHides, WorkerCrashes,
         WorkerRecovers, Goto, Rest, RestingWorker, WorkerPlace
<1>5. ASSUME NEW v \in Workers,
             \/ WorkerRechecks(v) \/ WorkerAcks(v)
             \/ \E s \in Slots : Receive(v, s)
             \/ \E b \in Buckets : CommitResult(v, b)
      PROVE  worker'[w] = worker[w]
  BY <1>1, <1>5 DEF WorkerRechecks, WorkerAcks, Receive, CommitResult, Goto,
                    Rest, RestingWorker, WorkerPlace
<1>6. ASSUME NEW r \in Requests, NEW m \in Messages, RequestStep(r, m)
      PROVE  worker' = worker
  BY <1>6 DEF RequestStep, GetForOwner, RetryCreates, RetryPublishes, RetryResets
<1>7. ASSUME NEW p \in Publishers,
             PublishStep(p) \/ PublishFails(p) \/ PublisherCrashes(p)
      PROVE  worker' = worker
  BY <1>7 DEF PublishStep, PublishReads, PublishSends, PublishMarks,
              PublishDefers, PublishFails, PublisherCrashes
<1>8. CASE RepairStep \/ Wake \/ TimePasses \/ UNCHANGED vars
           \/ (\E s \in Slots : DeliveryLost(s))
           \/ (\E v \in Workers : WorkerRenews(v))
           \/ (\E m \in Messages : PurgeExpiredData(m))
  BY <1>8 DEF RepairStep, RepairSelects, RepairPoisons, RepairExhausts,
              RepairRepublishes, Wake, TimePasses, BecomesDue, LeaseExpires,
              PublicationAges, DeliveryReappears, NewDay, DeliveryLost,
              WorkerRenews, PurgeExpiredData, vars
<1> QED BY <1>2, <1>3, <1>4, <1>5, <1>6, <1>7, <1>8 DEF Next, WorkerStep, Fault

\* A worker that stays where it is owns a job only if it did before.
LEMMA OwnsFromBefore ==
    ASSUME TypeOK, NEW w \in Workers, NEW m \in Messages, [Next]_vars,
           worker'[w] = worker[w], job'[m].owner = w
    PROVE  job[m].owner = w
<1>1. job[m] \in JobRow /\ RowMove(m) /\ w # None
  BY RowMoves, QueueAssumption DEF TypeOK, QueueAssumption
<1>2. CASE job'[m] = job[m]
  BY <1>2
<1>3. CASE GetsOlder(m) \/ \E v \in Workers : IsRenewed(m, v)
  BY <1>3, AgedFields
<1>4. CASE IsPublished(m)
  BY <1>1, <1>4, WrittenFields DEF IsPublished
<1>5. ASSUME NEW v \in Workers, IsClaimed(m, v)
      PROVE  FALSE
  <2>1. v = w
    BY <1>1, <1>5, WrittenFields DEF IsClaimed
  <2> QED BY <1>5, <2>1 DEF IsClaimed
<1>6. CASE \/ Opens(m) \/ IsRefused(m) \/ IsExhausted(m) \/ IsTakenBack(m)
           \/ IsPurged(m)
           \/ \E v \in Workers : IsGivenUp(m, v) \/ IsVerified(m, v)
  BY <1>1, <1>6, WrittenFields, NoJobFields
     DEF Opens, IsRefused, IsExhausted, IsTakenBack, IsPurged, IsGivenUp,
         IsVerified
<1> QED BY <1>1, <1>2, <1>3, <1>4, <1>5, <1>6 DEF RowMove

LEMMA SeenIsCurrentNext ==
    ASSUME TypeOK, SeenIsCurrent, [Next]_vars
    PROVE  SeenIsCurrent'
<1> SUFFICES ASSUME NEW w \in Workers, NEW m \in Messages,
                    worker'[w].pc = "infer", worker'[w].msg = m,
                    job'[m].owner = w
             PROVE  worker'[w].seen = AlertsSeen(sms'[m])
  BY DEF SeenIsCurrent
<1>1. CASE /\ sms' = sms
           /\ worker'[w].msg = worker[w].msg
           /\ worker'[w].seen = AlertsSeen(sms[worker[w].msg])
  BY <1>1
<1>2. CASE worker'[w] = worker[w]
  <2>1. job[m].owner = w /\ worker[w].seen = AlertsSeen(sms[m])
    BY <1>2, OwnsFromBefore DEF SeenIsCurrent
  <2>2. job'[m] # NoJob
    BY NoJobFields, QueueAssumption DEF QueueAssumption
  <2>3. ASSUME NEW v \in Workers, HoldsLease(v, job[m]), worker'[v].pc # "infer"
        PROVE  FALSE
    BY <2>1, <2>3 DEF HoldsLease
  <2>4. sms'[m] = sms[m]
    BY <2>2, <2>3, MessageMoves
  <2> QED BY <1>2, <2>1, <2>4
<1> QED BY <1>1, <1>2, ReachesInfer

LEMMA OneAlertNext ==
    ASSUME TypeOK, SeenIsCurrent, OneAlertFromVerification, [Next]_vars
    PROVE  OneAlertFromVerification'
<1> SUFFICES ASSUME NEW m \in Messages
             PROVE  AlertRows(sms'[m]) <= 1
  BY DEF OneAlertFromVerification
<1>1. sms[m] \in SmsRow /\ AlertRows(sms[m]) <= 1
  BY DEF TypeOK, OneAlertFromVerification
<1>2. CASE sms'[m] = sms[m]
  BY <1>1, <1>2
<1>3. CASE sms'[m] = Purged(sms[m])
  BY <1>1, <1>3 DEF Purged, SmsRow, AlertRows
<1>4. ASSUME NEW w \in Workers, NEW b \in Buckets,
             worker[w].msg = m, worker[w].pc = "infer", HoldsLease(w, job[m]),
             sms'[m] = Judged(sms[m], worker[w].seen, b)
      PROVE  AlertRows(sms'[m]) <= 1
  <2>1. worker[w].seen = AlertsSeen(sms[m])
    BY <1>4 DEF HoldsLease, SeenIsCurrent
  <2> DEFINE left == PendingAfter(sms[m], worker[w].seen, b = "blocked",
                                  sms[m].blocked)
  <2>2. /\ sms[m].pending \in Nat /\ sms[m].silenced \in Nat
        /\ sms[m].reported \in Nat
        /\ sms[m].pending + sms[m].silenced + sms[m].reported <= 1
    BY <1>1 DEF SmsRow, AlertRows
  <2>3. left + sms[m].silenced + sms[m].reported <= 1
    BY <2>1, <2>2 DEF PendingAfter, AlertsSeen
  <2>4. AlertRows(sms'[m]) = left + sms[m].silenced + sms[m].reported
    BY <1>1, <1>4 DEF Judged, SmsRow, AlertRows
  <2> QED BY <2>3, <2>4
<1> QED BY <1>2, <1>3, <1>4, MessageMoves

\* Verification by itself never raises a second alert, for any number of
\* workers, lost leases, crashes, repairs and retries.
THEOREM AlertsOnce == Spec => []OneAlertFromVerification
<1>1. Init => SeenIsCurrent
  BY DEF Init, InitWork, RestingWorker, SeenIsCurrent
<1>2. Init => OneAlertFromVerification
  BY CloudAssumption DEF CloudAssumption, Init, OneAlertFromVerification
<1>3. TypeOK /\ SeenIsCurrent /\ [Next]_vars => SeenIsCurrent'
  BY SeenIsCurrentNext
<1>4. TypeOK /\ SeenIsCurrent /\ OneAlertFromVerification /\ [Next]_vars
          => OneAlertFromVerification'
  BY OneAlertNext
<1> QED BY <1>1, <1>2, <1>3, <1>4, TypeCorrect, PTL DEF Spec

-------------------------------------------------------------------------------
(***************************************************************************)
(* Ingest next to verification (SmsIngest).  A step of verification does   *)
(* to a message and its job one of three things; ingest and the user keep  *)
(* what the message and its job say of each other, and what an ingest has  *)
(* seen of the message when it looked it up.                               *)
(***************************************************************************)
Commits(m) ==
    \E w \in Workers, b \in Buckets :
        /\ HoldsLease(w, job[m])
        /\ sms'[m] = Judged(sms[m], worker[w].seen, b)
        /\ job'[m] = Released(job[m], "verified")

Forgets(m) == job'[m] = NoJob /\ sms'[m] = Purged(sms[m])

IsQuiet(m) ==
    /\ sms'[m] = sms[m]
    /\ job'[m].status = "verified" => job[m].status = "verified"
    /\ job[m].status = "absent" /\ job'[m].status # "absent" => sms[m].life = "stored"

LEMMA QuietWrite ==
    ASSUME TypeOK, NEW m \in Messages, NEW n, NEW row,
           job' = [job EXCEPT ![n] = row], sms' = sms,
           n \in Messages =>
               /\ row.status # "verified" \/ row.status = job[n].status
               /\ job[n].status # "absent" \/ sms[n].life = "stored"
    PROVE  IsQuiet(m)
<1>1. job \in [Messages -> JobRow]
  BY DEF TypeOK
<1>2. CASE n = m
  BY <1>1, <1>2 DEF IsQuiet
<1>3. CASE n # m
  BY <1>1, <1>3 DEF IsQuiet
<1> QED BY <1>2, <1>3

LEMMA RequestsAreQuiet ==
    ASSUME TypeOK, NEW m \in Messages, NEW r \in Requests, NEW n \in Messages,
           RequestStep(r, n)
    PROVE  IsQuiet(m)
<1>1. ASSUME CreateJob(n, FALSE), sms[n].life = "stored", sms' = sms
      PROVE  IsQuiet(m)
  <2>1. PICK s \in {"pending", "failed"} : job' = [job EXCEPT ![n] = NewJob(s)]
    BY <1>1 DEF CreateJob
  <2>2. NewJob(s).status = s
    BY DEF NewJob
  <2> QED BY <1>1, <2>1, <2>2, QuietWrite
<1>2. CASE GetForOwner(r, n) \/ RetryCreates(r, n)
  BY <1>1, <1>2 DEF GetForOwner, RetryCreates
<1>3. CASE RetryPublishes(r, n)
  BY <1>3 DEF RetryPublishes, IsQuiet
<1>4. CASE RetryResets(r, n)
  <2>1. NewJob("pending").status = "pending"
    BY DEF NewJob
  <2> QED BY <1>4, <2>1, QuietWrite DEF RetryResets
<1> QED BY <1>2, <1>3, <1>4 DEF RequestStep

LEMMA PublicationsAreQuiet ==
    ASSUME TypeOK, NEW m \in Messages, NEW p \in Publishers, PublishStep(p)
    PROVE  IsQuiet(m)
<1>1. CASE PublishReads(p) \/ PublishSends(p)
  BY <1>1 DEF PublishReads, PublishSends, IsQuiet
<1>2. ASSUME NEW n, NEW row, n \in Messages => row \in {Marked(job[n]), Deferred(job[n])},
             job' = IF Publishable(job[n]) THEN [job EXCEPT ![n] = row] ELSE job,
             sms' = sms
      PROVE  IsQuiet(m)
  <2>1. CASE Publishable(job[n])
    <3>1. n \in Messages => row.status \in Waiting /\ job[n].status \in Waiting
      <4>1. n \in Messages => job[n] \in JobRow
        BY DEF TypeOK
      <4> QED BY <1>2, <2>1, <4>1, WrittenFields DEF Publishable
    <3> QED BY <1>2, <2>1, <3>1, QuietWrite DEF Waiting
  <2>2. CASE ~Publishable(job[n])
    BY <1>2, <2>2 DEF IsQuiet
  <2> QED BY <2>1, <2>2
<1>3. CASE PublishMarks(p)
  BY <1>2, <1>3 DEF PublishMarks
<1>4. CASE PublishDefers(p)
  BY <1>2, <1>4 DEF PublishDefers
<1> QED BY <1>1, <1>3, <1>4 DEF PublishStep

LEMMA RepairsAreQuiet ==
    ASSUME TypeOK, NEW m \in Messages, RepairStep
    PROVE  IsQuiet(m)
<1>1. CASE RepairSelects \/ RepairPoisons
  BY <1>1 DEF RepairSelects, RepairPoisons, IsQuiet
<1>2. ASSUME NEW t \in Selected, RepairExhausts(t) \/ RepairRepublishes(t)
      PROVE  IsQuiet(m)
  <2>1. t.msg \in Messages /\ job[t.msg] \in JobRow
    BY DEF Selected, TypeOK
  <2>2. /\ Released(job[t.msg], "failed").status = "failed"
        /\ TakenBack(job[t.msg]).status = "retryable_failure"
    BY <2>1, WrittenFields
  <2>3. CASE job' = job
    BY <1>2, <2>3 DEF RepairExhausts, RepairRepublishes, IsQuiet
  <2>4. CASE job' # job /\ RepairExhausts(t)
    <3>1. Exhaustible(job[t.msg]) /\ sms' = sms
          /\ job' = [job EXCEPT ![t.msg] = Released(job[t.msg], "failed")]
      BY <2>4 DEF RepairExhausts
    <3> QED BY <2>2, <3>1, QuietWrite DEF Exhaustible
  <2>5. CASE job' # job /\ RepairRepublishes(t)
    <3>1. job[t.msg].status = "processing" /\ sms' = sms
          /\ job' = [job EXCEPT ![t.msg] = TakenBack(job[t.msg])]
      BY <2>5 DEF RepairRepublishes
    <3> QED BY <2>2, <3>1, QuietWrite
  <2> QED BY <1>2, <2>3, <2>4, <2>5
<1> QED BY <1>1, <1>2 DEF RepairStep

\* A worker is quiet, too, except when it commits.
LEMMA WorkersAreQuiet ==
    ASSUME TypeOK, LeaseMeansProcessing, NEW m \in Messages, NEW w \in Workers,
           WorkerStep(w) \/ WorkerRenews(w)
    PROVE  Commits(m) \/ IsQuiet(m)
<1> DEFINE n == worker[w].msg
<1>1. /\ n \in Messages \cup {None} /\ job \in [Messages -> JobRow] /\ w # None
      /\ sms \in [Messages -> SmsRow]
  BY QueueAssumption DEF TypeOK, WorkerPlace, QueueAssumption
<1>2. ASSUME NEW row, job' = [job EXCEPT ![n] = row], sms' = sms,
             n \in Messages => row.status \in {"processing", "failed", "retryable_failure"}
                                   /\ job[n].status # "absent"
      PROVE  IsQuiet(m)
  BY <1>2, QuietWrite
<1>3. n \in Messages /\ job[n].owner = w => job[n].status = "processing"
  BY <1>1 DEF LeaseMeansProcessing
<1>4. n \in Messages =>
          /\ Claimed(job[n], w).status = "processing"
          /\ Released(job[n], "failed").status = "failed"
          /\ PutOff(job[n]).status = "retryable_failure"
  BY <1>1, WrittenFields
<1>5. CASE WorkerClaims(w)
  BY <1>2, <1>4, <1>5 DEF WorkerClaims, Claimable, Open, Waiting
<1>6. CASE WorkerExhausts(w)
  <2>1. CASE Exhaustible(job[n])
    BY <1>2, <1>4, <1>6, <2>1 DEF WorkerExhausts, Exhaustible
  <2>2. CASE ~Exhaustible(job[n])
    BY <1>6, <2>2 DEF WorkerExhausts, IsQuiet
  <2> QED BY <2>1, <2>2
<1>7. CASE WorkerFails(w)
  <2>1. CASE job[n].owner = w
    BY <1>2, <1>3, <1>4, <1>7, <2>1 DEF WorkerFails
  <2>2. CASE job[n].owner # w
    BY <1>7, <2>2 DEF WorkerFails, IsQuiet
  <2> QED BY <2>1, <2>2
<1>8. CASE WorkerBacksOff(w)
  <2>1. CASE job[n].owner = w
    BY <1>2, <1>3, <1>4, <1>8, <2>1 DEF WorkerBacksOff
  <2>2. CASE job[n].owner # w
    BY <1>8, <2>2 DEF WorkerBacksOff, IsQuiet
  <2> QED BY <2>1, <2>2
<1>9. CASE WorkerRenews(w)
  <2>1. CASE job[n].owner = w
    <3>1. job' = [job EXCEPT ![n] = [job[n] EXCEPT !.live = TRUE]] /\ sms' = sms
      BY <1>9, <2>1 DEF WorkerRenews
    <3>2. n \in Messages => [job[n] EXCEPT !.live = TRUE].status = job[n].status
      BY <1>1 DEF JobRow
    <3> QED BY <1>2, <1>3, <2>1, <3>1, <3>2
  <2>2. CASE job[n].owner # w
    BY <1>9, <2>2 DEF WorkerRenews, IsQuiet
  <2> QED BY <2>1, <2>2
<1>10. ASSUME NEW b \in Buckets, CommitResult(w, b)
       PROVE  Commits(m) \/ IsQuiet(m)
  <2>1. CASE n = m
    BY <1>1, <1>10, <2>1 DEF CommitResult, Commits
  <2>2. CASE n # m
    BY <1>1, <1>10, <2>2 DEF CommitResult, IsQuiet
  <2> QED BY <2>1, <2>2
<1>11. CASE \/ WorkerReads(w) \/ WorkerMissesClaim(w) \/ WorkerRechecks(w)
            \/ WorkerPoisons(w) \/ WorkerDeletes(w) \/ WorkerSnapshots(w)
            \/ InferenceFails(w) \/ LeaseWasLost(w) \/ WorkerAcks(w)
            \/ WorkerRecovers(w) \/ WorkerHides(w)
  BY <1>11 DEF WorkerReads, WorkerMissesClaim, WorkerRechecks, WorkerPoisons,
               WorkerDeletes, WorkerSnapshots, InferenceFails, LeaseWasLost,
               WorkerAcks, WorkerRecovers, WorkerHides, IsQuiet
<1> QED BY <1>5, <1>6, <1>7, <1>8, <1>9, <1>10, <1>11 DEF WorkerStep

LEMMA VerificationMoves ==
    ASSUME TypeOK, LeaseMeansProcessing, NEW m \in Messages, [Next]_vars
    PROVE  Commits(m) \/ Forgets(m) \/ IsQuiet(m)
<1>1. job \in [Messages -> JobRow] /\ sms \in [Messages -> SmsRow]
  BY DEF TypeOK
<1>2. ASSUME NEW n \in Messages, BecomesDue(n) \/ LeaseExpires(n) \/ PublicationAges(n)
      PROVE  IsQuiet(m)
  <2>1. PICK row \in {[job[n] EXCEPT !.due = TRUE], [job[n] EXCEPT !.live = FALSE],
                      [job[n] EXCEPT !.published = "stale"]} :
            job' = [job EXCEPT ![n] = row] /\ sms' = sms
    BY <1>2 DEF BecomesDue, LeaseExpires, PublicationAges
  <2>2. row.status = job[n].status
    BY <1>1, <2>1 DEF JobRow
  <2> QED BY <1>1, <2>1, <2>2 DEF IsQuiet
<1>3. ASSUME NEW n \in Messages, PurgeExpiredData(n)
      PROVE  Forgets(m) \/ IsQuiet(m)
  BY <1>1, <1>3 DEF PurgeExpiredData, Forgets, IsQuiet
<1>4. CASE Wake \/ Fault \/ UNCHANGED vars \/ NewDay
           \/ (\E s \in Slots : DeliveryReappears(s))
           \/ (\E w \in Workers, s \in Slots : Receive(w, s))
  BY <1>4 DEF Wake, Fault, PublishFails, PublisherCrashes, WorkerCrashes, DeliveryLost,
              vars, NewDay, DeliveryReappears, Receive, IsQuiet
<1> QED BY <1>2, <1>3, <1>4, RequestsAreQuiet, PublicationsAreQuiet, RepairsAreQuiet,
           WorkersAreQuiet
        DEF Next, TimePasses

\* What a message and its job say of each other.
Fits(row, j) ==
    /\ j.status # "absent" => row.life = "stored"
    /\ j.status = "verified" => row.trusted
    /\ j.status = "processing" => j.attempts >= 1
    /\ row.trusted => row.life = "stored" /\ row.bucket # "none"
    /\ row.life # "stored" => AlertRows(row) = 0
    /\ AlertRows(row) > 1 => j.status = "verified" /\ j.attempts >= 1
    /\ AlertRows(row) <= 2

\* What an ingest has seen of a message is still so as far as it writes by it.
Looked(i, row) ==
    /\ row.life # "new"
    /\ row.life = "stored" =>
        /\ i.judged => row.bucket # "none"
        /\ ~i.trusted /\ ~row.trusted /\ i.seen = "none" /\ (i.judged \/ row.bucket = "none")
               => AlertRows(row) = 0

RecordsFit == \A m \in Messages : Fits(sms[m], job[m])
LooksHold ==
    \A r \in Requests :
        /\ ingest[r].pc # "idle" => ingest[r].msg \in Messages
        /\ ingest[r].pc = "update" => Looked(ingest[r], sms[ingest[r].msg])

IngestInv == IngestTypeOK /\ LeaseMeansProcessing /\ RecordsFit /\ LooksHold

LEMMA IngestInvStarts == IngestInit => IngestInv
<1> SUFFICES ASSUME IngestInit PROVE IngestInv
  OBVIOUS
<1>1. TypeOK
  BY TypeInit DEF IngestInit
<1>2. IngestTypeOK
  <2>1. RestingIngest \in IngestPlace
    BY DEF RestingIngest, IngestPlace
  <2> QED BY <1>1, <2>1 DEF IngestTypeOK, IngestInit
<1>3. LeaseMeansProcessing
  BY NoJobFields DEF IngestInit, Init, InitWork, LeaseMeansProcessing
<1>4. RecordsFit
  <2>1. ASSUME NEW m \in Messages PROVE Fits(sms[m], job[m])
    <3>1. sms[m] \in StoredRows /\ job[m] = NoJob
      BY DEF IngestInit, Init, InitWork
    <3>2. /\ sms[m] \in SmsRow /\ sms[m].life # "purged" /\ AlertRows(sms[m]) <= 1
          /\ sms[m].life = "new" => AlertRows(sms[m]) = 0
          /\ sms[m].trusted => sms[m].life = "stored" /\ sms[m].bucket # "none"
      BY <3>1, CloudAssumption, IngestAssumption DEF CloudAssumption, IngestAssumption
    <3>3. sms[m].life \in {"new", "stored", "purged"} /\ AlertRows(sms[m]) \in Nat
      BY <3>2 DEF SmsRow, AlertRows
    <3> QED BY <3>1, <3>2, <3>3, NoJobFields DEF Fits
  <2> QED BY <2>1 DEF RecordsFit
<1>5. LooksHold
  BY DEF LooksHold, IngestInit, RestingIngest
<1> QED BY <1>2, <1>3, <1>4, <1>5 DEF IngestInv

\* Verification keeps both.
LEMMA JudgedFields ==
    ASSUME NEW row \in SmsRow, NEW b \in Buckets, NEW seen \in {"none", "pending", "acted"}
    PROVE  LET new == Judged(row, seen, b) IN
           /\ new.life = row.life /\ new.trusted /\ new.bucket = b /\ new.blocked = row.blocked
           /\ row.life \in {"new", "stored", "purged"}
           /\ AlertRows(row) \in Nat /\ AlertRows(new) \in Nat
           /\ AlertRows(new) <= AlertRows(row) + 1
<1> DEFINE p == PendingAfter(row, seen, b = "blocked", row.blocked)
<1>1. p \in Nat /\ p <= row.pending + 1
  BY DEF PendingAfter, SmsRow
<1>2. /\ Judged(row, seen, b).life = row.life /\ Judged(row, seen, b).trusted
      /\ Judged(row, seen, b).bucket = b /\ Judged(row, seen, b).blocked = row.blocked
      /\ row.life \in {"new", "stored", "purged"}
  BY DEF Judged, SmsRow
<1>3. AlertRows(row) \in Nat
  BY DEF SmsRow, AlertRows
<1>4. Judged(row, seen, b) \in SmsRow
  BY VerdictTypes
<1>5. AlertRows(Judged(row, seen, b)) \in Nat
  BY <1>4 DEF SmsRow, AlertRows
<1>6. AlertRows(Judged(row, seen, b)) <= AlertRows(row) + 1
  <2>1. /\ Judged(row, seen, b).pending = p
        /\ Judged(row, seen, b).silenced = row.silenced
        /\ Judged(row, seen, b).reported = row.reported
    BY DEF Judged, SmsRow
  <2>2. row.pending \in Nat /\ row.silenced \in Nat /\ row.reported \in Nat
    BY DEF SmsRow
  <2> HIDE DEF p
  <2> QED BY <1>1, <2>1, <2>2 DEF AlertRows
<1> QED BY <1>2, <1>3, <1>5, <1>6

LEMMA PurgedFields ==
    ASSUME NEW row \in SmsRow
    PROVE  /\ Purged(row).life = "purged" /\ ~Purged(row).trusted
           /\ AlertRows(Purged(row)) = 0
  BY DEF Purged, SmsRow, AlertRows

LEMMA VerificationFits ==
    ASSUME TypeOK, LeaseMeansProcessing, NEW m \in Messages, [Next]_vars,
           Fits(sms[m], job[m])
    PROVE  Fits(sms'[m], job'[m])
<1>1. /\ job[m] \in JobRow /\ sms[m] \in SmsRow /\ worker \in [Workers -> WorkerPlace]
  BY DEF TypeOK
<1>2. Commits(m) \/ Forgets(m) \/ IsQuiet(m)
  BY VerificationMoves
<1>3. CASE Commits(m)
  <2>1. PICK w \in Workers, b \in Buckets :
            /\ HoldsLease(w, job[m])
            /\ sms'[m] = Judged(sms[m], worker[w].seen, b)
            /\ job'[m] = Released(job[m], "verified")
    BY <1>3 DEF Commits
  <2>2. worker[w].seen \in {"none", "pending", "acted"}
    BY <1>1 DEF WorkerPlace
  <2>3. sms'[m].life = sms[m].life /\ sms'[m].trusted /\ sms'[m].bucket = b
    BY <1>1, <2>1, <2>2, JudgedFields
  <2>4. job'[m].status = "verified" /\ job'[m].attempts = job[m].attempts
    BY <1>1, <2>1, WrittenFields
  <2>5. sms[m].life = "stored" /\ job[m].attempts >= 1 /\ AlertRows(sms[m]) <= 1
    <3>1. AlertRows(sms[m]) \in Nat
      BY <1>1 DEF SmsRow, AlertRows
    <3> QED BY <2>1, <3>1 DEF Fits, HoldsLease
  <2>6. AlertRows(sms'[m]) <= 2
    <3>1. /\ AlertRows(sms[m]) \in Nat /\ AlertRows(sms'[m]) \in Nat
          /\ AlertRows(sms'[m]) <= AlertRows(sms[m]) + 1
      BY <1>1, <2>1, <2>2, JudgedFields
    <3> QED BY <2>5, <3>1
  <2> QED BY <2>3, <2>4, <2>5, <2>6 DEF Fits, Buckets
<1>4. CASE Forgets(m)
  BY <1>1, <1>4, PurgedFields, NoJobFields DEF Forgets, Fits
<1>5. CASE IsQuiet(m)
  <2>1. RowMove(m)
    BY RowMoves
  <2>2. job'[m].status = "processing" => job'[m].attempts >= 1
    <3>1. CASE job'[m] = job[m]
      BY <3>1 DEF Fits
    <3>2. CASE GetsOlder(m) \/ \E w \in Workers : IsRenewed(m, w)
      BY <3>2, AgedFields DEF Fits
    <3>3. ASSUME NEW w \in Workers, IsClaimed(m, w)
          PROVE  job'[m].attempts >= 1
      <4>1. job'[m].attempts = job[m].attempts + 1 /\ job[m].attempts \in Nat
        BY <1>1, <3>3, WrittenFields DEF IsClaimed, JobRow
      <4> QED BY <4>1
    <3>4. CASE \/ Opens(m) \/ IsRefused(m) \/ IsPublished(m) \/ IsExhausted(m)
               \/ IsTakenBack(m) \/ IsPurged(m)
               \/ \E w \in Workers : IsGivenUp(m, w) \/ IsVerified(m, w)
      BY <1>1, <3>4, WrittenFields, NoJobFields
         DEF Opens, IsRefused, IsPublished, IsExhausted, IsTakenBack, IsPurged, IsGivenUp,
             IsVerified, Waiting
    <3> QED BY <2>1, <3>1, <3>2, <3>3, <3>4 DEF RowMove
  <2>3. job[m].status = "verified" /\ sms[m].life = "stored" =>
            job'[m].status = "verified" /\ job'[m].attempts = job[m].attempts
    <3> SUFFICES ASSUME job[m].status = "verified", sms[m].life = "stored"
                 PROVE  job'[m].status = "verified" /\ job'[m].attempts = job[m].attempts
      OBVIOUS
    <3>1. CASE job'[m] = job[m]
      BY <3>1
    <3>2. CASE GetsOlder(m) \/ \E w \in Workers : IsRenewed(m, w)
      BY <3>2, AgedFields
    <3>3. ~IsPurged(m)
      BY <1>5 DEF IsQuiet, IsPurged
    <3>4. job[m].owner = None
      BY DEF LeaseMeansProcessing
    <3>5. /\ ~Opens(m) /\ ~IsRefused(m) /\ ~IsPublished(m) /\ ~IsExhausted(m) /\ ~IsTakenBack(m)
          /\ \A w \in Workers : ~IsClaimed(m, w) /\ ~IsGivenUp(m, w) /\ ~IsVerified(m, w)
      BY <3>4, QueueAssumption
         DEF Opens, IsRefused, IsPublished, Publishable, IsExhausted, Exhaustible, IsTakenBack,
             IsClaimed, Claimable, IsGivenUp, IsVerified, HoldsLease, Open, Waiting,
             QueueAssumption
    <3> QED BY <2>1, <3>1, <3>2, <3>3, <3>5 DEF RowMove
  <2>4. AlertRows(sms[m]) > 1 => sms[m].life = "stored"
    <3>1. AlertRows(sms[m]) \in Nat
      BY <1>1 DEF SmsRow, AlertRows
    <3> QED BY <3>1 DEF Fits
  <2>5. job'[m].status # "absent" => sms'[m].life = "stored"
    BY <1>5 DEF IsQuiet, Fits
  <2> QED BY <1>5, <2>2, <2>3, <2>4, <2>5 DEF IsQuiet, Fits
<1> QED BY <1>2, <1>3, <1>4, <1>5

LEMMA VerificationLooked ==
    ASSUME TypeOK, LeaseMeansProcessing, NEW m \in Messages, [Next]_vars,
           NEW i, Looked(i, sms[m])
    PROVE  Looked(i, sms'[m])
<1>1. /\ sms[m] \in SmsRow /\ worker \in [Workers -> WorkerPlace]
  BY DEF TypeOK
<1>2. Commits(m) \/ Forgets(m) \/ IsQuiet(m)
  BY VerificationMoves
<1>3. CASE Commits(m)
  <2>1. PICK w \in Workers, b \in Buckets : sms'[m] = Judged(sms[m], worker[w].seen, b)
    BY <1>3 DEF Commits
  <2>2. worker[w].seen \in {"none", "pending", "acted"}
    BY <1>1 DEF WorkerPlace
  <2>3. sms'[m].life = sms[m].life /\ sms'[m].trusted /\ sms'[m].bucket = b
    BY <1>1, <2>1, <2>2, JudgedFields
  <2> QED BY <2>3 DEF Looked, Buckets
<1>4. CASE Forgets(m)
  BY <1>1, <1>4, PurgedFields DEF Forgets, Looked
<1>5. CASE IsQuiet(m)
  BY <1>5 DEF IsQuiet
<1> QED BY <1>2, <1>3, <1>4, <1>5

\* What a step leaves of a message, as far as both are concerned.
SameRow(new, row) ==
    /\ new.life = row.life /\ new.trusted = row.trusted /\ new.bucket = row.bucket
    /\ AlertRows(new) = AlertRows(row)

\* A request that finds no job makes one, verified only if it has a verdict.
LEMMA EnsuredJob ==
    ASSUME TypeOK, NEW r \in Requests, NEW m \in Messages, NEW v \in BOOLEAN,
           EnsureJob(r, m, v)
    PROVE  /\ job' \in [Messages -> JobRow]
           /\ pub' \in [Publishers -> PublisherPlace]
           /\ admitted' \in [day : 0..DailyLimit, month : 0..MonthlyLimit]
           /\ credit' \in [Messages -> Int]
           /\ \A n \in Messages : n # m => job'[n] = job[n]
           /\ job[m].status # "absent" => job'[m] = job[m]
           /\ job[m].status = "absent" =>
                \E s \in {"pending", "failed", "verified"} :
                    job'[m] = NewJob(s) /\ (s = "verified" => v)
<1>1. pub' \in [Publishers -> PublisherPlace]
  BY DEF EnsureJob, Publishing, Idle, PublisherPlace, Publishers, TypeOK
<1>2. CASE job[m].status # "absent"
  BY <1>1, <1>2 DEF EnsureJob, CreateJob, TypeOK
<1>3. CASE job[m].status = "absent"
  <2>1. CreateJob(m, v)
    BY <1>3 DEF EnsureJob
  <2>2. PICK s \in {"pending", "failed", "verified"} :
            job' = [job EXCEPT ![m] = NewJob(s)] /\ (s = "verified" => v)
    BY <2>1 DEF CreateJob
  <2>3. job \in [Messages -> JobRow]
    BY DEF TypeOK
  <2>4. job'[m] = NewJob(s) /\ \A n \in Messages : n # m => job'[n] = job[n]
    BY <2>2, <2>3
  <2>5. job' \in [Messages -> JobRow]
    BY <2>2, <2>3, NewRowTypes
  <2>6. /\ admitted' \in [day : 0..DailyLimit, month : 0..MonthlyLimit]
        /\ credit' \in [Messages -> Int]
    BY <2>1, CloudAssumption
       DEF CreateJob, Admit, Grant, BudgetLeft, TypeOK, CloudAssumption
  <2> QED BY <1>1, <1>3, <2>2, <2>4, <2>5, <2>6
<1> QED BY <1>2, <1>3

LEMMA NewJobFields ==
    \A s : NewJob(s).status = s /\ NewJob(s).attempts = 0
  BY DEF NewJob

\* A row written under its job, old or newly made.
LEMMA WrittenFits ==
    ASSUME TypeOK, NEW r \in Requests, NEW m \in Messages, NEW v \in BOOLEAN,
           EnsureJob(r, m, v), Fits(sms[m], job[m]),
           NEW new \in SmsRow,
           new.life = "stored", new.trusted => new.bucket # "none",
           v \/ sms[m].trusted => new.trusted,
           AlertRows(new) <= 1 \/ AlertRows(new) <= AlertRows(sms[m])
    PROVE  Fits(new, job'[m])
<1>1. AlertRows(new) \in Nat /\ AlertRows(sms[m]) \in Nat
  BY DEF SmsRow, AlertRows, TypeOK
<1>2. CASE job[m].status # "absent"
  BY <1>1, <1>2, EnsuredJob DEF Fits
<1>3. CASE job[m].status = "absent"
  <2>1. AlertRows(sms[m]) <= 1
    BY <1>1, <1>3 DEF Fits
  <2>2. AlertRows(new) <= 1
    BY <1>1, <2>1
  <2>3. PICK s \in {"pending", "failed", "verified"} :
            job'[m] = NewJob(s) /\ (s = "verified" => v)
    BY <1>3, EnsuredJob
  <2> QED BY <1>1, <2>2, <2>3, NewJobFields DEF Fits
<1> QED BY <1>2, <1>3

\* What an ingest writes on a message that was there.
LEMMA AfterIngestFields ==
    ASSUME NEW row \in SmsRow, row.life = "stored", NEW i \in IngestPlace,
           Looked(i, row), ~UniqueClash(i, row), row.trusted => row.bucket # "none"
    PROVE  LET new == AfterIngest(i, row) IN
           /\ new \in SmsRow
           /\ new.life = "stored"
           /\ new.trusted => new.bucket # "none"
           /\ new.trusted = (row.trusted \/ Promotes(i, row))
           /\ AlertRows(new) <= 1 \/ AlertRows(new) <= AlertRows(row)
           /\ \A i2 : Looked(i2, row) => Looked(i2, new)
<1> DEFINE new == AfterIngest(i, row)
           p == PendingAfter(row, i.seen, i.alarm, i.blocked)
<1>1. row.pending \in Nat /\ row.silenced \in Nat /\ row.reported \in Nat
  BY DEF SmsRow
<1>2. CASE Promotes(i, row)
  <2>1. p \in Nat
    BY <1>1 DEF PendingAfter
  <2>2. i.verdict \in Buckets
    BY <1>2 DEF Promotes, IngestPlace
  <2>3. new = [row EXCEPT !.trusted = TRUE, !.bucket = i.verdict, !.pending = p]
    BY <1>2 DEF AfterIngest
  <2>4. /\ new \in SmsRow /\ new.life = "stored" /\ new.bucket = i.verdict /\ new.trusted
        /\ new.pending = p /\ new.silenced = row.silenced /\ new.reported = row.reported
    BY <2>1, <2>2, <2>3 DEF SmsRow
  <2>5. i.seen = "none" => AlertRows(row) = 0
    BY <1>2 DEF Looked, Promotes, UniqueClash
  <2>6. AlertRows(new) <= 1 \/ AlertRows(new) <= AlertRows(row)
    <3>1. p = 0 \/ p = row.pending \/ (p = row.pending + 1 /\ i.seen = "none")
      BY DEF PendingAfter
    <3> HIDE DEF p, new
    <3> QED BY <1>1, <2>4, <2>5, <3>1 DEF AlertRows
  <2>7. "none" \notin Buckets
    BY DEF Buckets
  <2> HIDE DEF p, new
  <2>8. \A i2 : Looked(i2, row) => Looked(i2, new)
    BY <2>2, <2>4, <2>7 DEF Looked
  <2> QED BY <1>2, <2>2, <2>4, <2>6, <2>7, <2>8 DEF new
<1>3. CASE ~Promotes(i, row) /\ Classifies(i, row)
  <2> DEFINE q == IF i.alarm /\ ~i.blocked /\ i.seen = "none"
                  THEN row.pending + 1 ELSE row.pending
  <2>1. q \in Nat
    BY <1>1
  <2>2. new = [row EXCEPT !.bucket = "other", !.pending = q]
    BY <1>3 DEF AfterIngest
  <2> HIDE DEF q
  <2>3. /\ new \in SmsRow /\ new.life = "stored" /\ new.bucket = "other"
        /\ new.trusted = row.trusted
        /\ new.pending = q /\ new.silenced = row.silenced /\ new.reported = row.reported
    BY <2>1, <2>2 DEF SmsRow, Buckets
  <2>4. ~i.judged /\ row.bucket = "none"
    BY <1>3 DEF Classifies, UniqueClash
  <2>5. ~row.trusted /\ ~i.trusted
    BY <1>3, <2>4 DEF Classifies
  <2>6. AlertRows(new) <= 1 \/ AlertRows(new) <= AlertRows(row)
    <3>1. i.seen = "none" => AlertRows(row) = 0
      BY <2>4, <2>5 DEF Looked
    <3>2. q = row.pending \/ (q = row.pending + 1 /\ i.seen = "none")
      BY DEF q
    <3> HIDE DEF new
    <3> QED BY <1>1, <2>3, <3>1, <3>2 DEF AlertRows
  <2> HIDE DEF new
  <2>7. \A i2 : Looked(i2, row) => Looked(i2, new)
    BY <2>3, <2>4 DEF Looked
  <2>8. new.trusted = (row.trusted \/ Promotes(i, row))
    <3>1. row.trusted \in BOOLEAN
      BY DEF SmsRow
    <3> QED BY <1>3, <2>3, <2>5, <3>1
  <2> QED BY <2>3, <2>6, <2>7, <2>8 DEF new
<1>4. CASE ~Promotes(i, row) /\ ~Classifies(i, row)
  <2>1. new = row
    BY <1>4 DEF AfterIngest
  <2>2. AlertRows(row) \in Nat /\ row.trusted \in BOOLEAN
    BY DEF SmsRow, AlertRows
  <2> HIDE DEF new
  <2>3. new.trusted = (row.trusted \/ Promotes(i, row))
    BY <1>4, <2>1, <2>2
  <2>4. AlertRows(new) <= AlertRows(row) /\ \A i2 : Looked(i2, row) => Looked(i2, new)
    BY <2>1, <2>2
  <2> QED BY <2>1, <2>3, <2>4 DEF new
<1> QED BY <1>2, <1>3, <1>4

\* Steps of ingest.  A request writes its own place, at most one message and
\* that message's job.
LEMMA PlaceWritten ==
    ASSUME IngestInv, NEW r \in Requests, NEW place \in IngestPlace,
           ingest' = [ingest EXCEPT ![r] = place], sms' = sms, job' = job,
           place.pc # "idle" => place.msg \in Messages,
           place.pc = "update" => Looked(place, sms[place.msg])
    PROVE  /\ ingest' \in [Requests -> IngestPlace]
           /\ LeaseMeansProcessing' /\ RecordsFit' /\ LooksHold'
<1>1. ingest \in [Requests -> IngestPlace]
  BY DEF IngestInv, IngestTypeOK
<1>2. ingest' \in [Requests -> IngestPlace]
  BY <1>1
<1>3. LeaseMeansProcessing' /\ RecordsFit'
  BY DEF IngestInv, LeaseMeansProcessing, RecordsFit
<1>4. ASSUME NEW q \in Requests
      PROVE  /\ ingest'[q].pc # "idle" => ingest'[q].msg \in Messages
             /\ ingest'[q].pc = "update" => Looked(ingest'[q], sms'[ingest'[q].msg])
  BY <1>1 DEF IngestInv, LooksHold
<1> QED BY <1>2, <1>3, <1>4 DEF LooksHold

LEMMA MessageWritten ==
    ASSUME IngestInv, NEW r \in Requests, NEW m \in Messages, NEW v \in BOOLEAN,
           NEW new \in SmsRow, sms' = [sms EXCEPT ![m] = new],
           EnsureJob(r, m, v), IngestEnds(r),
           Fits(new, job'[m]), \A i : Looked(i, sms[m]) => Looked(i, new),
           UNCHANGED <<queue, worker, repair, faults, reported, fraud>>
    PROVE  IngestInv'
<1>1. /\ TypeOK /\ ingest \in [Requests -> IngestPlace]
      /\ sms \in [Messages -> SmsRow] /\ job \in [Messages -> JobRow]
  BY DEF IngestInv, IngestTypeOK, TypeOK
<1>2. sms' \in [Messages -> SmsRow] /\ sms'[m] = new
      /\ \A n \in Messages : n # m => sms'[n] = sms[n] /\ job'[n] = job[n]
  BY <1>1, EnsuredJob
<1>3. TypeOK'
  BY <1>1, <1>2, EnsuredJob DEF TypeOK
<1>4. RestingIngest \in IngestPlace /\ RestingIngest.pc = "idle"
  BY DEF RestingIngest, IngestPlace
<1>5. IngestTypeOK'
  BY <1>1, <1>3, <1>4 DEF IngestInv, IngestTypeOK, IngestEnds
<1>6. LeaseMeansProcessing'
  <2>1. ASSUME NEW n \in Messages
        PROVE  /\ job'[n].owner # None <=> job'[n].status = "processing"
               /\ job'[n].live => job'[n].owner # None
    <3>1. CASE job'[n] = job[n]
      BY <3>1 DEF IngestInv, LeaseMeansProcessing
    <3>2. CASE job'[n] # job[n]
      <4>1. PICK s \in {"pending", "failed", "verified"} : job'[n] = NewJob(s)
        BY <1>1, <1>2, <3>2, EnsuredJob
      <4> QED BY <4>1 DEF NewJob
    <3> QED BY <3>1, <3>2
  <2> QED BY <2>1 DEF LeaseMeansProcessing
<1>7. RecordsFit'
  <2>1. ASSUME NEW n \in Messages PROVE Fits(sms'[n], job'[n])
    BY <1>2 DEF IngestInv, RecordsFit
  <2> QED BY <2>1 DEF RecordsFit
<1>8. LooksHold'
  <2>1. ASSUME NEW q \in Requests
        PROVE  /\ ingest'[q].pc # "idle" => ingest'[q].msg \in Messages
               /\ ingest'[q].pc = "update" => Looked(ingest'[q], sms'[ingest'[q].msg])
    <3>1. CASE q = r
      BY <1>1, <1>4, <3>1 DEF IngestEnds
    <3>2. CASE q # r
      <4>1. ingest'[q] = ingest[q]
        BY <1>1, <3>2 DEF IngestEnds
      <4> QED BY <1>2, <4>1 DEF IngestInv, LooksHold
    <3> QED BY <3>1, <3>2
  <2> QED BY <2>1 DEF LooksHold
<1> QED BY <1>5, <1>6, <1>7, <1>8 DEF IngestInv

\* The place of a request that found no message.
LEMMA PlaceEdits ==
    ASSUME NEW i \in IngestPlace
    PROVE  /\ i.verdict \in Buckets \cup {"none"}
           /\ [i EXCEPT !.pc = "insert"] \in IngestPlace
           /\ [i EXCEPT !.pc = "insert"].pc = "insert"
           /\ [i EXCEPT !.pc = "insert"].msg = i.msg
  BY DEF IngestPlace

LEMMA IngestStepKeeps ==
    ASSUME IngestInv, NEW r \in Requests, IngestStep(r)
    PROVE  IngestInv'
<1>1. /\ TypeOK /\ ingest \in [Requests -> IngestPlace]
      /\ sms \in [Messages -> SmsRow] /\ job \in [Messages -> JobRow]
      /\ pub \in [Publishers -> PublisherPlace]
  BY DEF IngestInv, IngestTypeOK, TypeOK
<1> DEFINE i == ingest[r]
           m == ingest[r].msg
<1>2. /\ i \in IngestPlace
      /\ i.pc # "idle" => m \in Messages
      /\ i.pc = "update" => Looked(i, sms[m])
  BY <1>1 DEF IngestInv, LooksHold
<1>3. RestingIngest \in IngestPlace /\ RestingIngest.pc = "idle"
  BY DEF RestingIngest, IngestPlace
<1>4. ASSUME vars' = vars, reported' = reported, fraud' = fraud,
             NEW place \in IngestPlace, ingest' = [ingest EXCEPT ![r] = place],
             place.pc # "idle" => place.msg \in Messages,
             place.pc = "update" => Looked(place, sms[place.msg])
      PROVE  IngestInv'
  <2>1. TypeOK'
    BY <1>1, <1>4 DEF TypeOK, vars
  <2>2. sms' = sms /\ job' = job
    BY <1>4 DEF vars
  <2> QED BY <1>4, <2>1, <2>2, PlaceWritten DEF IngestInv, IngestTypeOK
<1>5. ASSUME NEW n \in Messages, IngestStarts(r, n)
      PROVE  IngestInv'
  <2>1. PICK verdict \in Buckets \cup {"none"}, scam \in BOOLEAN :
            ingest' = [ingest EXCEPT ![r] =
               [@ EXCEPT !.pc = "look", !.msg = n, !.blocked = sms[n].blocked,
                         !.verdict = verdict,
                         !.alarm = \/ n \in fraud
                                   \/ verdict = "blocked"
                                   \/ verdict = "none" /\ scam]]
    BY <1>5 DEF IngestStarts
  <2> DEFINE alarm == n \in fraud \/ verdict = "blocked" \/ (verdict = "none" /\ scam)
             place == [i EXCEPT !.pc = "look", !.msg = n, !.blocked = sms[n].blocked,
                                !.verdict = verdict, !.alarm = alarm]
  <2>2. alarm \in BOOLEAN /\ sms[n].blocked \in BOOLEAN
    BY <1>1 DEF SmsRow
  <2>3. ingest' = [ingest EXCEPT ![r] = place]
    BY <2>1
  <2> HIDE DEF alarm
  <2>4. place \in IngestPlace /\ place.pc = "look" /\ place.msg = n
    <3>1. i \in IngestPlace
      BY <1>2
    <3> HIDE DEF i
    <3> QED BY <2>2, <3>1 DEF IngestPlace
  <2> HIDE DEF place
  <2> QED BY <1>4, <1>5, <2>3, <2>4 DEF IngestStarts
<1>6. CASE IngestLooks(r)
  <2> DEFINE row == sms[m]
             place == IF row.life = "stored"
                      THEN [i EXCEPT !.pc = "update", !.trusted = row.trusted,
                              !.judged = row.bucket # "none", !.seen = AlertsSeen(row)]
                      ELSE [i EXCEPT !.pc = "insert"]
  <2>1. i.pc = "look" /\ m \in Messages /\ row \in SmsRow
    BY <1>1, <1>2, <1>6 DEF IngestLooks
  <2>2. ingest' = [ingest EXCEPT ![r] = place]
    BY <1>6 DEF IngestLooks
  <2>3. /\ AlertsSeen(row) \in {"none", "pending", "acted"}
        /\ AlertsSeen(row) = "none" => AlertRows(row) = 0
    BY <2>1 DEF AlertsSeen, AlertRows, SmsRow
  <2>4. CASE row.life = "stored"
    <3>1. place = [i EXCEPT !.pc = "update", !.trusted = row.trusted,
                            !.judged = row.bucket # "none", !.seen = AlertsSeen(row)]
      BY <2>4
    <3> HIDE DEF place
    <3>2. /\ place \in IngestPlace /\ place.msg = i.msg
          /\ place.judged = (row.bucket # "none") /\ place.seen = AlertsSeen(row)
      <4>1. row.trusted \in BOOLEAN /\ (row.bucket # "none") \in BOOLEAN
        BY <2>1 DEF SmsRow
      <4>2. i \in IngestPlace
        BY <1>2
      <4> HIDE DEF i, row
      <4> QED BY <2>3, <3>1, <4>1, <4>2 DEF IngestPlace
    <3>3. Looked(place, row)
      BY <2>3, <2>4, <3>2 DEF Looked
    <3> QED BY <1>4, <1>6, <2>1, <2>2, <3>2, <3>3 DEF IngestLooks
  <2>5. CASE row.life # "stored"
    <3>1. place = [i EXCEPT !.pc = "insert"]
      BY <2>5
    <3> HIDE DEF place
    <3>2. place \in IngestPlace /\ place.msg = m /\ place.pc = "insert"
      BY <1>2, <3>1, PlaceEdits
    <3> QED BY <1>4, <1>6, <2>1, <2>2, <3>2 DEF IngestLooks
  <2> QED BY <2>4, <2>5
<1>7. CASE IngestUpdates(r)
  <2> DEFINE new == AfterIngest(i, sms[m])
             v == ~i.trusted /\ i.verdict # "none"
  <2>1. /\ i.pc = "update" /\ m \in Messages /\ sms[m] \in SmsRow
        /\ sms[m].life = "stored" /\ ~UniqueClash(i, sms[m]) /\ Looked(i, sms[m])
        /\ sms' = [sms EXCEPT ![m] = new] /\ EnsureJob(r, m, v) /\ IngestEnds(r)
        /\ UNCHANGED <<queue, worker, repair, faults, reported, fraud>>
    BY <1>1, <1>2, <1>7 DEF IngestUpdates
  <2>2. Fits(sms[m], job[m])
    BY <2>1 DEF IngestInv, RecordsFit
  <2>3. /\ new \in SmsRow /\ new.life = "stored" /\ (new.trusted => new.bucket # "none")
        /\ new.trusted = (sms[m].trusted \/ Promotes(i, sms[m]))
        /\ AlertRows(new) <= 1 \/ AlertRows(new) <= AlertRows(sms[m])
        /\ \A i2 : Looked(i2, sms[m]) => Looked(i2, new)
    <3>1. sms[m].trusted => sms[m].bucket # "none"
      BY <2>2 DEF Fits
    <3>2. i \in IngestPlace
      BY <1>2
    <3> HIDE DEF i, m
    <3> QED BY <2>1, <3>1, <3>2, AfterIngestFields
  <2>4. v \/ sms[m].trusted => new.trusted
    BY <2>3 DEF Promotes
  <2> HIDE DEF new
  <2>5. v \in BOOLEAN
    OBVIOUS
  <2> HIDE DEF v
  <2>6. Fits(new, job'[m])
    BY <1>1, <2>1, <2>2, <2>3, <2>4, <2>5, WrittenFits
  <2> QED BY <2>1, <2>3, <2>5, <2>6, MessageWritten
<1>8. CASE IngestInserts(r)
  <2> DEFINE v == i.verdict # "none"
             p == IF i.alarm /\ ~i.blocked THEN 1 ELSE 0
             b == IF i.verdict = "none" THEN "other" ELSE i.verdict
             new == [sms[m] EXCEPT !.life = "stored", !.trusted = v, !.bucket = b,
                                   !.pending = p]
  <2>1. /\ i.pc = "insert" /\ m \in Messages /\ sms[m] \in SmsRow
        /\ sms[m].life = "new"
        /\ sms' = [sms EXCEPT ![m] = new] /\ EnsureJob(r, m, v) /\ IngestEnds(r)
        /\ UNCHANGED <<queue, worker, repair, faults, reported, fraud>>
    BY <1>1, <1>2, <1>8 DEF IngestInserts
  <2>2. Fits(sms[m], job[m])
    BY <2>1 DEF IngestInv, RecordsFit
  <2>3. v \in BOOLEAN /\ p \in {0, 1} /\ b \in Buckets
    <3>1. i.verdict \in Buckets \cup {"none"}
      BY <1>2, PlaceEdits
    <3> QED BY <3>1 DEF Buckets
  <2> HIDE DEF v, p, b
  <2>4. /\ new \in SmsRow /\ new.life = "stored" /\ new.trusted = v /\ new.bucket = b
        /\ new.pending = p /\ new.silenced = sms[m].silenced
        /\ new.reported = sms[m].reported
    <3>1. sms[m] \in SmsRow
      BY <2>1
    <3>2. p \in Nat /\ b \in Buckets \cup {"none"}
      BY <2>3
    <3> HIDE DEF i, m
    <3> QED BY <2>3, <3>1, <3>2 DEF SmsRow
  <2> HIDE DEF new
  <2>5. sms[m].silenced = 0 /\ sms[m].reported = 0
    <3>1. AlertRows(sms[m]) = 0
      BY <2>1, <2>2 DEF Fits
    <3>2. sms[m].pending \in Nat /\ sms[m].silenced \in Nat /\ sms[m].reported \in Nat
      BY <2>1 DEF SmsRow
    <3> HIDE DEF i, m
    <3> QED BY <3>1, <3>2 DEF AlertRows
  <2>6. AlertRows(new) <= 1
    BY <2>3, <2>4, <2>5 DEF AlertRows
  <2>7. ~sms[m].trusted /\ new.bucket # "none"
    BY <2>1, <2>2, <2>3, <2>4 DEF Fits, Buckets
  <2>8. Fits(new, job'[m])
    BY <1>1, <2>1, <2>2, <2>3, <2>4, <2>6, <2>7, WrittenFits
  <2>9. \A i2 : Looked(i2, sms[m]) => Looked(i2, new)
    BY <2>1 DEF Looked
  <2> QED BY <2>1, <2>3, <2>4, <2>8, <2>9, MessageWritten
<1>9. CASE IngestClashes(r)
  <2>1. /\ m \in Messages /\ ingest' = [ingest EXCEPT ![r] = RestingIngest]
        /\ UNCHANGED <<job, sms, queue, worker, repair, admitted, credit, faults,
                       reported, fraud>>
    <3>1. i.pc # "idle"
      BY <1>9 DEF IngestClashes
    <3> QED BY <1>2, <1>9, <3>1 DEF IngestClashes, IngestEnds
  <2>2. pub' \in [Publishers -> PublisherPlace]
    BY <1>1, <1>9, <2>1 DEF IngestClashes, Idle, Publishing, PublisherPlace, Publishers
  <2>3. TypeOK'
    BY <1>1, <2>1, <2>2 DEF TypeOK
  <2>4. /\ ingest' \in [Requests -> IngestPlace]
        /\ LeaseMeansProcessing' /\ RecordsFit' /\ LooksHold'
    BY <1>3, <2>1, PlaceWritten
  <2> QED BY <2>1, <2>3, <2>4 DEF IngestInv, IngestTypeOK
<1>10. CASE IngestFails(r)
  BY <1>3, <1>4, <1>10 DEF IngestFails, IngestEnds
<1> QED BY <1>5, <1>6, <1>7, <1>8, <1>9, <1>10 DEF IngestStep

\* What users and administrators do leaves every message as it is to both.
LEMMA UserStepKeeps ==
    ASSUME IngestInv, NEW m \in Messages, UserStep(m)
    PROVE  IngestInv'
<1>1. /\ TypeOK /\ ingest \in [Requests -> IngestPlace]
      /\ sms \in [Messages -> SmsRow] /\ sms[m] \in SmsRow
  BY DEF IngestInv, IngestTypeOK, TypeOK
<1>2. sms[m].pending \in Nat /\ sms[m].silenced \in Nat /\ sms[m].reported \in Nat
  BY <1>1 DEF SmsRow
<1>3. ASSUME NEW new \in SmsRow, SameRow(new, sms[m]), sms' = [sms EXCEPT ![m] = new],
             UNCHANGED <<job, queue, worker, pub, repair, admitted, credit, faults, ingest>>,
             reported' \subseteq Messages, fraud' = fraud
      PROVE  IngestInv'
  <2>1. sms' \in [Messages -> SmsRow]
        /\ \A n \in Messages : SameRow(sms'[n], sms[n])
    BY <1>1, <1>3 DEF SameRow
  <2>2. TypeOK' /\ IngestTypeOK'
    BY <1>3, <2>1 DEF IngestInv, IngestTypeOK, TypeOK
  <2>3. LeaseMeansProcessing'
    BY <1>3 DEF IngestInv, LeaseMeansProcessing
  <2>4. RecordsFit'
    <3>1. ASSUME NEW n \in Messages PROVE Fits(sms'[n], job'[n])
      BY <1>3, <2>1 DEF IngestInv, RecordsFit, Fits, SameRow
    <3> QED BY <3>1 DEF RecordsFit
  <2>5. LooksHold'
    <3>1. ASSUME NEW q \in Requests
          PROVE  /\ ingest'[q].pc # "idle" => ingest'[q].msg \in Messages
                 /\ ingest'[q].pc = "update" => Looked(ingest'[q], sms'[ingest'[q].msg])
      BY <1>3, <2>1 DEF IngestInv, LooksHold, Looked, SameRow
    <3> QED BY <3>1 DEF LooksHold
  <2> QED BY <2>2, <2>3, <2>4, <2>5 DEF IngestInv
<1>4. CASE BlockSender(m)
  <2> DEFINE new == [sms[m] EXCEPT !.blocked = TRUE, !.pending = 0,
                        !.silenced = sms[m].silenced + sms[m].pending]
  <2>1. new \in SmsRow /\ SameRow(new, sms[m])
    <3>1. 0 \in Nat /\ (sms[m].silenced + sms[m].pending) \in Nat /\ sms[m].reported \in Nat
      BY <1>2 DEF AlertRows
    <3>2. /\ new \in SmsRow /\ new.pending = 0
          /\ new.silenced = (sms[m].silenced + sms[m].pending) /\ new.reported = sms[m].reported
          /\ new.life = sms[m].life /\ new.trusted = sms[m].trusted
          /\ new.bucket = sms[m].bucket
      BY <1>1, <1>2, <3>1 DEF SmsRow
    <3> HIDE DEF new
    <3> QED BY <1>2, <3>2 DEF SameRow, AlertRows
  <2>2. sms' = [sms EXCEPT ![m] = new]
    BY <1>4 DEF BlockSender
  <2> HIDE DEF new
  <2> QED BY <1>3, <1>4, <2>1, <2>2
          DEF BlockSender, ingestVars, IngestInv, IngestTypeOK
<1>5. CASE UnblockSender(m)
  <2> DEFINE new == [sms[m] EXCEPT !.blocked = FALSE, !.silenced = 0,
                        !.pending = sms[m].pending + sms[m].silenced]
  <2>1. new \in SmsRow /\ SameRow(new, sms[m])
    <3>1. (sms[m].pending + sms[m].silenced) \in Nat /\ 0 \in Nat /\ sms[m].reported \in Nat
      BY <1>2 DEF AlertRows
    <3>2. /\ new \in SmsRow /\ new.pending = (sms[m].pending + sms[m].silenced)
          /\ new.silenced = 0 /\ new.reported = sms[m].reported
          /\ new.life = sms[m].life /\ new.trusted = sms[m].trusted
          /\ new.bucket = sms[m].bucket
      BY <1>1, <1>2, <3>1 DEF SmsRow
    <3> HIDE DEF new
    <3> QED BY <1>2, <3>2 DEF SameRow, AlertRows
  <2>2. sms' = [sms EXCEPT ![m] = new]
    BY <1>5 DEF UnblockSender
  <2> HIDE DEF new
  <2> QED BY <1>3, <1>5, <2>1, <2>2
          DEF UnblockSender, ingestVars, IngestInv, IngestTypeOK
<1>6. CASE ReportMessage(m)
  <2> DEFINE new == [sms[m] EXCEPT !.pending = 0, !.silenced = 0,
                        !.reported = AlertRows(sms[m])]
  <2>1. new \in SmsRow /\ SameRow(new, sms[m])
    <3>1. 0 \in Nat /\ 0 \in Nat /\ AlertRows(sms[m]) \in Nat
      BY <1>2 DEF AlertRows
    <3>2. /\ new \in SmsRow /\ new.pending = 0
          /\ new.silenced = 0 /\ new.reported = AlertRows(sms[m])
          /\ new.life = sms[m].life /\ new.trusted = sms[m].trusted
          /\ new.bucket = sms[m].bucket
      BY <1>1, <1>2, <3>1 DEF SmsRow
    <3> HIDE DEF new
    <3> QED BY <1>2, <3>2 DEF SameRow, AlertRows
  <2>2. sms' = [sms EXCEPT ![m] = new]
    BY <1>6 DEF ReportMessage
  <2> HIDE DEF new
  <2> QED BY <1>3, <1>6, <2>1, <2>2
          DEF ReportMessage, IngestInv, IngestTypeOK
<1>7. CASE ConfirmFraud(m)
  <2>1. UNCHANGED <<vars, ingest, reported>> /\ fraud' \subseteq Messages
    BY <1>7 DEF ConfirmFraud, IngestInv, IngestTypeOK
  <2>2. TypeOK' /\ IngestTypeOK'
    BY <2>1 DEF IngestInv, IngestTypeOK, TypeOK, vars
  <2>3. LeaseMeansProcessing' /\ RecordsFit' /\ LooksHold'
    BY <2>1 DEF IngestInv, LeaseMeansProcessing, RecordsFit, LooksHold, vars
  <2> QED BY <2>2, <2>3 DEF IngestInv
<1> QED BY <1>4, <1>5, <1>6, <1>7 DEF UserStep

\* Whatever requests, workers, repairs and time do to the job and the message.
LEMMA VerificationKeeps ==
    ASSUME IngestInv, [Next]_vars, UNCHANGED ingestVars
    PROVE  IngestInv'
<1>1. TypeOK /\ LeaseMeansProcessing
  BY DEF IngestInv, IngestTypeOK
<1>2. TypeOK' /\ LeaseMeansProcessing'
  BY <1>1, TypeNext, LeaseNext
<1>3. IngestTypeOK'
  BY <1>2 DEF IngestInv, IngestTypeOK, ingestVars
<1>4. RecordsFit'
  <2>1. ASSUME NEW m \in Messages PROVE Fits(sms'[m], job'[m])
    BY <1>1, VerificationFits DEF IngestInv, RecordsFit
  <2> QED BY <2>1 DEF RecordsFit
<1>5. LooksHold'
  <2>1. ASSUME NEW r \in Requests
        PROVE  /\ ingest'[r].pc # "idle" => ingest'[r].msg \in Messages
               /\ ingest'[r].pc = "update" => Looked(ingest'[r], sms'[ingest'[r].msg])
    <3>1. ingest'[r] = ingest[r]
      BY DEF ingestVars
    <3>2. CASE ingest[r].pc = "update"
      <4>1. ingest[r].msg \in Messages /\ Looked(ingest[r], sms[ingest[r].msg])
        BY <3>2 DEF IngestInv, LooksHold
      <4> QED BY <1>1, <3>1, <4>1, VerificationLooked
    <3>3. CASE ingest[r].pc # "update"
      BY <3>1, <3>3 DEF IngestInv, LooksHold
    <3> QED BY <3>2, <3>3
  <2> QED BY <2>1 DEF LooksHold
<1> QED BY <1>2, <1>3, <1>4, <1>5 DEF IngestInv

LEMMA IngestInvNext == IngestInv /\ [IngestNext]_allVars => IngestInv'
<1> SUFFICES ASSUME IngestInv, [IngestNext]_allVars PROVE IngestInv'
  OBVIOUS
<1>1. CASE Verification \/ UNCHANGED allVars
  BY <1>1, VerificationKeeps DEF Verification, allVars
<1> QED BY <1>1, IngestStepKeeps, UserStepKeeps DEF IngestNext

LEMMA IngestInvariant == IngestSpec => []IngestInv
  BY IngestInvStarts, IngestInvNext, PTL DEF IngestSpec

\* Ingests, users, administrators and verification keep the types, for any
\* number of each.
THEOREM IngestTypes == IngestSpec => []IngestTypeOK
<1>1. IngestInv => IngestTypeOK
  BY DEF IngestInv
<1> QED BY <1>1, IngestInvariant, PTL

\* A message has a second alert only with a worker's verdict, and never a third,
\* for any number of simultaneous deliveries of it.
THEOREM IngestAlertsOnce == IngestSpec => []OneAlertFromIngest
<1>1. IngestInv => OneAlertFromIngest
  <2> SUFFICES ASSUME IngestInv, NEW m \in Messages, AlertRows(sms[m]) > 1
               PROVE  /\ AlertRows(sms[m]) = 2
                      /\ job[m].status = "verified"
                      /\ job[m].attempts >= 1
    BY DEF OneAlertFromIngest
  <2>1. AlertRows(sms[m]) \in Nat
    BY DEF IngestInv, IngestTypeOK, TypeOK, SmsRow, AlertRows
  <2>2. Fits(sms[m], job[m])
    BY DEF IngestInv, RecordsFit
  <2> QED BY <2>1, <2>2 DEF Fits
<1> QED BY <1>1, IngestInvariant, PTL

\* A verified job's message is stored, trusted and classified, whoever marked
\* the job.
THEOREM VerifiedHasVerdict == IngestSpec => []VerifiedIsTheModels
<1>1. IngestInv => VerifiedIsTheModels
  BY DEF IngestInv, RecordsFit, Fits, VerifiedIsTheModels
<1> QED BY <1>1, IngestInvariant, PTL

-------------------------------------------------------------------------------
(***************************************************************************)
(* Verification with ingest at work.  What was proved of the machinery     *)
(* alone holds next to ingests, users and administrators: of a job they    *)
(* only ever make a missing one, by CreateJob, and they touch no worker.   *)
(***************************************************************************)
LEMMA IngestMoves ==
    ASSUME IngestInv, NEW r \in Requests, IngestStep(r)
    PROVE  /\ worker' = worker
           /\ \/ UNCHANGED <<job, credit, admitted>>
              \/ \E n \in Messages, v \in BOOLEAN : CreateJob(n, v)
<1> DEFINE i == ingest[r]
<1>1. i.pc # "idle" => i.msg \in Messages
  BY DEF IngestInv, LooksHold
<1>2. CASE \/ \E m \in Messages : IngestStarts(r, m)
           \/ IngestLooks(r) \/ IngestClashes(r) \/ IngestFails(r)
  <2>1. ASSUME NEW m \in Messages, IngestStarts(r, m)
        PROVE  UNCHANGED <<job, credit, admitted, worker>>
    <3>1. vars' = vars
      BY <2>1 DEF IngestStarts
    <3> QED BY <3>1 DEF vars
  <2>2. CASE IngestLooks(r) \/ IngestFails(r)
    BY <2>2 DEF IngestLooks, IngestFails, vars
  <2>3. CASE IngestClashes(r)
    BY <2>3 DEF IngestClashes
  <2> QED BY <1>2, <2>1, <2>2, <2>3
<1>3. ASSUME NEW v \in BOOLEAN, i.msg \in Messages, EnsureJob(r, i.msg, v),
             worker' = worker
      PROVE  /\ worker' = worker
             /\ \/ UNCHANGED <<job, credit, admitted>>
                \/ \E n \in Messages, u \in BOOLEAN : CreateJob(n, u)
  BY <1>3 DEF EnsureJob
<1>4. CASE IngestUpdates(r)
  BY <1>1, <1>3, <1>4 DEF IngestUpdates
<1>5. CASE IngestInserts(r)
  BY <1>1, <1>3, <1>5 DEF IngestInserts
<1> QED BY <1>2, <1>4, <1>5 DEF IngestStep

\* A step of the whole is one of verification, or makes at most a job.
Creates ==
    /\ worker' = worker
    /\ \/ UNCHANGED <<job, credit, admitted>>
       \/ \E n \in Messages, v \in BOOLEAN : CreateJob(n, v)

LEMMA AllMoves ==
    ASSUME IngestInv, [IngestNext]_allVars
    PROVE  [Next]_vars \/ Creates
<1>1. ASSUME NEW r \in Requests, IngestStep(r)
      PROVE  Creates
  BY <1>1, IngestMoves DEF Creates
<1>2. ASSUME NEW m \in Messages, UserStep(m)
      PROVE  Creates
  BY <1>2 DEF UserStep, BlockSender, UnblockSender, ReportMessage, ConfirmFraud,
              vars, Creates
<1>3. CASE Verification \/ UNCHANGED allVars
  BY <1>3 DEF Verification, allVars
<1> QED BY <1>1, <1>2, <1>3 DEF IngestNext

\* The job that is made is new, and pending only against an admission.
LEMMA CreatedRows ==
    ASSUME TypeOK, NEW n \in Messages, NEW v \in BOOLEAN, CreateJob(n, v)
    PROVE  /\ job[n].status = "absent"
           /\ \A m \in Messages \ {n} : job'[m] = job[m] /\ credit'[m] = credit[m]
           /\ \E s \in {"pending", "failed", "verified"} : job'[n] = NewJob(s)
           /\ credit'[n] \in {credit[n], credit[n] + MaxAttempts}
           /\ job'[n] = NewJob("pending") => credit'[n] = credit[n] + MaxAttempts
<1>1. job \in [Messages -> JobRow] /\ credit \in [Messages -> Int]
  BY DEF TypeOK
<1>2. PICK s \in {"pending", "failed", "verified"} :
          /\ job' = [job EXCEPT ![n] = NewJob(s)]
          /\ s = "pending" => BudgetLeft
  BY DEF CreateJob
<1>3. job'[n] = NewJob(s)
  BY <1>1, <1>2
<1>4. IF BudgetLeft THEN Grant(n) ELSE credit' = credit
  BY DEF CreateJob
<1>5. NewJob(s).status = s /\ NewJob("pending").status = "pending"
  BY WrittenFields, NewJobFields
<1>6. credit'[n] = IF BudgetLeft THEN credit[n] + MaxAttempts ELSE credit[n]
  BY <1>1, <1>4 DEF Grant
<1>7. \A m \in Messages \ {n} : job'[m] = job[m] /\ credit'[m] = credit[m]
  BY <1>1, <1>2, <1>4 DEF Grant
<1> QED BY <1>2, <1>3, <1>5, <1>6, <1>7 DEF CreateJob

\* A step outside verification keeps what the steps inside it rest on.
LEMMA CreatesKeeps ==
    ASSUME KeptFacts, Creates
    PROVE  CreditCovers' /\ FailMeansSpent' /\ AbsentIsNew'
<1>1. CASE UNCHANGED <<job, credit, admitted>>
  BY <1>1 DEF Creates, KeptFacts, CreditCovers, FailMeansSpent, AbsentIsNew
<1>2. ASSUME NEW n \in Messages, NEW v \in BOOLEAN, CreateJob(n, v), worker' = worker
      PROVE  CreditCovers' /\ FailMeansSpent' /\ AbsentIsNew'
  <2>1. TypeOK /\ MaxAttempts \in Nat /\ credit[n] \in Int /\ credit[n] >= 0
    BY CloudAssumption DEF KeptFacts, CloudAssumption, TypeOK, CreditCovers
  <2>2. PICK s \in {"pending", "failed", "verified"} : job'[n] = NewJob(s)
    BY <1>2, <2>1, CreatedRows
  <2>3. /\ \A m \in Messages \ {n} : job'[m] = job[m] /\ credit'[m] = credit[m]
        /\ credit'[n] \in {credit[n], credit[n] + MaxAttempts}
        /\ s = "pending" => credit'[n] = credit[n] + MaxAttempts
    BY <1>2, <2>1, <2>2, CreatedRows
  <2>4. /\ job'[n].status = s /\ job'[n].attempts = 0 /\ job'[n].owner = None
    BY <2>2, NewJobFields DEF NewJob
  <2>5. CreditCovers'
    <3>1. credit'[n] >= 0
      BY <2>1, <2>3
    <3>2. s \in Open => credit'[n] >= MaxAttempts - 0
      BY <2>1, <2>3 DEF Open, Waiting
    <3> QED BY <2>3, <2>4, <3>1, <3>2 DEF KeptFacts, CreditCovers
  <2>6. FailMeansSpent'
    <3> SUFFICES ASSUME NEW w \in Workers, NEW m \in Messages,
                        worker'[w].pc = "fail", worker'[w].msg = m, job'[m].owner = w
                 PROVE  Spent(job'[m])
      BY DEF FailMeansSpent
    <3>1. m # n
      BY <2>4, QueueAssumption DEF QueueAssumption
    <3> QED BY <1>2, <2>3, <3>1 DEF KeptFacts, FailMeansSpent
  <2>7. AbsentIsNew'
    BY <2>3, <2>4 DEF KeptFacts, AbsentIsNew
  <2> QED BY <2>5, <2>6, <2>7
<1> QED BY <1>1, <1>2 DEF Creates

LEMMA KeptFactsStart == Init => KeptFacts
<1>1. Init => CreditCovers
  BY DEF Init, InitWork, NoJob, Open, Waiting, CreditCovers
<1>2. Init => AbsentIsNew
  BY NoJobFields DEF Init, InitWork, AbsentIsNew
<1> QED BY <1>1, <1>2, TypeInit, LeaseInit, FailMeansSpentInit DEF KeptFacts

LEMMA WholeInvariant == IngestSpec => [](IngestInv /\ KeptFacts)
<1>1. IngestInit => IngestInv /\ KeptFacts
  BY IngestInvStarts, KeptFactsStart DEF IngestInit
<1>2. ASSUME IngestInv, KeptFacts, [IngestNext]_allVars
      PROVE  IngestInv' /\ KeptFacts'
  <2>1. IngestInv'
    BY <1>2, IngestInvNext
  <2>2. TypeOK' /\ LeaseMeansProcessing'
    BY <2>1 DEF IngestInv, IngestTypeOK
  <2>3. CASE [Next]_vars
    BY <1>2, <2>1, <2>2, <2>3, CreditNext, FailMeansSpentNext, AbsentIsNewNext DEF KeptFacts
  <2>4. CASE Creates
    BY <1>2, <2>1, <2>2, <2>4, CreatesKeeps DEF KeptFacts
  <2> QED BY <1>2, <2>1, <2>3, <2>4, AllMoves
<1>3. IngestInv /\ KeptFacts /\ [IngestNext]_allVars => (IngestInv /\ KeptFacts)'
  BY <1>2
<1> QED BY <1>1, <1>3, PTL DEF IngestSpec

\* A committed result is final, and no ingest with a verdict of its own or
\* without one, no user and no administrator undoes it.
THEOREM FinalWithIngest == IngestSpec => VerifiedIsFinal
<1>1. ASSUME IngestInv, [IngestNext]_allVars
      PROVE  VerifiedStays
  <2>1. TypeOK /\ LeaseMeansProcessing
    BY <1>1 DEF IngestInv, IngestTypeOK
  <2>2. CASE Creates
    <3>1. ASSUME NEW n \in Messages, NEW v \in BOOLEAN, CreateJob(n, v)
          PROVE  VerifiedStays
      BY <2>1, <3>1, CreatedRows DEF VerifiedStays
    <3> QED BY <2>2, <3>1 DEF Creates, VerifiedStays
  <2> QED BY <1>1, <2>1, <2>2, AllMoves, VerifiedStep
<1>2. IngestInv /\ [IngestNext]_allVars => [VerifiedStays]_vars
  BY <1>1
<1>3. [][VerifiedStays]_vars => VerifiedIsFinal
  BY PTL DEF VerifiedIsFinal, VerifiedStays
<1> QED BY <1>2, <1>3, IngestInvariant, PTL DEF IngestSpec

\* A live lease is ended by its own worker only, also with repeated ingests of
\* the message it is about.
THEOREM LeaseSafeWithIngest == IngestSpec => LiveLeaseIsRespected
<1>1. ASSUME IngestInv, [IngestNext]_allVars
      PROVE  LiveLeaseStays
  <2>1. TypeOK /\ LeaseMeansProcessing
    BY <1>1 DEF IngestInv, IngestTypeOK
  <2>2. CASE Creates
    <3>1. ASSUME NEW n \in Messages, NEW v \in BOOLEAN, CreateJob(n, v)
          PROVE  LiveLeaseStays
      <4>1. ~job[n].live
        BY <2>1, <3>1, CreatedRows DEF LeaseMeansProcessing
      <4> QED BY <2>1, <3>1, <4>1, CreatedRows DEF LiveLeaseStays
    <3> QED BY <2>2, <3>1 DEF Creates, LiveLeaseStays
  <2> QED BY <1>1, <2>1, <2>2, AllMoves, LiveLeaseStep
<1>2. IngestInv /\ [IngestNext]_allVars => [LiveLeaseStays]_vars
  BY <1>1
<1>3. [][LiveLeaseStays]_vars => LiveLeaseIsRespected
  BY PTL DEF LiveLeaseIsRespected, LiveLeaseStays
<1> QED BY <1>2, <1>3, IngestInvariant, PTL DEF IngestSpec

\* An open job fails only with all its attempts used, also one that an ingest
\* has made.
THEOREM FailsSpentWithIngest == IngestSpec => FailsOnlyWhenSpent
<1>1. ASSUME IngestInv, KeptFacts, [IngestNext]_allVars
      PROVE  FailsTheSpent
  <2>1. CASE Creates
    <3>1. ASSUME NEW n \in Messages, NEW v \in BOOLEAN, CreateJob(n, v)
          PROVE  FailsTheSpent
      <4>1. /\ job[n].status = "absent"
            /\ \A m \in Messages \ {n} : job'[m] = job[m]
        BY <1>1, <3>1, CreatedRows DEF KeptFacts
      <4> QED BY <4>1 DEF FailsTheSpent, Open, Waiting
    <3> QED BY <2>1, <3>1 DEF Creates, FailsTheSpent, Open, Waiting
  <2> QED BY <1>1, <2>1, AllMoves, FailsTheSpentStep DEF KeptFacts
<1>2. IngestInv /\ KeptFacts /\ [IngestNext]_allVars => [FailsTheSpent]_vars
  BY <1>1
<1>3. [][FailsTheSpent]_vars => FailsOnlyWhenSpent
  BY PTL DEF FailsOnlyWhenSpent, FailsTheSpent
<1> QED BY <1>2, <1>3, WholeInvariant, PTL DEF IngestSpec

\* The inference calls of a message stay within its admissions, whoever makes
\* its jobs.
THEOREM BoundedWithIngest == IngestSpec => []InferenceWithinAdmissions
<1>1. KeptFacts => InferenceWithinAdmissions
  BY DEF KeptFacts, CreditCovers, InferenceWithinAdmissions
<1> QED BY <1>1, WholeInvariant, PTL

\* A job that is made for a message with a live verdict, in the terms of the
\* promise.
LEMMA VouchKept ==
    ASSUME KeptFacts, NEW n \in Messages, CreateJob(n, TRUE), worker' = worker
    PROVE  Promise!Vouch(n)
<1>1. /\ job[n].status = "absent"
      /\ job' = [job EXCEPT ![n] = NewJob("verified")]
  BY DEF CreateJob
<1>2. PromisedState(NewJob("verified")) = "verified" /\ NewJob("verified").attempts = 0
  <2>1. NewJob("verified").status = "verified" /\ NewJob("verified").attempts = 0
    BY DEF NewJob
  <2> QED BY <2>1, PromisedCases
<1>3. /\ PromisedStates' = [PromisedStates EXCEPT ![n] = PromisedState(NewJob("verified"))]
      /\ PromisedAttempts' = [PromisedAttempts EXCEPT ![n] = NewJob("verified").attempts]
  BY <1>1, OneRowPromised, Zenon DEF KeptFacts
<1>4. PromisedAttempts[n] = 0 /\ PromisedStates[n] = "none"
  BY <1>1, PromisedCases DEF KeptFacts, AbsentIsNew, PromisedAttempts, PromisedStates
<1>5. UNCHANGED PromisedAttempts
  BY <1>2, <1>3, <1>4 DEF PromisedAttempts
<1>6. UNCHANGED PromisedAsking
  BY SameAsking DEF Asks
<1>7. \/ /\ admitted.month < MonthlyLimit
         /\ admitted'.month = admitted.month + 1
         /\ credit' = [credit EXCEPT ![n] = @ + MaxAttempts]
      \/ UNCHANGED <<admitted, credit>>
  BY DEF CreateJob, BudgetLeft, Admit, Grant
<1> QED BY <1>1, <1>2, <1>3, <1>4, <1>5, <1>6, <1>7
        DEF Promise!Vouch, Promise!Become, PromisedStates, PromisedAttempts,
            PromisedAsking, Asks

\* Ingest, users and verification together implement VerificationPromise, with
\* one more way to be verified: by the live verdict a message comes with.
THEOREM WholeKeepsPromise == IngestSpec => KeepsVouchedPromise
<1>1. ASSUME IngestInv, KeptFacts, [IngestNext]_allVars
      PROVE  PromiseKept \/ \E m \in Messages : Promise!Vouch(m)
  <2>1. CASE [Next]_vars
    BY <1>1, <2>1, NextKept
  <2>2. CASE Creates
    <3>1. CASE UNCHANGED <<job, credit, admitted>>
      BY <2>2, <3>1, StutterKept DEF Creates, Asks
    <3>2. ASSUME NEW n \in Messages, NEW v \in BOOLEAN, CreateJob(n, v)
          PROVE  PromiseKept \/ \E m \in Messages : Promise!Vouch(m)
      <4>1. worker' = worker
        BY <2>2 DEF Creates
      <4>2. CASE v = TRUE
        BY <1>1, <3>2, <4>1, <4>2, VouchKept
      <4>3. CASE v = FALSE
        BY <1>1, <3>2, <4>1, <4>3, CreateKept
      <4> QED BY <4>2, <4>3
    <3> QED BY <2>2, <3>1, <3>2 DEF Creates
  <2> QED BY <1>1, <2>1, <2>2, AllMoves
<1>2. ASSUME IngestInv, KeptFacts, [IngestNext]_allVars
      PROVE  [Promise!VouchedNext]_(Promise!vars)
  <2>1. CASE PromiseKept
    BY <2>1, PromiseStep DEF Promise!VouchedNext
  <2>2. CASE \E m \in Messages : Promise!Vouch(m)
    BY <2>2 DEF Promise!VouchedNext
  <2> QED BY <1>1, <1>2, <2>1, <2>2
<1>3. IngestInv /\ KeptFacts /\ [IngestNext]_allVars
          => [Promise!VouchedNext]_(Promise!vars)
  BY <1>2
<1>4. IngestInit => Promise!Init
  BY PromiseInit DEF IngestInit
<1> QED BY <1>3, <1>4, WholeInvariant, PTL
        DEF IngestSpec, KeepsVouchedPromise, Promise!VouchedSpec

===============================================================================
