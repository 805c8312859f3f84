--------------------------- MODULE CloudVerification ---------------------------
(***************************************************************************)
(* Durable cloud verification of an SMS                                    *)
(* (backend/src/cloud-verification/cloud-verification.service.ts).         *)
(*                                                                         *)
(* A message gets at most one job for the pinned model: a database row     *)
(* that is its own outbox.  Requests create, publish and retry jobs;       *)
(* queue-triggered workers claim them with a lease, ask the model and      *)
(* commit its result; a daily repair run re-publishes what was forgotten   *)
(* and ends what used up its attempts.  Every statement of the database    *)
(* and every call of the queue is a step of its own, so all of them        *)
(* interleave.                                                             *)
(*                                                                         *)
(* Time is abstracted: `due` says availableAt has passed, `live` that      *)
(* leaseExpiresAt has not, `published` whether publishedAt is null, recent *)
(* or more than a day old; each changes in a step of its own, at any time. *)
(*                                                                         *)
(* Simplifications: one pinned model identity; a worker keeps its name     *)
(* over a restart (nothing compares leaseOwner with the own id outside a   *)
(* claim); malformed payloads, which are deleted on sight, do not occur;   *)
(* the repair run's `take` exceeds the number of messages; lastError and   *)
(* retryAfter, which no decision reads, are left out.                      *)
(***************************************************************************)
EXTENDS Integers, FiniteSets, StorageQueue, SmsRecord

CONSTANTS Requests,     \* API requests that run at the same time
          Repair,       \* the scheduled repair run, the other publisher
          MaxAttempts,  \* CLOUD_VERIFY_MAX_ATTEMPTS
          DailyLimit,   \* CLOUD_VERIFY_ADMISSION_DAILY
          MonthlyLimit, \* CLOUD_VERIFY_ADMISSION_MONTHLY
          MaxFaults,    \* bound: crashes, outages and lost deliveries
          StoredRows    \* messages as they were stored before they had a job

ASSUME CloudAssumption ==
    /\ MaxAttempts \in Nat \ {0}
    /\ DailyLimit \in Nat \ {0}
    /\ MonthlyLimit \in Nat \ {0}
    /\ MaxFaults \in Nat
    /\ Repair \notin Requests
    /\ StoredRows \subseteq {row \in SmsRow : row.life # "purged" /\ AlertRows(row) <= 1}

VARIABLES
    job,      \* the CloudVerificationJob row of each message
    sms,      \* the message row with its classification and alerts
    queue,    \* the verification queue
    worker,   \* each consumer's place in processQueueMessage
    pub,      \* each caller's place in publishAfterCommit
    repair,   \* what is left of the running repair
    admitted, \* admissions counted for the current day and month
    credit,   \* history: inference calls a message's admissions still allow
    faults    \* faults so far

vars == <<job, sms, queue, worker, pub, repair, admitted, credit, faults>>

-------------------------------------------------------------------------------
(***************************************************************************)
(* The job row                                                             *)
(***************************************************************************)
Waiting == {"pending", "retryable_failure"}
Open == Waiting \cup {"processing"}
Terminal == {"verified", "failed"}

JobRow == [status : {"absent"} \cup Open \cup Terminal,
           attempts : 0..MaxAttempts,
           due : BOOLEAN,
           published : {"null", "recent", "stale"},
           owner : Workers \cup {None},
           live : BOOLEAN]

NoJob == [status |-> "absent", attempts |-> 0, due |-> FALSE,
          published |-> "null", owner |-> None, live |-> FALSE]

NewJob(s) == [status |-> s, attempts |-> 0, due |-> TRUE,
              published |-> "null", owner |-> None, live |-> FALSE]

\* leaseExpiresAt is null or in the past.
Unleased(row) == row.owner = None \/ ~row.live

Spent(row) == row.attempts >= MaxAttempts

\* A write that clears the lease.
Released(row, s) == [row EXCEPT !.status = s, !.owner = None, !.live = FALSE]

\* The other writes: claimed by a worker, marked as published, put off because
\* the queue is unavailable, put off by its worker, taken back from a worker.
Claimed(row, w) == [row EXCEPT !.status = "processing", !.owner = w,
                               !.live = TRUE, !.attempts = @ + 1]
Marked(row) == [row EXCEPT !.status = "pending", !.published = "recent"]
Deferred(row) == [row EXCEPT !.status = "retryable_failure", !.due = FALSE]
PutOff(row) == [Released(row, "retryable_failure") EXCEPT !.due = FALSE]
TakenBack(row) == [Released(row, "retryable_failure") EXCEPT !.due = TRUE]

\* Mutants of Exhaustible: the status or the attempts not asked again.
ExhaustsVerified(row) == row.status # "absent" /\ Spent(row) /\ Unleased(row)

ExhaustsRetried(row) == row.status \notin {"absent", "verified"} /\ Unleased(row)

\* The where clause of the guarded updates that end an exhausted job.
Exhaustible(row) ==
    /\ row.status \notin {"absent", "verified"}
    /\ Spent(row)
    /\ Unleased(row)

-------------------------------------------------------------------------------
(***************************************************************************)
(* Admission: the advisory lock makes counting and inserting one step.     *)
(***************************************************************************)
BudgetLeft == admitted.day < DailyLimit /\ admitted.month < MonthlyLimit

Admit == admitted' = [day |-> admitted.day + 1, month |-> admitted.month + 1]

\* Each admission of a message pays for a fresh set of attempts.
Grant(m) == credit' = [credit EXCEPT ![m] = @ + MaxAttempts]

-------------------------------------------------------------------------------
Publishers == Requests \cup {Repair}

Idle == [pc |-> "idle", msg |-> None]
Publishing(m) == [pc |-> "read", msg |-> m]

RestingWorker == [pc |-> "idle", msg |-> None, slot |-> None, seen |-> "none"]

RestingRepair == [todo |-> {}, poison |-> None]

\* What the repair run remembers of a job it selected.
Selected == [msg : Messages, held : BOOLEAN, spent : BOOLEAN]

\* The variables other than the message rows at the start.
InitWork ==
    /\ job = [m \in Messages |-> NoJob]
    /\ queue = [s \in Slots |-> FreeSlot]
    /\ worker = [w \in Workers |-> RestingWorker]
    /\ pub = [p \in Publishers |-> Idle]
    /\ repair = RestingRepair
    /\ admitted = [day |-> 0, month |-> 0]
    /\ credit = [m \in Messages |-> 0]
    /\ faults = 0

Init == InitWork /\ sms \in [Messages -> StoredRows]

-------------------------------------------------------------------------------
(***************************************************************************)
(* Requests                                                                *)
(***************************************************************************)

\* createJobInTransaction for a message without a job; with the admission
\* refused the job is born failed, and no admission is recorded.
CreateJob(m, alreadyVerified) ==
    LET status == IF alreadyVerified THEN "verified"
                  ELSE IF BudgetLeft THEN "pending" ELSE "failed"
    IN  /\ job[m].status = "absent"
        /\ job' = [job EXCEPT ![m] = NewJob(status)]
        /\ IF BudgetLeft THEN Admit /\ Grant(m)
                         ELSE UNCHANGED <<admitted, credit>>

\* GET :messageId/verification creates a missing job and publishes it.
GetForOwner(r, m) ==
    /\ pub[r] = Idle
    /\ sms[m].life = "stored"
    /\ CreateJob(m, FALSE)
    /\ pub' = [pub EXCEPT ![r] =
                   IF job'[m].status = "pending" THEN Publishing(m) ELSE Idle]
    /\ UNCHANGED <<sms, queue, worker, repair, faults>>

\* POST :messageId/verification/retry, the row locked, without a job yet.
RetryCreates(r, m) ==
    /\ pub[r] = Idle
    /\ sms[m].life = "stored"
    /\ CreateJob(m, FALSE)
    /\ pub' = [pub EXCEPT ![r] = Publishing(m)]
    /\ UNCHANGED <<sms, queue, worker, repair, faults>>

\* A retry of a job that did not fail changes nothing, but publishes it again.
RetryPublishes(r, m) ==
    /\ pub[r] = Idle
    /\ job[m].status \in {"pending", "processing"}
    /\ pub' = [pub EXCEPT ![r] = Publishing(m)]
    /\ UNCHANGED <<job, sms, queue, worker, repair, admitted, credit, faults>>

\* Mutant of RetryResets: the attempts start over without an admission.
RetryResetsFreely(r, m) ==
    /\ pub[r] = Idle
    /\ job[m].status \in {"failed", "retryable_failure"}
    /\ job' = [job EXCEPT ![m] = NewJob("pending")]
    /\ pub' = [pub EXCEPT ![r] = Publishing(m)]
    /\ UNCHANGED <<sms, queue, worker, repair, admitted, credit, faults>>

\* A retry of a failed job starts its attempts over, if it is admitted.
RetryResets(r, m) ==
    /\ pub[r] = Idle
    /\ job[m].status \in {"failed", "retryable_failure"}
    /\ BudgetLeft
    /\ Admit
    /\ Grant(m)
    /\ job' = [job EXCEPT ![m] = NewJob("pending")]
    /\ pub' = [pub EXCEPT ![r] = Publishing(m)]
    /\ UNCHANGED <<sms, queue, worker, repair, faults>>

\* POST ai/readiness/wake takes an admission of its own.
Wake ==
    /\ BudgetLeft
    /\ Admit
    /\ UNCHANGED <<job, sms, queue, worker, pub, repair, credit, faults>>

-------------------------------------------------------------------------------
(***************************************************************************)
(* publishAfterCommit, called by requests and by the repair run            *)
(***************************************************************************)
PublishReads(p) ==
    /\ pub[p].pc = "read"
    /\ pub' = [pub EXCEPT ![p] = IF job[@.msg].status \in Open
                                 THEN [@ EXCEPT !.pc = "send"] ELSE Idle]
    /\ UNCHANGED <<job, sms, queue, worker, repair, admitted, credit, faults>>

PublishSends(p) ==
    /\ pub[p].pc = "send"
    /\ \E s \in Slots \ Queued(queue) : queue' = Sent(queue, s, pub[p].msg)
    /\ pub' = [pub EXCEPT ![p].pc = "mark"]
    /\ UNCHANGED <<job, sms, worker, repair, admitted, credit, faults>>

\* The queue or the update after it fails, possibly with the delivery sent.
PublishFails(p) ==
    /\ pub[p].pc \in {"send", "mark"}
    /\ faults < MaxFaults
    /\ faults' = faults + 1
    /\ pub' = [pub EXCEPT ![p].pc = "unsent"]
    /\ UNCHANGED <<job, sms, queue, worker, repair, admitted, credit>>

\* Both updates of publishAfterCommit ask that nobody has taken the job.
Publishable(row) == row.status \in Waiting /\ row.owner = None

PublishMarks(p) ==
    LET m == pub[p].msg
    IN  /\ pub[p].pc = "mark"
        /\ job' = IF Publishable(job[m])
                  THEN [job EXCEPT ![m] = Marked(@)] ELSE job
        /\ pub' = [pub EXCEPT ![p] = Idle]
        /\ UNCHANGED <<sms, queue, worker, repair, admitted, credit, faults>>

PublishDefers(p) ==
    LET m == pub[p].msg
    IN  /\ pub[p].pc = "unsent"
        /\ job' = IF Publishable(job[m])
                  THEN [job EXCEPT ![m] = Deferred(@)] ELSE job
        /\ pub' = [pub EXCEPT ![p] = Idle]
        /\ UNCHANGED <<sms, queue, worker, repair, admitted, credit, faults>>

-------------------------------------------------------------------------------
(***************************************************************************)
(* repairOutbox                                                            *)
(***************************************************************************)
\* Mutant of NeedsRepair: jobs whose publication failed are overlooked.
NeedsRepairIfPending(row) ==
    \/ row.status = "pending" /\ row.due /\ row.published \in {"null", "stale"}
    \/ row.status = "processing" /\ ~row.live

NeedsRepair(row) ==
    \/ row.status \in Waiting /\ row.due /\ row.published \in {"null", "stale"}
    \/ row.status = "processing" /\ ~row.live

RepairResting == repair = RestingRepair /\ pub[Repair] = Idle

RepairSelects ==
    LET found == {m \in Messages : NeedsRepair(job[m])}
    IN  /\ RepairResting
        /\ found # {}
        /\ repair' = [repair EXCEPT !.todo =
               { [msg |-> m, held |-> job[m].status = "processing",
                  spent |-> Spent(job[m])] : m \in found }]
        /\ UNCHANGED <<job, sms, queue, worker, pub, admitted, credit, faults>>

\* The repair run takes up its next job, remembered as t.
RepairTakes(t) ==
    /\ t \in repair.todo
    /\ repair.poison = None
    /\ pub[Repair] = Idle

\* A job that has used up its attempts is ended, if the row still says so.
RepairExhausts(t) ==
    LET m == t.msg
        hit == Exhaustible(job[m])
    IN  /\ RepairTakes(t)
        /\ t.spent
        /\ job' = IF hit THEN [job EXCEPT ![m] = Released(@, "failed")] ELSE job
        /\ repair' = [todo |-> repair.todo \ {t},
                      poison |-> IF hit THEN m ELSE None]
        /\ UNCHANGED <<sms, queue, worker, pub, admitted, credit, faults>>

\* The poison queue is only ever written.
RepairPoisons ==
    /\ repair.poison # None
    /\ repair' = [repair EXCEPT !.poison = None]
    /\ UNCHANGED <<job, sms, queue, worker, pub, admitted, credit, faults>>

\* Any other job is taken back from a worker whose lease is over, and
\* published again.
RepairRepublishes(t) ==
    LET m == t.msg
        lost == /\ t.held
                /\ job[m].status = "processing"
                /\ ~job[m].live
    IN  /\ RepairTakes(t)
        /\ ~t.spent
        /\ job' = IF lost THEN [job EXCEPT ![m] = TakenBack(@)] ELSE job
        /\ pub' = [pub EXCEPT ![Repair] = Publishing(m)]
        /\ repair' = [repair EXCEPT !.todo = @ \ {t}]
        /\ UNCHANGED <<sms, queue, worker, admitted, credit, faults>>

-------------------------------------------------------------------------------
(***************************************************************************)
(* processQueueMessage and verifyClaimedJob                                *)
(***************************************************************************)
Goto(w, pc) == worker' = [worker EXCEPT ![w].pc = pc]
Rest(w) == worker' = [worker EXCEPT ![w] = RestingWorker]

Receive(w, s) ==
    /\ worker[w].pc = "idle"
    /\ queue[s].msg # None
    /\ queue[s].visible
    /\ queue' = Received(queue, s, w)
    /\ worker' = [worker EXCEPT ![w] =
           [pc |-> "read", msg |-> queue[s].msg, slot |-> s, seen |-> "none"]]
    /\ UNCHANGED <<job, sms, pub, repair, admitted, credit, faults>>

\* Mutant of WorkerReads: the delivery of a finished job is left in the queue.
WorkerReadsLeavingIt(w) ==
    /\ worker[w].pc = "read"
    /\ IF job[worker[w].msg].status \in Open THEN Goto(w, "claim") ELSE Rest(w)
    /\ UNCHANGED <<job, sms, queue, pub, repair, admitted, credit, faults>>

\* A delivery for a job that is gone or over is dropped unseen.
WorkerReads(w) ==
    /\ worker[w].pc = "read"
    /\ Goto(w, IF job[worker[w].msg].status \in Open THEN "claim" ELSE "delete")
    /\ UNCHANGED <<job, sms, queue, pub, repair, admitted, credit, faults>>

Claimable(row) ==
    /\ row.status \in Open
    /\ row.attempts < MaxAttempts
    /\ row.due
    /\ Unleased(row)

WorkerClaims(w) ==
    LET m == worker[w].msg
    IN  /\ worker[w].pc = "claim"
        /\ Claimable(job[m])
        /\ job' = [job EXCEPT ![m] = Claimed(@, w)]
        /\ credit' = [credit EXCEPT ![m] = @ - 1]
        /\ Goto(w, "snapshot")
        /\ UNCHANGED <<sms, queue, pub, repair, admitted, faults>>

WorkerMissesClaim(w) ==
    /\ worker[w].pc = "claim"
    /\ ~Claimable(job[worker[w].msg])
    /\ Goto(w, "recheck")
    /\ UNCHANGED <<job, sms, queue, pub, repair, admitted, credit, faults>>

\* Without a claim: drop a delivery of a finished job, end an exhausted job,
\* and leave any other delivery to come back later.
WorkerRechecks(w) ==
    LET row == job[worker[w].msg]
    IN  /\ worker[w].pc = "recheck"
        /\ \/ row.status \in Terminal /\ Goto(w, "delete")
           \/ row.status \in Open /\ Spent(row) /\ Unleased(row)
              /\ Goto(w, "exhaust")
           \/ row.status = "absent" /\ Rest(w)
           \/ row.status \in Open /\ ~(Spent(row) /\ Unleased(row)) /\ Rest(w)
        /\ UNCHANGED <<job, sms, queue, pub, repair, admitted, credit, faults>>

WorkerExhausts(w) ==
    LET m == worker[w].msg
        hit == Exhaustible(job[m])
    IN  /\ worker[w].pc = "exhaust"
        /\ job' = IF hit THEN [job EXCEPT ![m] = Released(@, "failed")] ELSE job
        /\ Goto(w, IF hit THEN "poison" ELSE "delete")
        /\ UNCHANGED <<sms, queue, pub, repair, admitted, credit, faults>>

WorkerPoisons(w) ==
    /\ worker[w].pc = "poison"
    /\ Goto(w, "delete")
    /\ UNCHANGED <<job, sms, queue, pub, repair, admitted, credit, faults>>

\* With a receipt the queue has replaced the deletion throws and is given up.
WorkerDeletes(w) ==
    LET s == worker[w].slot
    IN  /\ worker[w].pc = "delete"
        /\ queue' = IF HasReceipt(queue, s, w) THEN Deleted(queue, s) ELSE queue
        /\ Rest(w)
        /\ UNCHANGED <<job, sms, pub, repair, admitted, credit, faults>>

\* verifyClaimedJob reads the job with the message's alerts, before the model
\* is asked.
WorkerSnapshots(w) ==
    LET m == worker[w].msg
    IN  /\ worker[w].pc = "snapshot"
        /\ worker' = [worker EXCEPT
               ![w].pc = IF job[m].owner = w THEN "infer" ELSE "error",
               ![w].seen = IF job[m].owner = w THEN AlertsSeen(sms[m]) ELSE @]
        /\ UNCHANGED <<job, sms, queue, pub, repair, admitted, credit, faults>>

\* The model is not ready, not the pinned one, or has no answer.
InferenceFails(w) ==
    /\ worker[w].pc = "infer"
    /\ Goto(w, "error")
    /\ UNCHANGED <<job, sms, queue, pub, repair, admitted, credit, faults>>

\* Mutant of HoldsLease: the commit trusts the claim of long ago.
HoldsLeaseOnce(w, row) == w \in Workers /\ row.status # "absent"

\* The lease the commit transaction insists on, the job row locked.
HoldsLease(w, row) == row.status = "processing" /\ row.owner = w /\ row.live

\* The answer is committed; the client may still see the commit fail.
CommitResult(w, b) ==
    LET m == worker[w].msg
    IN  /\ worker[w].pc = "infer"
        /\ HoldsLease(w, job[m])
        /\ sms' = [sms EXCEPT ![m] = Judged(@, worker[w].seen, b)]
        /\ job' = [job EXCEPT ![m] = Released(@, "verified")]
        /\ \/ Goto(w, "ack") /\ UNCHANGED faults
           \/ faults < MaxFaults /\ faults' = faults + 1 /\ Goto(w, "error")
        /\ UNCHANGED <<queue, pub, repair, admitted, credit>>

LeaseWasLost(w) ==
    /\ worker[w].pc = "infer"
    /\ ~HoldsLease(w, job[worker[w].msg])
    /\ Goto(w, "error")
    /\ UNCHANGED <<job, sms, queue, pub, repair, admitted, credit, faults>>

WorkerAcks(w) ==
    LET s == worker[w].slot
    IN  /\ worker[w].pc = "ack"
        /\ IF HasReceipt(queue, s, w)
           THEN queue' = Deleted(queue, s) /\ Rest(w)
           ELSE Goto(w, "error") /\ UNCHANGED queue
        /\ UNCHANGED <<job, sms, pub, repair, admitted, credit, faults>>

\* The catch block looks at the row again to choose what to do.
WorkerRecovers(w) ==
    LET row == job[worker[w].msg]
    IN  /\ worker[w].pc = "error"
        /\ Goto(w, IF row.status = "verified" THEN "delete"
                   ELSE IF row.status = "absent" \/ Spent(row) THEN "fail"
                   ELSE "backoff")
        /\ UNCHANGED <<job, sms, queue, pub, repair, admitted, credit, faults>>

\* Mutant of WorkerFails: whoever has the job now, it fails.
WorkerFailsAnyJob(w) ==
    LET m == worker[w].msg
    IN  /\ worker[w].pc = "fail"
        /\ job' = IF job[m].status # "absent"
                  THEN [job EXCEPT ![m] = Released(@, "failed")] ELSE job
        /\ Goto(w, "poison")
        /\ UNCHANGED <<sms, queue, pub, repair, admitted, credit, faults>>

\* Out of attempts: the job fails if it is still this worker's, and is sent
\* to the poison queue either way.
WorkerFails(w) ==
    LET m == worker[w].msg
    IN  /\ worker[w].pc = "fail"
        /\ job' = IF job[m].owner = w
                  THEN [job EXCEPT ![m] = Released(@, "failed")] ELSE job
        /\ Goto(w, "poison")
        /\ UNCHANGED <<sms, queue, pub, repair, admitted, credit, faults>>

\* Mutant of WorkerBacksOff: whoever has the job now, it is put off.
WorkerPutsOffAnyJob(w) ==
    LET m == worker[w].msg
    IN  /\ worker[w].pc = "backoff"
        /\ job' = IF job[m].status \in Open
                  THEN [job EXCEPT ![m] = PutOff(@)] ELSE job
        /\ Goto(w, "hide")
        /\ UNCHANGED <<sms, queue, pub, repair, admitted, credit, faults>>

\* Otherwise it is put off, if it is still this worker's.
WorkerBacksOff(w) ==
    LET m == worker[w].msg
    IN  /\ worker[w].pc = "backoff"
        /\ job' = IF job[m].owner = w
                  THEN [job EXCEPT ![m] = PutOff(@)] ELSE job
        /\ Goto(w, "hide")
        /\ UNCHANGED <<sms, queue, pub, repair, admitted, credit, faults>>

WorkerHides(w) ==
    LET s == worker[w].slot
    IN  /\ worker[w].pc = "hide"
        /\ queue' = IF HasReceipt(queue, s, w) THEN Hidden(queue, s) ELSE queue
        /\ Rest(w)
        /\ UNCHANGED <<job, sms, pub, repair, admitted, credit, faults>>

\* The interval timer, from the claim until the delivery is dealt with: hide
\* the delivery for longer, then extend the lease if the row still names this
\* worker, even a lease that has run out meanwhile.
Renewing == {"snapshot", "infer", "ack", "error", "fail", "backoff", "hide"}

WorkerRenews(w) ==
    LET m == worker[w].msg
        s == worker[w].slot
    IN  /\ worker[w].pc \in Renewing
        /\ HasReceipt(queue, s, w)
        /\ queue' = Hidden(queue, s)
        /\ job' = IF job[m].owner = w THEN [job EXCEPT ![m].live = TRUE] ELSE job
        /\ UNCHANGED <<sms, worker, pub, repair, admitted, credit, faults>>

-------------------------------------------------------------------------------
(***************************************************************************)
(* Time, faults and the rest of the backend                                *)
(***************************************************************************)
BecomesDue(m) ==
    /\ ~job[m].due
    /\ job[m].status # "absent"
    /\ job' = [job EXCEPT ![m].due = TRUE]
    /\ UNCHANGED <<sms, queue, worker, pub, repair, admitted, credit, faults>>

LeaseExpires(m) ==
    /\ job[m].live
    /\ job' = [job EXCEPT ![m].live = FALSE]
    /\ UNCHANGED <<sms, queue, worker, pub, repair, admitted, credit, faults>>

PublicationAges(m) ==
    /\ job[m].published = "recent"
    /\ job' = [job EXCEPT ![m].published = "stale"]
    /\ UNCHANGED <<sms, queue, worker, pub, repair, admitted, credit, faults>>

DeliveryReappears(s) ==
    /\ queue[s].msg # None
    /\ ~queue[s].visible
    /\ queue' = [queue EXCEPT ![s].visible = TRUE]
    /\ UNCHANGED <<job, sms, worker, pub, repair, admitted, credit, faults>>

DeliveryLost(s) ==
    /\ queue[s].msg # None
    /\ faults < MaxFaults
    /\ faults' = faults + 1
    /\ queue' = Deleted(queue, s)
    /\ UNCHANGED <<job, sms, worker, pub, repair, admitted, credit>>

\* The process dies, or an error inside the catch block reaches pollLoop:
\* the worker starts over and knows nothing of the delivery it had.
WorkerCrashes(w) ==
    /\ worker[w].pc # "idle"
    /\ faults < MaxFaults
    /\ faults' = faults + 1
    /\ Rest(w)
    /\ UNCHANGED <<job, sms, queue, pub, repair, admitted, credit>>

\* A request or the repair run dies between two of its steps.
PublisherCrashes(p) ==
    /\ pub[p] # Idle \/ (p = Repair /\ repair # RestingRepair)
    /\ faults < MaxFaults
    /\ faults' = faults + 1
    /\ pub' = [pub EXCEPT ![p] = Idle]
    /\ repair' = IF p = Repair THEN RestingRepair ELSE repair
    /\ UNCHANGED <<job, sms, queue, worker, admitted, credit>>

\* The daily retention purge deletes an old message; its job row cascades.
PurgeExpiredData(m) ==
    /\ sms[m].life = "stored"
    /\ sms' = [sms EXCEPT ![m] = Purged(@)]
    /\ job' = [job EXCEPT ![m] = NoJob]
    /\ UNCHANGED <<queue, worker, pub, repair, admitted, credit, faults>>

\* Midnight UTC.  The month does not end: a run covers one month.
NewDay ==
    /\ admitted.day > 0
    /\ admitted' = [admitted EXCEPT !.day = 0]
    /\ UNCHANGED <<job, sms, queue, worker, pub, repair, credit, faults>>

-------------------------------------------------------------------------------
RequestStep(r, m) ==
    \/ GetForOwner(r, m)
    \/ RetryCreates(r, m)
    \/ RetryPublishes(r, m)
    \/ RetryResets(r, m)

PublishStep(p) ==
    \/ PublishReads(p)
    \/ PublishSends(p)
    \/ PublishMarks(p)
    \/ PublishDefers(p)

RepairStep ==
    \/ RepairSelects
    \/ RepairPoisons
    \/ \E t \in Selected : RepairExhausts(t) \/ RepairRepublishes(t)

WorkerStep(w) ==
    \/ WorkerReads(w)
    \/ WorkerClaims(w)
    \/ WorkerMissesClaim(w)
    \/ WorkerRechecks(w)
    \/ WorkerExhausts(w)
    \/ WorkerPoisons(w)
    \/ WorkerDeletes(w)
    \/ WorkerSnapshots(w)
    \/ InferenceFails(w)
    \/ LeaseWasLost(w)
    \/ \E b \in Buckets : CommitResult(w, b)
    \/ WorkerAcks(w)
    \/ WorkerRecovers(w)
    \/ WorkerFails(w)
    \/ WorkerBacksOff(w)
    \/ WorkerHides(w)

TimePasses ==
    \/ \E m \in Messages : BecomesDue(m) \/ LeaseExpires(m) \/ PublicationAges(m)
    \/ \E s \in Slots : DeliveryReappears(s)
    \/ NewDay

Fault ==
    \/ \E p \in Publishers : PublishFails(p) \/ PublisherCrashes(p)
    \/ \E w \in Workers : WorkerCrashes(w)
    \/ \E s \in Slots : DeliveryLost(s)

Next ==
    \/ \E r \in Requests, m \in Messages : RequestStep(r, m)
    \/ Wake
    \/ \E p \in Publishers : PublishStep(p)
    \/ RepairStep
    \/ \E w \in Workers, s \in Slots : Receive(w, s)
    \/ \E w \in Workers : WorkerStep(w) \/ WorkerRenews(w)
    \/ TimePasses
    \/ Fault
    \/ \E m \in Messages : PurgeExpiredData(m)

Spec == Init /\ [][Next]_vars

(***************************************************************************)
(* Fairness.  The consumers poll for ever and every await ends (the HTTP   *)
(* and model calls have timeouts); the repair job is started every day;    *)
(* the queue is served roughly in order, so no delivery is passed over for *)
(* ever; and clocks advance.  Nothing is assumed of users, of the model's  *)
(* answers or of faults; MaxFaults bounds how often the latter strike.     *)
(***************************************************************************)
Fairness ==
    /\ \A p \in Publishers : WF_vars(PublishStep(p))
    /\ WF_vars(RepairStep)
    /\ \A w \in Workers : WF_vars(WorkerStep(w))
    /\ \A w \in Workers, s \in Slots : SF_vars(Receive(w, s))
    /\ \A m \in Messages : /\ WF_vars(BecomesDue(m))
                           /\ WF_vars(LeaseExpires(m))
                           /\ WF_vars(PublicationAges(m))
    /\ \A s \in Slots : WF_vars(DeliveryReappears(s))

FairSpec == Spec /\ Fairness

-------------------------------------------------------------------------------
(***************************************************************************)
(* Properties                                                              *)
(***************************************************************************)

WorkerPlace ==
    [pc : {"idle", "read", "claim", "recheck", "exhaust", "poison", "delete",
           "snapshot", "infer", "ack", "error", "fail", "backoff", "hide"},
     msg : Messages \cup {None},
     slot : Slots \cup {None},
     seen : {"none", "pending", "acted"}]

PublisherPlace == [pc : {"idle", "read", "send", "mark", "unsent"},
                   msg : Messages \cup {None}]

\* Every variable has the shape the code gives it; in particular no claim
\* takes a job's attempts beyond its maximum.
TypeOK ==
    /\ job \in [Messages -> JobRow]
    /\ sms \in [Messages -> SmsRow]
    /\ queue \in [Slots -> Delivery]
    /\ worker \in [Workers -> WorkerPlace]
    /\ pub \in [Publishers -> PublisherPlace]
    /\ repair \in [todo : SUBSET Selected, poison : Messages \cup {None}]
    /\ admitted \in [day : 0..DailyLimit, month : 0..MonthlyLimit]
    /\ credit \in [Messages -> Int]
    /\ faults \in 0..MaxFaults

\* Exactly the jobs being processed have a lease owner, whatever the order of
\* claims, late publications, repairs and retries; a lease never outlives the
\* processing status it belongs to.
LeaseMeansProcessing ==
    \A m \in Messages :
        /\ job[m].owner # None <=> job[m].status = "processing"
        /\ job[m].live => job[m].owner # None

\* The admissions bound the inference calls: a job that is claimed, reclaimed
\* after lost leases, repaired, failed and retried by hand never asks the
\* model more often than its admissions paid for, MaxAttempts apiece.
InferenceWithinAdmissions == \A m \in Messages : credit[m] >= 0

\* A committed result is final: no late worker, stale repair selection, late
\* publication or retry takes a verified job out of that state (only the
\* retention purge removes it with its message).
VerifiedIsFinal ==
    [][\A m \in Messages :
          job[m].status = "verified" =>
              job'[m].status = "verified" \/ sms'[m].life = "purged"]_vars

\* A lease that has not run out is ended by a step of its own worker only:
\* not by the repair run, another worker, a request or a publication that
\* works from an older look at the row.
LiveLeaseIsRespected ==
    [][\A m \in Messages :
          job[m].live /\ job'[m].owner # job[m].owner /\ sms'[m].life # "purged" =>
              worker'[job[m].owner] # worker[job[m].owner]]_vars

\* An open job is given up only once all its attempts are used: a worker that
\* lost its lease, or a repair run with an old selection, never fails a job
\* that was retried or taken over meanwhile.
FailsOnlyWhenSpent ==
    [][\A m \in Messages :
          job[m].status \in Open /\ job'[m].status = "failed" =>
              Spent(job[m])]_vars

\* Without ingest at work on the same message, a message never gets a second
\* alert from verification, however often its job is claimed and whoever
\* commits after a crash or a lost lease.
OneAlertFromVerification == \A m \in Messages : AlertRows(sms[m]) <= 1

\* No work is lost: an accepted job is verified or failed in the end, through
\* failed publications, crashed workers and repair runs, lost leases and lost
\* deliveries (or it is purged with its message).
NoWorkIsLost ==
    \A m \in Messages :
        job[m].status \in Open ~> job[m].status \in Terminal \cup {"absent"}

\* A finished job's deliveries do not circulate for ever, duplicates and those
\* whose receipt was replaced included, unless a retry reopens the job.
DeliveriesDrain ==
    \A s \in Slots, m \in Messages :
        queue[s].msg = m /\ job[m].status \in Terminal
            ~> queue[s].msg # m \/ job[m].status \in Open

\* The abstract state: a job is open from its creation to its end, and a
\* worker is asking from its claim until it commits or turns to the catch block.
PromisedState(row) ==
    CASE row.status = "absent" -> "none"
      [] row.status \in Open -> "open"
      [] row.status \in Terminal -> row.status

Promise == INSTANCE VerificationPromise WITH
    state <- [m \in Messages |-> PromisedState(job[m])],
    attempts <- [m \in Messages |-> job[m].attempts],
    asking <- [m \in Messages |->
                  {w \in Workers : /\ worker[w].msg = m
                                   /\ worker[w].pc \in {"snapshot", "infer"}}],
    admitted <- admitted.month

\* All of the outbox, lease and repair machinery keeps the plain promise.
KeepsPromise == Promise!Spec

===============================================================================
