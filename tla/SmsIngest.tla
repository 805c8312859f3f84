-------------------------------- MODULE SmsIngest --------------------------------
(***************************************************************************)
(* SmsService.ingest (backend/src/sms/sms.service.ts) at work next to      *)
(* cloud verification and the user: the phone sends a message, possibly    *)
(* several times and at the same time; the user blocks the sender or       *)
(* reports the message; an administrator confirms the sender as fraud.     *)
(*                                                                         *)
(* An ingest reads what it needs before its transaction, looks the message *)
(* up inside it, and writes; under READ COMMITTED another transaction can  *)
(* commit between any two of these.  From its first write on it holds row  *)
(* locks, so the writes are one step.  An ingest that finds its job open   *)
(* goes on to publishAfterCommit.                                          *)
(*                                                                         *)
(* Simplifications: campaigns, suppressed links and the response are left  *)
(* out; a classification from device telemetry has bucket "other", which   *)
(* nothing compares; a message is named by the phone's sourceId.           *)
(***************************************************************************)
EXTENDS CloudVerification

CONSTANT MaxConfirmed \* bound: messages whose sender is confirmed fraud

\* A message has its alerts from its ingest on, and is trusted by its classification.
ASSUME IngestAssumption ==
    /\ MaxConfirmed \in Nat
    /\ \A row \in StoredRows :
        /\ row.life = "new" => AlertRows(row) = 0
        /\ row.trusted => row.life = "stored" /\ row.bucket # "none"

VARIABLES
    ingest,   \* each request's place in ingest
    reported, \* messages the user has reported
    fraud     \* messages whose sender is confirmed fraud

ingestVars == <<ingest, reported, fraud>>
allVars == <<vars, ingestVars>>

RestingIngest ==
    [pc |-> "idle", msg |-> None, blocked |-> FALSE, verdict |-> "none",
     alarm |-> FALSE, trusted |-> FALSE, judged |-> FALSE, seen |-> "none"]

IngestInit ==
    /\ Init
    /\ ingest = [r \in Requests |-> RestingIngest]
    /\ reported = {}
    /\ fraud = {}

-------------------------------------------------------------------------------
\* Before the transaction: the sender's block, the live model's verdict within
\* the request's budget ("none": no answer in time), and whether the message
\* calls for an alert: by the model's bucket, without one by the device's own
\* label, and in any case for a sender confirmed as fraud.
IngestStarts(r, m) ==
    /\ ingest[r] = RestingIngest
    /\ pub[r] = Idle
    /\ sms[m].life # "purged"
    /\ \E verdict \in Buckets \cup {"none"}, scam \in BOOLEAN :
           ingest' = [ingest EXCEPT ![r] =
               [@ EXCEPT !.pc = "look", !.msg = m, !.blocked = sms[m].blocked,
                         !.verdict = verdict,
                         !.alarm = \/ m \in fraud
                                   \/ verdict = "blocked"
                                   \/ verdict = "none" /\ scam]]
    /\ UNCHANGED <<vars, reported, fraud>>

\* The transaction looks the message up.
IngestLooks(r) ==
    LET row == sms[ingest[r].msg]
    IN  /\ ingest[r].pc = "look"
        /\ ingest' = [ingest EXCEPT ![r] =
               IF row.life = "stored"
               THEN [@ EXCEPT !.pc = "update", !.trusted = row.trusted,
                              !.judged = row.bucket # "none",
                              !.seen = AlertsSeen(row)]
               ELSE [@ EXCEPT !.pc = "insert"]]
        /\ UNCHANGED <<vars, reported, fraud>>

\* createJobInTransaction, then publishAfterCommit unless the job is verified.
EnsureJob(r, m, alreadyVerified) ==
    /\ \/ CreateJob(m, alreadyVerified)
       \/ job[m].status # "absent" /\ UNCHANGED <<job, admitted, credit>>
    /\ pub' = [pub EXCEPT ![r] =
                   IF job'[m].status = "verified" THEN Idle ELSE Publishing(m)]

IngestEnds(r) == ingest' = [ingest EXCEPT ![r] = RestingIngest]

\* Mutant of Promotes: decided from the earlier look alone.
PromotesAgain(i, row) ==
    ~i.trusted /\ i.verdict # "none" /\ row.life = "stored"

\* The message is there: a server verdict replaces device telemetry, once.
Promotes(i, row) == ~i.trusted /\ i.verdict # "none" /\ ~row.trusted

\* A row from before classifications were stored gets one now.
Classifies(i, row) == ~i.trusted /\ i.verdict = "none" /\ ~i.judged

\* Both fail on the unique key when somebody else classified meanwhile.
UniqueClash(i, row) ==
    (Promotes(i, row) \/ Classifies(i, row)) /\ ~i.judged /\ row.bucket # "none"

\* Mutant of AfterIngest: the promotion forgets the trusted flag.
AfterIngestUntrusted(i, row) ==
    IF Promotes(i, row)
    THEN [row EXCEPT !.bucket = i.verdict,
                     !.pending = PendingAfter(row, i.seen, i.alarm, i.blocked)]
    ELSE IF Classifies(i, row)
    THEN [row EXCEPT !.bucket = "other",
                     !.pending = IF i.alarm /\ ~i.blocked /\ i.seen = "none"
                                 THEN @ + 1 ELSE @]
    ELSE row

AfterIngest(i, row) ==
    IF Promotes(i, row)
    THEN [row EXCEPT !.trusted = TRUE, !.bucket = i.verdict,
                     !.pending = PendingAfter(row, i.seen, i.alarm, i.blocked)]
    ELSE IF Classifies(i, row)
    THEN [row EXCEPT !.bucket = "other",
                     !.pending = IF i.alarm /\ ~i.blocked /\ i.seen = "none"
                                 THEN @ + 1 ELSE @]
    ELSE row

IngestUpdates(r) ==
    LET i == ingest[r]
        m == i.msg
    IN  /\ i.pc = "update"
        /\ sms[m].life = "stored"
        /\ ~UniqueClash(i, sms[m])
        /\ sms' = [sms EXCEPT ![m] = AfterIngest(i, @)]
        /\ EnsureJob(r, m, ~i.trusted /\ i.verdict # "none")
        /\ IngestEnds(r)
        /\ UNCHANGED <<queue, worker, repair, faults, reported, fraud>>

\* The message is new.
IngestInserts(r) ==
    LET i == ingest[r]
        m == i.msg
    IN  /\ i.pc = "insert"
        /\ sms[m].life = "new"
        /\ sms' = [sms EXCEPT ![m] =
               [@ EXCEPT !.life = "stored",
                         !.trusted = i.verdict # "none",
                         !.bucket = IF i.verdict = "none" THEN "other"
                                    ELSE i.verdict,
                         !.pending = IF i.alarm /\ ~i.blocked THEN 1 ELSE 0]]
        /\ EnsureJob(r, m, i.verdict # "none")
        /\ IngestEnds(r)
        /\ UNCHANGED <<queue, worker, repair, faults, reported, fraud>>

\* A unique key was taken meanwhile: the request becomes a read of the job.
IngestClashes(r) ==
    LET i == ingest[r]
        m == i.msg
    IN  /\ \/ i.pc = "insert" /\ sms[m].life = "stored"
           \/ i.pc = "update" /\ sms[m].life = "stored" /\ UniqueClash(i, sms[m])
        /\ pub' = [pub EXCEPT ![r] =
               IF job[m].status \in {"absent", "verified"} THEN Idle
               ELSE Publishing(m)]
        /\ IngestEnds(r)
        /\ UNCHANGED <<job, sms, queue, worker, repair, admitted, credit, faults,
                       reported, fraud>>

\* The message was purged meanwhile, so the job's foreign key fails the request;
\* or the transaction is aborted (ingest and a worker's commit lock the message
\* and its classification in opposite orders, and the database breaks the tie),
\* which may happen to any of them: nothing is written.
IngestFails(r) ==
    /\ ingest[r].pc \in {"insert", "update"}
    /\ IngestEnds(r)
    /\ UNCHANGED <<vars, reported, fraud>>

-------------------------------------------------------------------------------
(***************************************************************************)
(* The user and the administrator                                          *)
(***************************************************************************)
BlockSender(m) ==
    /\ ~sms[m].blocked
    /\ sms' = [sms EXCEPT ![m] =
           [@ EXCEPT !.blocked = TRUE, !.pending = 0,
                     !.silenced = sms[m].silenced + sms[m].pending]]
    /\ UNCHANGED <<job, queue, worker, pub, repair, admitted, credit, faults,
                   ingestVars>>

UnblockSender(m) ==
    /\ sms[m].blocked
    /\ sms' = [sms EXCEPT ![m] =
           [@ EXCEPT !.blocked = FALSE, !.silenced = 0,
                     !.pending = sms[m].pending + sms[m].silenced]]
    /\ UNCHANGED <<job, queue, worker, pub, repair, admitted, credit, faults,
                   ingestVars>>

\* One report per message; every alert of it becomes Reported.
ReportMessage(m) ==
    /\ sms[m].life = "stored"
    /\ m \notin reported
    /\ reported' = reported \cup {m}
    /\ sms' = [sms EXCEPT ![m] =
           [@ EXCEPT !.pending = 0, !.silenced = 0,
                     !.reported = AlertRows(sms[m])]]
    /\ UNCHANGED <<job, queue, worker, pub, repair, admitted, credit, faults,
                   ingest, fraud>>

\* An administrator's review of sender reports, as ingest sees it.
ConfirmFraud(m) ==
    /\ m \notin fraud
    /\ Cardinality(fraud) < MaxConfirmed
    /\ fraud' = fraud \cup {m}
    /\ UNCHANGED <<vars, ingest, reported>>

-------------------------------------------------------------------------------
IngestStep(r) ==
    \/ \E m \in Messages : IngestStarts(r, m)
    \/ IngestLooks(r)
    \/ IngestUpdates(r)
    \/ IngestInserts(r)
    \/ IngestClashes(r)
    \/ IngestFails(r)

UserStep(m) ==
    \/ BlockSender(m)
    \/ UnblockSender(m)
    \/ ReportMessage(m)
    \/ ConfirmFraud(m)

\* A request is busy with one thing at a time.
Verification ==
    /\ Next
    /\ \A r \in Requests : pub'[r] # pub[r] => ingest[r] = RestingIngest
    /\ UNCHANGED ingestVars

IngestNext ==
    \/ \E r \in Requests : IngestStep(r)
    \/ \E m \in Messages : UserStep(m)
    \/ Verification

IngestSpec == IngestInit /\ [][IngestNext]_allVars

-------------------------------------------------------------------------------
(***************************************************************************)
(* Properties                                                              *)
(***************************************************************************)
IngestPlace ==
    [pc : {"idle", "look", "update", "insert"},
     msg : Messages \cup {None}, blocked : BOOLEAN,
     verdict : Buckets \cup {"none"}, alarm : BOOLEAN,
     trusted : BOOLEAN, judged : BOOLEAN,
     seen : {"none", "pending", "acted"}]

IngestTypeOK ==
    /\ TypeOK
    /\ ingest \in [Requests -> IngestPlace]
    /\ reported \subseteq Messages
    /\ fraud \subseteq Messages

\* A message has one alert at most: simultaneous deliveries of it, promotions
\* and repairs of a fallback and the worker's verdict never add up to two.
OneAlertPerMessage == \A m \in Messages : AlertRows(sms[m]) <= 1

\* What ingest does by itself, with its compare-and-set of the trusted flag,
\* never makes a second alert: there is one only on a job that a worker had
\* claimed and that has its verdict, and there is never a third.
OneAlertFromIngest ==
    \A m \in Messages :
        AlertRows(sms[m]) > 1 =>
            /\ AlertRows(sms[m]) = 2
            /\ job[m].status = "verified"
            /\ job[m].attempts >= 1

\* Whoever marks a job verified, the worker or an ingest with a live verdict,
\* has stored the model's classification on a trusted message by then: the
\* verdict that a repeated ingest returns for a verified job is the model's.
VerifiedIsTheModels ==
    \A m \in Messages :
        job[m].status = "verified" =>
            sms[m].life = "stored" /\ sms[m].trusted /\ sms[m].bucket # "none"

\* With ingest at work the promise still holds, but for messages that come with
\* the model's live verdict and are verified from the start.
KeepsVouchedPromise == Promise!VouchedSpec

===============================================================================
