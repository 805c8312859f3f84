------------------------------ MODULE Retraining ------------------------------
(***************************************************************************)
(* Retraining requests and drift investigations                            *)
(* (backend/src/retraining/retraining.service.ts).                         *)
(*                                                                         *)
(* A server lets one request through at a time (_retrainInFlight), all of  *)
(* them together one (the advisory lock, held while the AI service is      *)
(* called).  A request made for an investigation links its job to it when  *)
(* it comes back; meanwhile administrators work on the investigation.      *)
(*                                                                         *)
(* Simplifications: what fires the trigger is left open; a dataset         *)
(* snapshot exists; notes, metrics and the signal an investigation is for  *)
(* are left out, so a second one for the same signal is not refused.       *)
(***************************************************************************)
EXTENDS Naturals

CONSTANTS
    Servers,        \* backend processes
    Jobs,           \* RetrainingJob rows
    Investigations, \* DriftInvestigation rows
    Editors,        \* updates of investigations at the same time
    NoJob, NoInvestigation

ASSUME RetrainAssumption == NoJob \notin Jobs /\ NoInvestigation \notin Investigations

VARIABLES
    jobStatus,     \* RetrainingJobStatus of each job
    queued,        \* jobs the AI service queued
    investigation, \* DriftInvestigationStatus of each investigation
    linked,        \* retrainingJobId
    request,       \* the request each server has in flight
    edit           \* each update's place

retrainVars == <<jobStatus, queued, investigation, linked, request, edit>>

-------------------------------------------------------------------------------
OpenStates == {"OPEN", "INVESTIGATING"}
ClosedStates == {"RESOLVED", "DISMISSED"}

NextStates(status) ==
    CASE status = "OPEN" -> {"INVESTIGATING"} \cup ClosedStates
      [] status = "INVESTIGATING" -> ClosedStates
      [] OTHER -> {}

NoRequest == [step |-> "none", job |-> NoJob, for |-> NoInvestigation]
Request == [step : {"none", "lock", "call", "accept", "audit", "fail", "link"},
            job : Jobs \cup {NoJob}, for : Investigations \cup {NoInvestigation}]
NoEdit == [on |-> NoInvestigation, from |-> "none", to |-> "none"]
Edit == [on : Investigations \cup {NoInvestigation},
         from : OpenStates \cup {"none"}, to : OpenStates \cup ClosedStates \cup {"none"}]

RetrainInit ==
    /\ jobStatus = [j \in Jobs |-> "none"]
    /\ queued = {}
    /\ investigation = [i \in Investigations |-> "none"]
    /\ linked = [i \in Investigations |-> NoJob]
    /\ request = [p \in Servers |-> NoRequest]
    /\ edit = [e \in Editors |-> NoEdit]

-------------------------------------------------------------------------------
(***************************************************************************)
(* triggerRetrain and requestAndRecord                                     *)
(***************************************************************************)
Moves(p, step) == request' = [request EXCEPT ![p].step = step]
JobIs(p, status) == jobStatus' = [jobStatus EXCEPT ![request[p].job] = status]

\* By the hourly check, or for an open investigation; the row comes first.
Trigger(p, j, i) ==
    /\ request[p] = NoRequest
    /\ jobStatus[j] = "none"
    /\ i # NoInvestigation => investigation[i] \in OpenStates
    /\ jobStatus' = [jobStatus EXCEPT ![j] = "PENDING"]
    /\ request' = [request EXCEPT ![p] = [step |-> "lock", job |-> j, for |-> i]]
    /\ UNCHANGED <<queued, investigation, linked, edit>>

LockFree(p) == \A q \in Servers : request[q].step # "call"

TryLock(p) ==
    /\ request[p].step = "lock"
    /\ Moves(p, IF LockFree(p) THEN "call" ELSE "fail")
    /\ UNCHANGED <<jobStatus, queued, investigation, linked, edit>>

\* Mutant of Accepts: an answer that names no snapshot is taken.
AcceptsAny(echoes) == TRUE

\* An answer that does not name the snapshot counts as a rejection.
Accepts(echoes) == echoes

\* The AI service queues the job with its snapshot.
AiQueues(p) ==
    /\ request[p].step = "call"
    /\ queued' = queued \cup {request[p].job}
    /\ Moves(p, "accept")
    /\ UNCHANGED <<jobStatus, investigation, linked, edit>>

\* An older AI service queues it without.
AiQueuesUnnamed(p) ==
    /\ request[p].step = "call"
    /\ Moves(p, IF Accepts(FALSE) THEN "accept" ELSE "fail")
    /\ UNCHANGED <<jobStatus, queued, investigation, linked, edit>>

\* It refuses, fails or times out; a late answer is not awaited.
AiFails(p) ==
    /\ request[p].step = "call"
    /\ queued' \in {queued, queued \cup {request[p].job}}
    /\ Moves(p, "fail")
    /\ UNCHANGED <<jobStatus, investigation, linked, edit>>

AcceptJob(p) ==
    /\ request[p].step = "accept"
    /\ JobIs(p, "ACCEPTED")
    /\ Moves(p, "audit")
    /\ UNCHANGED <<queued, investigation, linked, edit>>

\* An audit record that fails takes the job with it.
AuditJob(p) ==
    /\ request[p].step = "audit"
    /\ \/ Moves(p, "fail")
       \/ request' = IF request[p].for = NoInvestigation
                     THEN [request EXCEPT ![p] = NoRequest]
                     ELSE [request EXCEPT ![p].step = "link"]
    /\ UNCHANGED <<jobStatus, queued, investigation, linked, edit>>

FailJob(p) ==
    /\ request[p].step = "fail"
    /\ JobIs(p, "FAILED")
    /\ request' = [request EXCEPT ![p] = NoRequest]
    /\ UNCHANGED <<queued, investigation, linked, edit>>

\* retrainForInvestigation, after the job came back.
LinkJob(p) ==
    LET i == request[p].for IN
    /\ request[p].step = "link"
    /\ linked' = [linked EXCEPT ![i] = request[p].job]
    /\ investigation' = [investigation EXCEPT ![i] = "INVESTIGATING"]
    /\ request' = [request EXCEPT ![p] = NoRequest]
    /\ UNCHANGED <<jobStatus, queued, edit>>

ServerDies(p) ==
    /\ request[p] # NoRequest
    /\ request' = [request EXCEPT ![p] = NoRequest]
    /\ UNCHANGED <<jobStatus, queued, investigation, linked, edit>>

-------------------------------------------------------------------------------
(***************************************************************************)
(* Investigations                                                          *)
(***************************************************************************)
OpenInvestigation(i) ==
    /\ investigation[i] = "none"
    /\ investigation' = [investigation EXCEPT ![i] = "OPEN"]
    /\ UNCHANGED <<jobStatus, queued, linked, request, edit>>

\* A change of status, or of the notes of an open one.
StartEdit(e, i, to) ==
    /\ edit[e] = NoEdit
    /\ investigation[i] \in OpenStates
    /\ to \in NextStates(investigation[i]) \cup {investigation[i]}
    /\ edit' = [edit EXCEPT ![e] = [on |-> i, from |-> investigation[i], to |-> to]]
    /\ UNCHANGED <<jobStatus, queued, investigation, linked, request>>

\* Mutant of Unchanged: the update looks for the investigation's id alone.
UnchangedOrNot(e) == TRUE

\* The status is part of the update's condition.
Unchanged(e) == investigation[edit[e].on] = edit[e].from

FinishEdit(e) ==
    /\ edit[e] # NoEdit
    /\ investigation' = IF Unchanged(e)
                        THEN [investigation EXCEPT ![edit[e].on] = edit[e].to]
                        ELSE investigation
    /\ edit' = [edit EXCEPT ![e] = NoEdit]
    /\ UNCHANGED <<jobStatus, queued, linked, request>>

-------------------------------------------------------------------------------
RetrainNext ==
    \/ \E p \in Servers :
        \/ \E j \in Jobs, i \in Investigations \cup {NoInvestigation} : Trigger(p, j, i)
        \/ TryLock(p) \/ AiQueues(p) \/ AiQueuesUnnamed(p) \/ AiFails(p)
        \/ AcceptJob(p) \/ AuditJob(p) \/ FailJob(p) \/ LinkJob(p) \/ ServerDies(p)
    \/ \E i \in Investigations :
        \/ OpenInvestigation(i)
        \/ \E e \in Editors, to \in OpenStates \cup ClosedStates : StartEdit(e, i, to)
    \/ \E e \in Editors : FinishEdit(e)

RetrainSpec == RetrainInit /\ [][RetrainNext]_retrainVars

-------------------------------------------------------------------------------
\* Every variable has its type.
RetrainTypeOK ==
    /\ jobStatus \in [Jobs -> {"none", "PENDING", "ACCEPTED", "FAILED"}]
    /\ queued \subseteq Jobs
    /\ investigation \in [Investigations -> OpenStates \cup ClosedStates \cup {"none"}]
    /\ linked \in [Investigations -> Jobs \cup {NoJob}]
    /\ request \in [Servers -> Request]
    /\ edit \in [Editors -> Edit]

\* An accepted job is one the AI service queued with the snapshot it is to train
\* on, and an investigation is linked to such a job or to one that failed later.
AcceptedJobsAreQueued ==
    /\ \A j \in Jobs : jobStatus[j] = "ACCEPTED" => j \in queued
    /\ \A i \in Investigations : linked[i] # NoJob => linked[i] \in queued

\* The test "never reopens a closed investigation".
ClosedIsFinal ==
    [][\A i \in Investigations :
        investigation[i] \in ClosedStates => investigation'[i] = investigation[i]]_retrainVars

\* Where that test does not look: a closed investigation changes only when a
\* request for it returns late, and then its job is one the AI service queued.
\* No edit reopens one, whatever it had read before.
OnlyARequestReopens ==
    [][\A i \in Investigations :
        investigation[i] \in ClosedStates /\ investigation'[i] # investigation[i] =>
            \E p \in Servers :
                /\ request[p].step = "link" /\ request[p].for = i
                /\ investigation'[i] = "INVESTIGATING"
                /\ linked'[i] = request[p].job /\ linked'[i] \in queued]_retrainVars
===============================================================================
