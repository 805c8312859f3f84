-------------------------- MODULE ModelLifecycle_proofs -------------------------
(***************************************************************************)
(* Proofs about ModelRegistry, Retraining, RetrainQueue and Datasets, for  *)
(* any number of versions, digests, jobs, investigations, messages,        *)
(* samples, snapshots and concurrent calls.                                *)
(***************************************************************************)
EXTENDS ModelRegistry, Retraining, RetrainQueue, Datasets, FiniteSetTheorems, TLAPS

-------------------------------------------------------------------------------
(***************************************************************************)
(* The registry                                                            *)
(***************************************************************************)
\* A call that is under way is about a version; what a decision or a refresh has
\* loaded are the bytes of that version, which is registered and keeps them.
CallsAreSound ==
    \A a \in Reviewers :
        /\ review[a].op # "none" => review[a].version \in Versions
        /\ review[a].op \in {"register", "approve"} =>
               /\ stage[review[a].version] # "absent"
               /\ bytes[review[a].version] = review[a].digest

RegistryInv == ModelTypeOK /\ CallsAreSound /\ FlagFollowsStatus

LEMMA RegistryStarts == ModelInit => RegistryInv
  BY DEF ModelInit, RegistryInv, ModelTypeOK, CallsAreSound, FlagFollowsStatus, AtEase,
         ReviewCall, Stages, NotReady

\* A call loads a version, and nothing else happens.
LEMMA LoadingKeeps ==
    ASSUME RegistryInv, NEW a \in Reviewers, NEW v \in Versions,
           NEW op \in {"register", "approve", "reject", "request", "serving"},
           NEW d \in Digests \cup {NoDigest}, NEW whole \in BOOLEAN,
           Loads(a, op, v, d, whole),
           op \in {"register", "approve"} => stage[v] # "absent" /\ bytes[v] = d,
           UNCHANGED <<stage, bytes, complete, active, serving>>
    PROVE  RegistryInv'
<1> DEFINE loaded == [AtEase EXCEPT !.op = op, !.version = v, !.digest = d, !.complete = whole]
<1>1. review' = [review EXCEPT ![a] = loaded]
  BY DEF Loads
<1>2. loaded \in ReviewCall /\ loaded.op = op /\ loaded.version = v /\ loaded.digest = d
  <2>1. AtEase \in ReviewCall
    BY DEF AtEase, ReviewCall
  <2> QED BY <2>1 DEF ReviewCall
<1> HIDE DEF loaded
<1>3. ModelTypeOK'
  BY <1>1, <1>2 DEF RegistryInv, ModelTypeOK
<1>4. CallsAreSound'
  BY <1>1, <1>2 DEF RegistryInv, ModelTypeOK, CallsAreSound
<1> QED BY <1>3, <1>4 DEF RegistryInv, FlagFollowsStatus

\* A call comes to its end; the versions it moves were not active and are not now.
LEMMA ConcludingKeeps ==
    ASSUME RegistryInv, NEW a \in Reviewers, Concludes(a),
           stage' \in [Versions -> Stages],
           \A v \in Versions : stage'[v] # stage[v] =>
               stage[v] \notin {"absent", "ACTIVE"} /\ stage'[v] \notin {"absent", "ACTIVE"},
           UNCHANGED <<bytes, complete, active, serving>>
    PROVE  RegistryInv'
<1>1. review' = [review EXCEPT ![a] = AtEase] /\ AtEase \in ReviewCall
  BY DEF Concludes, AtEase, ReviewCall
<1>2. ModelTypeOK'
  BY <1>1 DEF RegistryInv, ModelTypeOK
<1>3. CallsAreSound'
  BY <1>1 DEF RegistryInv, ModelTypeOK, CallsAreSound, AtEase
<1>4. FlagFollowsStatus'
  BY DEF RegistryInv, FlagFollowsStatus
<1> QED BY <1>2, <1>3, <1>4 DEF RegistryInv

LEMMA RegisterKeeps ==
    ASSUME RegistryInv, NEW v \in Versions, NEW d \in Digests \cup {NoDigest},
           NEW whole \in BOOLEAN, Register(v, d, whole)
    PROVE  RegistryInv'
<1>1. ModelTypeOK'
  BY DEF RegistryInv, ModelTypeOK, Register, Stages
<1>2. CallsAreSound'
  BY DEF RegistryInv, ModelTypeOK, CallsAreSound, Register
<1>3. FlagFollowsStatus'
  BY DEF RegistryInv, ModelTypeOK, FlagFollowsStatus, Register
<1> QED BY <1>1, <1>2, <1>3 DEF RegistryInv

\* What a refresh writes are the bytes that are there.
LEMMA RefreshKeeps ==
    ASSUME RegistryInv, NEW a \in Reviewers, Refresh(a)
    PROVE  RegistryInv'
<1>1. review[a].version \in Versions /\ review[a] \in ReviewCall
  BY DEF RegistryInv, CallsAreSound, ModelTypeOK, Refresh
<1>2. bytes' = bytes
  BY <1>1 DEF RegistryInv, CallsAreSound, ModelTypeOK, Refresh
<1>3. review' = [review EXCEPT ![a] = AtEase] /\ AtEase \in ReviewCall
  BY DEF Refresh, Concludes, AtEase, ReviewCall
<1>4. ModelTypeOK'
  BY <1>1, <1>2, <1>3 DEF RegistryInv, ModelTypeOK, Refresh, ReviewCall
<1>5. CallsAreSound'
  BY <1>2, <1>3 DEF RegistryInv, ModelTypeOK, CallsAreSound, Refresh, AtEase
<1> QED BY <1>4, <1>5 DEF RegistryInv, FlagFollowsStatus, Refresh

LEMMA DecisionKeeps ==
    ASSUME RegistryInv, NEW a \in Reviewers,
           ApproveVersion(a) \/ RejectVersion(a) \/ RequestActivation(a)
    PROVE  RegistryInv'
<1> PICK op \in {"approve", "reject", "request"},
         from \in {Reviewable, Rejectable, {"APPROVED"}},
         to \in {"APPROVED", "REJECTED", "ACTIVATION_REQUESTED"} : Decides(a, op, from, to)
  BY DEF ApproveVersion, RejectVersion, RequestActivation
<1>1. review[a].version \in Versions
  BY DEF RegistryInv, CallsAreSound, Decides
<1>2. /\ stage' \in [Versions -> Stages]
      /\ \A v \in Versions : stage'[v] # stage[v] =>
             stage[v] \notin {"absent", "ACTIVE"} /\ stage'[v] \notin {"absent", "ACTIVE"}
  BY <1>1 DEF RegistryInv, ModelTypeOK, Decides, Movable, Reviewable, Rejectable, Stages
<1> QED BY <1>2, ConcludingKeeps DEF Decides

LEMMA FailedActivationKeeps ==
    ASSUME RegistryInv, NEW v \in Versions, MarkActivationFailed(v)
    PROVE  RegistryInv'
  BY DEF RegistryInv, ModelTypeOK, CallsAreSound, FlagFollowsStatus, MarkActivationFailed, Stages

LEMMA ConfirmationKeeps ==
    ASSUME RegistryInv, NEW a \in Reviewers, AskServing(a) \/ Demote(a)
    PROVE  RegistryInv'
<1>1. CASE Concludes(a) /\ UNCHANGED <<stage, bytes, complete, active, serving>>
  BY <1>1, ConcludingKeeps DEF RegistryInv, ModelTypeOK
<1>2. CASE ~Concludes(a)
  <2>1. /\ UNCHANGED <<stage, bytes, complete, active, serving>>
        /\ review[a].op \in {"serving", "demote"}
    BY DEF AskServing, Demote
  <2>2. PICK op \in {"demote", "promote"}, others \in SUBSET Versions :
            review' = [review EXCEPT ![a] = [review[a] EXCEPT !.op = op, !.others = others]]
    <3>1. CASE AskServing(a)
      <4>1. review[a] \in ReviewCall
        BY DEF RegistryInv, ModelTypeOK
      <4>2. review' = [review EXCEPT ![a] = [review[a] EXCEPT !.op = "demote"]]
        BY <1>2, <3>1 DEF AskServing
      <4>3. [review[a] EXCEPT !.op = "demote"]
                = [review[a] EXCEPT !.op = "demote", !.others = review[a].others]
        BY <4>1 DEF ReviewCall
      <4>4. review[a].others \in SUBSET Versions
        BY <4>1 DEF ReviewCall
      <4> QED BY <4>2, <4>3, <4>4
    <3>2. CASE Demote(a)
      <4>1. active \ {review[a].version} \in SUBSET Versions
        BY DEF RegistryInv, ModelTypeOK
      <4> QED BY <3>2, <4>1 DEF Demote, RegistryInv, ModelTypeOK
    <3> QED BY <3>1, <3>2
  <2>3. ModelTypeOK'
    BY <2>1, <2>2 DEF RegistryInv, ModelTypeOK, ReviewCall
  <2>4. CallsAreSound'
    BY <2>1, <2>2 DEF RegistryInv, ModelTypeOK, CallsAreSound, ReviewCall
  <2> QED BY <2>1, <2>3, <2>4 DEF RegistryInv, FlagFollowsStatus
<1> QED BY <1>1, <1>2 DEF AskServing, Demote

\* A version that becomes active was requested, and takes the flag of the others
\* in the step that takes their status.
LEMMA PromotionKeeps ==
    ASSUME RegistryInv, NEW a \in Reviewers, Promote(a)
    PROVE  RegistryInv'
<1> DEFINE v == review[a].version
           old == IF Demotes(a) THEN review[a].others \cap active ELSE {}
           new == IF stage[v] = "ACTIVATION_REQUESTED" THEN {v} ELSE {}
<1>1. /\ v \in Versions
      /\ active' = (active \ old) \cup new
      /\ stage' = [u \in Versions |->
             CASE u \in new -> "ACTIVE" [] u \in old -> "APPROVED" [] OTHER -> stage[u]]
      /\ review' = [review EXCEPT ![a] = AtEase]
      /\ UNCHANGED <<bytes, complete, serving>>
  BY DEF RegistryInv, CallsAreSound, Promote, Concludes
<1>2. AtEase \in ReviewCall /\ AtEase.op = "none"
  BY DEF AtEase, ReviewCall
<1>3. /\ old \subseteq active /\ active \subseteq Versions /\ new \subseteq {v}
      /\ v \in new => stage[v] = "ACTIVATION_REQUESTED"
      /\ active = {u \in Versions : stage[u] = "ACTIVE"}
  BY DEF RegistryInv, ModelTypeOK, FlagFollowsStatus
<1> HIDE DEF v, old, new
<1>4. ModelTypeOK'
  BY <1>1, <1>2, <1>3 DEF RegistryInv, ModelTypeOK, Stages
<1>5. CallsAreSound'
  <2>1. \A u \in Versions : stage[u] # "absent" => stage'[u] # "absent"
    BY <1>1
  <2> QED BY <1>1, <1>2, <2>1 DEF RegistryInv, ModelTypeOK, CallsAreSound
<1>6. FlagFollowsStatus'
  BY <1>1, <1>3 DEF FlagFollowsStatus
<1> QED BY <1>4, <1>5, <1>6 DEF RegistryInv

LEMMA RegistryStep == RegistryInv /\ [ModelNext]_modelVars => RegistryInv'
<1> SUFFICES ASSUME RegistryInv, [ModelNext]_modelVars PROVE RegistryInv'
  OBVIOUS
<1>1. CASE \E v \in Versions, d \in Digests \cup {NoDigest}, whole \in BOOLEAN :
               Register(v, d, whole) \/ \E a \in Reviewers : StartRefresh(a, v, d, whole)
  <2> PICK v \in Versions, d \in Digests \cup {NoDigest}, whole \in BOOLEAN :
          Register(v, d, whole) \/ \E a \in Reviewers : StartRefresh(a, v, d, whole)
    BY <1>1
  <2>1. CASE \E a \in Reviewers : StartRefresh(a, v, d, whole)
    BY <2>1, LoadingKeeps DEF StartRefresh, SameBytes, Reviewable
  <2> QED BY <2>1, RegisterKeeps
<1>2. CASE \E v \in Versions, a \in Reviewers :
               StartApprove(a, v) \/ StartReject(a, v) \/ StartRequest(a, v) \/ StartConfirm(a, v)
  <2> PICK v \in Versions, a \in Reviewers :
          StartApprove(a, v) \/ StartReject(a, v) \/ StartRequest(a, v) \/ StartConfirm(a, v)
    BY <1>2
  <2>1. bytes[v] \in Digests \cup {NoDigest} /\ complete[v] \in BOOLEAN
    BY DEF RegistryInv, ModelTypeOK
  <2>2. CASE StartApprove(a, v)
    BY <2>1, <2>2, LoadingKeeps DEF StartApprove, Reviewable
  <2>3. CASE StartReject(a, v)
    BY <2>1, <2>3, LoadingKeeps DEF StartReject
  <2>4. CASE StartRequest(a, v)
    BY <2>1, <2>4, LoadingKeeps DEF StartRequest
  <2>5. CASE StartConfirm(a, v)
    BY <2>1, <2>5, LoadingKeeps DEF StartConfirm
  <2> QED BY <2>2, <2>3, <2>4, <2>5
<1>3. CASE \E v \in Versions : MarkActivationFailed(v)
  BY <1>3, FailedActivationKeeps
<1>4. CASE \E a \in Reviewers :
               \/ Refresh(a) \/ ApproveVersion(a) \/ RejectVersion(a) \/ RequestActivation(a)
               \/ AskServing(a) \/ Demote(a) \/ Promote(a)
  BY <1>4, RefreshKeeps, DecisionKeeps, ConfirmationKeeps, PromotionKeeps
<1>5. CASE \E h \in (Health \cup {NotReady}) \ {serving} : Installs(h)
  BY <1>5 DEF Installs, RegistryInv, ModelTypeOK, CallsAreSound, FlagFollowsStatus
<1>6. CASE UNCHANGED modelVars
  BY <1>6 DEF modelVars, RegistryInv, ModelTypeOK, CallsAreSound, FlagFollowsStatus
<1> QED BY <1>1, <1>2, <1>3, <1>4, <1>5, <1>6 DEF ModelNext

LEMMA RegistryHolds == ModelSpec => []RegistryInv
  BY RegistryStarts, RegistryStep, PTL DEF ModelSpec

\* Every variable of the registry keeps its type.
THEOREM ModelTypes == ModelSpec => []ModelTypeOK
  BY RegistryHolds, PTL DEF RegistryInv

\* The flag isActive and the status ACTIVE never disagree (confirmActivation,
\* transition).
THEOREM OneTruth == ModelSpec => []FlagFollowsStatus
  BY RegistryHolds, PTL DEF RegistryInv

\* An approval approves the bytes that were assessed (approve, register).
THEOREM AssessedBytes == ModelSpec => ApprovesTheAssessedBytes
<1>1. ASSUME RegistryInv, [ModelNext]_modelVars
      PROVE  [\A a \in Reviewers :
                LET v == review[a].version IN
                ApproveVersion(a) /\ stage[v] # "APPROVED" /\ stage'[v] = "APPROVED"
                    => bytes[v] = review[a].digest]_modelVars
  BY <1>1 DEF RegistryInv, CallsAreSound, ApproveVersion, Decides
<1> QED BY <1>1, RegistryHolds, PTL DEF ModelSpec, ApprovesTheAssessedBytes

\* A registry with an active version keeps one: the only step that takes a flag
\* away gives it to the version that is confirmed (confirmActivation).
THEOREM StaysActive == ModelSpec => AVersionStaysActive
<1>1. ASSUME [ModelNext]_modelVars
      PROVE  [active # {} => active' # {}]_modelVars
  <2>1. ASSUME NEW a \in Reviewers, Promote(a), active # {} PROVE active' # {}
    BY <2>1 DEF Promote, Demotes
  <2>2. ASSUME NEW a \in Reviewers,
               \/ Refresh(a) \/ ApproveVersion(a) \/ RejectVersion(a) \/ RequestActivation(a)
               \/ AskServing(a) \/ Demote(a)
        PROVE  active' = active
    BY <2>2 DEF Refresh, ApproveVersion, RejectVersion, RequestActivation, Decides,
                AskServing, Demote
  <2>3. ASSUME \/ \E v \in Versions, d \in Digests \cup {NoDigest}, whole \in BOOLEAN :
                      Register(v, d, whole) \/ \E a \in Reviewers : StartRefresh(a, v, d, whole)
               \/ \E v \in Versions, a \in Reviewers :
                      \/ StartApprove(a, v) \/ StartReject(a, v) \/ StartRequest(a, v)
                      \/ StartConfirm(a, v)
               \/ \E v \in Versions : MarkActivationFailed(v)
               \/ \E h \in (Health \cup {NotReady}) \ {serving} : Installs(h)
        PROVE  active' = active
    BY <2>3 DEF Register, StartRefresh, StartApprove, StartReject, StartRequest, StartConfirm,
                MarkActivationFailed, Installs
  <2> QED BY <1>1, <2>1, <2>2, <2>3 DEF ModelNext
<1> QED BY <1>1, PTL DEF ModelSpec, AVersionStaysActive

-------------------------------------------------------------------------------
(***************************************************************************)
(* Retraining                                                              *)
(***************************************************************************)
\* A request under way has a job, and one that was accepted has a queued job; only
\* a request made for an investigation comes to link it.
RequestsAreSound ==
    \A p \in Servers :
        /\ request[p] # NoRequest => request[p].job \in Jobs
        /\ request[p].step \in {"accept", "audit", "link"} => request[p].job \in queued
        /\ request[p].step = "link" => request[p].for \in Investigations

EditsAreSound ==
    \A e \in Editors : edit[e] # NoEdit =>
        edit[e].on \in Investigations /\ edit[e].to \in OpenStates \cup ClosedStates

RetrainInv == RetrainTypeOK /\ RequestsAreSound /\ EditsAreSound /\ AcceptedJobsAreQueued

LEMMA RetrainStarts == RetrainInit => RetrainInv
<1> SUFFICES ASSUME RetrainInit PROVE RetrainInv
  OBVIOUS
<1>1. RetrainTypeOK
  BY DEF RetrainInit, RetrainTypeOK, NoRequest, Request, NoEdit, Edit
<1>2. RequestsAreSound /\ EditsAreSound /\ AcceptedJobsAreQueued
  BY DEF RetrainInit, RequestsAreSound, EditsAreSound, AcceptedJobsAreQueued, NoRequest
<1> QED BY <1>1, <1>2 DEF RetrainInv

LEMMA RequestStep ==
    ASSUME RetrainInv, NEW p \in Servers,
           \/ TryLock(p) \/ AiQueues(p) \/ AiQueuesUnnamed(p) \/ AiFails(p)
           \/ AcceptJob(p) \/ AuditJob(p) \/ FailJob(p) \/ LinkJob(p) \/ ServerDies(p)
    PROVE  RetrainInv'
<1> USE DEF RetrainInv
<1>1. request[p] \in Request /\ NoRequest \in Request /\ NoRequest.step = "none"
  BY DEF RetrainTypeOK, NoRequest, Request
<1>2. request[p].job \in Jobs
  <2>1. request[p] # NoRequest
    BY <1>1 DEF TryLock, AiQueues, AiQueuesUnnamed, AiFails, AcceptJob, AuditJob, FailJob,
                LinkJob, ServerDies
  <2> QED BY <2>1 DEF RequestsAreSound
<1>3. edit' = edit
  BY DEF TryLock, AiQueues, AiQueuesUnnamed, AiFails, AcceptJob, AuditJob, FailJob, LinkJob,
         ServerDies
<1>4. /\ request' \in [Servers -> Request]
      /\ \A q \in Servers \ {p} : request'[q] = request[q]
      /\ \/ request'[p] = NoRequest
         \/ request'[p].job = request[p].job /\ request'[p].for = request[p].for
  <2>1. CASE request' = [request EXCEPT ![p] = NoRequest]
    BY <1>1, <2>1 DEF RetrainTypeOK
  <2>2. CASE \E step \in {"call", "accept", "audit", "fail", "link"} : Moves(p, step)
    BY <1>1, <2>2 DEF RetrainTypeOK, Moves, Request
  <2> QED BY <2>1, <2>2 DEF TryLock, AiQueues, AiQueuesUnnamed, AiFails, AcceptJob,
                            AuditJob, FailJob, LinkJob, ServerDies, Moves
<1>5. queued' \subseteq Jobs /\ queued \subseteq queued'
  BY <1>2 DEF RetrainTypeOK, TryLock, AiQueues, AiQueuesUnnamed, AiFails, AcceptJob,
              AuditJob, FailJob, LinkJob, ServerDies
<1>6. /\ request'[p].step \in {"accept", "audit", "link"} => request[p].job \in queued'
      /\ request'[p].step = "link" => request[p].for \in Investigations
  BY <1>1 DEF RetrainTypeOK, RequestsAreSound, TryLock, AiQueues, AiQueuesUnnamed, AiFails,
              AcceptJob, AuditJob, FailJob, LinkJob, ServerDies, Moves, Accepts, Request
<1>7. RequestsAreSound'
  BY <1>1, <1>2, <1>4, <1>5, <1>6 DEF RequestsAreSound
<1>8. CASE AcceptJob(p) \/ FailJob(p)
  <2>1. RetrainTypeOK'
    BY <1>2, <1>3, <1>4, <1>5, <1>8 DEF RetrainTypeOK, AcceptJob, FailJob, JobIs
  <2>2. AcceptedJobsAreQueued'
    BY <1>2, <1>8 DEF RetrainTypeOK, RequestsAreSound, AcceptedJobsAreQueued, AcceptJob, FailJob, JobIs
  <2> QED BY <1>3, <1>7, <2>1, <2>2 DEF EditsAreSound
<1>9. CASE LinkJob(p)
  <2>1. request[p].for \in Investigations /\ request[p].job \in queued
    BY <1>9 DEF RequestsAreSound, LinkJob
  <2>2. RetrainTypeOK'
    BY <1>2, <1>3, <1>4, <1>5, <1>9 DEF RetrainTypeOK, LinkJob, OpenStates
  <2>3. AcceptedJobsAreQueued'
    BY <2>1, <1>9 DEF RetrainTypeOK, AcceptedJobsAreQueued, LinkJob
  <2> QED BY <1>3, <1>7, <2>2, <2>3 DEF EditsAreSound
<1>10. CASE UNCHANGED <<jobStatus, investigation, linked>>
  BY <1>3, <1>4, <1>5, <1>7, <1>10 DEF RetrainTypeOK, EditsAreSound, AcceptedJobsAreQueued
<1> QED BY <1>8, <1>9, <1>10 DEF TryLock, AiQueues, AiQueuesUnnamed, AiFails, AuditJob,
                                ServerDies

LEMMA TriggerStep ==
    ASSUME RetrainInv, NEW p \in Servers, NEW j \in Jobs,
           NEW i \in Investigations \cup {NoInvestigation}, Trigger(p, j, i)
    PROVE  RetrainInv'
<1> USE DEF RetrainInv, Trigger
<1>1. [step |-> "lock", job |-> j, for |-> i] \in Request
  BY DEF Request
<1>2. RetrainTypeOK'
  BY <1>1 DEF RetrainTypeOK
<1>3. RequestsAreSound'
  BY DEF RetrainTypeOK, RequestsAreSound
<1>4. EditsAreSound' /\ AcceptedJobsAreQueued'
  BY DEF RetrainTypeOK, EditsAreSound, AcceptedJobsAreQueued
<1> QED BY <1>2, <1>3, <1>4

LEMMA InvestigationStep ==
    ASSUME RetrainInv,
           \/ \E i \in Investigations :
               \/ OpenInvestigation(i)
               \/ \E e \in Editors, to \in OpenStates \cup ClosedStates : StartEdit(e, i, to)
           \/ \E e \in Editors : FinishEdit(e)
    PROVE  RetrainInv'
<1> USE DEF RetrainInv
<1>1. CASE \E i \in Investigations : OpenInvestigation(i)
  BY <1>1 DEF OpenInvestigation, OpenStates, RetrainTypeOK, RequestsAreSound, EditsAreSound,
              AcceptedJobsAreQueued
<1>2. CASE \E i \in Investigations, e \in Editors, to \in OpenStates \cup ClosedStates :
               StartEdit(e, i, to)
  <2> PICK i \in Investigations, e \in Editors, to \in OpenStates \cup ClosedStates :
          StartEdit(e, i, to)
    BY <1>2
  <2>1. [on |-> i, from |-> investigation[i], to |-> to] \in Edit
    BY DEF StartEdit, Edit
  <2>2. RetrainTypeOK'
    BY <2>1 DEF StartEdit, RetrainTypeOK
  <2>3. EditsAreSound'
    BY <2>1 DEF StartEdit, RetrainTypeOK, EditsAreSound
  <2> QED BY <2>2, <2>3 DEF StartEdit, RequestsAreSound, AcceptedJobsAreQueued
<1>3. CASE \E e \in Editors : FinishEdit(e)
  <2> PICK e \in Editors : FinishEdit(e)
    BY <1>3
  <2>1. edit[e].on \in Investigations /\ edit[e].to \in OpenStates \cup ClosedStates
    BY DEF FinishEdit, EditsAreSound
  <2>2. NoEdit \in Edit
    BY DEF NoEdit, Edit
  <2>3. RetrainTypeOK'
    BY <2>1, <2>2 DEF FinishEdit, RetrainTypeOK
  <2>4. EditsAreSound'
    BY DEF FinishEdit, RetrainTypeOK, EditsAreSound
  <2> QED BY <2>3, <2>4 DEF FinishEdit, RequestsAreSound, AcceptedJobsAreQueued
<1> QED BY <1>1, <1>2, <1>3

LEMMA RetrainStep == RetrainInv /\ [RetrainNext]_retrainVars => RetrainInv'
<1> SUFFICES ASSUME RetrainInv, [RetrainNext]_retrainVars PROVE RetrainInv'
  OBVIOUS
<1>1. CASE UNCHANGED retrainVars
  BY <1>1 DEF retrainVars, RetrainInv, RetrainTypeOK, RequestsAreSound, EditsAreSound,
              AcceptedJobsAreQueued
<1> QED BY <1>1, RequestStep, TriggerStep, InvestigationStep DEF RetrainNext

LEMMA RetrainHolds == RetrainSpec => []RetrainInv
  BY RetrainStarts, RetrainStep, PTL DEF RetrainSpec

\* Every variable of retraining keeps its type.
THEOREM RetrainTypes == RetrainSpec => []RetrainTypeOK
  BY RetrainHolds, PTL DEF RetrainInv

\* A job is accepted, or linked, only once the AI service has queued it
\* (requestAndRecord, retrainForInvestigation).
THEOREM JobsAreQueued == RetrainSpec => []AcceptedJobsAreQueued
  BY RetrainHolds, PTL DEF RetrainInv

\* What reopens a closed investigation is a late link and nothing else: an edit
\* writes only over the open state it had read.
LEMMA ReopensByLink ==
    ASSUME RetrainInv, RetrainNext, NEW i \in Investigations,
           investigation[i] \in ClosedStates, investigation'[i] # investigation[i]
    PROVE  \E p \in Servers :
               /\ request[p].step = "link" /\ request[p].for = i
               /\ investigation'[i] = "INVESTIGATING"
               /\ linked'[i] = request[p].job /\ linked'[i] \in queued
<1>1. /\ investigation \in [Investigations -> OpenStates \cup ClosedStates \cup {"none"}]
      /\ linked \in [Investigations -> Jobs \cup {NoJob}]
      /\ edit \in [Editors -> Edit]
  BY DEF RetrainInv, RetrainTypeOK
<1>2. PICK p \in Servers : LinkJob(p)
  <2>1. ~\E n \in Investigations : OpenInvestigation(n)
    BY <1>1 DEF OpenInvestigation, ClosedStates
  <2>2. ASSUME NEW e \in Editors, FinishEdit(e) PROVE FALSE
    <3>1. edit[e].on = i /\ Unchanged(e)
      BY <1>1, <2>2 DEF FinishEdit
    <3>2. edit[e].from \in OpenStates \cup {"none"}
      BY <1>1 DEF Edit
    <3> QED BY <3>1, <3>2 DEF Unchanged, OpenStates, ClosedStates
  <2> QED BY <2>1, <2>2
          DEF RetrainNext, Trigger, TryLock, AiQueues, AiQueuesUnnamed, AiFails, AcceptJob,
              AuditJob, FailJob, ServerDies, StartEdit
<1>3. request[p].step = "link" /\ request[p].for = i
  BY <1>1, <1>2 DEF LinkJob
<1>4. request[p].job \in queued
  BY <1>3 DEF RetrainInv, RequestsAreSound
<1> QED BY <1>1, <1>2, <1>3, <1>4 DEF LinkJob

\* A closed investigation is reopened by no edit, for any number of editors; only
\* a request for it that returns late does, and with a job that was queued.
THEOREM ReopenedByRequest == RetrainSpec => OnlyARequestReopens
<1>1. RetrainInv /\ [RetrainNext]_retrainVars
          => [\A i \in Investigations :
                 investigation[i] \in ClosedStates /\ investigation'[i] # investigation[i] =>
                     \E p \in Servers :
                         /\ request[p].step = "link" /\ request[p].for = i
                         /\ investigation'[i] = "INVESTIGATING"
                         /\ linked'[i] = request[p].job /\ linked'[i] \in queued]_retrainVars
  BY ReopensByLink
<1> QED BY <1>1, RetrainHolds, PTL DEF RetrainSpec, OnlyARequestReopens

-------------------------------------------------------------------------------
(***************************************************************************)
(* The queue of the AI service                                             *)
(***************************************************************************)
Whole == deaths = 0 /\ ~gaveUp
Within(d) == visit[d].at \in {"inside", "append", "leave"}
Adding == {d \in Drainers : visit[d].what = "enqueue" /\ visit[d].at = "append"}

\* Without a death or a caller that gave up, the lock file stands for the one caller
\* inside, for whom no time passes, so that nobody finds it stale.
LockIsHeld ==
    Whole =>
        /\ lockFile # NoLock => lockFile.since = clock /\ Within(lockFile.by)
        /\ \A d \in Drainers :
            /\ visit[d].at # "clear"
            /\ Within(d) => lockFile # NoLock /\ lockFile.by = d /\ visit[d].owns

\* What the caller inside has read of the queue is still so when it appends.
DemandIsNew ==
    Whole => \A d \in Adding : ~AskedAlready(d) /\ Cardinality(QueuedJobs) < MaxQueuedJobs

QueuedApart ==
    Whole => /\ \A i, j \in QueuedJobs : jobs[i].asks = jobs[j].asks => i = j
             /\ Cardinality(QueuedJobs) <= MaxQueuedJobs

\* Each caller that is about to append has seen room for one job.
OutgrownByAdding ==
    Cardinality(QueuedJobs) + Cardinality(Adding) < MaxQueuedJobs + Cardinality(Drainers)

QueueInv == QueueTypeOK /\ LockIsHeld /\ DemandIsNew /\ QueuedApart /\ OutgrownByAdding

LEMMA QueueIsFinite ==
    /\ IsFiniteSet(QueuedJobs) /\ Cardinality(QueuedJobs) \in Nat
    /\ IsFiniteSet(Adding) /\ Cardinality(Adding) \in Nat
    /\ Cardinality(Adding) <= Cardinality(Drainers)
    /\ Cardinality(Drainers) \in Nat
<1> USE RetrainQueueAssumption DEF RetrainQueueAssumption
<1>1. IsFiniteSet(JobIds)
  BY FS_Interval DEF JobIds
<1>2. QueuedJobs \in SUBSET JobIds /\ Adding \in SUBSET Drainers
  BY DEF QueuedJobs, Adding
<1> QED BY <1>1, <1>2, FS_Subset, FS_CardinalityType

LEMMA QueueStarts == QueueInit => QueueInv
<1> SUFFICES ASSUME QueueInit PROVE QueueInv
  OBVIOUS
<1> USE RetrainQueueAssumption DEF RetrainQueueAssumption, QueueInit
<1>1. QueueTypeOK
  <2>1. Unwritten \in QueueRow /\ Away \in Visit
    BY DEF Unwritten, QueueRow, Away, Visit
  <2>2. jobs \in [JobIds -> QueueRow] /\ visit \in [Drainers -> Visit]
    BY <2>1
  <2>3. clock \in 0..LatestTime /\ visits \in 0..MaxCalls /\ deaths \in 0..MaxDeaths
    OBVIOUS
  <2>4. lockFile = NoLock /\ gaveUp \in BOOLEAN
    OBVIOUS
  <2> HIDE DEF QueueInit
  <2> QED BY <2>2, <2>3, <2>4 DEF QueueTypeOK
<1>2. QueuedJobs = {} /\ Adding = {}
  BY DEF QueuedJobs, Unwritten, Adding, Away
<1>3. LockIsHeld /\ DemandIsNew
  BY <1>2 DEF LockIsHeld, DemandIsNew, Within, Away
<1>4. Cardinality({}) = 0
  BY FS_EmptySet
<1>5. QueuedApart
  BY <1>2, <1>4 DEF QueuedApart
<1>6. OutgrownByAdding
  BY <1>2, <1>4, QueueIsFinite DEF OutgrownByAdding
<1> QED BY <1>1, <1>3, <1>5, <1>6 DEF QueueInv

\* A step that changes no job and lets nobody begin to append.
LEMMA JobsStay ==
    ASSUME QueueInv, UNCHANGED jobs, Whole' => Whole, Adding' \subseteq Adding,
           \A d \in Adding' : visit'[d].asks = visit[d].asks
    PROVE  DemandIsNew' /\ QueuedApart' /\ OutgrownByAdding'
<1>1. QueuedJobs' = QueuedJobs
  BY DEF QueuedJobs
<1>2. Cardinality(Adding') \in Nat /\ Cardinality(Adding') <= Cardinality(Adding)
  BY QueueIsFinite, FS_Subset, FS_CardinalityType
<1>3. OutgrownByAdding'
  BY <1>1, <1>2, QueueIsFinite, RetrainQueueAssumption
     DEF QueueInv, OutgrownByAdding, RetrainQueueAssumption
<1>4. QueuedApart'
  BY <1>1 DEF QueueInv, QueuedApart
<1>5. DemandIsNew'
  BY <1>1 DEF QueueInv, DemandIsNew, AskedAlready
<1> QED BY <1>3, <1>4, <1>5

\* Callers that come, take the lock, wait for it or clear it away.
LEMMA WaitingKeeps ==
    ASSUME QueueInv, NEW d \in Drainers,
           \/ \E q \in Demands : Arrives(d, "enqueue", q, {}) \/ Arrives(d, "drain", q, {})
           \/ \E j \in QueuedJobs : Arrives(d, "complete", NoDemand, {j})
           \/ CreatesLock(d) \/ FindsLock(d) \/ ClearsLock(d)
    PROVE  QueueInv'
<1> USE RetrainQueueAssumption DEF RetrainQueueAssumption, QueueInv
<1>1. ASSUME NEW what \in {"enqueue", "complete", "drain"}, NEW q \in Demands \cup {NoDemand},
             NEW todo \in SUBSET JobIds, Arrives(d, what, q, todo)
      PROVE  QueueInv'
  <2> DEFINE call == [at |-> "lock", what |-> what, asks |-> q, todo |-> todo,
                      owns |-> FALSE, until |-> clock + 1]
  <2>1. /\ visit' = [visit EXCEPT ![d] = call] /\ visits' = visits + 1
        /\ visit[d].at = "outside" /\ visits < MaxCalls /\ clock < LatestTime
        /\ UNCHANGED <<jobs, lockFile, clock, deaths, gaveUp>>
    BY <1>1 DEF Arrives
  <2>2. QueueTypeOK'
    <3>1. call \in Visit
      BY <2>1 DEF QueueTypeOK, Visit
    <3> QED BY <2>1, <3>1 DEF QueueTypeOK
  <2>3. LockIsHeld'
    BY <2>1 DEF QueueTypeOK, Visit, LockIsHeld, Within, Whole
  <2>4. Adding' \subseteq Adding /\ \A e \in Adding' : visit'[e].asks = visit[e].asks
    BY <2>1 DEF QueueTypeOK, Visit, Adding
  <2> QED BY <2>1, <2>2, <2>3, <2>4, JobsStay DEF Whole
<1>2. CASE CreatesLock(d)
  <2>1. /\ visit' = [visit EXCEPT ![d] = [visit[d] EXCEPT !.at = "inside", !.owns = TRUE]]
        /\ visit[d].at = "lock" /\ lockFile = NoLock
        /\ lockFile' = [by |-> d, since |-> clock]
        /\ UNCHANGED <<jobs, clock, visits, deaths, gaveUp>>
    BY <1>2 DEF CreatesLock, Visit, QueueTypeOK
  <2>2. QueueTypeOK'
    <3>1. [visit[d] EXCEPT !.at = "inside", !.owns = TRUE] \in Visit
      <4>1. visit[d] \in Visit
        BY DEF QueueTypeOK
      <4> HIDE DEF QueueInv
      <4> QED BY <4>1 DEF Visit
    <3>2. lockFile' \in [by : Drainers, since : 0..clock]
      BY <2>1 DEF QueueTypeOK
    <3> QED BY <2>1, <3>1, <3>2 DEF QueueTypeOK
  <2>3. lockFile' # NoLock /\ lockFile'.by = d /\ lockFile'.since = clock
    BY <2>1 DEF QueueTypeOK
  <2>4. LockIsHeld'
    BY <2>1, <2>3 DEF QueueTypeOK, Visit, LockIsHeld, Within, Whole
  <2>5. Adding' \subseteq Adding /\ \A e \in Adding' : visit'[e].asks = visit[e].asks
    BY <2>1 DEF QueueTypeOK, Visit, Adding
  <2> QED BY <2>1, <2>2, <2>4, <2>5, JobsStay DEF Whole
<1>3. ASSUME NEW from \in {"lock", "clear"}, NEW to \in {"lock", "clear", "inside"},
             MovesTo(d, from, to), UNCHANGED <<jobs, clock, visits, deaths>>,
             lockFile' \in {lockFile, NoLock}, gaveUp' \in {gaveUp, TRUE},
             Whole' => to = "lock" /\ lockFile' = lockFile
      PROVE  QueueInv'
  <2>1. visit[d].at = from /\ visit' = [visit EXCEPT ![d] = [visit[d] EXCEPT !.at = to]]
    BY <1>3 DEF MovesTo
  <2>2. QueueTypeOK'
    <3>1. [visit[d] EXCEPT !.at = to] \in Visit
      BY DEF QueueTypeOK, Visit
    <3> QED BY <1>3, <2>1, <3>1 DEF QueueTypeOK
  <2>3. Whole' => Whole
    BY <1>3 DEF Whole, QueueTypeOK
  <2>4. LockIsHeld'
    BY <1>3, <2>1, <2>3 DEF QueueTypeOK, Visit, LockIsHeld, Within
  <2>5. Adding' \subseteq Adding /\ \A e \in Adding' : visit'[e].asks = visit[e].asks
    BY <2>1 DEF QueueTypeOK, Visit, Adding
  <2> QED BY <1>3, <2>2, <2>3, <2>4, <2>5, JobsStay
<1>4. CASE FindsLock(d)
  <2>1. Whole => ~IsStale
    BY <1>4 DEF FindsLock, LockIsHeld, IsStale, QueueTypeOK
  <2>2. CASE IsStale
    <3>1. MovesTo(d, "lock", "clear") /\ gaveUp' = gaveUp /\ ~Whole'
      BY <1>4, <2>1, <2>2 DEF FindsLock, Whole
    <3> QED BY <1>3, <1>4, <3>1 DEF FindsLock
  <2>3. CASE ~IsStale
    <3>1. RetriesOrGivesUp(d, "lock")
      BY <1>4, <2>3 DEF FindsLock
    <3> QED BY <1>3, <1>4, <3>1 DEF FindsLock, RetriesOrGivesUp, Whole, QueueTypeOK
  <2> QED BY <2>2, <2>3
<1>5. CASE ClearsLock(d)
  <2>1. visit[d].at = "clear"
    BY <1>5 DEF ClearsLock, RetriesOrGivesUp, MovesTo
  <2>2. ~Whole
    BY <2>1 DEF LockIsHeld
  <2>3. ~Whole' /\ gaveUp' \in {gaveUp, TRUE}
    BY <1>5, <2>2 DEF ClearsLock, RetriesOrGivesUp, Whole, QueueTypeOK
  <2> QED BY <1>3, <1>5, <2>3 DEF ClearsLock, RetriesOrGivesUp
<1>6. ASSUME NEW q \in Demands, Arrives(d, "enqueue", q, {}) \/ Arrives(d, "drain", q, {})
      PROVE  QueueInv'
  BY <1>1, <1>6
<1>7. ASSUME NEW j \in QueuedJobs, Arrives(d, "complete", NoDemand, {j})
      PROVE  QueueInv'
  <2>1. {j} \in SUBSET JobIds
    BY DEF QueuedJobs
  <2> QED BY <1>1, <1>7, <2>1
<1> HIDE DEF QueueInv
<1> QED BY <1>2, <1>4, <1>5, <1>6, <1>7

\* The caller inside reads: what it is about to append is not there yet.
LEMMA ReadingTheQueueKeeps ==
    ASSUME QueueInv, NEW d \in Drainers, ReadsForNewJob(d) \/ ReadsToComplete(d)
    PROVE  QueueInv'
<1> USE RetrainQueueAssumption DEF RetrainQueueAssumption, QueueInv
<1>1. /\ UNCHANGED <<jobs, lockFile, clock, visits, deaths, gaveUp>>
      /\ visit[d].at = "inside"
  BY DEF ReadsForNewJob, ReadsToComplete, MovesTo
<1>2. PICK to \in {"append", "leave"}, todo \in SUBSET JobIds :
          visit' = [visit EXCEPT ![d] = [visit[d] EXCEPT !.at = to, !.todo = todo]]
  <2>1. CASE ReadsForNewJob(d)
    <3>1. PICK to \in {"append", "leave"} : visit' = [visit EXCEPT ![d].at = to]
      BY <2>1 DEF ReadsForNewJob, MovesTo
    <3>2. [visit[d] EXCEPT !.at = to] = [visit[d] EXCEPT !.at = to, !.todo = visit[d].todo]
      BY DEF QueueTypeOK, Visit
    <3>3. visit[d].todo \in SUBSET JobIds
      BY DEF QueueTypeOK, Visit
    <3> QED BY <3>1, <3>2, <3>3
  <2>2. CASE ReadsToComplete(d)
    <3> DEFINE todo == IF visit[d].what = "complete" THEN visit[d].todo \cap QueuedJobs
                       ELSE {j \in QueuedJobs : jobs[j].asks = visit[d].asks}
    <3>1. visit' = [visit EXCEPT ![d] = [visit[d] EXCEPT !.at = "append", !.todo = todo]]
      BY <2>2 DEF ReadsToComplete
    <3>2. todo \in SUBSET JobIds
      BY DEF QueuedJobs
    <3> QED BY <3>1, <3>2
  <2> QED BY <2>1, <2>2
<1>3. QueueTypeOK'
  <2>1. ASSUME NEW at \in {"append", "leave"}, NEW rest \in SUBSET JobIds
        PROVE  [visit[d] EXCEPT !.at = at, !.todo = rest] \in Visit
    <3>1. visit[d] \in Visit
      BY DEF QueueTypeOK
    <3> HIDE DEF QueueInv
    <3> QED BY <3>1 DEF Visit
  <2> QED BY <1>1, <1>2, <2>1 DEF QueueTypeOK
<1>4. LockIsHeld'
  BY <1>1, <1>2 DEF QueueTypeOK, Visit, LockIsHeld, Within, Whole
<1>5. CASE d \notin Adding'
  <2>1. Adding' \subseteq Adding /\ \A e \in Adding' : visit'[e].asks = visit[e].asks
    BY <1>2, <1>5 DEF QueueTypeOK, Visit, Adding
  <2> QED BY <1>1, <1>3, <1>4, <2>1, JobsStay DEF Whole
<1>6. CASE d \in Adding'
  <2>1. ReadsForNewJob(d) /\ ~AskedAlready(d) /\ Cardinality(QueuedJobs) < MaxQueuedJobs
    <3>1. visit'[d].what = "enqueue" /\ visit'[d].at = "append" /\ visit[d].what = "enqueue"
      BY <1>2, <1>6 DEF Adding, Visit, QueueTypeOK
    <3>2. ReadsForNewJob(d)
      BY <3>1 DEF ReadsToComplete
    <3>3. ~(AskedAlready(d) \/ Cardinality(QueuedJobs) >= MaxQueuedJobs)
      BY <3>1, <3>2 DEF ReadsForNewJob, MovesTo, Visit, QueueTypeOK
    <3> QED BY <3>2, <3>3, QueueIsFinite
  <2>2. QueuedJobs' = QueuedJobs
    BY <1>1 DEF QueuedJobs
  <2>3. \A e \in Drainers : visit'[e].asks = visit[e].asks
    BY <1>2 DEF QueueTypeOK
  <2>4. QueuedApart'
    BY <1>1, <2>2 DEF QueuedApart, Whole
  <2>5. DemandIsNew'
    <3>1. ASSUME Whole, NEW e \in Adding'
          PROVE  e = d
      <4>1. Within(d)
        BY <1>1 DEF Within
      <4>2. e # d => Within(e)
        BY <1>2, <3>1 DEF Adding, Within, Visit, QueueTypeOK
      <4> QED BY <3>1, <4>1, <4>2 DEF LockIsHeld, Adding
    <3>2. AskedAlready(d)' <=> AskedAlready(d)
      BY <1>1, <2>2, <2>3 DEF AskedAlready
    <3> QED BY <1>1, <2>1, <2>2, <3>1, <3>2 DEF DemandIsNew, Whole
  <2>6. OutgrownByAdding'
    <3>1. Cardinality(Adding') <= Cardinality(Drainers) /\ Cardinality(Adding') \in Nat
      <4>1. Adding' \in SUBSET Drainers
        BY DEF Adding
      <4> QED BY <4>1, FS_Subset, FS_CardinalityType
    <3> QED BY <2>1, <2>2, <3>1, QueueIsFinite DEF OutgrownByAdding
  <2> QED BY <1>3, <1>4, <2>4, <2>5, <2>6
<1> QED BY <1>5, <1>6

\* The caller inside appends a job that nobody has asked for.
LEMMA AddingKeeps ==
    ASSUME QueueInv, NEW d \in Drainers, AppendsJob(d)
    PROVE  QueueInv'
<1> USE RetrainQueueAssumption DEF RetrainQueueAssumption, QueueInv
<1> DEFINE new == Min({j \in JobIds : jobs[j] = Unwritten})
           job == [asks |-> visit[d].asks, status |-> "queued"]
<1>1. /\ visit[d].what = "enqueue" /\ visit[d].at = "append"
      /\ visit' = [visit EXCEPT ![d] = [visit[d] EXCEPT !.at = "leave"]]
      /\ jobs' = [jobs EXCEPT ![new] = job]
      /\ UNCHANGED <<lockFile, clock, visits, deaths, gaveUp>>
  BY DEF AppendsJob, MovesTo
<1> HIDE DEF new
<1>2. QueueTypeOK'
  <2>1. job \in QueueRow /\ [visit[d] EXCEPT !.at = "leave"] \in Visit
    BY DEF QueueTypeOK, QueueRow, Visit
  <2> QED BY <1>1, <2>1 DEF QueueTypeOK
<1>3. LockIsHeld'
  BY <1>1 DEF QueueTypeOK, Visit, LockIsHeld, Within, Whole
<1>4. /\ QueuedJobs' \subseteq QueuedJobs \cup {new}
      /\ \A j \in QueuedJobs' : j # new => j \in QueuedJobs /\ jobs'[j].asks = jobs[j].asks
      /\ \A j \in QueuedJobs' : j = new => jobs'[j].asks = visit[d].asks
  BY <1>1 DEF QueuedJobs, QueueRow, QueueTypeOK
<1>5. /\ Cardinality(QueuedJobs') \in Nat
      /\ Cardinality(QueuedJobs') <= Cardinality(QueuedJobs) + 1
  <2>1. /\ IsFiniteSet(QueuedJobs \cup {new})
        /\ Cardinality(QueuedJobs \cup {new}) <= Cardinality(QueuedJobs) + 1
    <3>1. /\ IsFiniteSet(QueuedJobs \cup {new})
          /\ Cardinality(QueuedJobs \cup {new}) =
             IF new \in QueuedJobs THEN Cardinality(QueuedJobs) ELSE Cardinality(QueuedJobs) + 1
      BY QueueIsFinite, FS_AddElement
    <3> HIDE DEF QueueInv
    <3> QED BY <3>1, QueueIsFinite
  <2>2. /\ IsFiniteSet(QueuedJobs')
        /\ Cardinality(QueuedJobs') <= Cardinality(QueuedJobs \cup {new})
    BY <1>4, <2>1, FS_Subset
  <2>3. Cardinality(QueuedJobs') \in Nat /\ Cardinality(QueuedJobs \cup {new}) \in Nat
    BY <2>1, <2>2, FS_CardinalityType
  <2> QED BY <2>1, <2>2, <2>3, QueueIsFinite
<1>6. d \in Adding /\ Adding' = Adding \ {d}
  BY <1>1 DEF Adding, Visit, QueueTypeOK
<1>7. OutgrownByAdding'
  <2>1. Cardinality(Adding') = Cardinality(Adding) - 1
    BY <1>6, QueueIsFinite, FS_RemoveElement
  <2> QED BY <1>5, <2>1, QueueIsFinite DEF OutgrownByAdding
<1>8. Whole => Adding' = {}
  <2>1. ASSUME Whole, NEW e \in Adding'
        PROVE  FALSE
    <3>1. Within(d) /\ Within(e) /\ e # d /\ e \in Drainers
      BY <1>1, <1>6 DEF Within, Adding
    <3> QED BY <2>1, <3>1 DEF LockIsHeld
  <2> QED BY <2>1
<1>9. DemandIsNew'
  BY <1>1, <1>8 DEF DemandIsNew, Whole
<1>10. QueuedApart'
  <2>1. SUFFICES ASSUME Whole
                 PROVE  /\ \A i, j \in QueuedJobs' : jobs'[i].asks = jobs'[j].asks => i = j
                        /\ Cardinality(QueuedJobs') <= MaxQueuedJobs
    BY <1>1 DEF QueuedApart, Whole
  <2>2. /\ \A j \in QueuedJobs : jobs[j].asks # visit[d].asks
        /\ Cardinality(QueuedJobs) < MaxQueuedJobs
    BY <1>6, <2>1 DEF DemandIsNew, AskedAlready
  <2>3. \A i, j \in QueuedJobs : jobs[i].asks = jobs[j].asks => i = j
    BY <2>1 DEF QueuedApart
  <2>4. \A i, j \in QueuedJobs' : jobs'[i].asks = jobs'[j].asks => i = j
    BY <1>4, <2>2, <2>3
  <2> QED BY <1>5, <2>2, <2>4, QueueIsFinite
<1> QED BY <1>2, <1>3, <1>7, <1>9, <1>10

\* Completions take jobs away.
LEMMA CompletingKeeps ==
    ASSUME QueueInv, NEW d \in Drainers, AppendsCompletion(d)
    PROVE  QueueInv'
<1> USE RetrainQueueAssumption DEF RetrainQueueAssumption, QueueInv
<1>1. CASE visit[d].todo = {}
  <2>1. /\ visit[d].at = "append" /\ visit[d].what # "enqueue"
        /\ visit' = [visit EXCEPT ![d] = [visit[d] EXCEPT !.at = "leave"]]
        /\ UNCHANGED <<jobs, lockFile, clock, visits, deaths, gaveUp>>
    BY <1>1 DEF AppendsCompletion, MovesTo
  <2>2. QueueTypeOK' /\ LockIsHeld'
    BY <2>1 DEF QueueTypeOK, Visit, LockIsHeld, Within, Whole
  <2>3. Adding' \subseteq Adding /\ \A e \in Adding' : visit'[e].asks = visit[e].asks
    BY <2>1 DEF QueueTypeOK, Visit, Adding
  <2> QED BY <2>1, <2>2, <2>3, JobsStay DEF Whole
<1>2. CASE visit[d].todo # {}
  <2> DEFINE j == Min(visit[d].todo)
  <2>1. /\ visit[d].at = "append" /\ visit[d].what # "enqueue"
        /\ jobs' = [jobs EXCEPT ![j] = [jobs[j] EXCEPT !.status = "completed"]]
        /\ visit' = [visit EXCEPT ![d] = [visit[d] EXCEPT !.todo = visit[d].todo \ {j}]]
        /\ UNCHANGED <<lockFile, clock, visits, deaths, gaveUp>>
    BY <1>2 DEF AppendsCompletion
  <2> HIDE DEF j
  <2>2. QueueTypeOK'
    <3>1. \A i \in JobIds : [jobs[i] EXCEPT !.status = "completed"] \in QueueRow
      BY DEF QueueTypeOK, QueueRow
    <3>2. [visit[d] EXCEPT !.todo = visit[d].todo \ {j}] \in Visit
      BY DEF QueueTypeOK, Visit
    <3>3. jobs' \in [JobIds -> QueueRow]
      BY <2>1, <3>1 DEF QueueTypeOK
    <3> QED BY <2>1, <3>2, <3>3 DEF QueueTypeOK
  <2>3. LockIsHeld'
    BY <2>1 DEF QueueTypeOK, Visit, LockIsHeld, Within, Whole
  <2>4. /\ QueuedJobs' \subseteq QueuedJobs
        /\ \A i \in QueuedJobs' : jobs'[i].asks = jobs[i].asks
    BY <2>1 DEF QueuedJobs, QueueRow, QueueTypeOK
  <2>5. Adding' = Adding /\ \A e \in Adding : visit'[e].asks = visit[e].asks
    BY <2>1 DEF Adding, Visit, QueueTypeOK
  <2>6. /\ Cardinality(QueuedJobs') \in Nat
        /\ Cardinality(QueuedJobs') <= Cardinality(QueuedJobs)
    BY <2>4, QueueIsFinite, FS_Subset, FS_CardinalityType
  <2>7. OutgrownByAdding'
    BY <2>5, <2>6, QueueIsFinite DEF OutgrownByAdding
  <2>8. QueuedApart'
    BY <2>1, <2>4, <2>6, QueueIsFinite DEF QueuedApart, Whole
  <2>9. DemandIsNew'
    BY <2>1, <2>4, <2>5, <2>6, QueueIsFinite DEF DemandIsNew, AskedAlready, Whole
  <2> QED BY <2>2, <2>3, <2>7, <2>8, <2>9
<1> QED BY <1>1, <1>2

\* Callers that leave or die, and time.
LEMMA LeavingKeeps ==
    ASSUME QueueInv, (\E d \in Drainers : LeavesLock(d) \/ Dies(d)) \/ LockAges
    PROVE  QueueInv'
<1> USE RetrainQueueAssumption DEF RetrainQueueAssumption, QueueInv
<1>1. ASSUME NEW d \in Drainers, LeavesLock(d) \/ Dies(d)
      PROVE  QueueInv'
  <2>1. /\ visit' = [visit EXCEPT ![d] = Away]
        /\ UNCHANGED <<jobs, clock, visits, gaveUp>>
        /\ lockFile' \in {lockFile, NoLock}
    BY <1>1 DEF LeavesLock, Dies
  <2>2. /\ deaths' \in 0..MaxDeaths /\ deaths' >= deaths
        /\ Dies(d) => deaths' # 0
    BY <1>1 DEF LeavesLock, Dies, QueueTypeOK
  <2>3. QueueTypeOK'
    <3>1. Away \in Visit
      BY DEF Away, Visit
    <3> QED BY <2>1, <2>2, <3>1 DEF QueueTypeOK
  <2>4. Whole' => Whole
    BY <2>1, <2>2 DEF Whole, QueueTypeOK
  <2>5. LockIsHeld'
    <3>1. SUFFICES ASSUME Whole' PROVE LockIsHeld'
      BY DEF LockIsHeld
    <3>2. LeavesLock(d) /\ Whole
      BY <1>1, <2>1, <2>2, <2>4, <3>1 DEF Whole
    <3>3. Within(d) /\ visit[d].owns
      BY <3>2 DEF LeavesLock, Within, LockIsHeld
    <3>4. lockFile' = NoLock
      BY <3>2, <3>3 DEF LeavesLock
    <3>5. \A e \in Drainers : e # d => ~Within(e)
      BY <3>2, <3>3 DEF LockIsHeld
    <3> QED BY <2>1, <3>2, <3>4, <3>5 DEF LockIsHeld, Within, Away, Visit, QueueTypeOK
  <2>6. Adding' \subseteq Adding /\ \A e \in Adding' : visit'[e].asks = visit[e].asks
    BY <2>1 DEF QueueTypeOK, Visit, Adding, Away
  <2> QED BY <2>1, <2>3, <2>4, <2>5, <2>6, JobsStay
<1>2. CASE LockAges
  <2>1. /\ UNCHANGED <<jobs, lockFile, visit, visits, deaths, gaveUp>>
        /\ clock' = clock + 1 /\ clock < LatestTime
        /\ \A d \in Drainers : ~Within(d)
    BY <1>2 DEF LockAges, Within
  <2>2. QueueTypeOK'
    BY <2>1 DEF QueueTypeOK
  <2>3. LockIsHeld'
    BY <2>1 DEF LockIsHeld, Within, Whole, QueueTypeOK
  <2>4. Adding' = Adding
    BY <2>1 DEF Adding
  <2> QED BY <2>1, <2>2, <2>3, <2>4, JobsStay DEF Whole
<1> QED BY <1>1, <1>2

LEMMA QueueStep == QueueInv /\ [QueueNext]_queueVars => QueueInv'
<1> SUFFICES ASSUME QueueInv, [QueueNext]_queueVars PROVE QueueInv'
  OBVIOUS
<1>1. CASE UNCHANGED queueVars
  <2>1. UNCHANGED <<jobs, lockFile, visit, clock, visits, deaths, gaveUp>>
    BY <1>1 DEF queueVars
  <2>2. QueueTypeOK' /\ LockIsHeld' /\ Adding' = Adding /\ Whole' = Whole
    BY <2>1 DEF QueueInv, QueueTypeOK, LockIsHeld, Within, Whole, Adding
  <2> QED BY <2>1, <2>2, JobsStay DEF QueueInv
<1>2. CASE QueueNext
  BY <1>2, WaitingKeeps, ReadingTheQueueKeeps, AddingKeeps, CompletingKeeps, LeavingKeeps
     DEF QueueNext, VisitStep
<1> QED BY <1>1, <1>2

LEMMA QueueHolds == QueueSpec => []QueueInv
  BY QueueStarts, QueueStep, PTL DEF QueueSpec

\* Every variable of the AI service's queue keeps its type.
THEOREM QueueTypes == QueueSpec => []QueueTypeOK
  BY QueueHolds, PTL DEF QueueInv

\* The lock file keeps overlapping calls from queueing a demand twice, for any
\* number of callers; and however many lose patience or die, the queue outgrows
\* its limit by those inside at the same time only (FileLock, enqueue).
THEOREM LockedQueue == QueueSpec => []QueuedOnce
<1>1. QueueInv => QueuedOnce
  <2> SUFFICES ASSUME QueueInv PROVE QueuedOnce
    OBVIOUS
  <2>1. Cardinality(QueuedJobs) < MaxQueuedJobs + Cardinality(Drainers)
    BY QueueIsFinite, RetrainQueueAssumption
       DEF QueueInv, OutgrownByAdding, RetrainQueueAssumption
  <2> QED BY <2>1 DEF QueueInv, QueuedApart, QueuedOnce, Whole
<1> QED BY <1>1, QueueHolds, PTL

-------------------------------------------------------------------------------
(***************************************************************************)
(* The training data                                                       *)
(***************************************************************************)
\* A call of the user that has taken the time counts stored messages only.
CoversAreReceived == \A u \in Settings : setting[u].covers \subseteq received

\* What a call has read is a version of the sample that is still there, or a
\* later one is; a sample without versions says nothing.
ReadingsAreSound ==
    /\ \A s \in Samples : sample[s].version = 0 => sample[s].now = Unsaid
    /\ \A c \in Curators : curator[c] # NoCurator =>
           LET read == curator[c].read
               now == sample[curator[c].of]
           IN  /\ read.version < MaxVersion
               /\ read.version <= now.version
               /\ read.version = now.version => read.now = now.now

DatasetInv ==
    DatasetTypeOK /\ CoversAreReceived /\ ReadingsAreSound /\ SnapshotsAreTraceable

LEMMA DatasetStarts == DatasetInit => DatasetInv
<1> SUFFICES ASSUME DatasetInit PROVE DatasetInv
  OBVIOUS
<1> USE DatasetAssumption DEF DatasetAssumption, DatasetInit
<1>1. DatasetTypeOK
  <2>1. NoSetting \in Setting /\ NoSample \in Sample
    BY DEF NoSetting, Setting, NoSample, Sample
  <2>2. <<>> \in Seq(Revision)
    OBVIOUS
  <2> QED BY <2>1, <2>2 DEF DatasetTypeOK
<1>2. CoversAreReceived /\ ReadingsAreSound
  BY DEF CoversAreReceived, ReadingsAreSound, NoSetting, NoSample
<1>3. SnapshotsAreTraceable
  BY DEF SnapshotsAreTraceable, NoSample
<1> QED BY <1>1, <1>2, <1>3 DEF DatasetInv

\* The user's calls and messages, and candidates that are skipped, leave the
\* samples alone.
LEMMA UserKeeps ==
    ASSUME DatasetInv,
           \/ \E u \in Settings : FinishSetting(u) \/ \E wanted \in BOOLEAN : StartSetting(u, wanted)
           \/ \E m \in Mails : Receive(m) \/ ReportMail(m) \/ Forget(m) \/ SkipCandidate(m)
    PROVE  DatasetInv'
<1> USE DEF DatasetInv
<1>1. UNCHANGED sampleVars
  BY DEF StartSetting, FinishSetting, Receive, ReportMail, Forget, SkipCandidate
<1>2. /\ ReadingsAreSound' /\ SnapshotsAreTraceable'
      /\ sample' \in [Samples -> Sample]
      /\ revisions' \in [Samples -> Seq(Revision)]
      /\ frozen' \in [SnapshotTags -> SUBSET Item]
      /\ curator' \in [Curators -> Calls \cup {NoCurator}]
  BY <1>1 DEF sampleVars, ReadingsAreSound, SnapshotsAreTraceable, DatasetTypeOK
<1> SUFFICES /\ optedIn' \in BOOLEAN
             /\ received' \subseteq Mails /\ forgotten' \subseteq Mails \ received'
             /\ covered' \subseteq received' /\ dismissed' \subseteq received'
             /\ setting' \in [Settings -> Setting]
             /\ report' \in [Mails -> {"none", "Pending", "Validated"}]
             /\ CoversAreReceived'
  BY <1>2 DEF DatasetTypeOK
<1> USE DEF DatasetTypeOK, CoversAreReceived
<1>3. ASSUME NEW u \in Settings, NEW wanted \in BOOLEAN, StartSetting(u, wanted)
      PROVE  /\ setting' \in [Settings -> Setting]
             /\ CoversAreReceived'
             /\ UNCHANGED <<optedIn, covered, received, forgotten, dismissed, report>>
  BY <1>3 DEF StartSetting, Setting
<1>4. ASSUME NEW u \in Settings, FinishSetting(u)
      PROVE  /\ optedIn' \in BOOLEAN /\ covered' \subseteq received'
             /\ setting' \in [Settings -> Setting]
             /\ CoversAreReceived'
             /\ UNCHANGED <<received, forgotten, dismissed, report>>
  BY <1>4 DEF FinishSetting, NoSetting, Setting
<1>5. ASSUME NEW m \in Mails, Receive(m)
      PROVE  /\ received' \subseteq Mails /\ forgotten' \subseteq Mails \ received'
             /\ covered' \subseteq received' /\ dismissed' \subseteq received'
             /\ setting' \in [Settings -> Setting]
             /\ CoversAreReceived'
             /\ UNCHANGED <<optedIn, report>>
  BY <1>5 DEF Receive, Setting
<1>6. ASSUME NEW m \in Mails, Forget(m)
      PROVE  /\ received' \subseteq Mails /\ forgotten' \subseteq Mails \ received'
             /\ covered' \subseteq received' /\ dismissed' \subseteq received'
             /\ setting' \in [Settings -> Setting]
             /\ CoversAreReceived'
             /\ report' \in [Mails -> {"none", "Pending", "Validated"}]
             /\ UNCHANGED optedIn
  BY <1>6 DEF Forget, Setting
<1>7. ASSUME NEW m \in Mails, ReportMail(m) \/ SkipCandidate(m)
      PROVE  /\ report' \in [Mails -> {"none", "Pending", "Validated"}]
             /\ dismissed' \subseteq received'
             /\ UNCHANGED <<optedIn, covered, setting, received, forgotten>>
  BY <1>7 DEF ReportMail, SkipCandidate, Queued
<1> QED BY <1>3, <1>4, <1>5, <1>6, <1>7

\* A call that reads a sample has read what is there.
LEMMA ReadingKeeps ==
    ASSUME DatasetInv, NEW c \in Curators, NEW s \in Samples, NEW now \in Content,
           NEW op \in {"create", "edit"}, NEW read \in Sample,
           curator' = [curator EXCEPT ![c] =
               [op |-> op, of |-> s, read |-> read, now |-> now]],
           read.version < MaxVersion, read.version <= sample[s].version,
           read.version = sample[s].version => read.now = sample[s].now,
           UNCHANGED <<messageVars, sample, revisions, frozen>>
    PROVE  DatasetInv'
<1> USE DEF DatasetInv
<1> DEFINE call == [op |-> op, of |-> s, read |-> read, now |-> now]
<1>1. call \in Calls
  BY DEF Calls
<1>2. DatasetTypeOK' /\ CoversAreReceived' /\ SnapshotsAreTraceable'
  BY <1>1 DEF messageVars, DatasetTypeOK, CoversAreReceived, SnapshotsAreTraceable
<1>3. ReadingsAreSound'
  BY DEF DatasetTypeOK, ReadingsAreSound
<1> QED BY <1>2, <1>3

LEMMA CurationStarts ==
    ASSUME DatasetInv, NEW c \in Curators,
           \/ \E m \in Mails, label \in Labels :
                  ConfirmCandidate(c, m, label) \/ CurateValidatedReport(c, m, label)
           \/ \E s \in Samples, content \in Content : UpdateSample(c, s, content)
    PROVE  DatasetInv'
<1>1. ASSUME NEW s \in Samples, NEW label \in Labels, StartLabel(c, s, label)
      PROVE  DatasetInv'
  <2>1. NoSample \in Sample /\ [label |-> label, included |-> TRUE] \in Content
    BY DatasetAssumption DEF DatasetAssumption, NoSample, Sample, Content
  <2>2. /\ NoSample.version = 0 /\ NoSample.version < MaxVersion
        /\ NoSample.version <= sample[s].version
        /\ NoSample.version = sample[s].version => NoSample.now = sample[s].now
    BY DatasetAssumption
       DEF DatasetAssumption, NoSample, DatasetInv, DatasetTypeOK, Sample,
           ReadingsAreSound
  <2> QED BY <1>1, <2>1, <2>2, ReadingKeeps DEF StartLabel
<1>2. ASSUME NEW m \in Mails, NEW label \in Labels,
             ConfirmCandidate(c, m, label) \/ CurateValidatedReport(c, m, label)
      PROVE  DatasetInv'
  <2>1. <<m, "review">> \in Samples /\ <<m, "report">> \in Samples
    BY DEF Samples
  <2> QED BY <1>1, <1>2, <2>1 DEF ConfirmCandidate, CurateValidatedReport
<1>3. ASSUME NEW s \in Samples, NEW content \in Content, UpdateSample(c, s, content)
      PROVE  DatasetInv'
  <2>1. /\ sample[s] \in Sample
        /\ sample[s].version < MaxVersion /\ sample[s].version <= sample[s].version
    BY <1>3, DatasetAssumption
       DEF DatasetAssumption, UpdateSample, DatasetInv, DatasetTypeOK, Sample
  <2> QED BY <1>3, <2>1, ReadingKeeps DEF UpdateSample
<1> QED BY <1>2, <1>3

\* The row and its revision are written together, over the version that was read.
LEMMA StoringKeeps ==
    ASSUME DatasetInv, NEW c \in Curators, FinishCurating(c)
    PROVE  DatasetInv'
<1> DEFINE s == curator[c].of
           read == curator[c].read
           says == curator[c].now
<1>1. /\ curator[c] \in Calls /\ s \in Samples /\ read \in Sample /\ says \in Content
      /\ sample \in [Samples -> Sample]
      /\ revisions \in [Samples -> Seq(Revision)]
      /\ frozen \in [SnapshotTags -> SUBSET Item]
      /\ curator \in [Curators -> Calls \cup {NoCurator}]
  BY DEF DatasetInv, DatasetTypeOK, FinishCurating, Calls
<1>2. /\ curator' = [curator EXCEPT ![c] = NoCurator]
      /\ UNCHANGED <<messageVars, frozen>>
      /\ CoversAreReceived'
  BY DEF FinishCurating, DatasetInv, CoversAreReceived, messageVars
<1>3. CASE ~Stores(c)
  <2>1. UNCHANGED <<sample, revisions>>
    BY <1>3 DEF FinishCurating
  <2>2. DatasetTypeOK' /\ ReadingsAreSound' /\ SnapshotsAreTraceable'
    BY <1>1, <1>2, <2>1
       DEF DatasetInv, DatasetTypeOK, ReadingsAreSound, SnapshotsAreTraceable,
           messageVars
  <2> QED BY <1>2, <2>2 DEF DatasetInv
<1>4. CASE Stores(c)
  <2> DEFINE h == revisions[s]
             v == sample[s].version
             row == [version |-> v + 1, now |-> says]
             entry == [now |-> says, saw |-> read.now]
  <2>1. /\ sample' = [sample EXCEPT ![s] = row]
        /\ revisions' = [revisions EXCEPT ![s] = Append(h, entry)]
    BY <1>1, <1>4 DEF FinishCurating
  <2>2. /\ v \in Nat /\ MaxVersion \in Nat
        /\ v = read.version /\ v < MaxVersion /\ read.now = sample[s].now
    BY <1>1, <1>4, DatasetAssumption
       DEF Stores, DatasetInv, ReadingsAreSound, Sample, DatasetAssumption,
           FinishCurating
  <2>3. row \in Sample /\ entry \in Revision
    BY <1>1, <2>2 DEF Sample, Revision
  <2>4. h \in Seq(Revision) /\ Append(h, entry) \in Seq(Revision) /\ Len(h) = v
    BY <1>1, <2>3 DEF DatasetInv, SnapshotsAreTraceable
  <2>5. DatasetTypeOK'
    <3>1. sample' \in [Samples -> Sample]
      BY <1>1, <2>1, <2>3
    <3>2. revisions' \in [Samples -> Seq(Revision)]
      BY <1>1, <2>1, <2>4
    <3>3. curator' \in [Curators -> Calls \cup {NoCurator}]
      BY <1>1, <1>2
    <3>4. UNCHANGED <<optedIn, covered, setting, received, forgotten, dismissed, report, frozen>>
      BY <1>2 DEF messageVars
    <3> QED BY <3>1, <3>2, <3>3, <3>4 DEF DatasetInv, DatasetTypeOK
  <2>6. ReadingsAreSound'
    <3>1. ASSUME NEW x \in Samples, sample'[x].version = 0
          PROVE  sample'[x].now = Unsaid
      BY <1>1, <2>1, <2>2, <3>1 DEF DatasetInv, ReadingsAreSound
    <3>2. ASSUME NEW d \in Curators, curator'[d] # NoCurator
          PROVE  LET seen == curator'[d].read
                     now == sample'[curator'[d].of]
                 IN  /\ seen.version < MaxVersion
                     /\ seen.version <= now.version
                     /\ seen.version = now.version => seen.now = now.now
      <4>1. /\ d # c /\ curator'[d] = curator[d] /\ curator[d] # NoCurator
            /\ curator[d] \in Calls
        BY <1>1, <1>2, <3>2
      <4>2. curator[d].of \in Samples /\ curator[d].read.version \in Nat
        BY <4>1 DEF Calls, Sample
      <4>3. CASE curator[d].of = s
        BY <1>1, <2>1, <2>2, <4>1, <4>2, <4>3 DEF DatasetInv, ReadingsAreSound
      <4>4. CASE curator[d].of # s
        BY <1>1, <2>1, <4>1, <4>2, <4>4 DEF DatasetInv, ReadingsAreSound
      <4> QED BY <4>3, <4>4
    <3> QED BY <3>1, <3>2 DEF ReadingsAreSound
  <2>7. SnapshotsAreTraceable'
    <3> DEFINE g == Append(h, entry)
    <3>1. /\ Len(g) = v + 1 /\ g[v + 1] = entry
          /\ \A k \in 1..v : g[k] = h[k]
      BY <2>2, <2>3, <2>4
    <3> HIDE DEF g
    <3>2. /\ v # 0 => h[v].now = sample[s].now /\ h[1].saw = Unsaid
          /\ \A k \in 2..v : h[k].saw = h[k - 1].now
      BY <1>1, <2>2, <2>4 DEF DatasetInv, SnapshotsAreTraceable
    <3>3. v = 0 => sample[s].now = Unsaid
      BY <1>1 DEF DatasetInv, ReadingsAreSound
    <3>4. /\ g[v + 1].now = says /\ g[1].saw = Unsaid
          /\ \A k \in 2..(v + 1) : g[k].saw = g[k - 1].now
      <4>1. g[1].saw = Unsaid
        <5>1. CASE v = 0
          BY <2>2, <3>1, <3>3, <5>1
        <5>2. CASE v # 0
          <6>1. 1 \in 1..v
            BY <2>2, <5>2
          <6> QED BY <3>1, <3>2, <5>2, <6>1
        <5> QED BY <5>1, <5>2
      <4>2. ASSUME NEW k \in 2..(v + 1)
            PROVE  g[k].saw = g[k - 1].now
        <5>1. CASE k = v + 1
          <6>1. v >= 1 /\ k - 1 = v /\ v \in 1..v
            BY <2>2, <5>1
          <6>2. g[k] = entry /\ g[k - 1] = h[v] /\ h[v].now = sample[s].now
            <7>1. k = v + 1 /\ v # 0
              BY <2>2, <5>1, <6>1
            <7> QED BY <3>1, <3>2, <6>1, <7>1
          <6> QED BY <2>2, <6>2
        <5>2. CASE k # v + 1
          <6>1. k \in 2..v /\ k \in 1..v /\ k - 1 \in 1..v
            BY <2>2, <5>2
          <6> QED BY <3>1, <3>2, <6>1
        <5> QED BY <5>1, <5>2
      <4>3. g[v + 1].now = says
        BY <3>1
      <4> QED BY <4>1, <4>2, <4>3
    <3>5. ASSUME NEW x \in Samples
          PROVE  LET f == revisions'[x] IN
                 /\ Len(f) = sample'[x].version
                 /\ f # <<>> => f[Len(f)].now = sample'[x].now /\ f[1].saw = Unsaid
                 /\ \A k \in 2..Len(f) : f[k].saw = f[k - 1].now
      <4>1. CASE x = s
        <5>1. revisions'[x] = g /\ sample'[x] = row
          BY <1>1, <2>1, <4>1 DEF g
        <5>2. Len(g) = row.version /\ row.version = v + 1 /\ row.now = says
          BY <3>1
        <5> QED BY <3>4, <5>1, <5>2
      <4>2. CASE x # s
        BY <1>1, <2>1, <4>2 DEF DatasetInv, SnapshotsAreTraceable
      <4> QED BY <4>1, <4>2
    <3>6. ASSUME NEW t \in SnapshotTags, NEW item \in frozen'[t]
          PROVE  /\ item.version <= sample'[item.of].version
                 /\ revisions'[item.of][item.version].now
                        = [label |-> item.label, included |-> TRUE]
      <4>1. /\ item \in frozen[t] /\ item \in Item
            /\ item.of \in Samples /\ item.version \in Nat /\ item.version >= 1
        BY <1>1, <1>2 DEF Item
      <4>2. /\ item.version <= sample[item.of].version
            /\ revisions[item.of][item.version].now
                   = [label |-> item.label, included |-> TRUE]
        BY <4>1 DEF DatasetInv, SnapshotsAreTraceable
      <4>3. CASE item.of = s
        <5>1. item.version <= v /\ item.version \in 1..v
          BY <2>2, <4>1, <4>2, <4>3
        <5>2. revisions'[s] = g /\ sample'[s] = row
          BY <1>1, <2>1 DEF g
        <5>3. revisions'[s][item.version] = revisions[s][item.version]
          BY <3>1, <5>1, <5>2
        <5> QED BY <2>2, <4>1, <4>2, <4>3, <5>1, <5>2, <5>3
      <4>4. CASE item.of # s
        BY <1>1, <2>1, <4>1, <4>2, <4>4
      <4> QED BY <4>3, <4>4
    <3> QED BY <3>5, <3>6 DEF SnapshotsAreTraceable
  <2> QED BY <1>2, <2>5, <2>6, <2>7 DEF DatasetInv
<1> QED BY <1>3, <1>4

\* A snapshot freezes the last revision of each sample that is included.
LEMMA FreezingKeeps ==
    ASSUME DatasetInv, NEW t \in SnapshotTags, CreateSnapshot(t)
    PROVE  DatasetInv'
<1> DEFINE taken == {s \in Samples : sample[s].now.included}
           Frozen(s) == [of |-> s, version |-> sample[s].version,
                         label |-> sample[s].now.label]
<1>1. /\ frozen' = [frozen EXCEPT ![t] = {Frozen(s) : s \in taken}]
      /\ UNCHANGED <<messageVars, sample, revisions, curator>>
  BY DEF CreateSnapshot
<1>2. ASSUME NEW s \in taken
      PROVE  /\ Frozen(s) \in Item
             /\ revisions[s][sample[s].version].now
                    = [label |-> sample[s].now.label, included |-> TRUE]
  <2>1. sample[s] \in Sample /\ sample[s].now # Unsaid
    BY DEF DatasetInv, DatasetTypeOK, Unsaid
  <2>2. /\ sample[s].now \in Content /\ sample[s].version \in 1..MaxVersion
        /\ sample[s].now = [label |-> sample[s].now.label, included |-> TRUE]
    <3>1. sample[s].now \in Content /\ sample[s].now.included
      BY <2>1 DEF Sample
    <3>2. sample[s].version # 0
      BY <2>1 DEF DatasetInv, ReadingsAreSound
    <3>3. sample[s].version \in 1..MaxVersion
      BY <2>1, <3>2, DatasetAssumption DEF Sample, DatasetAssumption
    <3> QED BY <3>1, <3>3 DEF Content
  <2>3. revisions[s] # <<>> /\ Len(revisions[s]) = sample[s].version
    BY <2>2 DEF DatasetInv, DatasetTypeOK, SnapshotsAreTraceable
  <2> QED BY <2>2, <2>3 DEF DatasetInv, SnapshotsAreTraceable, Item, Content
<1>3. {Frozen(s) : s \in taken} \in SUBSET Item
  BY <1>2
<1>4. DatasetTypeOK' /\ CoversAreReceived' /\ ReadingsAreSound'
  <2>1. frozen' \in [SnapshotTags -> SUBSET Item]
    BY <1>1, <1>3 DEF DatasetInv, DatasetTypeOK
  <2> QED BY <1>1, <2>1
          DEF DatasetInv, DatasetTypeOK, messageVars, CoversAreReceived,
              ReadingsAreSound
<1>5. ASSUME NEW u \in SnapshotTags, NEW item \in frozen'[u]
      PROVE  /\ item.version <= sample[item.of].version
             /\ revisions[item.of][item.version].now
                    = [label |-> item.label, included |-> TRUE]
  <2>1. CASE u = t
    <3>1. PICK s \in taken : item = Frozen(s)
      BY <1>1, <2>1 DEF DatasetInv, DatasetTypeOK
    <3>2. /\ item.of = s /\ item.version = sample[s].version
          /\ item.label = sample[s].now.label
      BY <3>1
    <3>3. sample[s].version \in Nat
      BY DatasetAssumption DEF DatasetAssumption, DatasetInv, DatasetTypeOK, Sample
    <3>4. revisions[s][sample[s].version].now = [label |-> sample[s].now.label, included |-> TRUE]
      BY <1>2
    <3> HIDE DEF taken, Frozen
    <3> QED BY <3>2, <3>3, <3>4
  <2>2. CASE u # t
    BY <1>1, <2>2 DEF DatasetInv, DatasetTypeOK, SnapshotsAreTraceable
  <2> QED BY <2>1, <2>2
<1>6. SnapshotsAreTraceable'
  BY <1>1, <1>5 DEF DatasetInv, SnapshotsAreTraceable
<1> QED BY <1>4, <1>6 DEF DatasetInv

LEMMA DatasetStep == DatasetInv /\ [DatasetNext]_datasetVars => DatasetInv'
<1> SUFFICES ASSUME DatasetInv, [DatasetNext]_datasetVars PROVE DatasetInv'
  OBVIOUS
<1>1. CASE UNCHANGED datasetVars
  BY <1>1 DEF datasetVars, DatasetInv, DatasetTypeOK, CoversAreReceived,
              ReadingsAreSound, SnapshotsAreTraceable
<1>2. CASE DatasetNext
  BY <1>2, UserKeeps, CurationStarts, StoringKeeps, FreezingKeeps DEF DatasetNext
<1> QED BY <1>1, <1>2

LEMMA DatasetHolds == DatasetSpec => []DatasetInv
  BY DatasetStarts, DatasetStep, PTL DEF DatasetSpec

\* Every variable of the training data keeps its type.
THEOREM DatasetTypes == DatasetSpec => []DatasetTypeOK
  BY DatasetHolds, PTL DEF DatasetInv

\* What a snapshot froze is a revision that was made by somebody who had seen the
\* one before, for any number of administrators and settings of the consent
\* (updateSample, createSnapshot).
THEOREM Traceable == DatasetSpec => []SnapshotsAreTraceable
  BY DatasetHolds, PTL DEF DatasetInv
===============================================================================
