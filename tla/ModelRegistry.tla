---------------------------- MODULE ModelRegistry -----------------------------
(***************************************************************************)
(* The registry of model versions and their deployment                     *)
(* (backend/src/models/models.service.ts).                                 *)
(*                                                                         *)
(* Registration comes from the training pipeline, decisions from           *)
(* administrators; several run at once.  A call loads the version, decides *)
(* on what it loaded, and then updates the row only in the statuses it     *)
(* names.  A confirmation asks the AI service in between, and its          *)
(* transaction updates the other active versions in one statement and the  *)
(* confirmed one in the next: what commits between the two it does not see.*)
(*                                                                         *)
(* Simplifications: one bundle digest stands for the artifacts, a switch   *)
(* for whether the evidence is complete; the scores, the roll-back stamps  *)
(* and rows older than the review lifecycle are left out.                  *)
(***************************************************************************)
EXTENDS Naturals

CONSTANTS
    Versions,   \* version tags
    Digests,    \* bundle digests
    Reviewers,  \* calls at the same time
    NoDigest, NoVersion

ASSUME ModelAssumption == NoDigest \notin Digests /\ NoVersion \notin Versions

VARIABLES
    stage,      \* ModelCandidateStatus of each version
    bytes,      \* the recorded bundle digest
    complete,   \* the evidence of the version is complete
    active,     \* the versions flagged isActive
    serving,    \* what the AI service's /health reports
    review      \* each call's place

modelVars == <<stage, bytes, complete, active, serving, review>>

-------------------------------------------------------------------------------
Reviewable == {"EVALUATING"}
Stages == {"absent", "EVALUATING", "APPROVED", "REJECTED", "ACTIVATION_REQUESTED",
           "ACTIVE", "FAILED"}
Health == [version : Versions, digest : Digests \cup {NoDigest}]
NotReady == [version |-> NoVersion, digest |-> NoDigest]

AtEase == [op |-> "none", version |-> NoVersion, digest |-> NoDigest,
           complete |-> FALSE, others |-> {}]
ReviewCall == [op : {"none", "register", "approve", "reject", "request", "serving",
                 "demote", "promote"},
           version : Versions \cup {NoVersion}, digest : Digests \cup {NoDigest},
           complete : BOOLEAN, others : SUBSET Versions]

ModelInit ==
    /\ stage = [v \in Versions |-> "absent"]
    /\ bytes = [v \in Versions |-> NoDigest]
    /\ complete = [v \in Versions |-> FALSE]
    /\ active = {}
    /\ serving = NotReady
    /\ review = [a \in Reviewers |-> AtEase]

Loads(a, op, v, digest, whole) ==
    review' = [review EXCEPT ![a] =
        [AtEase EXCEPT !.op = op, !.version = v, !.digest = digest, !.complete = whole]]
Concludes(a) == review' = [review EXCEPT ![a] = AtEase]

-------------------------------------------------------------------------------
\* register: a new tag arrives for review, with or without its artifacts.
Register(v, d, whole) ==
    /\ stage[v] = "absent"
    /\ stage' = [stage EXCEPT ![v] = "EVALUATING"]
    /\ bytes' = [bytes EXCEPT ![v] = d]
    /\ complete' = [complete EXCEPT ![v] = whole /\ d # NoDigest]
    /\ UNCHANGED <<active, serving, review>>

\* Mutant of SameBytes: evidence of a rebuilt candidate is taken too.
AnyBytes(v, d) == bytes[v] # NoDigest

SameBytes(v, d) == bytes[v] # NoDigest /\ bytes[v] = d

\* register again: the evidence of a candidate under review is refreshed.
StartRefresh(a, v, d, whole) ==
    /\ review[a] = AtEase
    /\ stage[v] \in Reviewable
    /\ SameBytes(v, d)
    /\ Loads(a, "register", v, d, whole)
    /\ UNCHANGED <<stage, bytes, complete, active, serving>>

Refresh(a) ==
    LET v == review[a].version IN
    /\ review[a].op = "register"
    /\ IF stage[v] \in Reviewable
       THEN /\ bytes' = [bytes EXCEPT ![v] = review[a].digest]
            /\ complete' = [complete EXCEPT ![v] = review[a].complete]
       ELSE UNCHANGED <<bytes, complete>>
    /\ Concludes(a)
    /\ UNCHANGED <<stage, active, serving>>

-------------------------------------------------------------------------------
StartApprove(a, v) ==
    /\ review[a] = AtEase
    /\ stage[v] \in Reviewable
    /\ complete[v]
    /\ Loads(a, "approve", v, bytes[v], TRUE)
    /\ UNCHANGED <<stage, bytes, complete, active, serving>>

Rejectable == Reviewable \cup {"APPROVED"}

StartReject(a, v) ==
    /\ review[a] = AtEase
    /\ stage[v] \in Rejectable
    /\ v \notin active
    /\ Loads(a, "reject", v, bytes[v], complete[v])
    /\ UNCHANGED <<stage, bytes, complete, active, serving>>

\* Only one deployment at a time, as far as this call sees.
StartRequest(a, v) ==
    /\ review[a] = AtEase
    /\ stage[v] = "APPROVED"
    /\ v \notin active
    /\ \A u \in Versions : stage[u] # "ACTIVATION_REQUESTED"
    /\ Loads(a, "request", v, bytes[v], complete[v])
    /\ UNCHANGED <<stage, bytes, complete, active, serving>>

\* Mutant of Movable: the status is only looked at when the version is loaded.
MovableAsLoaded(v, from) == TRUE

\* transition: updateMany where the status is one of `from`.
Movable(v, from) == stage[v] \in from

Decides(a, op, from, to) ==
    LET v == review[a].version IN
    /\ review[a].op = op
    /\ stage' = IF Movable(v, from) THEN [stage EXCEPT ![v] = to] ELSE stage
    /\ Concludes(a)
    /\ UNCHANGED <<bytes, complete, active, serving>>

ApproveVersion(a) == Decides(a, "approve", Reviewable, "APPROVED")
RejectVersion(a) == Decides(a, "reject", Rejectable, "REJECTED")
RequestActivation(a) == Decides(a, "request", {"APPROVED"}, "ACTIVATION_REQUESTED")

MarkActivationFailed(v) ==
    /\ stage[v] = "ACTIVATION_REQUESTED"
    /\ stage' = [stage EXCEPT ![v] = "FAILED"]
    /\ UNCHANGED <<bytes, complete, active, serving, review>>

-------------------------------------------------------------------------------
\* An operator installs some bundle under some tag; the service goes down.
Installs(h) ==
    /\ serving' = h
    /\ UNCHANGED <<stage, bytes, complete, active, review>>

StartConfirm(a, v) ==
    /\ review[a] = AtEase
    /\ stage[v] = "ACTIVATION_REQUESTED"
    /\ bytes[v] # NoDigest
    /\ Loads(a, "serving", v, bytes[v], complete[v])
    /\ UNCHANGED <<stage, bytes, complete, active, serving>>

\* getServingStatus: this tag, ready, and these bytes.
AskServing(a) ==
    LET c == review[a] IN
    /\ c.op = "serving"
    /\ IF serving = [version |-> c.version, digest |-> c.digest]
       THEN review' = [review EXCEPT ![a].op = "demote"]
       ELSE Concludes(a)
    /\ UNCHANGED <<stage, bytes, complete, active, serving>>

\* The first statement of the transaction; nothing of it shows before the end.
Demote(a) ==
    LET v == review[a].version IN
    /\ review[a].op = "demote"
    /\ review' = [review EXCEPT ![a].op = "promote", ![a].others = active \ {v}]
    /\ UNCHANGED <<stage, bytes, complete, active, serving>>

\* A version that moved on makes the transaction roll back.
Demotes(a) == stage[review[a].version] = "ACTIVATION_REQUESTED"

\* Mutant of Promote: every version that is active is demoted, and whether this one
\* was moved is not looked at.
PromoteAnyway(a) ==
    LET v == review[a].version
        new == IF stage[v] = "ACTIVATION_REQUESTED" THEN {v} ELSE {} IN
    /\ review[a].op = "promote"
    /\ active' = new
    /\ stage' = [u \in Versions |->
           IF u \in new THEN "ACTIVE" ELSE IF u \in active THEN "APPROVED" ELSE stage[u]]
    /\ Concludes(a)
    /\ UNCHANGED <<bytes, complete, serving>>

Promote(a) ==
    LET v == review[a].version
        old == IF Demotes(a) THEN review[a].others \cap active ELSE {}
        new == IF stage[v] = "ACTIVATION_REQUESTED" THEN {v} ELSE {} IN
    /\ review[a].op = "promote"
    /\ active' = (active \ old) \cup new
    /\ stage' = [u \in Versions |->
           CASE u \in new -> "ACTIVE" [] u \in old -> "APPROVED" [] OTHER -> stage[u]]
    /\ Concludes(a)
    /\ UNCHANGED <<bytes, complete, serving>>

-------------------------------------------------------------------------------
ModelNext ==
    \/ \E v \in Versions, d \in Digests \cup {NoDigest}, whole \in BOOLEAN :
        Register(v, d, whole) \/ \E a \in Reviewers : StartRefresh(a, v, d, whole)
    \/ \E v \in Versions, a \in Reviewers :
        StartApprove(a, v) \/ StartReject(a, v) \/ StartRequest(a, v) \/ StartConfirm(a, v)
    \/ \E v \in Versions : MarkActivationFailed(v)
    \/ \E a \in Reviewers :
        \/ Refresh(a) \/ ApproveVersion(a) \/ RejectVersion(a) \/ RequestActivation(a)
        \/ AskServing(a) \/ Demote(a) \/ Promote(a)
    \/ \E h \in (Health \cup {NotReady}) \ {serving} : Installs(h)

ModelSpec == ModelInit /\ [][ModelNext]_modelVars

-------------------------------------------------------------------------------
\* Every variable has its type.
ModelTypeOK ==
    /\ stage \in [Versions -> Stages]
    /\ bytes \in [Versions -> Digests \cup {NoDigest}]
    /\ complete \in [Versions -> BOOLEAN]
    /\ active \subseteq Versions
    /\ serving \in Health \cup {NotReady}
    /\ review \in [Reviewers -> ReviewCall]

\* The two columns that say a version serves agree, however decisions that were
\* taken on an older row overlap: no version is rejected, approved again or
\* requested while it is the active one.
FlagFollowsStatus == active = {v \in Versions : stage[v] = "ACTIVE"}

\* What is approved are the bytes whose evidence was assessed: a registration
\* that comes between the assessment and the decision cannot move the tag.
ApprovesTheAssessedBytes ==
    [][\A a \in Reviewers :
        LET v == review[a].version IN
        ApproveVersion(a) /\ stage[v] # "APPROVED" /\ stage'[v] = "APPROVED"
            => bytes[v] = review[a].digest]_modelVars

\* A confirmation that fails or overlaps another one never leaves the registry
\* without an active version once there was one.
AVersionStaysActive == [][active # {} => active' # {}]_modelVars
===============================================================================
