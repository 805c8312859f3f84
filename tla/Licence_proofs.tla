----------------------------- MODULE Licence_proofs -----------------------------
(***************************************************************************)
(* Proofs about Licence and about Workspace, which a licence opens, for    *)
(* any number of webhook calls, events, seconds, people and invitations.   *)
(***************************************************************************)
EXTENDS Licence, Workspace, TLAPS

\* A call that is about to cancel has seen the end of the period go by, and so
\* has the job for what it is about to expire.
EndsAreOver ==
    /\ \A c \in WebhookCalls :
           handling[c] # Ready =>
               /\ handling[c].status # "EXPIRED"
               /\ handling[c].status = "CANCELLED" =>
                      /\ handling[c].event.kind # "payment_failed"
                      /\ handling[c].event.until <= unixTime
    /\ job # Never => job <= unixTime

LicenceInv == LicenceTypeOK /\ EndsAreOver /\ PaidTimeIsKept

-------------------------------------------------------------------------------
LEMMA LicenceStarts == LicenceInit => LicenceInv
<1> SUFFICES ASSUME LicenceInit PROVE LicenceInv
  OBVIOUS
<1> USE LicenceAssumption DEF LicenceAssumption, LicenceInit
<1>1. events \subseteq BillingEvent
  BY DEF BillingEvent, Times, Dates, StripeStatus
<1>2. LicenceTypeOK
  BY <1>1 DEF LicenceTypeOK, Times, Dates, StripeStatus, LicenseStatus, NoLicence
<1>3. EndsAreOver /\ PaidTimeIsKept
  BY DEF EndsAreOver, PaidTimeIsKept, NoLicence
<1> QED BY <1>2, <1>3 DEF LicenceInv

\* Stripe's changes of the subscription and the events they leave.
LEMMA ChangeTypes ==
    ASSUME LicenceInv, NEW status \in StripeStatus, NEW until \in Dates,
           NEW kinds \in SUBSET {"completed", "subscription", "payment_failed"},
           Changes(status, until, kinds)
    PROVE  LicenceInv'
<1> USE LicenceAssumption DEF LicenceAssumption, LicenceInv, Changes
<1>1. subscription' \in [status : StripeStatus, until : Dates]
  OBVIOUS
<1>2. events' \subseteq BillingEvent
  <2>1. \A k \in kinds : [kind |-> k, created |-> unixTime, status |-> status, until |-> until]
            \in BillingEvent
    BY DEF BillingEvent, LicenceTypeOK
  <2>2. subscription'.status = status /\ subscription'.until = until
    OBVIOUS
  <2> QED BY <2>1, <2>2 DEF Announces, LicenceTypeOK
<1>3. LicenceTypeOK'
  BY <1>1, <1>2 DEF LicenceTypeOK
<1>4. EndsAreOver' /\ PaidTimeIsKept'
  BY DEF EndsAreOver, PaidTimeIsKept
<1> QED BY <1>3, <1>4

LEMMA StripeMovesKeep == LicenceInv /\ StripeMoves => LicenceInv'
<1> SUFFICES ASSUME LicenceInv, StripeMoves PROVE LicenceInv'
  OBVIOUS
<1> USE LicenceAssumption DEF LicenceAssumption, LicenceInv
<1>1. CASE TimePasses
  <2>1. unixTime' \in Times /\ unixTime \in Nat /\ unixTime' = unixTime + 1
    BY <1>1 DEF TimePasses, LicenceTypeOK, Times
  <2>2. LicenceTypeOK'
    BY <1>1, <2>1 DEF TimePasses, LicenceTypeOK
  <2>3. EndsAreOver'
    BY <1>1, <2>1 DEF TimePasses, EndsAreOver, LicenceTypeOK, Times, Dates, Writing, BillingEvent
  <2>4. PaidTimeIsKept'
    BY <1>1, <2>1 DEF TimePasses, PaidTimeIsKept, LicenceTypeOK, Dates
  <2> QED BY <2>2, <2>3, <2>4
<1>2. unixTime + 1 \in Dates /\ subscription.until \in Dates
  BY DEF LicenceTypeOK, Times, Dates
<1>3. CASE ~TimePasses
  BY <1>2, <1>3, ChangeTypes
     DEF StripeMoves, Renews, PaymentFails, PaymentRecovers, Pauses, IsCancelled, StripeStatus
<1> QED BY <1>1, <1>3

-------------------------------------------------------------------------------
\* What a call decides when it reads an event.
LEMMA DecisionTypes ==
    ASSUME LicenceTypeOK, NEW e \in BillingEvent
    PROVE  /\ StatusOf(e) \in LicenseStatus /\ StatusOf(e) # "EXPIRED"
           /\ StatusOf(e) = "CANCELLED" => e.kind # "payment_failed" /\ e.until <= unixTime
  BY LicenceAssumption
     DEF LicenceAssumption, StatusOf, Mapped, BillingEvent, StripeStatus, LicenseStatus,
         LicenceTypeOK, Times, Dates

LEMMA CallsKeepLicence ==
    ASSUME LicenceInv, NEW c \in WebhookCalls,
           WriteLicence(c) \/ CallDies(c) \/ \E e \in events : ReadLicence(c, e)
    PROVE  LicenceInv'
<1> USE LicenceAssumption DEF LicenceAssumption, LicenceInv
<1>1. ASSUME NEW e \in events, ReadLicence(c, e)
      PROVE  LicenceInv'
  <2>1. e \in BillingEvent /\ events' \subseteq BillingEvent
    BY <1>1 DEF LicenceTypeOK, ReadLicence, Answered
  <2>2. CASE UNCHANGED handling
    BY <1>1, <2>1, <2>2 DEF ReadLicence, LicenceTypeOK, EndsAreOver, PaidTimeIsKept
  <2>3. CASE handling' = [handling EXCEPT ![c] =
                 [step |-> "write", event |-> e, status |-> StatusOf(e)]]
    <3>1. [step |-> "write", event |-> e, status |-> StatusOf(e)] \in Writing
      BY <2>1, DecisionTypes DEF Writing
    <3>2. LicenceTypeOK'
      BY <1>1, <2>1, <2>3, <3>1 DEF ReadLicence, LicenceTypeOK
    <3>3. EndsAreOver' /\ PaidTimeIsKept'
      BY <1>1, <2>1, <2>3, DecisionTypes DEF ReadLicence, EndsAreOver, PaidTimeIsKept, LicenceTypeOK
    <3> QED BY <3>2, <3>3
  <2> QED BY <1>1, <2>2, <2>3 DEF ReadLicence
<1>2. CASE WriteLicence(c)
  <2> DEFINE e == handling[c].event
  <2>1. /\ handling[c] \in Writing /\ handling[c].status \in LicenseStatus
        /\ e \in BillingEvent /\ e.until \in Dates /\ e.created \in Times
    BY <1>2 DEF WriteLicence, LicenceTypeOK, Writing, BillingEvent
  <2>2. /\ licenseRow' = [status |-> handling[c].status, until |-> PeriodAfter(e),
                          last |-> e.created]
        /\ events' \subseteq events /\ UNCHANGED <<unixTime, subscription, changes, job>>
        /\ handling' = [handling EXCEPT ![c] = Ready]
    BY <1>2 DEF WriteLicence, Answered
  <2>3. PeriodAfter(e) \in Dates \cup {Never}
    BY <2>1 DEF PeriodAfter, LicenceTypeOK
  <2>4. LicenceTypeOK'
    BY <2>1, <2>2, <2>3 DEF LicenceTypeOK
  <2>5. EndsAreOver'
    BY <2>2 DEF EndsAreOver, LicenceTypeOK
  <2>6. PaidTimeIsKept'
    BY <1>2, <2>1, <2>2 DEF PaidTimeIsKept, EndsAreOver, PeriodAfter, WriteLicence, Dates
  <2> QED BY <2>4, <2>5, <2>6
<1>3. CASE CallDies(c)
  BY <1>3 DEF CallDies, LicenceTypeOK, EndsAreOver, PaidTimeIsKept
<1> QED BY <1>1, <1>2, <1>3

LEMMA OthersKeepLicence ==
    ASSUME LicenceInv,
           \/ Reconciled \/ \E e \in events : Completed(e)
           \/ SelectLapsed \/ ExpireLapsed \/ JobDies
    PROVE  LicenceInv'
<1> USE LicenceAssumption DEF LicenceAssumption, LicenceInv
<1>1. ASSUME NEW e \in events, Completed(e)
      PROVE  LicenceInv'
  <2>1. e.created \in Times /\ events' \subseteq events
    BY <1>1 DEF LicenceTypeOK, BillingEvent, Completed, Answered
  <2>2. LicenceTypeOK'
    BY <1>1, <2>1 DEF Completed, LicenceTypeOK, LicenseStatus
  <2>3. EndsAreOver' /\ PaidTimeIsKept'
    BY <1>1 DEF Completed, EndsAreOver, PaidTimeIsKept
  <2> QED BY <2>2, <2>3
<1>2. CASE Reconciled
  BY <1>2 DEF Reconciled, LicenceTypeOK, LicenseStatus, EndsAreOver, PaidTimeIsKept
<1>3. CASE SelectLapsed
  BY <1>3 DEF SelectLapsed, LicenceTypeOK, EndsAreOver, PaidTimeIsKept, Times
<1>4. CASE ExpireLapsed
  <2>1. LicenceTypeOK'
    BY <1>4 DEF ExpireLapsed, LicenceTypeOK, LicenseStatus
  <2>2. EndsAreOver'
    BY <1>4 DEF ExpireLapsed, EndsAreOver
  <2>3. PaidTimeIsKept'
    BY <1>4 DEF ExpireLapsed, Expirable, EndsAreOver, PaidTimeIsKept, LicenceTypeOK, Times, Dates
  <2> QED BY <2>1, <2>2, <2>3
<1>5. CASE JobDies
  BY <1>5 DEF JobDies, LicenceTypeOK, EndsAreOver, PaidTimeIsKept
<1> QED BY <1>1, <1>2, <1>3, <1>4, <1>5

LEMMA LicenceStepKeeps == LicenceInv /\ [LicenceNext]_licenceVars => LicenceInv'
<1>1. LicenceInv /\ LicenceNext => LicenceInv'
  BY StripeMovesKeep, CallsKeepLicence, OthersKeepLicence DEF LicenceNext
<1>2. LicenceInv /\ UNCHANGED licenceVars => LicenceInv'
  BY DEF LicenceInv, licenceVars, LicenceTypeOK, EndsAreOver, PaidTimeIsKept
<1> QED BY <1>1, <1>2

-------------------------------------------------------------------------------
LEMMA LicenceInvariant == LicenceSpec => []LicenceInv
  BY LicenceStarts, LicenceStepKeeps, PTL DEF LicenceSpec

\* The row, the events, the calls and the job keep their types.
THEOREM LicenceTypes == LicenceSpec => []LicenceTypeOK
<1>1. LicenceInv => LicenceTypeOK
  BY DEF LicenceInv
<1> QED BY <1>1, LicenceInvariant, PTL

\* A licence is cancelled or expired only with its period over, for any number
\* of events in any order and any overlap of their calls with the expiry job.
THEOREM NoPaidTimeLost == LicenceSpec => []PaidTimeIsKept
<1>1. LicenceInv => PaidTimeIsKept
  BY DEF LicenceInv
<1> QED BY <1>1, LicenceInvariant, PTL

-------------------------------------------------------------------------------
(***************************************************************************)
(* The workspace                                                           *)
(***************************************************************************)
\* A call that is under way is about somebody.
DesksAreTaken == \A d \in Desks : desk[d].op # "none" => desk[d].who \in People

WorkspaceInv == WorkspaceTypeOK /\ DesksAreTaken

LEMMA WorkspaceStarts == WorkspaceInit => WorkspaceInv
<1> SUFFICES ASSUME WorkspaceInit PROVE WorkspaceInv
  OBVIOUS
<1>1. NoRow \in Row /\ EmptyDesk \in Desk /\ EmptyDesk.op = "none"
  BY DEF NoRow, Row, EmptyDesk, Desk
<1> QED BY <1>1, WorkspaceAssumption
        DEF WorkspaceAssumption, WorkspaceInit, WorkspaceInv, WorkspaceTypeOK, DesksAreTaken

\* A call takes its place, and nothing else happens.
LEMMA SittingKeeps ==
    ASSUME WorkspaceInv, NEW d \in Desks, NEW p \in People, NEW rows \in SUBSET Invites,
           NEW op \in {"invite", "remove", "transfer", "revoke", "add", "accept"},
           NEW role \in Roles \cup {"none"},
           Sits(d, op, p, role, rows)
    PROVE  WorkspaceInv'
<1> DEFINE place == [op |-> op, who |-> p, role |-> role, rows |-> rows]
<1>1. place \in Desk
  BY DEF Desk
<1>2. desk' = [desk EXCEPT ![d] = place]
      /\ UNCHANGED <<users, memberRole, cameBy, owner, claimed, invite>>
  BY DEF Sits
<1>3. WorkspaceTypeOK'
  BY <1>1, <1>2 DEF WorkspaceInv, WorkspaceTypeOK
<1>4. DesksAreTaken'
  BY <1>2 DEF WorkspaceInv, WorkspaceTypeOK, DesksAreTaken
<1> QED BY <1>3, <1>4 DEF WorkspaceInv

LEMMA DesksFill ==
    ASSUME WorkspaceInv, NEW d \in Desks, NEW p \in People,
           \/ StartTransfer(d, p) \/ StartAdd(d, p) \/ StartAccept(d, p)
           \/ \E by \in People :
               StartRemove(d, by, p) \/ \E role \in {"TIER_1", "TIER_2"} : StartInvite(d, by, p, role)
           \/ \E i \in Invites : StartRevoke(d, p, i)
    PROVE  WorkspaceInv'
<1>1. CASE StartTransfer(d, p)
  BY <1>1, SittingKeeps DEF StartTransfer, Roles
<1>2. CASE StartAdd(d, p)
  BY <1>2, SittingKeeps DEF StartAdd, Roles
<1>3. CASE StartAccept(d, p)
  <2>1. {i \in WithStatus("PENDING") : invite[i].of = p /\ ~invite[i].expired} \in SUBSET Invites
    BY DEF WithStatus
  <2> QED BY <1>3, <2>1, SittingKeeps DEF StartAccept
<1>4. CASE \E by \in People : StartRemove(d, by, p)
  BY <1>4, SittingKeeps DEF StartRemove
<1>5. CASE \E by \in People, role \in {"TIER_1", "TIER_2"} : StartInvite(d, by, p, role)
  BY <1>5, SittingKeeps DEF StartInvite, Roles
<1>6. CASE \E i \in Invites : StartRevoke(d, p, i)
  BY <1>6, SittingKeeps DEF StartRevoke
<1> QED BY <1>1, <1>2, <1>3, <1>4, <1>5, <1>6

\* The write of a call, which then leaves its place.
LEMMA DesksEmpty ==
    ASSUME WorkspaceInv, NEW d \in Desks,
           \/ FinishInvite(d) \/ FinishRemove(d) \/ FinishTransfer(d) \/ FinishRevoke(d)
           \/ FinishAdd(d) \/ FinishAccept(d)
    PROVE  WorkspaceInv'
<1> USE DEF WorkspaceInv, WorkspaceTypeOK
<1>1. /\ desk' = [desk EXCEPT ![d] = EmptyDesk]
      /\ desk[d] \in Desk /\ desk[d].who \in People
      /\ desk[d].role \in Roles \cup {"none"} /\ desk[d].rows \in SUBSET Invites
  BY DEF FinishInvite, FinishRemove, FinishTransfer, FinishRevoke, FinishAdd, FinishAccept,
         Leaves, DesksAreTaken, Desk
<1>2. EmptyDesk \in Desk /\ EmptyDesk.op = "none"
  BY DEF EmptyDesk, Desk
<1>3. desk' \in [Desks -> Desk] /\ DesksAreTaken'
  BY <1>1, <1>2 DEF DesksAreTaken
<1> SUFFICES /\ users' \subseteq People
             /\ memberRole' \in [People -> Roles \cup {"none"}]
             /\ cameBy' \in [People -> Invites \cup {NoInvite}]
             /\ owner' \in People \cup {Nobody}
             /\ claimed' \in BOOLEAN
             /\ invite' \in [Invites -> Row]
  BY <1>3
<1>4. CASE FinishInvite(d)
  <2>1. ASSUME NEW i \in Invites,
               invite' = [invite EXCEPT ![i] =
                   [status |-> "PENDING", of |-> desk[d].who, role |-> desk[d].role,
                    expired |-> FALSE]]
        PROVE  invite' \in [Invites -> Row]
    BY <1>1, <2>1 DEF Row
  <2>2. invite' \in [Invites -> Row]
    BY <1>4, <2>1 DEF FinishInvite, WithStatus
  <2> QED BY <1>1, <1>4, <2>2 DEF FinishInvite, Joins
<1>5. CASE FinishRemove(d)
  BY <1>1, <1>5 DEF FinishRemove, Joins
<1>6. CASE FinishTransfer(d)
  BY <1>1, <1>6 DEF FinishTransfer, Roles
<1>7. CASE FinishRevoke(d)
  <2>1. \A i \in Invites : [invite[i] EXCEPT !.status = "REVOKED"] \in Row
    BY DEF Row
  <2> QED BY <1>7, <2>1 DEF FinishRevoke
<1>8. CASE FinishAdd(d)
  BY <1>1, <1>8 DEF FinishAdd, Joins
<1>9. CASE FinishAccept(d)
  <2>1. \A i \in Invites : [invite[i] EXCEPT !.status = "ACCEPTED"] \in Row
    BY DEF Row
  <2>2. invite' \in [Invites -> Row]
    BY <1>9, <2>1 DEF FinishAccept
  <2>3. \A i \in desk[d].rows : i \in Invites /\ invite[i].role \in Roles \cup {"none"}
    BY <1>1 DEF Row
  <2>4. /\ memberRole' \in [People -> Roles \cup {"none"}]
        /\ cameBy' \in [People -> Invites \cup {NoInvite}]
    BY <1>9, <2>3 DEF FinishAccept
  <2> QED BY <1>1, <1>9, <2>2, <2>4 DEF FinishAccept
<1> QED BY <1>4, <1>5, <1>6, <1>7, <1>8, <1>9

LEMMA WorkspaceStep == WorkspaceInv /\ [WorkspaceNext]_workspaceVars => WorkspaceInv'
<1> SUFFICES ASSUME WorkspaceInv, [WorkspaceNext]_workspaceVars PROVE WorkspaceInv'
  OBVIOUS
<1> USE WorkspaceAssumption DEF WorkspaceAssumption
<1>1. CASE UNCHANGED workspaceVars
  BY <1>1 DEF workspaceVars, WorkspaceInv, WorkspaceTypeOK, DesksAreTaken
<1>2. CASE \E p \in People : SignUp(p)
  BY <1>2 DEF SignUp, WorkspaceInv, WorkspaceTypeOK, DesksAreTaken
<1>3. CASE EnsureWorkspaceOwner \/ ClaimActivePaidAccess
  BY <1>3 DEF EnsureWorkspaceOwner, ClaimActivePaidAccess, Joins, Roles, WorkspaceInv,
              WorkspaceTypeOK, DesksAreTaken
<1>4. CASE \E i \in Invites : InviteExpires(i)
  <2>1. PICK i \in Invites : InviteExpires(i)
    BY <1>4
  <2>2. /\ [invite[i] EXCEPT !.expired = TRUE] \in Row
        /\ invite' = [invite EXCEPT ![i] = [invite[i] EXCEPT !.expired = TRUE]]
    BY <2>1 DEF InviteExpires, Row, WorkspaceInv, WorkspaceTypeOK
  <2> QED BY <2>1, <2>2 DEF InviteExpires, WorkspaceInv, WorkspaceTypeOK, DesksAreTaken
<1> QED BY <1>1, <1>2, <1>3, <1>4, DesksFill, DesksEmpty DEF WorkspaceNext

LEMMA WorkspaceHolds == WorkspaceSpec => []WorkspaceInv
  BY WorkspaceStarts, WorkspaceStep, PTL DEF WorkspaceSpec

\* Every variable of the workspace keeps its type.
THEOREM WorkspaceTypes == WorkspaceSpec => []WorkspaceTypeOK
  BY WorkspaceHolds, PTL DEF WorkspaceInv

\* An invitation takes effect only in an acceptance that finds all that it has read
\* pending still.
LEMMA JoinsAreOpen ==
    ASSUME WorkspaceInv, [WorkspaceNext]_workspaceVars,
           NEW i \in Invites, NEW p \in People,
           invite[i].status = "REVOKED", cameBy'[p] = i
    PROVE  cameBy[p] = i
<1> USE WorkspaceAssumption DEF WorkspaceAssumption, WorkspaceInv, WorkspaceTypeOK
<1>1. ASSUME NEW q \in People, NEW role, Joins(q, role)
      PROVE  cameBy[p] = i
  BY <1>1 DEF Joins
<1>2. ASSUME NEW d \in Desks, FinishAccept(d)
      PROVE  cameBy[p] = i
  <2>1. CASE Serialized(d)
    <3>1. PICK j \in desk[d].rows : cameBy' = [cameBy EXCEPT ![desk[d].who] = j]
      BY <1>2, <2>1 DEF FinishAccept
    <3>2. j # i
      BY <2>1 DEF Serialized
    <3> QED BY <3>1, <3>2
  <2>2. CASE ~Serialized(d)
    BY <1>2, <2>2 DEF FinishAccept
  <2> QED BY <2>1, <2>2
<1>3. ASSUME NEW d \in Desks, FinishInvite(d) \/ FinishRemove(d) \/ FinishAdd(d)
      PROVE  cameBy[p] = i
  <2>1. desk[d].who \in People
    BY <1>3 DEF DesksAreTaken, FinishInvite, FinishRemove, FinishAdd
  <2> QED BY <1>1, <1>3, <2>1 DEF FinishInvite, FinishRemove, FinishAdd
<1>4. CASE EnsureWorkspaceOwner \/ ClaimActivePaidAccess
  BY <1>1, <1>4 DEF EnsureWorkspaceOwner, ClaimActivePaidAccess
<1>5. CASE UNCHANGED cameBy
  BY <1>5
<1>6. ASSUME NEW d \in Desks, FinishTransfer(d) \/ FinishRevoke(d) PROVE UNCHANGED cameBy
  BY <1>6 DEF FinishTransfer, FinishRevoke
<1>7. ASSUME NEW d \in Desks, NEW q \in People,
             \/ StartTransfer(d, q) \/ StartAdd(d, q) \/ StartAccept(d, q)
             \/ \E by \in People :
                 StartRemove(d, by, q) \/ \E role \in {"TIER_1", "TIER_2"} : StartInvite(d, by, q, role)
             \/ \E j \in Invites : StartRevoke(d, q, j)
      PROVE  UNCHANGED cameBy
  BY <1>7 DEF StartTransfer, StartAdd, StartAccept, StartRemove, StartInvite, StartRevoke, Sits
<1>8. ASSUME \/ \E q \in People : SignUp(q)
             \/ \E j \in Invites : InviteExpires(j)
             \/ UNCHANGED workspaceVars
      PROVE  UNCHANGED cameBy
  BY <1>8 DEF SignUp, InviteExpires, workspaceVars
<1> QED BY <1>2, <1>3, <1>4, <1>5, <1>6, <1>7, <1>8 DEF WorkspaceNext

\* Nobody becomes a member by an invitation that was revoked before, for any number
\* of people, invitations and calls (revokeInvitation, acceptPendingWorkspaceInvitations).
THEOREM RevokedStaysOut == WorkspaceSpec => RevokedNeverJoins
<1>1. WorkspaceInv /\ [WorkspaceNext]_workspaceVars =>
      [\A i \in Invites, p \in People :
          invite[i].status = "REVOKED" /\ cameBy'[p] = i => cameBy[p] = i]_workspaceVars
  BY JoinsAreOpen
<1> QED BY <1>1, WorkspaceHolds, PTL DEF WorkspaceSpec, RevokedNeverJoins
===============================================================================
