------------------------------- MODULE Workspace --------------------------------
(***************************************************************************)
(* The members of an organization's workspace and their invitations        *)
(* (backend/src/portal-organizations, the claims of access-requests and    *)
(* the acceptance of invitations at sign-in in auth).                      *)
(*                                                                         *)
(* Members and administrators read the workspace, decide, and write a      *)
(* single row later; the claim of the applicant and the acceptance of      *)
(* invitations are serializable transactions.                              *)
(*                                                                         *)
(* Simplifications: one workspace with an active licence and one           *)
(* applicant; a person has one e-mail address; SHIELD, the applicant's     *)
(* role, is also what administrators give.                                 *)
(***************************************************************************)
EXTENDS FiniteSets, Naturals

CONSTANTS
    People,         \* users, and people who may become users
    Applicant,      \* who applied for the access
    Invites,        \* OrganizationInvitation rows
    Desks,          \* calls at the same time
    SeatLimit,      \* seats that members and invitations share
    MaximumMembers, \* members that the licence permits
    Nobody, NoInvite

ASSUME WorkspaceAssumption ==
    /\ Applicant \in People /\ Nobody \notin People /\ NoInvite \notin Invites
    /\ SeatLimit \in Nat /\ MaximumMembers \in Nat

VARIABLES
    users,      \* people with an account
    memberRole, \* role of each member, or "none"
    cameBy,     \* the invitation that a membership was accepted from
    owner,      \* ownerId
    claimed,    \* the applicant's access is bound to the account
    invite,     \* the invitations
    desk        \* each call's place

workspaceVars == <<users, memberRole, cameBy, owner, claimed, invite, desk>>

-------------------------------------------------------------------------------
Roles == {"TIER_1", "TIER_2", "SHIELD"}
NoRow == [status |-> "none", of |-> Nobody, role |-> "none", expired |-> FALSE]
Row == [status : {"none", "PENDING", "ACCEPTED", "REVOKED"}, of : People \cup {Nobody},
        role : Roles \cup {"none"}, expired : BOOLEAN]
EmptyDesk == [op |-> "none", who |-> Nobody, role |-> "none", rows |-> {}]
Desk == [op : {"none", "invite", "remove", "transfer", "revoke", "add", "accept"},
         who : People \cup {Nobody}, role : Roles \cup {"none"}, rows : SUBSET Invites]

Members == {p \in People : memberRole[p] # "none"}
WithStatus(s) == {i \in Invites : invite[i].status = s}

WorkspaceInit ==
    /\ users = {Applicant}
    /\ memberRole = [p \in People |-> "none"]
    /\ cameBy = [p \in People |-> NoInvite]
    /\ owner = Nobody
    /\ claimed \in BOOLEAN
    /\ invite = [i \in Invites |-> NoRow]
    /\ desk = [d \in Desks |-> EmptyDesk]

Sits(d, op, p, role, rows) ==
    /\ desk[d] = EmptyDesk
    /\ desk' = [desk EXCEPT ![d] = [op |-> op, who |-> p, role |-> role, rows |-> rows]]
    /\ UNCHANGED <<users, memberRole, cameBy, owner, claimed, invite>>
Leaves(d) == desk' = [desk EXCEPT ![d] = EmptyDesk]

\* The upsert of a membership outside of an invitation.
Joins(p, role) ==
    /\ memberRole' = [memberRole EXCEPT ![p] = role]
    /\ cameBy' = [cameBy EXCEPT ![p] = NoInvite]

-------------------------------------------------------------------------------
(***************************************************************************)
(* The applicant                                                           *)
(***************************************************************************)
SignUp(p) ==
    /\ p \notin users
    /\ users' = users \cup {p}
    /\ UNCHANGED <<memberRole, cameBy, owner, claimed, invite, desk>>

\* ensureWorkspaceOwner, in the activation of the access.
EnsureWorkspaceOwner ==
    /\ claimed
    /\ memberRole[Applicant] = "none"
    /\ \A p \in People : memberRole[p] # "SHIELD"
    /\ Joins(Applicant, "SHIELD")
    /\ UNCHANGED <<users, owner, claimed, invite, desk>>

\* claimActivePaidAccess; a claim that was made already changes nothing.
ClaimActivePaidAccess ==
    /\ ~(claimed /\ memberRole[Applicant] = "SHIELD")
    /\ claimed' = TRUE
    /\ Joins(Applicant, "SHIELD")
    /\ owner' = Applicant
    /\ UNCHANGED <<users, invite, desk>>

-------------------------------------------------------------------------------
(***************************************************************************)
(* portal-organizations-customer.service.ts                                *)
(***************************************************************************)
Manages(p) == memberRole[p] = "TIER_1" \/ (p \in Members /\ owner = p)

\* Expired invitations that are still pending take their seats.
SeatsTaken == Cardinality(Members) + Cardinality(WithStatus("PENDING"))

StartInvite(d, by, p, role) ==
    /\ Manages(by)
    /\ p \notin Members
    /\ SeatsTaken < SeatLimit
    /\ Sits(d, "invite", p, role, {})

\* Who has an account becomes a member at once.
FinishInvite(d) ==
    LET p == desk[d].who IN
    /\ desk[d].op = "invite"
    /\ IF p \in users
       THEN Joins(p, desk[d].role) /\ UNCHANGED invite
       ELSE /\ \E i \in WithStatus("none") :
                invite' = [invite EXCEPT ![i] =
                    [status |-> "PENDING", of |-> p, role |-> desk[d].role, expired |-> FALSE]]
            /\ UNCHANGED <<memberRole, cameBy>>
    /\ Leaves(d)
    /\ UNCHANGED <<users, owner, claimed>>

StartRemove(d, by, p) ==
    /\ {by, p} \subseteq Members
    /\ owner # p
    /\ by # p => /\ memberRole[by] # "TIER_2"
                 /\ memberRole[by] = "TIER_1" /\ memberRole[p] = "TIER_1" => owner = by
    /\ Sits(d, "remove", p, "none", {})

FinishRemove(d) ==
    LET p == desk[d].who IN
    /\ desk[d].op = "remove"
    /\ Joins(p, "none")
    /\ Leaves(d)
    /\ UNCHANGED <<users, owner, claimed, invite>>

StartTransfer(d, p) ==
    /\ owner \in Members
    /\ p \in Members
    /\ Sits(d, "transfer", p, "TIER_1", {})

\* Both rows, or neither when the member is gone.
FinishTransfer(d) ==
    LET p == desk[d].who IN
    /\ desk[d].op = "transfer"
    /\ IF p \in Members
       THEN owner' = p /\ memberRole' = [memberRole EXCEPT ![p] = "TIER_1"]
       ELSE UNCHANGED <<owner, memberRole>>
    /\ Leaves(d)
    /\ UNCHANGED <<users, cameBy, claimed, invite>>

StartRevoke(d, by, i) ==
    /\ Manages(by)
    /\ invite[i].status # "none"
    /\ Sits(d, "revoke", by, "none", {i})

\* Whatever its status.
FinishRevoke(d) ==
    /\ desk[d].op = "revoke"
    /\ invite' = [i \in Invites |->
           IF i \in desk[d].rows THEN [invite[i] EXCEPT !.status = "REVOKED"] ELSE invite[i]]
    /\ Leaves(d)
    /\ UNCHANGED <<users, memberRole, cameBy, owner, claimed>>

-------------------------------------------------------------------------------
(***************************************************************************)
(* Administrators and invitees                                             *)
(***************************************************************************)
\* addMember counts the members, not the invitations.
StartAdd(d, p) ==
    /\ p \in users
    /\ p \in Members \/ Cardinality(Members) < MaximumMembers
    /\ Sits(d, "add", p, "SHIELD", {})

FinishAdd(d) ==
    /\ desk[d].op = "add"
    /\ Joins(desk[d].who, desk[d].role)
    /\ Leaves(d)
    /\ UNCHANGED <<users, owner, claimed, invite>>

InviteExpires(i) ==
    /\ invite[i].status = "PENDING" /\ ~invite[i].expired
    /\ invite' = [invite EXCEPT ![i].expired = TRUE]
    /\ UNCHANGED <<users, memberRole, cameBy, owner, claimed, desk>>

\* acceptPendingWorkspaceInvitations: the transaction's snapshot.
StartAccept(d, p) ==
    LET open == {i \in WithStatus("PENDING") : invite[i].of = p /\ ~invite[i].expired} IN
    /\ open # {}
    /\ Sits(d, "accept", p, "none", open)

\* Mutant of Serialized: the transaction runs with the default isolation.
SerializedNot(d) == TRUE

\* Rows that others have changed since cannot be updated; it is tried again.
Serialized(d) == \A i \in desk[d].rows : invite[i].status = "PENDING"

\* Several invitations are taken in any order, so that any of them may be the last.
FinishAccept(d) ==
    LET p == desk[d].who IN
    /\ desk[d].op = "accept"
    /\ IF Serialized(d)
       THEN /\ users' = users \cup {p}
            /\ \E i \in desk[d].rows :
                /\ memberRole' = [memberRole EXCEPT ![p] = invite[i].role]
                /\ cameBy' = [cameBy EXCEPT ![p] = i]
            /\ invite' = [i \in Invites |->
                   IF i \in desk[d].rows \cap WithStatus("PENDING") /\ ~invite[i].expired
                   THEN [invite[i] EXCEPT !.status = "ACCEPTED"] ELSE invite[i]]
       ELSE UNCHANGED <<users, memberRole, cameBy, invite>>
    /\ Leaves(d)
    /\ UNCHANGED <<owner, claimed>>

-------------------------------------------------------------------------------
WorkspaceNext ==
    \/ \E p \in People : SignUp(p)
    \/ EnsureWorkspaceOwner \/ ClaimActivePaidAccess
    \/ \E i \in Invites : InviteExpires(i)
    \/ \E d \in Desks :
        \/ \E p \in People :
            \/ StartTransfer(d, p) \/ StartAdd(d, p) \/ StartAccept(d, p)
            \/ \E by \in People :
                StartRemove(d, by, p) \/ \E role \in {"TIER_1", "TIER_2"} : StartInvite(d, by, p, role)
            \/ \E i \in Invites : StartRevoke(d, p, i)
        \/ FinishInvite(d) \/ FinishRemove(d) \/ FinishTransfer(d) \/ FinishRevoke(d)
        \/ FinishAdd(d) \/ FinishAccept(d)

WorkspaceSpec == WorkspaceInit /\ [][WorkspaceNext]_workspaceVars

-------------------------------------------------------------------------------
\* Every variable has its type.
WorkspaceTypeOK ==
    /\ users \subseteq People
    /\ memberRole \in [People -> Roles \cup {"none"}]
    /\ cameBy \in [People -> Invites \cup {NoInvite}]
    /\ owner \in People \cup {Nobody}
    /\ claimed \in BOOLEAN
    /\ invite \in [Invites -> Row]
    /\ desk \in [Desks -> Desk]

\* Nobody becomes a member by an invitation that was revoked before, also when the
\* revocation comes while the invitee signs in (revokeInvitation, the isolation of
\* acceptPendingWorkspaceInvitations).
RevokedNeverJoins ==
    [][\A i \in Invites, p \in People :
        invite[i].status = "REVOKED" /\ cameBy'[p] = i => cameBy[p] = i]_workspaceVars
===============================================================================
