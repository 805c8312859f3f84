---------------------------- MODULE SenderReputation ----------------------------
(***************************************************************************)
(* What the server says of one sender                                      *)
(* (backend/src/verification/verification.service.ts): users report it, an *)
(* administrator marks it as fraud once two of them did in the same        *)
(* period, users' inquiries look it up in an external service and cache    *)
(* the answer in the same row, accounts are deleted with their reports,    *)
(* and the retention purge removes what is old.                            *)
(*                                                                         *)
(* Every await of an inquiry and of a review is a step of its own; a       *)
(* transaction is one step.                                                *)
(*                                                                         *)
(* Simplifications: whether the sender is in the caller's contacts is a    *)
(* choice; an organization's expiry is its deactivation; a deleted account *)
(* does not come back.                                                     *)
(***************************************************************************)
EXTENDS Integers, FiniteSets

CONSTANTS Reporters,   \* users who may report the sender
          Inquiries,   \* verifySender calls at the same time
          Admins,      \* administrators who may confirm at the same time
          LastPeriod,  \* bound: report windows of 30 days
          KeptPeriods  \* 90 days in windows of 30

ASSUME ReputationAssumption ==
    /\ IsFiniteSet(Reporters)
    /\ LastPeriod \in Nat
    /\ KeptPeriods \in Nat \ {0}

VARIABLES
    accused,  \* the SenderReport row of each user and window
    mark,     \* the SenderVerificationCache row
    listed,   \* the sender is an active trusted organization
    period,   \* the current report window
    inquiry,  \* each verifySender call's place
    ruling,   \* each confirmFraud call's place and its report's window
    departed, \* users whose account is deleted
    named     \* history: who reported in each window

reputationVars ==
    <<accused, mark, listed, period, inquiry, ruling, departed, named>>

Periods == 0..LastPeriod

\* MINIMUM_CORROBORATING_REPORTS
Quota == 2

NoMark == [status |-> "none", source |-> "none", current |-> FALSE]

Entry(status, source) == [status |-> status, source |-> source, current |-> TRUE]

NoInquiry == [step |-> "idle", cached |-> FALSE]
NoRuling == [step |-> "idle", period |-> 0]

\* isConfirmedFraud, as ingest asks it.
ConfirmedFraud ==
    mark.status = "fraud" /\ mark.source = "admin" /\ mark.current

ReputationInit ==
    /\ accused = [u \in Reporters |-> [p \in Periods |-> "none"]]
    /\ mark = NoMark
    /\ listed = FALSE
    /\ period = 0
    /\ inquiry = [q \in Inquiries |-> NoInquiry]
    /\ ruling = [a \in Admins |-> NoRuling]
    /\ departed = {}
    /\ named = [p \in Periods |-> {}]

-------------------------------------------------------------------------------
(***************************************************************************)
(* verifySender: GET sender/:sender, and every ingest                      *)
(***************************************************************************)

\* A current entry that says fraud is the answer.
ReadMark(q) ==
    /\ inquiry[q].step = "idle"
    /\ ~(mark.current /\ mark.status = "fraud")
    /\ inquiry' = [inquiry EXCEPT ![q] = [step |-> "known", cached |-> mark.current]]
    /\ UNCHANGED <<accused, mark, listed, period, ruling, departed, named>>

\* So is a trusted organization, a contact, or any other current entry.
IsFamiliar(q) ==
    /\ inquiry[q].step = "known"
    /\ inquiry' = [inquiry EXCEPT ![q] = NoInquiry]
    /\ UNCHANGED <<accused, mark, listed, period, ruling, departed, named>>

AsksAbroad(q) ==
    /\ inquiry[q].step = "known"
    /\ ~listed
    /\ ~inquiry[q].cached
    /\ inquiry' = [inquiry EXCEPT ![q].step = "lookup"]
    /\ UNCHANGED <<accused, mark, listed, period, ruling, departed, named>>

\* The answer of the external service, or its default, is stored.
StoreAnswer(q) ==
    /\ inquiry[q].step = "lookup"
    /\ mark' \in {Entry("fraud", "abroad"), Entry("unknown", "abroad"),
                  Entry("unknown", "default")}
    /\ inquiry' = [inquiry EXCEPT ![q] = NoInquiry]
    /\ UNCHANGED <<accused, listed, period, ruling, departed, named>>

-------------------------------------------------------------------------------
(***************************************************************************)
(* Reports and their confirmation                                          *)
(***************************************************************************)

\* One report for each user and window.
ReportFraud(u) ==
    /\ u \notin departed
    /\ accused[u][period] = "none"
    /\ accused' = [accused EXCEPT ![u][period] = "Pending"]
    /\ named' = [named EXCEPT ![period] = @ \cup {u}]
    /\ UNCHANGED <<mark, listed, period, inquiry, ruling, departed>>

PendingIn(p) == {u \in Reporters : accused[u][p] = "Pending"}

\* Mutant of EnoughIn: reports of every window corroborate each other.
EnoughEver(p) ==
    Cardinality({u \in Reporters : \E w \in Periods : accused[u][w] = "Pending"}) >= Quota

EnoughIn(p) == Cardinality(PendingIn(p)) >= Quota

StartRuling(a, u, p) ==
    /\ ruling[a].step = "idle"
    /\ accused[u][p] = "Pending"
    /\ ruling' = [ruling EXCEPT ![a] = [step |-> "count", period |-> p]]
    /\ UNCHANGED <<accused, mark, listed, period, inquiry, departed, named>>

CountReports(a) ==
    /\ ruling[a].step = "count"
    /\ ruling' = [ruling EXCEPT ![a] =
           IF EnoughIn(@.period) THEN [@ EXCEPT !.step = "check"] ELSE NoRuling]
    /\ UNCHANGED <<accused, mark, listed, period, inquiry, departed, named>>

\* A trusted organization is never marked.
CheckOrganization(a) ==
    /\ ruling[a].step = "check"
    /\ ruling' = [ruling EXCEPT ![a] =
           IF listed THEN NoRuling ELSE [@ EXCEPT !.step = "mark"]]
    /\ UNCHANGED <<accused, mark, listed, period, inquiry, departed, named>>

\* The transaction: what is pending in the window now, and the mark.
MarkSenderFraud(a) ==
    /\ ruling[a].step = "mark"
    /\ accused' = [u \in Reporters |-> [p \in Periods |->
           IF p = ruling[a].period /\ accused[u][p] = "Pending" THEN "Validated"
           ELSE accused[u][p]]]
    /\ mark' = Entry("fraud", "admin")
    /\ ruling' = [ruling EXCEPT ![a] = NoRuling]
    /\ UNCHANGED <<listed, period, inquiry, departed, named>>

\* addTrustedOrganization, and its deactivation or expiry.
ListOrganization ==
    /\ listed' = ~listed
    /\ UNCHANGED <<accused, mark, period, inquiry, ruling, departed, named>>

-------------------------------------------------------------------------------
(***************************************************************************)
(* Accounts, retention and time                                            *)
(***************************************************************************)

\* deleteMe: the user's reports go, and with them the administrator's mark when
\* fewer than two validated ones remain in a window the user reported in.
DeleteMe(u) ==
    LET left(p) == {v \in Reporters \ {u} : accused[v][p] = "Validated"}
    IN  /\ u \notin departed
        /\ departed' = departed \cup {u}
        /\ accused' = [v \in Reporters |-> [p \in Periods |->
               IF v = u THEN "none" ELSE accused[v][p]]]
        /\ mark' = IF /\ mark.source = "admin"
                      /\ \E p \in Periods : /\ accused[u][p] # "none"
                                            /\ Cardinality(left(p)) < Quota
                   THEN NoMark ELSE mark
        /\ UNCHANGED <<listed, period, inquiry, ruling, named>>

\* The retention purge: reports older than 90 days, which of the oldest window
\* are those of some users, and an entry that has expired.
PurgeReports ==
    /\ \E older \in SUBSET Reporters :
           accused' = [u \in Reporters |-> [p \in Periods |->
               IF p + KeptPeriods < period \/ (p + KeptPeriods = period /\ u \in older)
               THEN "none" ELSE accused[u][p]]]
    /\ mark' = IF mark.current THEN mark ELSE NoMark
    /\ UNCHANGED <<listed, period, inquiry, ruling, departed, named>>

MarkExpires ==
    /\ mark.current
    /\ mark' = [mark EXCEPT !.current = FALSE]
    /\ UNCHANGED <<accused, listed, period, inquiry, ruling, departed, named>>

NextPeriod ==
    /\ period < LastPeriod
    /\ period' = period + 1
    /\ UNCHANGED <<accused, mark, listed, inquiry, ruling, departed, named>>

-------------------------------------------------------------------------------
InquiryStep(q) ==
    \/ ReadMark(q)
    \/ IsFamiliar(q)
    \/ AsksAbroad(q)
    \/ StoreAnswer(q)

RulingStep(a) ==
    \/ \E u \in Reporters, p \in Periods : StartRuling(a, u, p)
    \/ CountReports(a)
    \/ CheckOrganization(a)
    \/ MarkSenderFraud(a)

ReputationNext ==
    \/ \E q \in Inquiries : InquiryStep(q)
    \/ \E a \in Admins : RulingStep(a)
    \/ \E u \in Reporters : ReportFraud(u) \/ DeleteMe(u)
    \/ ListOrganization
    \/ PurgeReports
    \/ MarkExpires
    \/ NextPeriod

ReputationSpec == ReputationInit /\ [][ReputationNext]_reputationVars

-------------------------------------------------------------------------------
(***************************************************************************)
(* Properties                                                              *)
(***************************************************************************)
ReputationTypeOK ==
    /\ accused \in [Reporters -> [Periods -> {"none", "Pending", "Validated"}]]
    /\ mark \in [status : {"none", "unknown", "fraud"},
                 source : {"none", "default", "abroad", "admin"}, current : BOOLEAN]
    /\ listed \in BOOLEAN
    /\ period \in Periods
    /\ inquiry \in [Inquiries -> [step : {"idle", "known", "lookup"}, cached : BOOLEAN]]
    /\ ruling \in [Admins -> [step : {"idle", "count", "check", "mark"}, period : Periods]]
    /\ departed \subseteq Reporters
    /\ named \in [Periods -> SUBSET Reporters]

\* A sender is marked as fraud for everybody only if two different users
\* reported it in one window, whatever was validated, deleted, purged or
\* reported in other windows while administrators were deciding.
FraudNeedsTwoReporters ==
    mark.source = "admin" =>
        \E p \in Periods : \E u, v \in named[p] : u # v

\* A confirmed fraud stays one until it expires, is purged, or loses a reporter
\* to the deletion of an account: no inquiry puts another answer in its place.
ConfirmedFraudStands ==
    [][ConfirmedFraud =>
          mark' \in {mark, NoMark, [mark EXCEPT !.current = FALSE]}]_reputationVars

\* What remains of that: while a confirmed fraud stands no inquiry begins, since
\* its answer is known, and only one that had begun before and is waiting for the
\* external service replaces the mark; once those have ended nothing does.
Asking == {q \in Inquiries : inquiry[q].step # "idle"}
OnlyEarlierInquiriesReplace ==
    [][ConfirmedFraud =>
          /\ Asking' \subseteq Asking
          /\ \/ mark' \in {mark, NoMark, [mark EXCEPT !.current = FALSE]}
             \/ \E q \in Asking \ Asking' : inquiry[q].step = "lookup"]_reputationVars
=================================================================================
