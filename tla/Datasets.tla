-------------------------------- MODULE Datasets --------------------------------
(***************************************************************************)
(* The curated training data (backend/src/datasets) and the consent to it  *)
(* (users.service.ts).                                                     *)
(*                                                                         *)
(* Administrators label messages of users who opted in, and validated      *)
(* reports; what they label becomes a sample with a history of revisions,  *)
(* and snapshots freeze the samples that are included.  What may be        *)
(* labelled is read before the transaction that stores the sample; an edit *)
(* compares the version it read when it writes.                            *)
(*                                                                         *)
(* Consent is a time: a message counts that was received after it.  It is  *)
(* stood for by the messages received since, which a call that has taken   *)
(* the time but not stored it collects too.                                *)
(*                                                                         *)
(* Simplifications: one user, one report of a message, every message       *)
(* classified by the server; language and masked text are part of the      *)
(* label; the holdout, the audit records and the order of the queue are    *)
(* left out.                                                               *)
(***************************************************************************)
EXTENDS Naturals, Sequences

CONSTANTS
    Mails,        \* messages
    Labels,       \* what a sample says
    Curators,     \* administrators' calls at the same time
    Settings,     \* the user's calls at the same time
    SnapshotTags, \* versionTag of each snapshot
    MaxVersion,   \* bound: revisions of a sample
    NoLabel

ASSUME DatasetAssumption == MaxVersion \in Nat \ {0} /\ NoLabel \notin Labels

VARIABLES
    optedIn,   \* trainingOptIn
    covered,   \* messages received since trainingOptInAt
    setting,   \* the user's calls
    received,  \* stored messages
    forgotten, \* messages that have been purged
    dismissed, \* messages with reviewDismissedAt
    report,    \* status of each message's report
    sample,    \* the samples
    revisions,   \* their revisions
    frozen,    \* the items of each snapshot
    curator    \* the administrators' calls

datasetVars ==
    <<optedIn, covered, setting, received, forgotten, dismissed, report, sample, revisions,
      frozen, curator>>
messageVars == <<optedIn, covered, setting, received, forgotten, dismissed, report>>
sampleVars == <<sample, revisions, frozen, curator>>

-------------------------------------------------------------------------------
\* sourceMessageId and sourceReportId, each of which is unique.
Samples == Mails \X {"review", "report"}
Content == [label : Labels, included : BOOLEAN]
Unsaid == [label |-> NoLabel, included |-> FALSE]

NoSample == [version |-> 0, now |-> Unsaid]
Sample == [version : 0..MaxVersion, now : Content \cup {Unsaid}]
Revision == [now : Content, saw : Content \cup {Unsaid}]
Item == [of : Samples, version : 1..MaxVersion, label : Labels]

NoSetting == [op |-> "none", covers |-> {}]
Setting == [op : {"none", "in", "out", "keep"}, covers : SUBSET Mails]

Calls == [op : {"create", "edit"}, of : Samples, read : Sample, now : Content]
NoCurator == [op |-> "none"]

DatasetInit ==
    /\ optedIn = FALSE /\ covered = {} /\ setting = [u \in Settings |-> NoSetting]
    /\ received = {} /\ forgotten = {} /\ dismissed = {}
    /\ report = [m \in Mails |-> "none"]
    /\ sample = [s \in Samples |-> NoSample]
    /\ revisions = [s \in Samples |-> <<>>]
    /\ frozen = [t \in SnapshotTags |-> {}]
    /\ curator = [c \in Curators |-> NoCurator]

-------------------------------------------------------------------------------
(***************************************************************************)
(* The user                                                                *)
(***************************************************************************)
\* updateMe and trainingConsentUpdate: what is stored already is not stored again.
StartSetting(u, wanted) ==
    /\ setting[u] = NoSetting
    /\ setting' = [setting EXCEPT ![u].op =
           IF wanted = optedIn THEN "keep" ELSE IF wanted THEN "in" ELSE "out"]
    /\ UNCHANGED <<optedIn, covered, received, forgotten, dismissed, report, sampleVars>>

FinishSetting(u) ==
    /\ setting[u] # NoSetting
    /\ IF setting[u].op = "keep" THEN UNCHANGED <<optedIn, covered>>
       ELSE /\ optedIn' = (setting[u].op = "in")
            /\ covered' = IF setting[u].op = "in" THEN setting[u].covers ELSE {}
    /\ setting' = [setting EXCEPT ![u] = NoSetting]
    /\ UNCHANGED <<received, forgotten, dismissed, report, sampleVars>>

Receive(m) ==
    /\ m \notin received \cup forgotten
    /\ received' = received \cup {m}
    /\ covered' = IF optedIn THEN covered \cup {m} ELSE covered
    /\ setting' = [u \in Settings |->
           IF setting[u].op = "in" THEN [setting[u] EXCEPT !.covers = @ \cup {m}] ELSE setting[u]]
    /\ UNCHANGED <<optedIn, forgotten, dismissed, report, sampleVars>>

\* The user reports a message; an administrator validates the report, or not.
ReportMail(m) ==
    /\ m \in received
    /\ \/ report[m] = "none" /\ report' = [report EXCEPT ![m] = "Pending"]
       \/ report[m] = "Pending" /\ report' = [report EXCEPT ![m] = "Validated"]
    /\ UNCHANGED <<optedIn, covered, setting, received, forgotten, dismissed, sampleVars>>

\* The purge of old messages: their samples stay.
Forget(m) ==
    /\ m \in received
    /\ received' = received \ {m} /\ forgotten' = forgotten \cup {m}
    /\ covered' = covered \ {m} /\ dismissed' = dismissed \ {m}
    /\ report' = [report EXCEPT ![m] = "none"]
    /\ setting' = [u \in Settings |-> [setting[u] EXCEPT !.covers = @ \ {m}]]
    /\ UNCHANGED <<optedIn, sampleVars>>

-------------------------------------------------------------------------------
(***************************************************************************)
(* The administrators                                                      *)
(***************************************************************************)
\* REVIEW_CANDIDATE_WHERE
Queued(m) ==
    /\ m \in received /\ m \notin dismissed
    /\ report[m] = "none"
    /\ sample[<<m, "review">>] = NoSample
    /\ optedIn

Consented(m) == m \in covered

SkipCandidate(m) ==
    /\ Queued(m)
    /\ dismissed' = dismissed \cup {m}
    /\ UNCHANGED <<optedIn, covered, setting, received, forgotten, report, sampleVars>>

StartLabel(c, s, label) ==
    /\ curator[c] = NoCurator
    /\ curator' = [curator EXCEPT ![c] =
           [op |-> "create", of |-> s, read |-> NoSample, now |-> [label |-> label, included |-> TRUE]]]
    /\ UNCHANGED <<messageVars, sample, revisions, frozen>>

ConfirmCandidate(c, m, label) ==
    Queued(m) /\ Consented(m) /\ StartLabel(c, <<m, "review">>, label)

CurateValidatedReport(c, m, label) ==
    report[m] = "Validated" /\ StartLabel(c, <<m, "report">>, label)

\* Mutant of Stores: an edit is stored whatever was edited meanwhile.
StoresAnyway(c) == TRUE

\* The source is there and has no sample yet; the version is the one that was read.
Stores(c) ==
    LET s == curator[c].of IN
    /\ sample[s].version = curator[c].read.version
    /\ curator[c].op = "create" =>
           /\ s[1] \in received
           /\ s[2] = "report" => report[s[1]] = "Validated"

\* The row and its revision.
FinishCurating(c) ==
    LET s == curator[c].of IN
    /\ curator[c] # NoCurator
    /\ IF Stores(c)
       THEN /\ sample' = [sample EXCEPT ![s] = [version |-> @.version + 1, now |-> curator[c].now]]
            /\ revisions' = [revisions EXCEPT ![s] =
                   Append(@, [now |-> curator[c].now, saw |-> curator[c].read.now])]
       ELSE UNCHANGED <<sample, revisions>>
    /\ curator' = [curator EXCEPT ![c] = NoCurator]
    /\ UNCHANGED <<messageVars, frozen>>

UpdateSample(c, s, content) ==
    /\ curator[c] = NoCurator
    /\ sample[s].version \in 1..(MaxVersion - 1)
    /\ content # sample[s].now
    /\ curator' = [curator EXCEPT ![c] =
           [op |-> "edit", of |-> s, read |-> sample[s], now |-> content]]
    /\ UNCHANGED <<messageVars, sample, revisions, frozen>>

CreateSnapshot(t) ==
    LET ss == {s \in Samples : sample[s].now.included} IN
    /\ frozen[t] = {} /\ ss # {}
    /\ frozen' = [frozen EXCEPT ![t] =
           {[of |-> s, version |-> sample[s].version, label |-> sample[s].now.label] : s \in ss}]
    /\ UNCHANGED <<messageVars, sample, revisions, curator>>

-------------------------------------------------------------------------------
DatasetNext ==
    \/ \E u \in Settings : FinishSetting(u) \/ \E wanted \in BOOLEAN : StartSetting(u, wanted)
    \/ \E m \in Mails :
        \/ Receive(m) \/ ReportMail(m) \/ Forget(m) \/ SkipCandidate(m)
        \/ \E c \in Curators, label \in Labels :
            ConfirmCandidate(c, m, label) \/ CurateValidatedReport(c, m, label)
    \/ \E c \in Curators :
        FinishCurating(c) \/ \E s \in Samples, content \in Content : UpdateSample(c, s, content)
    \/ \E t \in SnapshotTags : CreateSnapshot(t)

DatasetSpec == DatasetInit /\ [][DatasetNext]_datasetVars

-------------------------------------------------------------------------------
\* Every variable has its type.
DatasetTypeOK ==
    /\ optedIn \in BOOLEAN
    /\ received \subseteq Mails /\ forgotten \subseteq Mails \ received
    /\ covered \subseteq received /\ dismissed \subseteq received
    /\ setting \in [Settings -> Setting]
    /\ report \in [Mails -> {"none", "Pending", "Validated"}]
    /\ sample \in [Samples -> Sample]
    /\ revisions \in [Samples -> Seq(Revision)]
    /\ frozen \in [SnapshotTags -> SUBSET Item]
    /\ curator \in [Curators -> Calls \cup {NoCurator}]

\* A snapshot can be traced: what it froze is a revision of the sample, the
\* revisions lead up to the row, and each was made by somebody who had seen the one
\* before (the version guard of updateSample, the items of createSnapshot).
SnapshotsAreTraceable ==
    /\ \A s \in Samples :
        LET h == revisions[s] IN
        /\ Len(h) = sample[s].version
        /\ h # <<>> => h[Len(h)].now = sample[s].now /\ h[1].saw = Unsaid
        /\ \A k \in 2..Len(h) : h[k].saw = h[k - 1].now
    /\ \A t \in SnapshotTags : \A item \in frozen[t] :
        /\ item.version <= sample[item.of].version
        /\ revisions[item.of][item.version].now = [label |-> item.label, included |-> TRUE]
===============================================================================
