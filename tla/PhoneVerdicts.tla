------------------------------ MODULE PhoneVerdicts ------------------------------
(***************************************************************************)
(* The stored verdict of one message on the phone, and everybody who       *)
(* writes it: the receiver of the message (live), the durable follow-up    *)
(* with the bundled model (worker), the sorting of the existing inbox      *)
(* (sort), the scan of the Messages screen (scan), the campaign matching   *)
(* of the Campaigns screen (backfill), and the user's reports with their   *)
(* reviews (user).  They are coroutines that wait for the network, for the *)
(* model or for the database between reading the row and writing it.       *)
(*                                                                         *)
(* The two screens, and the sorting, choose many messages from one read    *)
(* and take them one after the other.  A message that a screen chose waits *)
(* its turn, for minutes when the server is out of reach, and nobody looks *)
(* at its row again before it is sent.                                     *)
(*                                                                         *)
(* Notifications, block lists and the deletion of messages are left out;   *)
(* whether a sender may be blocked automatically is a choice each time,    *)
(* and how often a scan tries again is not bounded (three times).          *)
(***************************************************************************)
EXTENDS Naturals

CONSTANT MaxReports \* bound: reports and reviews of the message

ASSUME ReportsAssumption == MaxReports \in Nat

VARIABLES
    classification, \* the message's row of the table: label and source
    pass,      \* what each pass is about to do, and the row it is about to write
    followUp,  \* the worker's job is enqueued
    matched,   \* a campaign match is recorded for the message
    reports,   \* reports and reviews so far
    early      \* history: how far each pass was when the user's last call was stored

phoneVars == <<classification, pass, followUp, matched, reports, early>>

ServerPasses == {"live", "scan", "backfill"}
ModelPasses == {"worker", "sort"}
Passes == ServerPasses \cup ModelPasses \cup {"user"}

\* Classification.SCAM is stored as 'blocked'.
Labels == {"scam", "unknown", "spam", "safe", "unverified"}
Sources == {"cloud_model", "on_device_model_c", "heuristic", "server_blocklist", "user_report"}

NoRow == [label |-> "none", source |-> "none"]
Verdict(label, source) == [label |-> label, source |-> source]

Verdicts == [label : Labels, source : Sources] \cup {NoRow}

Idle == [at |-> "idle", gives |-> NoRow]

\* A pass had chosen the message, but had neither asked about it nor looked at its
\* row for the last time; or it had; or it had not even chosen it.
Degrees == {"none", "chosen", "committed"}

\* The message was stored and its receiver asks the server.
PhoneInit ==
    /\ classification = NoRow
    /\ pass = [p \in Passes |->
           IF p = "live" THEN [at |-> "asking", gives |-> NoRow] ELSE Idle]
    /\ followUp = FALSE /\ matched = FALSE
    /\ reports = 0
    /\ early = [p \in Passes |-> "none"]

Goes(p, at, gives) == pass' = [pass EXCEPT ![p] = [at |-> at, gives |-> gives]]

Ends(p) ==
    /\ pass' = [pass EXCEPT ![p] = Idle]
    /\ early' = [early EXCEPT ![p] = "none"]

\* routeServerClassification and its evidence: the rows a model's verdict, the
\* echo of the phone's own guess, or a suppressed sender may come to.  A scam
\* whose sender must not be blocked is kept as unknown.
ModelVerdicts ==
    {Verdict(label, "cloud_model") : label \in {"scam", "unknown", "spam", "safe"}}
EchoVerdicts == {Verdict(label, "heuristic") : label \in {"unknown", "unverified"}}
Suppressed == Verdict("scam", "server_blocklist")

\* persistCampaignMatch: a new server's answer about a sender that is not blocked.
RecordsMatch(verdict) ==
    matched' \in IF verdict = Suppressed THEN {matched} ELSE {matched, TRUE}

\* applyServerClassification: a Spam verdict yields to the bundled model's Scam.
KeepsOnDeviceScam(verdict) ==
    verdict.label = "spam" /\ classification = Verdict("scam", "on_device_model_c")

LiveAnswered ==
    /\ pass["live"].at = "asking"
    /\ \E verdict \in ModelVerdicts \cup EchoVerdicts \cup {Suppressed} :
          /\ RecordsMatch(verdict)
          /\ IF KeepsOnDeviceScam(verdict) THEN Ends("live")
             ELSE Goes("live", "writing", verdict) /\ early' = early
    /\ UNCHANGED <<classification, followUp, reports>>

\* No session, a failure or a timeout: applyOfflineCaution keeps what a model or the
\* user said, and enqueues the worker.
LiveUnanswered ==
    /\ pass["live"].at = "asking"
    /\ IF classification.source \notin {"none", "heuristic"}
       THEN Ends("live") /\ followUp' = TRUE
       ELSE /\ \E guess \in EchoVerdicts : Goes("live", "writing", guess)
            /\ UNCHANGED <<early, followUp>>
    /\ UNCHANGED <<classification, matched, reports>>

\* The live verdict is stored, whatever is there by now; a guess gets a follow-up.
LiveWrites ==
    /\ pass["live"].at = "writing"
    /\ classification' = pass["live"].gives
    /\ followUp' = (followUp \/ pass["live"].gives.source = "heuristic")
    /\ Ends("live")
    /\ UNCHANGED <<matched, reports>>

\* needsModelScan: no model has checked the message.
NeedsModelScan == classification = NoRow \/ classification.label = "unverified" \/ classification.source = "heuristic"

\* The scan of the Messages screen takes every message that needs it from one read;
\* once the inbox is sorted, only new ones.
ScanChooses ==
    /\ pass["scan"] = Idle /\ NeedsModelScan
    /\ Goes("scan", "chosen", NoRow)
    /\ UNCHANGED <<classification, followUp, matched, reports, early>>

\* The Campaigns screen takes up to 40 scams it has no match for; a message without
\* a row counts as one by its text.
BackfillChooses ==
    /\ pass["backfill"] = Idle
    /\ classification.label \in {"none", "scam", "unknown"} /\ ~matched
    /\ Goes("backfill", "chosen", NoRow)
    /\ UNCHANGED <<classification, followUp, matched, reports, early>>

\* The chosen message's turn: it is sent whatever its row says by now.
HistoryAsks(p) ==
    /\ pass[p].at = "chosen"
    /\ Goes(p, "asking", NoRow)
    /\ UNCHANGED <<classification, followUp, matched, reports, early>>

\* An outage or the end of the screen before the message's turn.
HistoryGivesUp(p) ==
    /\ pass[p].at = "chosen"
    /\ Ends(p)
    /\ UNCHANGED <<classification, followUp, matched, reports>>

\* classifyExisting with a model's answer, to persistHistoricalCloudResult: a scam
\* row is kept.
HistoryAnswered(p) ==
    /\ p \in {"scan", "backfill"} /\ pass[p].at = "asking"
    /\ \E verdict \in ModelVerdicts \cup {Suppressed} :
          /\ RecordsMatch(verdict)
          /\ IF classification.label = "scam" THEN Ends(p)
             ELSE Goes(p, "writing", verdict) /\ early' = early
    /\ UNCHANGED <<classification, followUp, reports>>

HistoryWrites(p) ==
    /\ p \in {"scan", "backfill"} /\ pass[p].at = "writing"
    /\ classification' = pass[p].gives
    /\ Ends(p)
    /\ UNCHANGED <<followUp, matched, reports>>

\* No model's answer: the bundled model judges the message instead.
HistoryUnanswered(p) ==
    /\ p \in {"scan", "backfill"} /\ pass[p].at = "asking"
    /\ Goes(p, "judging", NoRow)
    /\ UNCHANGED <<classification, followUp, matched, reports, early>>

\* WorkManager starts the worker's job.
WorkerStarts ==
    /\ followUp /\ pass["worker"] = Idle
    /\ followUp' = FALSE
    /\ Goes("worker", "judging", NoRow)
    /\ UNCHANGED <<classification, matched, reports, early>>

\* pendingMessages: a re-sort takes every message the user has not reported, a plain
\* sort those of them that no model has checked.
SortStarts ==
    /\ pass["sort"] = Idle
    /\ classification.source # "user_report"
    /\ Goes("sort", "judging", NoRow)
    /\ UNCHANGED <<classification, followUp, matched, reports, early>>

\* Mutant of OnDeviceWritable: the rows the user reported are missing in the query.
OnDeviceWritableUnlessCloud ==
    classification = NoRow \/ (classification.label # "scam" /\ classification.source # "cloud_model")

\* The transaction writeOnDeviceUnlessCloud inserts the row, or updates one that is
\* no scam and was not judged by the cloud or the user.
OnDeviceWritable ==
    classification = NoRow \/ (classification.label # "scam" /\ classification.source \notin {"cloud_model", "user_report"})

\* The bundled model's verdict, and whether it is a confident scam.
Judges(p, label) ==
    /\ pass[p].at = "judging"
    /\ classification' = IF OnDeviceWritable THEN Verdict(label, "on_device_model_c") ELSE classification
    /\ \/ Ends(p)
       \* A re-sort, or a worker that could not write, may lift the row to a scam.
       \/ /\ label = "scam" /\ p \in ModelPasses
          /\ p = "worker" => ~OnDeviceWritable
          /\ Goes(p, "lifting", NoRow) /\ early' = early
    /\ UNCHANGED <<followUp, matched, reports>>

\* The bundled model fails; a scan may wait a minute and send the message again.
JudgesNot(p) ==
    /\ pass[p].at = "judging"
    /\ \/ Ends(p)
       \/ /\ p = "scan" /\ Goes(p, "chosen", NoRow)
          /\ early' = [early EXCEPT ![p] = IF @ = "none" THEN "none" ELSE "chosen"]
    /\ UNCHANGED <<classification, followUp, matched, reports>>

\* escalateToScam looks whether the row is Spam or unchecked and not the user's.
Lifts(p) ==
    /\ pass[p].at = "lifting"
    /\ IF classification.label \in {"spam", "unverified"} /\ classification.source # "user_report"
       THEN /\ Goes(p, "writing", Verdict("scam", "on_device_model_c"))
            /\ early' = early
       ELSE Ends(p)
    /\ UNCHANGED <<classification, followUp, matched, reports>>

LiftWrites(p) ==
    /\ p \in ModelPasses /\ pass[p].at = "writing"
    /\ classification' = pass[p].gives
    /\ Ends(p)
    /\ UNCHANGED <<followUp, matched, reports>>

\* refile: Ham and Spam go where the user put them; a Scam stays one, and another
\* becomes one where the report blocked the sender and unknown where it could not.
UserReports ==
    /\ pass["user"] = Idle /\ reports < MaxReports
    /\ \E label \in {"safe", "spam"} \cup (IF classification.label = "scam" THEN {} ELSE {"scam", "unknown"}) :
          Goes("user", "writing", Verdict(label, "user_report"))
    /\ reports' = reports + 1
    /\ UNCHANGED <<classification, followUp, matched, early>>

\* The passes that can no longer see what the user says, and those that may ask yet.
Committed == {p \in Passes \ {"user"} :
                 \/ pass[p].at = "writing"
                 \/ p \in ServerPasses /\ pass[p].at = "asking"}
Chosen == {p \in ServerPasses : pass[p].at = "chosen" \/ (p = "scan" /\ pass[p].at = "judging")}

UserWrites ==
    /\ pass["user"].at = "writing"
    /\ classification' = pass["user"].gives
    /\ pass' = [pass EXCEPT !["user"] = Idle]
    /\ early' = [p \in Passes |-> IF p \in Committed THEN "committed"
                                  ELSE IF p \in Chosen THEN "chosen" ELSE "none"]
    /\ UNCHANGED <<followUp, matched, reports>>

PhoneNext ==
    \/ LiveAnswered \/ LiveUnanswered \/ LiveWrites
    \/ ScanChooses \/ BackfillChooses \/ WorkerStarts \/ SortStarts
    \/ \E p \in Passes :
          \/ HistoryAsks(p) \/ HistoryGivesUp(p)
          \/ HistoryAnswered(p) \/ HistoryUnanswered(p) \/ HistoryWrites(p)
          \/ \E label \in {"scam", "unknown", "spam", "safe"} : Judges(p, label)
          \/ JudgesNot(p) \/ Lifts(p) \/ LiftWrites(p)
    \/ UserReports \/ UserWrites

PhoneSpec == PhoneInit /\ [][PhoneNext]_phoneVars
--------------------------------------------------------------------------------
PhoneTypeOK ==
    /\ classification \in Verdicts
    /\ pass \in [Passes -> [at : {"idle", "chosen", "asking", "judging", "lifting", "writing"},
                            gives : Verdicts]]
    /\ followUp \in BOOLEAN /\ matched \in BOOLEAN
    /\ reports \in 0..MaxReports
    /\ early \in [Passes -> Degrees]

\* A pass that asks, or looks at the row for the last time, after the user's call
\* was stored puts its own verdict in its place.
OverwritesCall ==
    /\ classification.source = "user_report" /\ classification'.source # "user_report"
    /\ \A p \in Passes : early[p] = "committed" => pass'[p] = pass[p]

\* A server's verdict that a screen had set out to fetch before the call was stored.
StoresLate(p) ==
    /\ early[p] = "chosen"
    /\ pass[p].at = "writing" /\ pass'[p] = Idle

\* What holds of the user's filing as real, as spam or as a scam: the bundled model
\* never replaces it, however long it waits and retries, and no pass that chooses its
\* messages afterwards does; only a screen that had chosen the message before and
\* has it judged by the server later.
FiledCallStands ==
    [][OverwritesCall =>
          classification.label = "unknown" \/ \E p \in Passes : StoresLate(p)]_phoneVars

\* "Tagged so a later model pass never overwrites the user's own call" of refile.
\* Two passes that ask later do: the campaign matching, of a scam report that could
\* not block its sender, and a screen that had the message in its batch.
UserCallStands == [][~OverwritesCall]_phoneVars
=================================================================================
