-------------------------- MODULE PhoneVerdicts_proofs --------------------------
(***************************************************************************)
(* Proofs about what is said of a message on the phone (PhoneVerdicts) and *)
(* of a sender on the server (SenderReputation), for any number of         *)
(* reports, reviews, users, administrators and report windows.             *)
(***************************************************************************)
EXTENDS PhoneVerdicts, SenderReputation, FiniteSetTheorems, TLAPS

\* While the row is the user's, and not a report that could not block its sender,
\* only passes that had chosen the message before may still write, or send it; a
\* matching that chose it later finds it a scam.
UsersRowIsSafe ==
    classification.source = "user_report" /\ classification.label # "unknown" =>
        \A p \in Passes \ {"user"} : early[p] = "none" =>
            /\ pass[p].at # "writing"
            /\ pass[p].at \in {"chosen", "asking"} => p = "backfill" /\ classification.label = "scam"
            /\ p = "scan" => pass[p].at # "judging"

\* The user's own writes are the user's, no pass writes in the user's name, and the
\* passes with the bundled model do not ask.
RolesHold ==
    /\ pass["user"].at # "idle" =>
           /\ pass["user"].at = "writing" /\ pass["user"].gives.source = "user_report"
           /\ pass["user"].gives.label # "unverified"
    /\ classification.source = "user_report" => classification.label # "unverified"
    /\ \A p \in Passes \ {"user"} : pass[p].gives.source # "user_report"
    /\ \A p \in ModelPasses : pass[p].at \notin {"chosen", "asking"}

PhoneInv == PhoneTypeOK /\ UsersRowIsSafe /\ RolesHold

-------------------------------------------------------------------------------
LEMMA VerdictTypes ==
    /\ NoRow \in Verdicts /\ NoRow.label = "none" /\ NoRow.source = "none"
    /\ ModelVerdicts \subseteq Verdicts /\ EchoVerdicts \subseteq Verdicts
    /\ Suppressed \in Verdicts
    /\ \A v \in ModelVerdicts \cup EchoVerdicts \cup {Suppressed} : v.source # "user_report"
    /\ \A l \in Labels, s \in Sources :
           /\ Verdict(l, s) \in Verdicts
           /\ Verdict(l, s).label = l /\ Verdict(l, s).source = s
  BY DEF NoRow, Verdicts, Verdict, ModelVerdicts, EchoVerdicts, Suppressed, Labels, Sources

LEMMA PhoneStarts == PhoneInit => PhoneInv
<1> SUFFICES ASSUME PhoneInit PROVE PhoneInv
  OBVIOUS
<1>1. pass \in [Passes -> [at : {"idle", "chosen", "asking", "judging", "lifting", "writing"},
                           gives : Verdicts]]
  BY VerdictTypes DEF PhoneInit, Idle
<1>2. PhoneTypeOK
  <2>1. 0 \in 0..MaxReports
    BY ReportsAssumption DEF ReportsAssumption
  <2>2. /\ classification \in Verdicts /\ followUp \in BOOLEAN /\ matched \in BOOLEAN
        /\ reports = 0 /\ early \in [Passes -> Degrees]
    BY VerdictTypes DEF PhoneInit, Degrees
  <2> QED BY <1>1, <2>1, <2>2 DEF PhoneTypeOK
<1>3. UsersRowIsSafe
  BY VerdictTypes DEF UsersRowIsSafe, PhoneInit
<1>4. RolesHold
  BY VerdictTypes DEF RolesHold, PhoneInit, Passes, ModelPasses, Idle
<1> QED BY <1>2, <1>3, <1>4 DEF PhoneInv

\* A pass that is to ask again is no longer past its last look.
Again(p) == [early EXCEPT ![p] = IF @ = "none" THEN "none" ELSE "chosen"]

\* A pass other than the user's that leaves the row alone, and comes to its end, or
\* goes on to a place where it may.
LEMMA PassMoves ==
    ASSUME PhoneInv, NEW p \in Passes \ {"user"}, UNCHANGED <<classification, reports>>,
           followUp' \in BOOLEAN, matched' \in BOOLEAN,
           \/ Ends(p)
           \/ /\ UNCHANGED early \/ early' = Again(p)
              /\ \E at \in {"chosen", "asking", "judging", "lifting", "writing"}, v \in Verdicts :
                     /\ Goes(p, at, v) /\ v.source # "user_report"
                     /\ at \in {"chosen", "asking"} => p \notin ModelPasses
                     /\ (classification.source = "user_report" /\ classification.label # "unknown") =>
                            \/ early[p] # "none"
                            \/ at = "lifting" \/ (at = "judging" /\ p # "scan")
                            \/ at \in {"chosen", "asking"} /\ p = "backfill" /\ classification.label = "scam"
    PROVE  PhoneInv'
<1> USE DEF PhoneInv
<1>1. CASE Ends(p)
  <2>1. pass' = [pass EXCEPT ![p] = Idle] /\ early' = [early EXCEPT ![p] = "none"]
    BY <1>1 DEF Ends
  <2>2. PhoneTypeOK'
    BY <2>1, VerdictTypes DEF PhoneTypeOK, Idle, Degrees
  <2>3. UsersRowIsSafe' /\ RolesHold'
    BY <2>1, VerdictTypes DEF UsersRowIsSafe, RolesHold, PhoneTypeOK, Idle
  <2> QED BY <2>2, <2>3
<1>2. ASSUME NEW at \in {"chosen", "asking", "judging", "lifting", "writing"}, NEW v \in Verdicts,
             UNCHANGED early \/ early' = Again(p),
             Goes(p, at, v), v.source # "user_report",
             at \in {"chosen", "asking"} => p \notin ModelPasses,
             (classification.source = "user_report" /\ classification.label # "unknown") =>
                 \/ early[p] # "none"
                 \/ at = "lifting" \/ (at = "judging" /\ p # "scan")
                 \/ at \in {"chosen", "asking"} /\ p = "backfill" /\ classification.label = "scam"
      PROVE  PhoneInv'
  <2>1. pass' = [pass EXCEPT ![p] = [at |-> at, gives |-> v]]
    BY <1>2 DEF Goes
  <2>2. /\ early' \in [Passes -> Degrees]
        /\ \A q \in Passes : early'[q] = "none" <=> early[q] = "none"
    BY <1>2 DEF PhoneTypeOK, Again, Degrees
  <2>3. PhoneTypeOK'
    BY <1>2, <2>1, <2>2 DEF PhoneTypeOK
  <2>4. UsersRowIsSafe' /\ RolesHold'
    BY <1>2, <2>1, <2>2 DEF UsersRowIsSafe, RolesHold, PhoneTypeOK
  <2> QED BY <2>3, <2>4
<1> QED BY <1>1, <1>2

\* A pass that writes writes for itself, and is at its end.
LEMMA PassWrites ==
    ASSUME PhoneInv, NEW p \in Passes \ {"user"}, UNCHANGED <<matched, reports>>,
           followUp' \in BOOLEAN, classification' \in Verdicts,
           classification' = classification \/ classification'.source # "user_report",
           Ends(p)
    PROVE  PhoneInv'
<1> USE DEF PhoneInv
<1>1. pass' = [pass EXCEPT ![p] = Idle] /\ early' = [early EXCEPT ![p] = "none"]
  BY DEF Ends
<1>2. PhoneTypeOK'
  BY <1>1, VerdictTypes DEF PhoneTypeOK, Idle, Degrees
<1>3. UsersRowIsSafe' /\ RolesHold'
  BY <1>1, VerdictTypes DEF UsersRowIsSafe, RolesHold, PhoneTypeOK, Idle
<1> QED BY <1>2, <1>3

-------------------------------------------------------------------------------
LEMMA LiveKeeps == PhoneInv /\ (LiveAnswered \/ LiveUnanswered \/ LiveWrites) => PhoneInv'
<1> SUFFICES ASSUME PhoneInv, LiveAnswered \/ LiveUnanswered \/ LiveWrites PROVE PhoneInv'
  OBVIOUS
<1> USE DEF PhoneInv
<1>0. /\ "live" \in Passes \ {"user"} /\ followUp' \in BOOLEAN /\ matched' \in BOOLEAN
      /\ pass["live"].at = "asking" => early["live"] # "none" \/ classification.source # "user_report"
             \/ classification.label = "unknown"
  BY VerdictTypes
     DEF Passes, ServerPasses, PhoneTypeOK, LiveAnswered, LiveUnanswered, LiveWrites, RecordsMatch,
         UsersRowIsSafe
<1>1. CASE LiveAnswered
  BY <1>0, <1>1, PassMoves, VerdictTypes DEF LiveAnswered
<1>2. CASE LiveUnanswered
  BY <1>0, <1>2, PassMoves, VerdictTypes DEF LiveUnanswered
<1>3. CASE LiveWrites
  BY <1>0, <1>3, PassWrites DEF LiveWrites, PhoneTypeOK, RolesHold
<1> QED BY <1>1, <1>2, <1>3

LEMMA StartsKeep ==
    PhoneInv /\ (ScanChooses \/ BackfillChooses \/ WorkerStarts \/ SortStarts) => PhoneInv'
<1> SUFFICES ASSUME PhoneInv, ScanChooses \/ BackfillChooses \/ WorkerStarts \/ SortStarts
             PROVE  PhoneInv'
  OBVIOUS
<1> USE DEF PhoneInv
<1>0. /\ {"scan", "backfill", "worker", "sort"} \subseteq Passes \ {"user"}
      /\ "scan" \notin ModelPasses /\ "backfill" \notin ModelPasses
  BY DEF Passes, ServerPasses, ModelPasses
<1>1. /\ UNCHANGED <<classification, reports, early>>
      /\ followUp' \in BOOLEAN /\ matched' \in BOOLEAN
  BY DEF ScanChooses, BackfillChooses, WorkerStarts, SortStarts, PhoneTypeOK
<1>2. CASE ScanChooses
  <2>1. classification.source # "user_report"
    BY <1>2, VerdictTypes DEF ScanChooses, NeedsModelScan, RolesHold
  <2> QED BY <1>0, <1>1, <1>2, <2>1, PassMoves, VerdictTypes DEF ScanChooses
<1>3. CASE BackfillChooses
  <2>1. classification.source = "user_report" /\ classification.label # "unknown"
            => classification.label = "scam"
    BY <1>3 DEF BackfillChooses, PhoneTypeOK, Verdicts, Labels, NoRow
  <2> QED BY <1>0, <1>1, <1>3, <2>1, PassMoves, VerdictTypes DEF BackfillChooses
<1>4. CASE WorkerStarts
  BY <1>0, <1>1, <1>4, PassMoves, VerdictTypes DEF WorkerStarts
<1>5. CASE SortStarts
  BY <1>0, <1>1, <1>5, PassMoves, VerdictTypes DEF SortStarts
<1> QED BY <1>2, <1>3, <1>4, <1>5

LEMMA HistoryKeeps ==
    ASSUME PhoneInv, NEW p \in Passes,
           \/ HistoryAsks(p) \/ HistoryGivesUp(p)
           \/ HistoryAnswered(p) \/ HistoryUnanswered(p) \/ HistoryWrites(p)
    PROVE  PhoneInv'
<1> USE DEF PhoneInv
<1>0. /\ p \in Passes \ {"user"} /\ UNCHANGED reports
      /\ followUp' \in BOOLEAN /\ matched' \in BOOLEAN
  BY VerdictTypes
     DEF HistoryAsks, HistoryGivesUp, HistoryAnswered, HistoryUnanswered, HistoryWrites, PhoneTypeOK,
         RecordsMatch, RolesHold
<1>1. CASE HistoryAnswered(p)
  <2>1. classification.source = "user_report" /\ classification.label # "unknown" /\ early[p] = "none"
            => classification.label = "scam"
    BY <1>0, <1>1 DEF HistoryAnswered, UsersRowIsSafe
  <2> QED BY <1>0, <1>1, <2>1, PassMoves, VerdictTypes DEF HistoryAnswered
<1>2. CASE HistoryUnanswered(p)
  <2>1. classification.source = "user_report" /\ classification.label # "unknown" /\ early[p] = "none"
            => p # "scan"
    BY <1>0, <1>2 DEF HistoryUnanswered, UsersRowIsSafe
  <2> QED BY <1>0, <1>2, <2>1, PassMoves, VerdictTypes DEF HistoryUnanswered
<1>3. CASE HistoryWrites(p)
  BY <1>0, <1>3, PassWrites DEF HistoryWrites, PhoneTypeOK, RolesHold
<1>4. CASE HistoryAsks(p)
  <2>1. p \notin ModelPasses /\ early \in [Passes -> Degrees]
    BY <1>0, <1>4 DEF HistoryAsks, RolesHold, PhoneTypeOK
  <2>2. classification.source = "user_report" /\ classification.label # "unknown" /\ early[p] = "none"
            => p = "backfill" /\ classification.label = "scam"
    BY <1>0, <1>4 DEF HistoryAsks, UsersRowIsSafe
  <2> QED BY <1>0, <1>4, <2>1, <2>2, PassMoves, VerdictTypes DEF HistoryAsks
<1>5. CASE HistoryGivesUp(p)
  BY <1>0, <1>5, PassMoves DEF HistoryGivesUp
<1> QED BY <1>1, <1>2, <1>3, <1>4, <1>5

\* The bundled model never touches the user's row; a lift looks at it again.
LEMMA ModelKeeps ==
    ASSUME PhoneInv, NEW p \in Passes,
           \/ \E label \in {"scam", "unknown", "spam", "safe"} : Judges(p, label)
           \/ JudgesNot(p) \/ Lifts(p) \/ LiftWrites(p)
    PROVE  PhoneInv'
<1> USE DEF PhoneInv
<1>0. /\ p \in Passes \ {"user"} /\ UNCHANGED <<matched, reports, followUp>>
      /\ followUp' \in BOOLEAN /\ matched' \in BOOLEAN
  BY DEF Judges, JudgesNot, Lifts, LiftWrites, PhoneTypeOK, RolesHold, ModelPasses
<1>1. ASSUME NEW label \in {"scam", "unknown", "spam", "safe"}, Judges(p, label)
      PROVE  PhoneInv'
  <2>1. Verdict(label, "on_device_model_c") \in Verdicts
        /\ Verdict(label, "on_device_model_c").source # "user_report"
    BY VerdictTypes DEF Labels, Sources
  <2>2. /\ classification' \in Verdicts
        /\ classification' = classification \/ classification'.source # "user_report"
        /\ classification.source = "user_report" => UNCHANGED classification
    BY <1>1, <2>1, VerdictTypes DEF Judges, OnDeviceWritable, PhoneTypeOK
  <2>3. CASE Ends(p)
    BY <1>0, <2>2, <2>3, PassWrites
  <2>4. CASE Goes(p, "lifting", NoRow) /\ UNCHANGED early
    <3>1. pass' = [pass EXCEPT ![p] = [at |-> "lifting", gives |-> NoRow]]
      BY <2>4 DEF Goes
    <3>2. PhoneTypeOK'
      BY <1>0, <2>2, <2>4, <3>1, VerdictTypes DEF PhoneTypeOK
    <3>3. UsersRowIsSafe' /\ RolesHold'
      BY <1>0, <2>2, <2>4, <3>1, VerdictTypes DEF UsersRowIsSafe, RolesHold, PhoneTypeOK
    <3> QED BY <3>2, <3>3
  <2> QED BY <1>1, <2>3, <2>4 DEF Judges
<1>2. CASE JudgesNot(p)
  <2>1. CASE Ends(p)
    BY <1>0, <1>2, <2>1, PassMoves DEF JudgesNot
  <2>2. CASE /\ p = "scan" /\ Goes(p, "chosen", NoRow)
             /\ early' = Again(p)
    <3>1. p \notin ModelPasses
      BY <2>2 DEF ModelPasses
    <3>2. classification.source = "user_report" /\ classification.label # "unknown" => early[p] # "none"
      BY <1>0, <1>2, <2>2 DEF UsersRowIsSafe, JudgesNot
    <3> QED BY <1>0, <1>2, <2>2, <3>1, <3>2, PassMoves, VerdictTypes DEF JudgesNot
  <2> QED BY <1>2, <2>1, <2>2 DEF JudgesNot, Again
<1>3. CASE Lifts(p)
  <2>1. LET v == Verdict("scam", "on_device_model_c")
        IN  v \in Verdicts /\ v.source # "user_report"
    BY VerdictTypes DEF Labels, Sources
  <2> QED BY <1>0, <1>3, <2>1, PassMoves DEF Lifts
<1>4. CASE LiftWrites(p)
  BY <1>0, <1>4, PassWrites DEF LiftWrites, PhoneTypeOK, RolesHold
<1> QED BY <1>1, <1>2, <1>3, <1>4

\* A report finds every pass that can no longer see it, or may ask yet.
LEMMA UserKeeps == PhoneInv /\ (UserReports \/ UserWrites) => PhoneInv'
<1> SUFFICES ASSUME PhoneInv, UserReports \/ UserWrites PROVE PhoneInv'
  OBVIOUS
<1> USE DEF PhoneInv
<1>0. "user" \in Passes
  BY DEF Passes
<1>1. CASE UserReports
  <2>1. PICK label \in {"safe", "spam", "scam", "unknown"} :
            Goes("user", "writing", Verdict(label, "user_report"))
    BY <1>1 DEF UserReports
  <2>2. /\ Verdict(label, "user_report") \in Verdicts
        /\ Verdict(label, "user_report").source = "user_report"
        /\ Verdict(label, "user_report").label # "unverified"
    BY VerdictTypes DEF Labels, Sources
  <2>3. reports' \in 0..MaxReports /\ UNCHANGED <<classification, followUp, matched, early>>
    BY <1>1, ReportsAssumption DEF ReportsAssumption, UserReports, PhoneTypeOK
  <2>4. pass' = [pass EXCEPT !["user"] = [at |-> "writing", gives |-> Verdict(label, "user_report")]]
    BY <2>1 DEF Goes
  <2>5. PhoneTypeOK'
    BY <2>2, <2>3, <2>4 DEF PhoneTypeOK
  <2>6. UsersRowIsSafe' /\ RolesHold'
    BY <1>0, <2>2, <2>3, <2>4 DEF UsersRowIsSafe, RolesHold, PhoneTypeOK
  <2> QED BY <2>5, <2>6
<1>2. CASE UserWrites
  <2>1. /\ pass["user"].gives \in Verdicts
        /\ pass["user"].gives.source = "user_report" /\ pass["user"].gives.label # "unverified"
        /\ pass' = [pass EXCEPT !["user"] = Idle]
        /\ classification' = pass["user"].gives
        /\ early' = [p \in Passes |-> IF p \in Committed THEN "committed"
                                      ELSE IF p \in Chosen THEN "chosen" ELSE "none"]
        /\ UNCHANGED <<followUp, matched, reports>>
    BY <1>0, <1>2 DEF UserWrites, PhoneTypeOK, RolesHold
  <2>2. PhoneTypeOK'
    BY <2>1, VerdictTypes DEF PhoneTypeOK, Idle, Degrees
  <2>3. \A p \in Passes \ {"user"} :
            early'[p] = "none" =>
                /\ pass[p].at # "writing"
                /\ pass[p].at \in {"chosen", "asking"} => p \in ModelPasses
                /\ p = "scan" => pass[p].at # "judging"
    BY <2>1 DEF Committed, Chosen, Passes, ServerPasses
  <2>4. \A p \in ModelPasses : pass[p].at \notin {"chosen", "asking"}
    BY DEF PhoneTypeOK, RolesHold
  <2>5. UsersRowIsSafe'
    BY <2>1, <2>3, <2>4 DEF UsersRowIsSafe, PhoneTypeOK
  <2>6. RolesHold'
    BY <1>0, <2>1 DEF RolesHold, PhoneTypeOK, Idle
  <2> QED BY <2>2, <2>5, <2>6
<1> QED BY <1>1, <1>2

LEMMA PhoneStepKeeps == PhoneInv /\ [PhoneNext]_phoneVars => PhoneInv'
<1>1. PhoneInv /\ PhoneNext => PhoneInv'
  BY LiveKeeps, StartsKeep, HistoryKeeps, ModelKeeps, UserKeeps DEF PhoneNext
<1>2. PhoneInv /\ UNCHANGED phoneVars => PhoneInv'
  BY DEF PhoneInv, phoneVars, PhoneTypeOK, UsersRowIsSafe, RolesHold
<1> QED BY <1>1, <1>2

-------------------------------------------------------------------------------
LEMMA PhoneInvariant == PhoneSpec => []PhoneInv
  BY PhoneStarts, PhoneStepKeeps, PTL DEF PhoneSpec

\* The row, the passes and their verdicts keep their types.
THEOREM PhoneTypes == PhoneSpec => []PhoneTypeOK
<1>1. PhoneInv => PhoneTypeOK
  BY DEF PhoneInv
<1> QED BY <1>1, PhoneInvariant, PTL

\* Only a pass that had the message in hand before may write over the user's row,
\* and it is at its end then.
LEMMA OnlyEarlyWrite ==
    ASSUME PhoneInv, PhoneNext, classification.source = "user_report",
           classification.label # "unknown", classification'.source # "user_report"
    PROVE  \E p \in Passes : /\ early[p] # "none" /\ pass'[p] # pass[p]
                            /\ pass[p].at = "writing" /\ pass'[p] = Idle
<1> USE DEF PhoneInv
<1> DEFINE Written == \E q \in Passes : /\ early[q] # "none" /\ pass'[q] # pass[q]
                                       /\ pass[q].at = "writing" /\ pass'[q] = Idle
<1>1. ASSUME NEW p \in Passes \ {"user"}, pass[p].at = "writing", Ends(p)
      PROVE  Written
  <2>1. early[p] # "none"
    BY <1>1 DEF UsersRowIsSafe
  <2>2. pass'[p] = Idle /\ Idle.at = "idle"
    BY <1>1 DEF Ends, Idle, PhoneTypeOK
  <2> QED BY <1>1, <2>1, <2>2
<1> SUFFICES Written
  OBVIOUS
<1> HIDE DEF Written
<1>2. classification' # classification
  OBVIOUS
<1>3. ~OnDeviceWritable
  BY VerdictTypes DEF OnDeviceWritable
<1>4. CASE LiveWrites
  BY <1>1, <1>4 DEF LiveWrites, Passes, ServerPasses
<1>5. ASSUME NEW p \in Passes, HistoryWrites(p) \/ LiftWrites(p)
      PROVE  Written
  BY <1>1, <1>5 DEF HistoryWrites, LiftWrites, ModelPasses
<1>6. CASE UserWrites
  BY <1>6 DEF UserWrites, RolesHold
<1> QED BY <1>2, <1>3, <1>4, <1>5, <1>6
        DEF PhoneNext, LiveAnswered, LiveUnanswered, ScanChooses, BackfillChooses, WorkerStarts,
            SortStarts, HistoryAsks, HistoryGivesUp, HistoryAnswered, HistoryUnanswered, Judges,
            JudgesNot, Lifts, UserReports

\* After the user filed the message as real, as spam or as a scam, no pass that
\* chooses it later and no verdict of the bundled model replaces the filing; what
\* does is a server's verdict that a screen had set out to fetch before, for any
\* number of reports.
THEOREM FilingStands == PhoneSpec => FiledCallStands
<1>1. PhoneInv /\ [PhoneNext]_phoneVars
          => [OverwritesCall =>
                 classification.label = "unknown" \/ \E p \in Passes : StoresLate(p)]_phoneVars
  <2> SUFFICES ASSUME PhoneInv, PhoneNext, OverwritesCall, classification.label # "unknown"
               PROVE  \E p \in Passes : StoresLate(p)
    BY DEF OverwritesCall, phoneVars
  <2>1. PICK p \in Passes : /\ early[p] # "none" /\ pass'[p] # pass[p]
                            /\ pass[p].at = "writing" /\ pass'[p] = Idle
    BY OnlyEarlyWrite DEF OverwritesCall
  <2>2. early[p] = "chosen"
    BY <2>1 DEF OverwritesCall, PhoneInv, PhoneTypeOK, Degrees
  <2> QED BY <2>1, <2>2 DEF StoresLate
<1> QED BY <1>1, PhoneInvariant, PTL DEF PhoneSpec, FiledCallStands

-------------------------------------------------------------------------------
(***************************************************************************)
(* What the server says of a sender (SenderReputation).  A user whose      *)
(* report is there has reported, and a review that has counted two pending *)
(* reports counted those of two users.                                     *)
(***************************************************************************)
Two(S) == \E u, v \in S : u # v

ReportsAreNamed ==
    \A u \in Reporters, p \in Periods : accused[u][p] # "none" => u \in named[p]
RulingsAreBased ==
    \A a \in Admins : ruling[a].step \in {"check", "mark"} => Two(named[ruling[a].period])

ReputationInv ==
    ReputationTypeOK /\ ReportsAreNamed /\ RulingsAreBased /\ FraudNeedsTwoReporters

\* Two pending reports are those of two users.
LEMMA TwoPending ==
    ASSUME NEW p \in Periods, EnoughIn(p)
    PROVE  Two(PendingIn(p))
<1>1. IsFiniteSet(PendingIn(p))
  BY ReputationAssumption, FS_Subset DEF ReputationAssumption, PendingIn
<1>2. Cardinality(PendingIn(p)) \in Nat /\ Cardinality(PendingIn(p)) >= 2
  BY <1>1, FS_CardinalityType DEF EnoughIn, Quota
<1>3. PICK u \in PendingIn(p) : TRUE
  BY <1>2, FS_EmptySet
<1>4. CASE PendingIn(p) = {u}
  <2>1. Cardinality(PendingIn(p)) = 1
    BY <1>4, FS_Singleton
  <2> QED BY <1>2, <2>1
<1>5. CASE PendingIn(p) # {u}
  BY <1>3, <1>5 DEF Two
<1> QED BY <1>4, <1>5

\* Who is named stays named.
LEMMA NamedGrow ==
    ASSUME ReputationInv, ReputationTypeOK', ReportsAreNamed',
           \A p \in Periods : named[p] \subseteq named'[p],
           \A a \in Admins :
               \/ ruling'[a] = ruling[a]
               \/ ruling'[a].step \notin {"check", "mark"}
               \/ Two(named[ruling'[a].period]),
           mark'.source = "admin" =>
               mark.source = "admin" \/ \E p \in Periods : Two(named[p])
    PROVE  ReputationInv'
<1>1. ASSUME NEW p \in Periods, Two(named[p]) PROVE Two(named'[p])
  BY <1>1 DEF Two
<1>2. \A a \in Admins : ruling'[a].period \in Periods
  BY DEF ReputationTypeOK
<1>3. RulingsAreBased'
  <2>1. ASSUME NEW a \in Admins, ruling'[a].step \in {"check", "mark"}
        PROVE  Two(named'[ruling'[a].period])
    <3>1. Two(named[ruling'[a].period])
      BY <2>1 DEF ReputationInv, RulingsAreBased
    <3> QED BY <1>1, <1>2, <3>1
  <2> QED BY <2>1 DEF RulingsAreBased
<1>4. FraudNeedsTwoReporters'
  <2>1. ASSUME mark'.source = "admin" PROVE \E p \in Periods : Two(named'[p])
    <3>1. \E p \in Periods : Two(named[p])
      BY <2>1 DEF ReputationInv, FraudNeedsTwoReporters, Two
    <3> QED BY <1>1, <3>1
  <2> QED BY <2>1 DEF FraudNeedsTwoReporters, Two
<1> QED BY <1>3, <1>4 DEF ReputationInv

LEMMA ReputationStarts == ReputationInit => ReputationInv
<1> SUFFICES ASSUME ReputationInit PROVE ReputationInv
  OBVIOUS
<1>1. 0 \in Periods
  BY ReputationAssumption DEF ReputationAssumption, Periods
<1> QED BY <1>1
        DEF ReputationInit, ReputationInv, ReputationTypeOK, ReportsAreNamed, RulingsAreBased,
            FraudNeedsTwoReporters, NoMark, NoInquiry, NoRuling

LEMMA ReputationMoves == ReputationInv /\ [ReputationNext]_reputationVars => ReputationInv'
<1> SUFFICES ASSUME ReputationInv, [ReputationNext]_reputationVars
             PROVE  ReputationInv'
  OBVIOUS
<1>1. ReputationTypeOK /\ ReportsAreNamed
  BY DEF ReputationInv
<1>2. CASE UNCHANGED reputationVars
  BY <1>1, <1>2, NamedGrow DEF ReputationTypeOK, ReportsAreNamed, reputationVars
<1>3. ASSUME NEW q \in Inquiries, InquiryStep(q)
      PROVE  ReputationInv'
  <2>1. /\ UNCHANGED <<accused, listed, period, ruling, departed, named>>
        /\ mark' \in {mark, Entry("fraud", "abroad"), Entry("unknown", "abroad"),
                      Entry("unknown", "default")}
    BY <1>3 DEF InquiryStep, ReadMark, IsFamiliar, AsksAbroad, StoreAnswer
  <2>2. inquiry' \in [Inquiries -> [step : {"idle", "known", "lookup"}, cached : BOOLEAN]]
    <3>1. \/ inquiry' = [inquiry EXCEPT ![q] = [step |-> "known", cached |-> mark.current]]
          \/ inquiry' = [inquiry EXCEPT ![q] = [step |-> "idle", cached |-> FALSE]]
          \/ inquiry' = [inquiry EXCEPT ![q].step = "lookup"]
      BY <1>3
         DEF InquiryStep, ReadMark, IsFamiliar, AsksAbroad, StoreAnswer, NoInquiry
    <3>2. /\ mark.current \in BOOLEAN
          /\ inquiry \in [Inquiries -> [step : {"idle", "known", "lookup"}, cached : BOOLEAN]]
      BY <1>1 DEF ReputationTypeOK
    <3>3. inquiry[q] \in [step : {"idle", "known", "lookup"}, cached : BOOLEAN]
      BY <3>2
    <3>4. CASE inquiry' = [inquiry EXCEPT ![q] = [step |-> "known", cached |-> mark.current]]
      BY <3>2, <3>4
    <3>5. CASE inquiry' = [inquiry EXCEPT ![q] = [step |-> "idle", cached |-> FALSE]]
      BY <3>2, <3>5
    <3>6. CASE inquiry' = [inquiry EXCEPT ![q].step = "lookup"]
      <4>1. inquiry' = [inquiry EXCEPT ![q] = [inquiry[q] EXCEPT !.step = "lookup"]]
        BY <3>6
      <4>2. [inquiry[q] EXCEPT !.step = "lookup"]
                \in [step : {"idle", "known", "lookup"}, cached : BOOLEAN]
        BY <3>3
      <4> QED BY <3>2, <4>1, <4>2
    <3> QED BY <3>1, <3>4, <3>5, <3>6
  <2>3. ReputationTypeOK'
    <3>1. mark' \in [status : {"none", "unknown", "fraud"},
                     source : {"none", "default", "abroad", "admin"}, current : BOOLEAN]
      <4>1. CASE mark' = mark
        BY <1>1, <4>1 DEF ReputationTypeOK
      <4>2. CASE mark' = Entry("fraud", "abroad")
        BY <4>2 DEF Entry
      <4>3. CASE mark' \in {Entry("unknown", "abroad"), Entry("unknown", "default")}
        <5>1. PICK source \in {"abroad", "default"} : mark' = Entry("unknown", source)
          BY <4>3
        <5> QED BY <5>1 DEF Entry
      <4> QED BY <2>1, <4>1, <4>2, <4>3
    <3> QED BY <1>1, <2>1, <2>2, <3>1 DEF ReputationTypeOK
  <2>4. mark'.source = "admin" => mark.source = "admin"
    BY <2>1 DEF Entry
  <2>5. ReportsAreNamed'
    BY <1>1, <2>1 DEF ReportsAreNamed
  <2> QED BY <2>1, <2>3, <2>4, <2>5, NamedGrow
<1>4. ASSUME NEW a \in Admins, RulingStep(a)
      PROVE  ReputationInv'
  <2>1. CASE \E u \in Reporters, p \in Periods : StartRuling(a, u, p)
    <3>1. PICK p \in Periods :
              /\ ruling' = [ruling EXCEPT ![a] = [step |-> "count", period |-> p]]
              /\ UNCHANGED <<accused, mark, listed, period, inquiry, departed, named>>
      BY <2>1 DEF StartRuling
    <3>2. ReputationTypeOK' /\ ReportsAreNamed'
      BY <1>1, <3>1 DEF ReputationTypeOK, ReportsAreNamed
    <3> QED BY <1>1, <3>1, <3>2, NamedGrow DEF ReputationTypeOK
  <2>2. CASE CountReports(a)
    <3> DEFINE p == ruling[a].period
    <3>1. p \in Periods /\ ruling[a].step = "count"
          /\ ruling[a] \in [step : {"idle", "count", "check", "mark"}, period : Periods]
      BY <1>1, <2>2 DEF CountReports, ReputationTypeOK
    <3>2. CASE EnoughIn(p)
      <4>1. ruling' = [ruling EXCEPT ![a] = [ruling[a] EXCEPT !.step = "check"]]
            /\ UNCHANGED <<accused, mark, listed, period, inquiry, departed, named>>
        BY <2>2, <3>2 DEF CountReports
      <4>2. ReputationTypeOK' /\ ReportsAreNamed'
        BY <1>1, <3>1, <4>1 DEF ReputationTypeOK, ReportsAreNamed
      <4>3. Two(named[p])
        BY <1>1, <3>1, <3>2, TwoPending DEF Two, PendingIn, ReportsAreNamed
      <4>4. ruling'[a].period = p /\ \A b \in Admins : b # a => ruling'[b] = ruling[b]
        BY <1>1, <3>1, <4>1 DEF ReputationTypeOK
      <4> HIDE DEF p
      <4> QED BY <4>1, <4>2, <4>3, <4>4, NamedGrow
    <3>3. CASE ~EnoughIn(p)
      <4>1. ruling' = [ruling EXCEPT ![a] = NoRuling]
            /\ UNCHANGED <<accused, mark, listed, period, inquiry, departed, named>>
        BY <2>2, <3>3 DEF CountReports
      <4>2. 0 \in Periods
        BY ReputationAssumption DEF ReputationAssumption, Periods
      <4>3. ReputationTypeOK' /\ ReportsAreNamed'
        BY <1>1, <4>1, <4>2 DEF ReputationTypeOK, ReportsAreNamed, NoRuling
      <4> QED BY <1>1, <4>1, <4>3, NamedGrow DEF ReputationTypeOK, NoRuling
    <3> QED BY <3>2, <3>3
  <2>3. CASE CheckOrganization(a)
    <3>1. UNCHANGED <<accused, mark, listed, period, inquiry, departed, named>>
          /\ ruling[a].step = "check"
          /\ ruling' = [ruling EXCEPT ![a] =
                 IF listed THEN NoRuling ELSE [ruling[a] EXCEPT !.step = "mark"]]
      BY <2>3 DEF CheckOrganization
    <3>2. 0 \in Periods
      BY ReputationAssumption DEF ReputationAssumption, Periods
    <3>3. ReputationTypeOK' /\ ReportsAreNamed'
      BY <1>1, <3>1, <3>2 DEF ReputationTypeOK, ReportsAreNamed, NoRuling
    <3>4. Two(named[ruling[a].period])
      BY <3>1 DEF ReputationInv, RulingsAreBased
    <3>5. /\ ruling'[a].step = "idle" \/ ruling'[a].period = ruling[a].period
          /\ \A b \in Admins : b # a => ruling'[b] = ruling[b]
      BY <1>1, <3>1 DEF ReputationTypeOK, NoRuling
    <3> QED BY <3>1, <3>3, <3>4, <3>5, NamedGrow
  <2>4. CASE MarkSenderFraud(a)
    <3>1. /\ ruling[a].step = "mark" /\ mark' = Entry("fraud", "admin")
          /\ ruling' = [ruling EXCEPT ![a] = NoRuling]
          /\ UNCHANGED <<listed, period, inquiry, departed, named>>
      BY <2>4 DEF MarkSenderFraud
    <3>2. /\ accused' \in [Reporters -> [Periods -> {"none", "Pending", "Validated"}]]
          /\ \A u \in Reporters, p \in Periods : accused'[u][p] # "none" => accused[u][p] # "none"
      BY <1>1, <2>4 DEF MarkSenderFraud, ReputationTypeOK
    <3>3. 0 \in Periods
      BY ReputationAssumption DEF ReputationAssumption, Periods
    <3>4. ReputationTypeOK' /\ ReportsAreNamed'
      BY <1>1, <3>1, <3>2, <3>3 DEF ReputationTypeOK, ReportsAreNamed, NoRuling, Entry
    <3>5. Two(named[ruling[a].period]) /\ ruling[a].period \in Periods
      BY <1>1, <3>1 DEF ReputationInv, RulingsAreBased, ReputationTypeOK
    <3>6. \A b \in Admins : ruling'[b] = ruling[b] \/ ruling'[b].step = "idle"
      BY <1>1, <3>1 DEF ReputationTypeOK, NoRuling
    <3> QED BY <3>1, <3>4, <3>5, <3>6, NamedGrow
  <2> QED BY <1>4, <2>1, <2>2, <2>3, <2>4 DEF RulingStep
<1>5. ASSUME NEW u \in Reporters, ReportFraud(u)
      PROVE  ReputationInv'
  <2>1. /\ accused' = [accused EXCEPT ![u][period] = "Pending"]
        /\ named' = [named EXCEPT ![period] = named[period] \cup {u}]
        /\ UNCHANGED <<mark, listed, period, inquiry, ruling, departed>>
    BY <1>5 DEF ReportFraud
  <2>2. /\ accused' \in [Reporters -> [Periods -> {"none", "Pending", "Validated"}]]
        /\ \A v \in Reporters, p \in Periods :
               accused'[v][p] # accused[v][p] => v = u /\ p = period
    BY <1>1, <2>1 DEF ReputationTypeOK
  <2>3. /\ named' \in [Periods -> SUBSET Reporters] /\ u \in named'[period]
        /\ \A p \in Periods : named[p] \subseteq named'[p]
    BY <1>1, <2>1 DEF ReputationTypeOK
  <2>4. ReputationTypeOK' /\ ReportsAreNamed'
    BY <1>1, <2>1, <2>2, <2>3 DEF ReputationTypeOK, ReportsAreNamed
  <2> QED BY <2>1, <2>3, <2>4, NamedGrow
<1>6. ASSUME UNCHANGED <<inquiry, ruling, named>>,
             accused' \in [Reporters -> [Periods -> {"none", "Pending", "Validated"}]],
             \A u \in Reporters, p \in Periods : accused'[u][p] # "none" => accused[u][p] # "none",
             mark' \in {mark, NoMark, [mark EXCEPT !.current = FALSE]},
             listed' \in BOOLEAN, period' \in Periods, departed' \subseteq Reporters
      PROVE  ReputationInv'
  <2>1. /\ mark' \in [status : {"none", "unknown", "fraud"},
                      source : {"none", "default", "abroad", "admin"}, current : BOOLEAN]
        /\ mark'.source = "admin" => mark.source = "admin"
    <3>1. mark \in [status : {"none", "unknown", "fraud"},
                    source : {"none", "default", "abroad", "admin"}, current : BOOLEAN]
      BY <1>1 DEF ReputationTypeOK
    <3>2. CASE mark' = mark
      BY <3>1, <3>2
    <3>3. CASE mark' = NoMark
      BY <3>3 DEF NoMark
    <3>4. CASE mark' = [mark EXCEPT !.current = FALSE]
      BY <3>1, <3>4
    <3> QED BY <1>6, <3>2, <3>3, <3>4
  <2>2. ReputationTypeOK' /\ ReportsAreNamed'
    BY <1>1, <1>6, <2>1 DEF ReputationTypeOK, ReportsAreNamed
  <2> QED BY <1>6, <2>1, <2>2, NamedGrow
<1>7. ASSUME NEW u \in Reporters, DeleteMe(u)
      PROVE  ReputationInv'
  <2>1. /\ accused' = [v \in Reporters |-> [p \in Periods |-> IF v = u THEN "none" ELSE accused[v][p]]]
        /\ mark' \in {mark, NoMark} /\ departed' = departed \cup {u}
        /\ UNCHANGED <<listed, period, inquiry, ruling, named>>
    BY <1>7 DEF DeleteMe
  <2>2. accused' \in [Reporters -> [Periods -> {"none", "Pending", "Validated"}]]
        /\ \A v \in Reporters, p \in Periods : accused'[v][p] # "none" => accused[v][p] # "none"
    BY <1>1, <2>1 DEF ReputationTypeOK
  <2> QED BY <1>1, <1>6, <2>1, <2>2 DEF ReputationTypeOK
<1>8. CASE PurgeReports
  <2>1. PICK older \in SUBSET Reporters :
            accused' = [u \in Reporters |-> [p \in Periods |->
               IF p + KeptPeriods < period \/ (p + KeptPeriods = period /\ u \in older)
               THEN "none" ELSE accused[u][p]]]
    BY <1>8 DEF PurgeReports
  <2>2. accused' \in [Reporters -> [Periods -> {"none", "Pending", "Validated"}]]
        /\ \A v \in Reporters, p \in Periods : accused'[v][p] # "none" => accused[v][p] # "none"
    BY <1>1, <2>1 DEF ReputationTypeOK
  <2> QED BY <1>1, <1>6, <1>8, <2>2 DEF PurgeReports, ReputationTypeOK
<1>9. CASE ListOrganization \/ MarkExpires \/ NextPeriod
  <2>1. UNCHANGED <<accused, inquiry, ruling, departed, named>>
        /\ mark' \in {mark, [mark EXCEPT !.current = FALSE]} /\ listed' \in BOOLEAN
    BY <1>1, <1>9 DEF ListOrganization, MarkExpires, NextPeriod, ReputationTypeOK
  <2>2. period' \in Periods
    BY <1>1, <1>9, ReputationAssumption
       DEF ListOrganization, MarkExpires, NextPeriod, ReputationTypeOK, Periods,
           ReputationAssumption
  <2> QED BY <1>1, <1>6, <2>1, <2>2 DEF ReputationTypeOK
<1> QED BY <1>2, <1>3, <1>4, <1>5, <1>7, <1>8, <1>9 DEF ReputationNext

LEMMA ReputationInvariant == ReputationSpec => []ReputationInv
  BY ReputationStarts, ReputationMoves, PTL DEF ReputationSpec

\* Reports, inquiries, reviews and the row they share keep their types.
THEOREM ReputationTypes == ReputationSpec => []ReputationTypeOK
<1>1. ReputationInv => ReputationTypeOK
  BY DEF ReputationInv
<1> QED BY <1>1, ReputationInvariant, PTL

\* A mark by an administrator rests on two users' reports in one window, for
\* any number of users, administrators and windows.
THEOREM TwoReporters == ReputationSpec => []FraudNeedsTwoReporters
<1>1. ReputationInv => FraudNeedsTwoReporters
  BY DEF ReputationInv
<1> QED BY <1>1, ReputationInvariant, PTL

\* While a fraud stands confirmed, an inquiry step only takes that inquiry out of
\* those that ask, or leaves both them and the mark.
LEMMA InquiriesRunOut ==
    ASSUME ReputationInv, ConfirmedFraud, NEW q \in Inquiries, InquiryStep(q)
    PROVE  /\ Asking' \subseteq Asking
           /\ mark' = mark \/ (inquiry[q].step = "lookup" /\ q \in Asking \ Asking')
<1>1. inquiry \in [Inquiries -> [step : {"idle", "known", "lookup"}, cached : BOOLEAN]]
  BY DEF ReputationInv, ReputationTypeOK
<1>2. ~ReadMark(q)
  BY DEF ReadMark, ConfirmedFraud
<1>3. CASE IsFamiliar(q)
  BY <1>1, <1>3 DEF IsFamiliar, NoInquiry, Asking
<1>4. CASE AsksAbroad(q)
  BY <1>1, <1>4 DEF AsksAbroad, Asking
<1>5. CASE StoreAnswer(q)
  BY <1>1, <1>5 DEF StoreAnswer, NoInquiry, Asking
<1> QED BY <1>2, <1>3, <1>4, <1>5 DEF InquiryStep

\* An administrator's mark is at risk only from the inquiries that were under way
\* when it was made, for any number of inquiries, reviews and accounts.
THEOREM OnlyEarlierReplace == ReputationSpec => OnlyEarlierInquiriesReplace
<1>1. ASSUME ReputationInv, [ReputationNext]_reputationVars, ConfirmedFraud
      PROVE  /\ Asking' \subseteq Asking
             /\ \/ mark' \in {mark, NoMark, [mark EXCEPT !.current = FALSE]}
                \/ \E q \in Asking \ Asking' : inquiry[q].step = "lookup"
  <2>1. ASSUME NEW q \in Inquiries, InquiryStep(q)
        PROVE  /\ Asking' \subseteq Asking
               /\ mark' = mark \/ \E p \in Asking \ Asking' : inquiry[p].step = "lookup"
    BY <1>1, <2>1, InquiriesRunOut
  <2>2. ASSUME NEW a \in Admins, RulingStep(a) PROVE mark' = mark /\ Asking' = Asking
    <3>1. mark = Entry("fraud", "admin")
      BY <1>1 DEF ConfirmedFraud, Entry, ReputationInv, ReputationTypeOK
    <3> QED BY <2>2, <3>1
            DEF RulingStep, StartRuling, CountReports, CheckOrganization, MarkSenderFraud, Asking
  <2>3. CASE \/ \E u \in Reporters : ReportFraud(u) \/ DeleteMe(u)
             \/ ListOrganization \/ PurgeReports \/ MarkExpires \/ NextPeriod
             \/ UNCHANGED reputationVars
    BY <2>3 DEF ReportFraud, DeleteMe, ListOrganization, PurgeReports, MarkExpires, NextPeriod,
                reputationVars, Asking
  <2> QED BY <1>1, <2>1, <2>2, <2>3 DEF ReputationNext
<1>2. ReputationInv /\ [ReputationNext]_reputationVars
          => [ConfirmedFraud =>
                 /\ Asking' \subseteq Asking
                 /\ \/ mark' \in {mark, NoMark, [mark EXCEPT !.current = FALSE]}
                    \/ \E q \in Asking \ Asking' : inquiry[q].step = "lookup"]_reputationVars
  BY <1>1
<1> QED BY <1>2, ReputationInvariant, PTL DEF ReputationSpec, OnlyEarlierInquiriesReplace
=================================================================================
