------------------------------- MODULE Campaigns -------------------------------
(***************************************************************************)
(* Campaigns and the messages in them (backend/src/campaigns, and the part *)
(* of sms.service.ts that links a message when it arrives).                *)
(*                                                                         *)
(* Administrators edit, publish, merge, split and archive campaigns and    *)
(* correct assignments; ingest and the grouping of emerging waves put      *)
(* messages into them.  Each conditional update is a step.  A merge or a   *)
(* split holds the row locks of its campaigns from its first read to its   *)
(* end, so it is one step; a correction looks at the message before it     *)
(* takes them.                                                             *)
(*                                                                         *)
(* Simplifications: titles, texts, domains and centroids are one content,  *)
(* of which it only matters whether it changed since somebody read it; the *)
(* revision an administrator saw is the current one (others are refused);  *)
(* evidence, masked examples, evolution notes and counts are left out.     *)
(***************************************************************************)
EXTENDS Naturals

CONSTANTS
    CampaignIds, \* CampaignCluster rows
    Texts,       \* SmsMessage rows
    Admins,      \* administrators' calls at the same time
    Sends,       \* ingest calls at the same time
    NoCampaign, NoText

ASSUME CampaignAssumption == NoCampaign \notin CampaignIds /\ NoText \notin Texts

VARIABLES
    kept,      \* campaigns that are not archived
    archived,  \* campaigns with archivedAt
    emerging,  \* campaigns found by the grouping of waves
    matching,  \* campaigns flagged isActive
    published, \* campaigns with publishedAt
    stored,    \* messages in the database
    cluster,   \* clusterId of each message
    admin,     \* each administrator's call
    send,      \* each ingest call
    wave       \* the running grouping of unmatched messages

campaignVars ==
    <<kept, archived, emerging, matching, published, stored, cluster, admin, send, wave>>
calls == <<admin, send, wave>>

-------------------------------------------------------------------------------
NoAdmin == [op |-> "none", campaigns |-> {}, text |-> NoText, from |-> NoCampaign,
            fresh |-> TRUE]
Admin == [op : {"none", "publish", "domains", "correct", "archiveEmpty"},
          campaigns : SUBSET CampaignIds, text : Texts \cup {NoText},
          from : CampaignIds \cup {NoCampaign}, fresh : BOOLEAN]
NoSend == [step |-> "none", text |-> NoText, known |-> FALSE, campaign |-> NoCampaign]
Send == [step : {"none", "lock", "write"}, text : Texts \cup {NoText}, known : BOOLEAN,
         campaign : CampaignIds \cup {NoCampaign}]
NoWave == [texts |-> {}, campaign |-> NoCampaign]
Wave == [texts : SUBSET Texts, campaign : CampaignIds \cup {NoCampaign}]

CampaignInit ==
    /\ kept = {} /\ archived = {} /\ emerging = {} /\ matching = {} /\ published = {}
    /\ stored = {}
    /\ cluster = [m \in Texts |-> NoCampaign]
    /\ admin = [a \in Admins |-> NoAdmin]
    /\ send = [r \in Sends |-> NoSend]
    /\ wave = NoWave

\* Mutant of Unlocked: ingest reads the campaign without a lock.
UnlockedAlways(k) == TRUE

\* FOR SHARE of an ingest makes every update of the row wait.
Unlocked(k) == \A r \in Sends : send[r].step = "write" => send[r].campaign # k

Absent == CampaignIds \ (kept \cup archived)

\* What administrators have read of these campaigns is no longer what is there.
Outdates(ks) ==
    admin' = [a \in Admins |->
        IF admin[a].campaigns \cap ks = {} THEN admin[a] ELSE [admin[a] EXCEPT !.fresh = FALSE]]

-------------------------------------------------------------------------------
(***************************************************************************)
(* campaigns.service.ts                                                    *)
(***************************************************************************)
\* By an administrator, dormant; by the clustering, matching.
CreateCampaign(k) ==
    /\ k \in Absent
    /\ kept' = kept \cup {k}
    /\ matching' \in {matching, matching \cup {k}}
    /\ UNCHANGED <<archived, emerging, published, stored, cluster, calls>>

\* updateIntelligence and setIndicators withdraw the publication.
EditCampaign(k) ==
    /\ k \in kept
    /\ Unlocked(k)
    /\ published' = published \ {k}
    /\ Outdates({k})
    /\ UNCHANGED <<kept, archived, emerging, matching, stored, cluster, send, wave>>

Reactivate(k) ==
    /\ k \in kept
    /\ Unlocked(k)
    /\ matching' = matching \cup {k}
    /\ UNCHANGED <<kept, archived, emerging, published, stored, cluster, calls>>

Deactivate(k) ==
    /\ k \in kept \cup archived
    /\ Unlocked(k)
    /\ matching' = matching \ {k}
    /\ UNCHANGED <<kept, archived, emerging, published, stored, cluster, calls>>

Archive(k) ==
    /\ k \in kept
    /\ Unlocked(k)
    /\ kept' = kept \ {k} /\ archived' = archived \cup {k}
    /\ matching' = matching \ {k} /\ published' = published \ {k}
    /\ UNCHANGED <<emerging, stored, cluster, calls>>

\* A call that reads its campaigns before it updates them.
Reads(a, op, ks) ==
    /\ admin[a] = NoAdmin
    /\ admin' = [admin EXCEPT ![a] = [NoAdmin EXCEPT !.op = op, !.campaigns = ks]]
    /\ UNCHANGED <<kept, archived, emerging, matching, published, stored, cluster, send, wave>>

\* publish reads a text that is complete and names nobody.
StartPublish(a, k) == k \in kept /\ Reads(a, "publish", {k})
StartAddDomains(a, k) == k \in kept /\ Reads(a, "domains", {k})

\* Retired, and without a message.
Empty == {k \in kept \ matching : \A m \in Texts : cluster[m] # k}
StartArchiveEmpty(a) == Empty # {} /\ Reads(a, "archiveEmpty", Empty)

\* Mutant of Writable: the update is not limited to campaigns that are kept.
WritableAnyway(ks) == ks

\* where archivedAt is null
Writable(ks) == ks \cap kept

FinishPublish(a) ==
    LET ks == admin[a].campaigns IN
    /\ admin[a].op = "publish"
    /\ \A k \in ks : Unlocked(k)
    /\ published' = published \cup Writable(ks)
    /\ admin' = [admin EXCEPT ![a] = NoAdmin]
    /\ UNCHANGED <<kept, archived, emerging, matching, stored, cluster, send, wave>>

FinishAddDomains(a) ==
    LET ks == admin[a].campaigns IN
    /\ admin[a].op = "domains"
    /\ \A k \in ks : Unlocked(k)
    /\ published' = published \ Writable(ks)
    /\ admin' = [b \in Admins |->
           IF b = a THEN NoAdmin
           ELSE IF admin[b].campaigns \cap Writable(ks) = {} THEN admin[b]
           ELSE [admin[b] EXCEPT !.fresh = FALSE]]
    /\ UNCHANGED <<kept, archived, emerging, matching, stored, cluster, send, wave>>

\* The update asks again for the flags, not for the messages.
FinishArchiveEmpty(a) ==
    LET ks == Writable(admin[a].campaigns) \ matching IN
    /\ admin[a].op = "archiveEmpty"
    /\ \A k \in ks : Unlocked(k)
    /\ kept' = kept \ ks /\ archived' = archived \cup ks
    /\ published' = published \ ks
    /\ admin' = [admin EXCEPT ![a] = NoAdmin]
    /\ UNCHANGED <<emerging, matching, stored, cluster, send, wave>>

-------------------------------------------------------------------------------
(***************************************************************************)
(* campaign-reconciliation.service.ts                                      *)
(***************************************************************************)
Withdrawn(ks) == published' = published \ ks /\ matching' = matching \ ks

\* All messages of the source go to the target, the source to the archive.
Merge(target, source) ==
    /\ target # source
    /\ {target, source} \subseteq kept
    /\ Unlocked(target) /\ Unlocked(source)
    /\ cluster' = [m \in Texts |-> IF cluster[m] = source THEN target ELSE cluster[m]]
    /\ kept' = kept \ {source} /\ archived' = archived \cup {source}
    /\ Withdrawn({target, source})
    /\ Outdates({target, source})
    /\ UNCHANGED <<emerging, stored, send, wave>>

\* Some messages of the source go to a new, dormant campaign.
Split(source, child, ms) ==
    /\ source \in kept
    /\ child \in Absent
    /\ ms # {} /\ \A m \in ms : cluster[m] = source
    /\ Unlocked(source)
    /\ cluster' = [m \in Texts |-> IF m \in ms THEN child ELSE cluster[m]]
    /\ kept' = kept \cup {child}
    /\ Withdrawn({source})
    /\ Outdates({source})
    /\ UNCHANGED <<archived, emerging, stored, send, wave>>

\* The message is looked at before its campaigns are locked.
StartCorrection(a, m, target) ==
    /\ admin[a] = NoAdmin
    /\ m \in stored
    /\ cluster[m] # target
    /\ admin' = [admin EXCEPT ![a] =
           [op |-> "correct", campaigns |-> {target} \ {NoCampaign}, text |-> m,
            from |-> cluster[m], fresh |-> TRUE]]
    /\ UNCHANGED <<kept, archived, emerging, matching, published, stored, cluster, send, wave>>

\* The target is kept and the message still where it was; or nothing is done.
Correctable(a) ==
    /\ admin[a].campaigns \subseteq kept
    /\ admin[a].text \in stored
    /\ cluster[admin[a].text] = admin[a].from

FinishCorrection(a) ==
    LET targets == admin[a].campaigns
        ks == targets \cup ({admin[a].from} \ {NoCampaign}) IN
    /\ admin[a].op = "correct"
    /\ \A k \in ks : Unlocked(k)
    /\ IF Correctable(a)
       THEN /\ \E k \in targets \cup {NoCampaign} :
                /\ targets # {} => k \in targets
                /\ cluster' = [cluster EXCEPT ![admin[a].text] = k]
            /\ Withdrawn(ks)
       ELSE UNCHANGED <<cluster, published, matching>>
    /\ admin' = [b \in Admins |->
           IF b = a THEN NoAdmin
           ELSE IF Correctable(a) /\ admin[b].campaigns \cap ks # {}
           THEN [admin[b] EXCEPT !.fresh = FALSE] ELSE admin[b]]
    /\ UNCHANGED <<kept, archived, emerging, stored, send, wave>>

-------------------------------------------------------------------------------
(***************************************************************************)
(* Messages: ingest, emerging waves, retention                             *)
(***************************************************************************)
\* A message arrives, or arrives again; the model may name any campaign.
StartSend(r, m, k) ==
    /\ send[r] = NoSend
    /\ k \in kept \cup archived \cup {NoCampaign}
    /\ IF m \in stored /\ (cluster[m] # NoCampaign \/ k = NoCampaign)
       THEN UNCHANGED send
       ELSE send' = [send EXCEPT ![r] =
                [step |-> "lock", text |-> m, known |-> m \in stored, campaign |-> k]]
    /\ UNCHANGED <<kept, archived, emerging, matching, published, stored, cluster, admin, wave>>

\* lockActiveCampaign; a campaign that has been retired is not linked.
LockActiveCampaign(r) ==
    /\ send[r].step = "lock"
    /\ send' = [send EXCEPT ![r].step = "write",
                            ![r].campaign = IF @ \in kept \cap matching THEN @ ELSE NoCampaign]
    /\ UNCHANGED <<kept, archived, emerging, matching, published, stored, cluster, admin, wave>>

\* A new row; of two that insert the same one the database takes one.
\* A stored row is linked by its id.
FinishSend(r) ==
    LET m == send[r].text IN
    /\ send[r].step = "write"
    /\ stored' = IF send[r].known THEN stored ELSE stored \cup {m}
    /\ cluster' = IF send[r].campaign # NoCampaign /\ (send[r].known <=> m \in stored)
                  THEN [cluster EXCEPT ![m] = send[r].campaign] ELSE cluster
    /\ send' = [send EXCEPT ![r] = NoSend]
    /\ UNCHANGED <<kept, archived, emerging, matching, published, admin, wave>>

SendAborts(r) ==
    /\ send[r] # NoSend
    /\ send' = [send EXCEPT ![r] = NoSend]
    /\ UNCHANGED <<kept, archived, emerging, matching, published, stored, cluster, admin, wave>>

Unlinked(ms) == {m \in ms \cap stored : cluster[m] = NoCampaign}

\* A run joins messages to a wave it knows, or plans a new one.
FindWave(ms, k) ==
    /\ wave = NoWave
    /\ ms # {} /\ Unlinked(ms) = ms
    /\ k \in (emerging \cap kept) \cup {NoCampaign}
    /\ wave' = [texts |-> ms, campaign |-> k]
    /\ UNCHANGED <<kept, archived, emerging, matching, published, stored, cluster, admin, send>>

\* link: messages that are still unlinked, whatever became of the wave.
JoinWave ==
    /\ wave.campaign # NoCampaign
    /\ cluster' = [m \in Texts |->
           IF m \in Unlinked(wave.texts) THEN wave.campaign ELSE cluster[m]]
    /\ wave' = NoWave
    /\ UNCHANGED <<kept, archived, emerging, matching, published, stored, admin, send>>

\* A new wave that got no message is not kept.
NewWave(k) ==
    LET ms == Unlinked(wave.texts) IN
    /\ wave.texts # {} /\ wave.campaign = NoCampaign
    /\ k \in Absent
    /\ IF ms = {} THEN UNCHANGED <<kept, emerging, matching, cluster>>
       ELSE /\ kept' = kept \cup {k} /\ emerging' = emerging \cup {k}
            /\ matching' = matching \cup {k}
            /\ cluster' = [m \in Texts |-> IF m \in ms THEN k ELSE cluster[m]]
    /\ wave' = NoWave
    /\ UNCHANGED <<archived, published, stored, admin, send>>

WaveRunEnds ==
    /\ wave # NoWave
    /\ wave' = NoWave
    /\ UNCHANGED <<kept, archived, emerging, matching, published, stored, cluster, admin, send>>

\* The daily purge, or the deletion of an account.
PurgeText(m) ==
    /\ m \in stored
    /\ stored' = stored \ {m}
    /\ cluster' = [cluster EXCEPT ![m] = NoCampaign]
    /\ UNCHANGED <<kept, archived, emerging, matching, published, admin, send, wave>>

-------------------------------------------------------------------------------
CampaignNext ==
    \/ \E k \in CampaignIds :
        \/ CreateCampaign(k) \/ EditCampaign(k) \/ Reactivate(k) \/ Deactivate(k)
        \/ Archive(k) \/ NewWave(k)
        \/ \E a \in Admins : StartPublish(a, k) \/ StartAddDomains(a, k)
        \/ \E j \in CampaignIds : Merge(k, j) \/ \E ms \in SUBSET Texts : Split(k, j, ms)
    \/ \E a \in Admins :
        \/ StartArchiveEmpty(a)
        \/ FinishPublish(a) \/ FinishAddDomains(a) \/ FinishArchiveEmpty(a)
        \/ FinishCorrection(a)
    \/ \E m \in Texts, k \in CampaignIds \cup {NoCampaign} :
        \/ \E a \in Admins : StartCorrection(a, m, k)
        \/ \E r \in Sends : StartSend(r, m, k)
    \/ \E r \in Sends : LockActiveCampaign(r) \/ FinishSend(r) \/ SendAborts(r)
    \/ \E ms \in SUBSET Texts, k \in CampaignIds \cup {NoCampaign} : FindWave(ms, k)
    \/ JoinWave \/ WaveRunEnds
    \/ \E m \in Texts : PurgeText(m)

CampaignSpec == CampaignInit /\ [][CampaignNext]_campaignVars

-------------------------------------------------------------------------------
\* Every variable has its type.
CampaignTypeOK ==
    /\ kept \subseteq CampaignIds /\ archived \subseteq CampaignIds
    /\ kept \cap archived = {}
    /\ emerging \subseteq CampaignIds
    /\ matching \subseteq CampaignIds /\ published \subseteq CampaignIds
    /\ stored \subseteq Texts
    /\ cluster \in [Texts -> CampaignIds \cup {NoCampaign}]
    /\ admin \in [Admins -> Admin]
    /\ send \in [Sends -> Send]
    /\ wave \in Wave

\* What is archived is neither matched nor published: a publication or a bulk
\* archival that read its campaigns before the archival or merge of one of them
\* does not bring it back (the update of publish, merge, archiveEmpty).
ArchivedIsHidden == archived \cap (matching \cup published) = {}

\* Ingest puts a message only into a campaign that is served at that moment: an
\* archival or a merge comes before the link is decided or after the message is
\* stored (the comment of lockActiveCampaign).
IngestLinksServedCampaigns ==
    [][\A r \in Sends :
        FinishSend(r) /\ send[r].campaign # NoCampaign
            => send[r].campaign \in kept \cap matching]_campaignVars

\* "Material edits require another explicit publication review"
\* (updateIntelligence): what a publication puts out is what it read.
PublicationIsReviewed ==
    [][\A a \in Admins :
        FinishPublish(a) /\ published' # published => admin[a].fresh]_campaignVars
===============================================================================
