---------------------------- MODULE Campaigns_proofs ----------------------------
(***************************************************************************)
(* Proofs about Campaigns, for any number of campaigns, messages and       *)
(* concurrent calls.                                                       *)
(***************************************************************************)
EXTENDS Campaigns, TLAPS

\* An ingest under way has a message; a campaign it has locked is served until it
\* ends.
LocksHold ==
    \A r \in Sends :
        /\ send[r].step # "none" => send[r].text \in Texts
        /\ send[r].step = "write" /\ send[r].campaign # NoCampaign =>
               send[r].campaign \in kept \cap matching

CampaignInv == CampaignTypeOK /\ ArchivedIsHidden /\ LocksHold

\* The flags of the campaigns in one step: what stays archived is hidden, and what
\* is no longer served was not locked.
Flags ==
    /\ kept' \subseteq CampaignIds /\ archived' \subseteq CampaignIds
    /\ matching' \subseteq CampaignIds /\ published' \subseteq CampaignIds
    /\ kept' \cap archived' = {}
    /\ archived' \cap (matching' \cup published') = {}
    /\ \A k \in (kept \cap matching) \ (kept' \cap matching') : Unlocked(k)

LEMMA CampaignsStart == CampaignInit => CampaignInv
  BY DEF CampaignInit, CampaignInv, CampaignTypeOK, ArchivedIsHidden, LocksHold, NoAdmin,
         Admin, NoSend, Send, NoWave, Wave

\* A step that ingest takes no part in.
LEMMA FlagsSuffice ==
    ASSUME CampaignInv, Flags, UNCHANGED send,
           emerging' \subseteq CampaignIds, stored' \subseteq Texts,
           cluster' \in [Texts -> CampaignIds \cup {NoCampaign}],
           admin' \in [Admins -> Admin], wave' \in Wave
    PROVE  CampaignInv'
<1>1. CampaignTypeOK'
  BY DEF CampaignInv, CampaignTypeOK, Flags
<1>2. ArchivedIsHidden'
  BY DEF Flags, ArchivedIsHidden
<1>3. LocksHold'
  BY DEF CampaignInv, CampaignTypeOK, LocksHold, Flags, Unlocked
<1> QED BY <1>1, <1>2, <1>3 DEF CampaignInv

\* Outdating what others have read keeps the types of their calls.
LEMMA OutdatingKeepsTypes ==
    ASSUME CampaignTypeOK
    PROVE  /\ NoAdmin \in Admin
           /\ \A a \in Admins : [admin[a] EXCEPT !.fresh = FALSE] \in Admin
  BY DEF CampaignTypeOK, Admin, NoAdmin

-------------------------------------------------------------------------------
LEMMA EditsKeep ==
    ASSUME CampaignInv, NEW k \in CampaignIds,
           \/ CreateCampaign(k) \/ EditCampaign(k) \/ Reactivate(k) \/ Deactivate(k)
           \/ Archive(k)
    PROVE  CampaignInv'
<1>1. UNCHANGED <<emerging, stored, cluster, send, wave>>
  BY DEF CreateCampaign, EditCampaign, Reactivate, Deactivate, Archive, calls
<1>2. admin' \in [Admins -> Admin]
  <2>1. CASE Outdates({k})
    BY <2>1, OutdatingKeepsTypes DEF Outdates, CampaignInv, CampaignTypeOK
  <2>2. CASE UNCHANGED admin
    BY <2>2 DEF CampaignInv, CampaignTypeOK
  <2> QED BY <2>1, <2>2 DEF CreateCampaign, EditCampaign, Reactivate, Deactivate, Archive, calls
<1>3. Flags
  <2>1. CASE CreateCampaign(k)
    BY <2>1 DEF CreateCampaign, Absent, Flags, CampaignInv, CampaignTypeOK, ArchivedIsHidden
  <2>2. CASE EditCampaign(k)
    BY <2>2 DEF EditCampaign, Flags, CampaignInv, CampaignTypeOK, ArchivedIsHidden
  <2>3. CASE Reactivate(k)
    BY <2>3 DEF Reactivate, Flags, CampaignInv, CampaignTypeOK, ArchivedIsHidden
  <2>4. CASE Deactivate(k)
    BY <2>4 DEF Deactivate, Flags, CampaignInv, CampaignTypeOK, ArchivedIsHidden
  <2>5. CASE Archive(k)
    BY <2>5 DEF Archive, Flags, CampaignInv, CampaignTypeOK, ArchivedIsHidden
  <2> QED BY <2>1, <2>2, <2>3, <2>4, <2>5
<1> QED BY <1>1, <1>2, <1>3, FlagsSuffice DEF CampaignInv, CampaignTypeOK

LEMMA ReadsKeep ==
    ASSUME CampaignInv, NEW a \in Admins,
           \/ StartArchiveEmpty(a)
           \/ \E k \in CampaignIds : StartPublish(a, k) \/ StartAddDomains(a, k)
    PROVE  CampaignInv'
<1>1. PICK op \in {"publish", "domains", "archiveEmpty"}, ks \in SUBSET CampaignIds :
          Reads(a, op, ks)
  BY DEF StartArchiveEmpty, StartPublish, StartAddDomains, Empty, CampaignInv, CampaignTypeOK
<1>2. [NoAdmin EXCEPT !.op = op, !.campaigns = ks] \in Admin
  BY DEF NoAdmin, Admin
<1>3. /\ admin' \in [Admins -> Admin]
      /\ UNCHANGED <<kept, archived, emerging, matching, published, stored, cluster, send, wave>>
  BY <1>1, <1>2 DEF Reads, CampaignInv, CampaignTypeOK
<1> QED BY <1>3 DEF CampaignInv, CampaignTypeOK, ArchivedIsHidden, LocksHold

\* A bulk archival or a publication of campaigns that were archived meanwhile
\* leaves them alone.
LEMMA WritesKeep ==
    ASSUME CampaignInv, NEW a \in Admins,
           FinishPublish(a) \/ FinishAddDomains(a) \/ FinishArchiveEmpty(a)
    PROVE  CampaignInv'
<1>1. UNCHANGED <<emerging, stored, cluster, send, wave>>
  BY DEF FinishPublish, FinishAddDomains, FinishArchiveEmpty
<1>2. admin' \in [Admins -> Admin]
  BY OutdatingKeepsTypes DEF FinishPublish, FinishAddDomains, FinishArchiveEmpty,
     CampaignInv, CampaignTypeOK
<1>3. admin[a].campaigns \subseteq CampaignIds
  BY DEF CampaignInv, CampaignTypeOK, Admin
<1>4. Flags
  <2>1. CASE FinishPublish(a)
    BY <2>1, <1>3 DEF FinishPublish, Writable, Flags, CampaignInv, CampaignTypeOK, ArchivedIsHidden
  <2>2. CASE FinishAddDomains(a)
    BY <2>2, <1>3 DEF FinishAddDomains, Writable, Flags, CampaignInv, CampaignTypeOK,
                      ArchivedIsHidden
  <2>3. CASE FinishArchiveEmpty(a)
    BY <2>3, <1>3 DEF FinishArchiveEmpty, Writable, Flags, CampaignInv, CampaignTypeOK,
                      ArchivedIsHidden
  <2> QED BY <2>1, <2>2, <2>3
<1> QED BY <1>1, <1>2, <1>4, FlagsSuffice DEF CampaignInv, CampaignTypeOK

LEMMA MergeKeeps ==
    ASSUME CampaignInv, NEW k \in CampaignIds, NEW j \in CampaignIds, Merge(k, j)
    PROVE  CampaignInv'
<1>1. admin' \in [Admins -> Admin]
  BY OutdatingKeepsTypes DEF Merge, Outdates, CampaignInv, CampaignTypeOK
<1>2. cluster' \in [Texts -> CampaignIds \cup {NoCampaign}]
  BY DEF Merge, CampaignInv, CampaignTypeOK
<1>3. Flags
  BY DEF Merge, Withdrawn, Flags, CampaignInv, CampaignTypeOK, ArchivedIsHidden
<1> QED BY <1>1, <1>2, <1>3, FlagsSuffice DEF Merge, CampaignInv, CampaignTypeOK

LEMMA SplitKeeps ==
    ASSUME CampaignInv, NEW k \in CampaignIds, NEW j \in CampaignIds, NEW ms \in SUBSET Texts,
           Split(k, j, ms)
    PROVE  CampaignInv'
<1>1. admin' \in [Admins -> Admin]
  BY OutdatingKeepsTypes DEF Split, Outdates, CampaignInv, CampaignTypeOK
<1>2. cluster' \in [Texts -> CampaignIds \cup {NoCampaign}]
  BY DEF Split, CampaignInv, CampaignTypeOK
<1>3. Flags
  BY DEF Split, Absent, Withdrawn, Flags, CampaignInv, CampaignTypeOK, ArchivedIsHidden
<1> QED BY <1>1, <1>2, <1>3, FlagsSuffice DEF Split, CampaignInv, CampaignTypeOK

LEMMA CorrectionKeeps ==
    ASSUME CampaignInv, NEW a \in Admins,
           \/ FinishCorrection(a)
           \/ \E m \in Texts, k \in CampaignIds \cup {NoCampaign} : StartCorrection(a, m, k)
    PROVE  CampaignInv'
<1>1. CASE \E m \in Texts, k \in CampaignIds \cup {NoCampaign} : StartCorrection(a, m, k)
  <2> PICK m \in Texts, k \in CampaignIds \cup {NoCampaign} : StartCorrection(a, m, k)
    BY <1>1
  <2>1. [op |-> "correct", campaigns |-> {k} \ {NoCampaign}, text |-> m,
         from |-> cluster[m], fresh |-> TRUE] \in Admin
    BY DEF Admin, CampaignInv, CampaignTypeOK
  <2>2. admin' \in [Admins -> Admin]
    BY <2>1 DEF StartCorrection, CampaignInv, CampaignTypeOK
  <2> QED BY <2>2 DEF StartCorrection, CampaignInv, CampaignTypeOK, ArchivedIsHidden, LocksHold
<1>2. CASE FinishCorrection(a)
  <2>1. admin' \in [Admins -> Admin]
    BY <1>2, OutdatingKeepsTypes DEF FinishCorrection, CampaignInv, CampaignTypeOK
  <2>2. admin[a].campaigns \subseteq CampaignIds
    BY DEF CampaignInv, CampaignTypeOK, Admin
  <2>3. cluster' \in [Texts -> CampaignIds \cup {NoCampaign}]
    BY <1>2, <2>2 DEF FinishCorrection, CampaignInv, CampaignTypeOK
  <2>4. Flags
    BY <1>2 DEF FinishCorrection, Withdrawn, Flags, CampaignInv, CampaignTypeOK, ArchivedIsHidden
  <2> QED BY <1>2, <2>1, <2>3, <2>4, FlagsSuffice DEF FinishCorrection, CampaignInv, CampaignTypeOK
<1> QED BY <1>1, <1>2

-------------------------------------------------------------------------------
\* An ingest locks a campaign that is served, or none.
LEMMA IngestKeeps ==
    ASSUME CampaignInv, NEW r \in Sends,
           \/ LockActiveCampaign(r) \/ FinishSend(r) \/ SendAborts(r)
           \/ \E m \in Texts, k \in CampaignIds \cup {NoCampaign} : StartSend(r, m, k)
    PROVE  CampaignInv'
<1> USE DEF CampaignInv
<1>1. UNCHANGED <<kept, archived, emerging, matching, published, admin, wave>>
  BY DEF LockActiveCampaign, FinishSend, SendAborts, StartSend
<1>2. NoSend \in Send /\ NoSend.step = "none" /\ send[r] \in Send
  BY DEF NoSend, Send, CampaignTypeOK
<1>3. CASE FinishSend(r)
  <2>1. stored' \subseteq Texts /\ cluster' \in [Texts -> CampaignIds \cup {NoCampaign}]
    BY <1>3, <1>2 DEF FinishSend, LocksHold, CampaignTypeOK, Send
  <2>2. LocksHold'
    BY <1>1, <1>2, <1>3 DEF FinishSend, LocksHold, CampaignTypeOK
  <2>3. send' \in [Sends -> Send]
    BY <1>2, <1>3 DEF FinishSend, CampaignTypeOK
  <2> QED BY <1>1, <2>1, <2>2, <2>3 DEF CampaignTypeOK, ArchivedIsHidden
<1>4. CASE UNCHANGED <<stored, cluster>>
  <2>1. PICK c \in Send :
            /\ send' = [send EXCEPT ![r] = c] \/ send' = send
            /\ c.step # "none" => c.text \in Texts
            /\ c.step = "write" /\ c.campaign # NoCampaign => c.campaign \in kept \cap matching
    <3>1. CASE LockActiveCampaign(r)
      <4> DEFINE k == IF send[r].campaign \in kept \cap matching
                      THEN send[r].campaign ELSE NoCampaign
      <4>1. send' = [send EXCEPT ![r] = [send[r] EXCEPT !.step = "write", !.campaign = k]]
        BY <3>1, <1>2 DEF LockActiveCampaign, CampaignTypeOK, Send
      <4>2. [send[r] EXCEPT !.step = "write", !.campaign = k] \in Send
        BY <1>2 DEF Send
      <4>3. send[r].text \in Texts
        BY <3>1 DEF LockActiveCampaign, LocksHold
      <4> QED BY <4>1, <4>2, <4>3, <1>2 DEF Send
    <3>2. CASE FinishSend(r) \/ SendAborts(r)
      BY <3>2, <1>2 DEF FinishSend, SendAborts
    <3>3. CASE \E m \in Texts, k \in CampaignIds \cup {NoCampaign} : StartSend(r, m, k)
      <4> PICK m \in Texts, k \in CampaignIds \cup {NoCampaign} : StartSend(r, m, k)
        BY <3>3
      <4>1. [step |-> "lock", text |-> m, known |-> m \in stored, campaign |-> k] \in Send
        BY DEF Send
      <4> QED BY <4>1 DEF StartSend
    <3> QED BY <3>1, <3>2, <3>3
  <2>2. send' \in [Sends -> Send] /\ LocksHold'
    BY <1>1, <2>1 DEF LocksHold, CampaignTypeOK
  <2> QED BY <1>1, <1>4, <2>2 DEF CampaignTypeOK, ArchivedIsHidden
<1> QED BY <1>3, <1>4 DEF LockActiveCampaign, SendAborts, StartSend

\* Waves and purges leave the campaigns' flags alone, but for a new wave.
LEMMA WavesKeep ==
    ASSUME CampaignInv,
           \/ \E k \in CampaignIds : NewWave(k)
           \/ \E ms \in SUBSET Texts, k \in CampaignIds \cup {NoCampaign} : FindWave(ms, k)
           \/ JoinWave \/ WaveRunEnds
           \/ \E m \in Texts : PurgeText(m)
    PROVE  CampaignInv'
<1> USE DEF CampaignInv
<1>1. /\ UNCHANGED <<archived, published, admin, send>>
      /\ stored' \subseteq Texts
  BY DEF NewWave, FindWave, JoinWave, WaveRunEnds, PurgeText, CampaignTypeOK
<1>2. wave' \in Wave
  BY DEF NewWave, FindWave, JoinWave, WaveRunEnds, PurgeText, CampaignTypeOK, NoWave, Wave
<1>3. cluster' \in [Texts -> CampaignIds \cup {NoCampaign}] /\ emerging' \subseteq CampaignIds
  BY DEF NewWave, FindWave, JoinWave, WaveRunEnds, PurgeText, CampaignTypeOK, Wave
<1>4. Flags
  <2>1. CASE UNCHANGED <<kept, matching>>
    BY <1>1, <2>1 DEF Flags, CampaignTypeOK, ArchivedIsHidden
  <2>2. CASE \E k \in CampaignIds : NewWave(k)
    BY <2>2 DEF NewWave, Absent, Flags, CampaignTypeOK, ArchivedIsHidden
  <2> QED BY <2>1, <2>2 DEF FindWave, JoinWave, WaveRunEnds, PurgeText
<1> QED BY <1>1, <1>2, <1>3, <1>4, FlagsSuffice DEF CampaignTypeOK

-------------------------------------------------------------------------------
LEMMA CampaignStep == CampaignInv /\ [CampaignNext]_campaignVars => CampaignInv'
<1> SUFFICES ASSUME CampaignInv, [CampaignNext]_campaignVars PROVE CampaignInv'
  OBVIOUS
<1>1. CASE UNCHANGED campaignVars
  BY <1>1 DEF campaignVars, calls, CampaignInv, CampaignTypeOK, ArchivedIsHidden, LocksHold
<1>2. CASE CampaignNext
  <2>1. CASE \E k \in CampaignIds :
               \/ CreateCampaign(k) \/ EditCampaign(k) \/ Reactivate(k) \/ Deactivate(k)
               \/ Archive(k) \/ NewWave(k)
               \/ \E a \in Admins : StartPublish(a, k) \/ StartAddDomains(a, k)
               \/ \E j \in CampaignIds : Merge(k, j) \/ \E ms \in SUBSET Texts : Split(k, j, ms)
    BY <2>1, EditsKeep, WavesKeep, ReadsKeep, MergeKeeps, SplitKeeps
  <2>2. CASE \E a \in Admins :
               \/ StartArchiveEmpty(a)
               \/ FinishPublish(a) \/ FinishAddDomains(a) \/ FinishArchiveEmpty(a)
               \/ FinishCorrection(a)
    BY <2>2, ReadsKeep, WritesKeep, CorrectionKeeps
  <2>3. CASE \E m \in Texts, k \in CampaignIds \cup {NoCampaign} :
               \/ \E a \in Admins : StartCorrection(a, m, k)
               \/ \E r \in Sends : StartSend(r, m, k)
    BY <2>3, CorrectionKeeps, IngestKeeps
  <2>4. CASE \E r \in Sends : LockActiveCampaign(r) \/ FinishSend(r) \/ SendAborts(r)
    BY <2>4, IngestKeeps
  <2> QED BY <1>2, <2>1, <2>2, <2>3, <2>4, WavesKeep DEF CampaignNext
<1> QED BY <1>1, <1>2

LEMMA CampaignsHold == CampaignSpec => []CampaignInv
  BY CampaignsStart, CampaignStep, PTL DEF CampaignSpec

\* Every variable keeps its type; no campaign is kept and archived at once.
THEOREM CampaignTypes == CampaignSpec => []CampaignTypeOK
  BY CampaignsHold, PTL DEF CampaignInv

\* An archived campaign is neither matched nor published (archive, publish,
\* archiveEmpty, merge).
THEOREM Hidden == CampaignSpec => []ArchivedIsHidden
  BY CampaignsHold, PTL DEF CampaignInv

\* Ingest links a message only to a campaign that is served when it is stored
\* (lockActiveCampaign).
THEOREM ServedLinks == CampaignSpec => IngestLinksServedCampaigns
<1>1. ASSUME CampaignInv, [CampaignNext]_campaignVars
      PROVE  [\A r \in Sends :
                FinishSend(r) /\ send[r].campaign # NoCampaign
                    => send[r].campaign \in kept \cap matching]_campaignVars
  BY <1>1 DEF CampaignInv, LocksHold, FinishSend
<1> QED BY <1>1, CampaignsHold, PTL DEF CampaignSpec, IngestLinksServedCampaigns
===============================================================================
