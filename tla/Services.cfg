CONSTANTS
    Parts = {"codes", "models", "retraining", "datasets", "workspace", "reputation"}
    Actors = {a1, a2}
    Rows = {x1, x2}
    Clients = {a1, a2}
    Codes = {x1, x2}
    NoCode = NoCode
    Ttl = 1
    Window = 2
    MaxRequests = 2
    MaxAttempts = 2
    Lag = 1
    LastTick = 3
    Versions = {x1, x2}
    Digests = {d1, d2}
    Reviewers = {a1, a2}
    NoDigest = NoDigest
    NoVersion = NoVersion
    Servers = {a1, a2}
    Jobs = {x1, x2}
    Investigations = {i1}
    Editors = {e1, e2}
    NoJob = NoJob
    NoInvestigation = NoInvestigation
    Mails = {m1}
    Labels = {l1}
    Curators = {a1, a2}
    Settings = {e1}
    SnapshotTags = {t1}
    MaxVersion = 3
    NoLabel = NoLabel
    People = {p1, p2}
    Applicant = p1
    Invites = {i1}
    Desks = {a1, a2}
    SeatLimit = 2
    MaximumMembers = 2
    Nobody = Nobody
    NoInvite = NoInvite
    Reporters = {x1, x2}
    Inquiries = {i1}
    Admins = {a1, a2}
    LastPeriod = 1
    KeptPeriods = 1
SPECIFICATION ServicesSpec
SYMMETRY Symmetry
INVARIANTS
    CodeWorksOnce
    GuessesAreLimited
    DeliveredCodeStands
    SendsAreLimited
    FlagFollowsStatus
    AcceptedJobsAreQueued
    SnapshotsAreTraceable
    FraudNeedsTwoReporters
PROPERTIES
    ExpiredCodeIsRefused
    ApprovesTheAssessedBytes
    AVersionStaysActive
    OnlyARequestReopens
    RevokedNeverJoins
CHECK_DEADLOCK FALSE
