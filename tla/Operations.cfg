CONSTANTS
    Parts = {"one request", "one call", "shield", "campaigns", "queue", "phone"}
    Actors = {a1, a2}
    Rows = {x1, x2}
    LaterRequest = r2
    SecondCall = h2
    Requests = {r1, r2}
    Legacy = {r1}
    Periods = {"month"}
    Handlers = {h1, h2}
    MaxReleases = 1
    Nothing = Nothing
    ApiKeys = {x1, x2}
    ApiCalls = {a1, a2}
    Rotators = {o1}
    Limits <- TwoLimits
    MinuteTicks = 1
    MonthOf <- TwoMonths
    MaxTick = 2
    MaxPerTick = 2
    NoKey = NoKey
    CampaignIds = {x1, x2}
    Texts = {m1}
    Admins = {o1}
    Sends = {s1}
    NoCampaign = NoCampaign
    NoText = NoText
    Drainers = {a1, a2}
    Demands = {x1, x2}
    MaxQueuedJobs = 1
    StaleAfter = 1
    MaxCalls = 3
    LatestTime = 3
    MaxDeaths = 1
    NoLock = NoLock
    NoDemand = NoDemand
    MaxReports = 1
SPECIFICATION OperationsSpec
SYMMETRY Symmetry
INVARIANTS
    OneOpenRequest
    NoDoubleCharge
    AccessIsPaid
    MinuteLimitHolds
    MonthlyQuotaHolds
    ArchivedIsHidden
    QueuedOnce
PROPERTIES
    IngestLinksServedCampaigns
    FiledCallStands
CHECK_DEADLOCK FALSE
