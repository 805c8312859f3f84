CONSTANTS
    Parts = {"checkout", "licence", "two callers", "one day", "queue"}
    ThirdCaller = t3
    ThirdKey = k3
    Requests = {r1}
    Legacy = {r1}
    Periods = {"month"}
    Handlers = {h1}
    MaxReleases = 1
    Nothing = Nothing
    WebhookCalls = {c1, c2}
    MaxTime = 2
    MaxChanges = 2
    Never = Never
    Callers = {t1, t2, t3}
    Keys = {k1, k2, k3}
    DailyLimit = 1
    MonthlyLimit = 2
    Month <- Calendar
    LastDay = 2
    None = None
    Drainers = {d1, d2}
    Demands = {q1, q2}
    MaxQueuedJobs = 1
    StaleAfter = 1
    MaxCalls = 2
    LatestTime = 3
    MaxDeaths = 1
    NoLock = NoLock
    NoDemand = NoDemand
SPECIFICATION PortalSpec
INVARIANTS
    PaidTimeIsKept
    LimitsHold
PROPERTIES
    AdmitsInOneStep
    PaidIsServed
    LapseIsRecorded
    EveryCallReturns
    EveryVisitEnds
CHECK_DEADLOCK FALSE
