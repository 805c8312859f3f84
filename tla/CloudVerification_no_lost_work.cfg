CONSTANTS
    Messages = {m1}
    Workers = {w1}
    Slots = {s1}
    Requests = {r1}
    Repair = Repair
    None = None
    MaxAttempts = 2
    DailyLimit = 1
    MonthlyLimit = 2
    MaxFaults = 1
    StoredRows <- FallbackRows
SPECIFICATION FairSpec
PROPERTIES
    NoWorkIsLost
    DeliveriesDrain
CHECK_DEADLOCK FALSE
