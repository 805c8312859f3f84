CONSTANTS
    Messages = {m1}
    Workers = {w1}
    Slots = {s1}
    Requests = {r1}
    Repair = Repair
    None = None
    MaxAttempts = 1
    DailyLimit = 1
    MonthlyLimit = 1
    MaxFaults = 0
    MaxConfirmed = 0
    StoredRows <- FreshRows
SPECIFICATION ShapedSpec
INVARIANT OneAlertPerMessage
CHECK_DEADLOCK FALSE
