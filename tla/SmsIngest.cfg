CONSTANTS
    Messages = {m1}
    Workers = {w1}
    Slots = {s1}
    Requests = {r1, r2}
    Repair = Repair
    None = None
    MaxAttempts = 1
    DailyLimit = 1
    MonthlyLimit = 1
    MaxFaults = 0
    MaxConfirmed = 1
    StoredRows <- IngestRows
SPECIFICATION ShapedSpec
SYMMETRY Symmetry
INVARIANTS
    OneAlertFromIngest
    VerifiedIsTheModels
CHECK_DEADLOCK FALSE
