CONSTANTS
    Messages = {m1}
    Workers = {w1, w2}
    Slots = {s1}
    Requests = {r1}
    Repair = Repair
    None = None
    MaxAttempts = 2
    DailyLimit = 1
    MonthlyLimit = 2
    MaxFaults = 1
    StoredRows <- FallbackRows
SPECIFICATION MachinerySpec
SYMMETRY Symmetry
INVARIANTS
    InferenceWithinAdmissions
    OneAlertFromVerification
PROPERTIES
    VerifiedIsFinal
    LiveLeaseIsRespected
    FailsOnlyWhenSpent
    KeepsPromise
CHECK_DEADLOCK FALSE
