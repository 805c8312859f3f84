CONSTANTS
    Reporters = {u1, u2}
    Inquiries = {q1}
    Admins = {a1}
    LastPeriod = 0
    KeptPeriods = 1
SPECIFICATION ReputationSpec
PROPERTY ConfirmedFraudStands
CHECK_DEADLOCK FALSE
