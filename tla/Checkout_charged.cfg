CONSTANTS
    Requests = {r1}
    Legacy = {r1}
    Periods = {"month"}
    Handlers = {h1}
    MaxReleases = 1
    Nothing = Nothing
SPECIFICATION CheckoutSpec
INVARIANT PaidIsNotCancelled
CHECK_DEADLOCK FALSE
