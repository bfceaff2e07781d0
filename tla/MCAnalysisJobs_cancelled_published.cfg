SPECIFICATION Spec
CONSTANTS
    Workers = {w1, w2}
    Uploads = {u1}
    SyncCalls = {}
    Recoverers = {r1}
    Cancellers = {c1}
    NoOne = NoOne
    Backend = "database"
    MaxAttempts = 2
    LeaseMayLapse = FALSE
    BrokerMayFail = FALSE
    MaxCrashes = 2
    BrokerBound = 2
    ClaimBound = 6
PROPERTY CancelledPublishesNothing
CHECK_DEADLOCK FALSE
