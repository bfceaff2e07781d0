SPECIFICATION Spec
CONSTANTS
    Workers = {w1, w2}
    Uploads = {u1}
    SyncCalls = {s1}
    Recoverers = {r1}
    Cancellers = {c1}
    NoOne = NoOne
    Backend = "celery"
    MaxAttempts = 2
    LeaseMayLapse = TRUE
    BrokerMayFail = TRUE
    MaxCrashes = 1
    BrokerBound = 2
    ClaimBound = 3
SYMMETRY Symmetry
INVARIANT CompletedHasResults
INVARIANT CommitsWithinClaims
CHECK_DEADLOCK FALSE
