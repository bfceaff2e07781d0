SPECIFICATION FairSpec
CONSTANTS
    Workers = {w1, w2}
    Uploads = {u1}
    SyncCalls = {}
    Recoverers = {r1}
    Cancellers = {c1}
    NoOne = NoOne
    Backend = "database"
    MaxAttempts = 2
    LeaseMayLapse = FALSE
    BrokerMayFail = FALSE
    MaxCrashes = 2
    BrokerBound = 2
    ClaimBound = 6
INVARIANT OneExecution
INVARIANT UploadKept
PROPERTY ContractKept
PROPERTY JobSettles
PROPERTY CancellationCarriedOut
CHECK_DEADLOCK FALSE
