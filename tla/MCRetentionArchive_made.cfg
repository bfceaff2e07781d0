SPECIFICATION FairSpec
CONSTANTS
    Creator = c
    Verifiers = {v1, v2}
    SyncMayFail = TRUE
    AuditBound = 3
INVARIANTS VerifiedExposed
PROPERTIES ExposedGetsVerified
CHECK_DEADLOCK FALSE
