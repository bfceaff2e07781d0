SPECIFICATION Spec
CONSTANTS
    j1 = j1
    j2 = j2
    Jobs = {j1, j2}
    Requests = {r1}
    Keys = {"k1", "k2", "k3"}
    NoKey = NoKey
    KeyVersion <- MCKeyVersion
    Ids = {"i1", "i2", "i3", "i4", "i5", "i6", "i9"}
    Scoped <- MCScoped
    Inputs <- MCInputs
    Absent = Absent
    Window = 1
    TTL = 1
    MaxContext = 1
    Outcomes = {"none", "triaged", "needs_review"}
    OutboxEnabled = TRUE
    MaxTime = 1
INVARIANT TypeOK
INVARIANT CommittedCovered
INVARIANT OneIncidentPerGeneration
PROPERTY EvidenceKept
PROPERTY GenerationsHold
CHECK_DEADLOCK FALSE
PROPERTY JobsEnd
