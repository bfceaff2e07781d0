SPECIFICATION FairEnrichment
CONSTANTS
    t1 = t1
    t2 = t2
    r1 = r1
    r2 = r2
    r3 = r3
    f1 = f1
    f2 = f2
    Threads = {t1, t2}
    Rows = {r1, r2, r3}
    Facts = {f1, f2}
    Selections <- MCSelections
    Known <- MCKnown
    Answers <- MCAnswers
    MaxBatch = 2
    MinActions = 2
    MaxActions = 4
    Threshold = 2
    ResetTicks = 1
    MaxRetries = 1
INVARIANTS TextsGrounded RejectedAlone InvocationsTold
PROPERTIES OutageRespected BreakerTriesAgain
