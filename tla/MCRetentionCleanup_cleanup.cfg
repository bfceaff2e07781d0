SPECIFICATION FairSpec
CONSTANTS
    a1 = a1
    i1 = i1
    i2 = i2
    j1 = j1
    e1 = e1
    Executors = {x1, x2}
    Roots <- MCRoots
    Kind <- MCKind
    Archive <- MCArchive
    Refers <- MCRefers
    Changing = {i1, e1}
    Holdable = {i2}
    ForeignKeys = TRUE
    BatchSize = 2
    NoOne = NoOne
    VersionBound = 30
INVARIANTS CountsExact ReferencesIntact CompletedScannedAll
PROPERTIES DeletionsEligible LeaseHolderWrites CallsEnd
CHECK_DEADLOCK FALSE
