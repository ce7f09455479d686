SPECIFICATION Spec
CONSTANTS
    w1 = w1
    w2 = w2
    Statement = {s1}
    Worker = {w1, w2}
    RowNo <- MCRowNo
    Reading <- MCReading
    NoStatement = NoStatement
    PatchChoice = {"PARSING", "REVIEWED"}
    MaxDeliveries = 2
    MaxEnrichments = 1
    MayFail = TRUE
SYMMETRY MCWorkerSymmetry
INVARIANTS
    TypeOK
    RowsAreOneReading
    NoOrphanRows
    FileOutlivesRow
    CountNeverOverclaims
    SavedIsReady

PROPERTIES
    ReviewKept
    EnrichmentRemembered
    ImplementsLifecycle
CHECK_DEADLOCK FALSE
