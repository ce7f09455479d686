SPECIFICATION Spec
CONSTANTS
    w1 = w1
    w2 = w2
    Statement = {s1}
    Worker = {w1, w2}
    RowNo <- MCRowNo
    Reading <- MCReading
    NoStatement = NoStatement
    PatchChoice = {}
    MaxDeliveries = 2
    MaxEnrichments = 0
    MayFail = FALSE
INVARIANTS
    RetryIsIdempotent
CHECK_DEADLOCK FALSE
