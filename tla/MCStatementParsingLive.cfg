SPECIFICATION FairSpec
CONSTANTS
    w1 = w1
    w2 = w2
    Statement = {s1, s2}
    Worker = {w1, w2}
    RowNo <- MCRowNo
    Reading <- MCReading
    NoStatement = NoStatement
    PatchChoice = {}
    MaxDeliveries = 1
    MaxEnrichments = 1
    MayFail = FALSE
PROPERTIES
    EveryUploadSettles
    FilesAreOwned
CHECK_DEADLOCK FALSE
