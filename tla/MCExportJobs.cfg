SPECIFICATION Spec
CONSTANTS
    Job = {j1, j2}
    Format = {csv}
    Worker = {w1, w2}
    Row = {}
    NoJob = NoJob
    PatchChoice = {}
    MaxDeliveries = 2
    MayFail = TRUE
SYMMETRY MCSymmetry
INVARIANTS
    TypeOK
    ReadyHasFile
    ReadyMeansExported
    SerialExportsDoNotDuplicate
    ExportFilesAreOwned
PROPERTIES
    ReadyStays
CHECK_DEADLOCK FALSE
