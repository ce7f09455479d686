SPECIFICATION Spec
CONSTANTS
    Job = {j1, j2}
    Format = {csv}
    Worker = {w1}
    Row = {}
    NoJob = NoJob
    PatchChoice = {}
    MaxDeliveries = 1
    MayFail = FALSE
INVARIANTS
    OneReadyExport
CHECK_DEADLOCK FALSE
