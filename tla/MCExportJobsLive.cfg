SPECIFICATION FairSpec
CONSTANTS
    Job = {j1}
    Format = {csv, json}
    Worker = {w1, w2}
    Row = {t1}
    NoJob = NoJob
    PatchChoice = {"REVIEWED"}
    MaxDeliveries = 3
    MayFail = FALSE
PROPERTIES
    EveryExportSettles
CHECK_DEADLOCK FALSE
