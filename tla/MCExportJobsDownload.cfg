SPECIFICATION Spec
CONSTANTS
    Job = {j1, j2}
    Format = {csv}
    Worker = {w1}
    Row = {t1}
    NoJob = NoJob
    PatchChoice = {}
    MaxDeliveries = 1
    MayFail = FALSE
PROPERTIES
    DownloadsExcludeIgnored
CHECK_DEADLOCK FALSE
