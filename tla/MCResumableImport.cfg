SPECIFICATION Spec
CONSTANTS
    Upload <- MCUpload
    Patch <- MCPatch
    Length = 3
    ChunkSize = 2
    None = None
    MaxTimeouts = 1
    MaxCrashes = 1
    MaxFailures = 1
    Process = {x1, x2}
    Watcher = {w1, w2}
    Edit = {e1, e2}
    MaxLost = 1
    UserStatus = {REVIEWED}
INVARIANTS
    TypeOK
    ExactFile
    SerialClientDuplicatesNothing
    DoneMeansStored
    AnswerIsFinal
    
    WatchersAreCurrent
CHECK_DEADLOCK FALSE
SYMMETRY MCSymmetry
