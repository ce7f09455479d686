SPECIFICATION Spec
CONSTANTS
    Process = {p1}
    Bank = {b1}
    Admin = {a1, a2}
    Shipped = Shipped
    Empty = Empty
    None = None
    MaxReloads = 1
    MaxRestarts = 1
    MaxFailures = 1
INVARIANTS
    TypeOK
    RowsMatchFiles
PROPERTY
    LookupsFollowFiles
CHECK_DEADLOCK FALSE
