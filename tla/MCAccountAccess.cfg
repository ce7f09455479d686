SPECIFICATION Spec
CONSTANTS
    Request = {r1, r2}
    Code <- MCCode
    Secret <- MCSecret
    Limit = 2
    None = None
INVARIANTS
    TypeOK
    CodesInTurn
    EnabledWasConfirmed
SYMMETRY MCSymmetry
CHECK_DEADLOCK FALSE
