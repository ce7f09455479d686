SPECIFICATION Spec
CONSTANTS
    Figures <- MCFigures
    Row <- MCRow
    Named <- MCNamed
    MaxRows = 4
    HeaderWindow = 2
    MaxPolls = 2
    None = None
INVARIANTS
    TransactionsAreRows
    RefusedOnlyUnread
