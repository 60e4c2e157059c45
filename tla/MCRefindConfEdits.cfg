SPECIFICATION Spec
CONSTANTS
    Stock <- StockTexts
    MaxEdits = 3
    MaxInstalls = 2
INVARIANTS
    TypeOK
    UsersLinesKept
    PatchedAccepted
    PatchSettles
CHECK_DEADLOCK FALSE
