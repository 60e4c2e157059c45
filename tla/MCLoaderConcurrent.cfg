SPECIFICATION Spec
CONSTANTS
    Procs = {p1, p2}
    NoProc = NoProc
    Normal = {n1}
    Free = {c1, c2}
    NoNum = NoNum
    InitialNext = {NoNum}
    MaxCrash = 1
    MaxFail = 1
    MaxDrift = 1
    MaxBoot = 1
    Drifts = {"next", "order", "entry", "tree", "slot", "race"}
SYMMETRY Symmetry
INVARIANTS
    LockHeldByRunner
PROPERTIES
    TransactionBegunOnce
CHECK_DEADLOCK FALSE
