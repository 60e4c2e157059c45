SPECIFICATION Spec
CONSTANTS
    Procs = {p1}
    NoProc = NoProc
    Normal = {n1}
    Free = {c1, c2}
    NoNum = NoNum
    InitialNext = {NoNum}
    MaxCrash = 1
    MaxFail = 1
    MaxDrift = 2
    MaxBoot = 1
    Drifts = {"next", "order", "entry", "tree", "slot"}
SYMMETRY Symmetry
INVARIANTS
    RunnerCanStep
PROPERTIES
    OtherVariablesPreserved
    OtherFilesPreserved
    RollbackRestoresRecord
CHECK_DEADLOCK FALSE
