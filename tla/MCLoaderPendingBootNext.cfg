SPECIFICATION Spec
CONSTANTS
    Procs = {p1}
    NoProc = NoProc
    Normal = {n1}
    Free = {c1}
    NoNum = NoNum
    InitialNext = {n1}
    MaxCrash = 0
    MaxFail = 0
    MaxDrift = 0
    MaxBoot = 1
    Drifts = {}
INVARIANTS
    RollbackAvailable
