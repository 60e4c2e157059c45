SPECIFICATION Spec
CONSTANTS
    Procs = {p1}
    NoProc = NoProc
    Normal = {n1}
    Free = {c1}
    NoNum = NoNum
    InitialNext = {NoNum}
    MaxCrash = 1
    MaxFail = 1
    MaxDrift = 0
    MaxBoot = 1
    Drifts = {}
INVARIANTS
    PendingReversalRecovers
