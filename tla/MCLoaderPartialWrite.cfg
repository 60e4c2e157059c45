SPECIFICATION Spec
CONSTANTS
    Procs = {p1}
    NoProc = NoProc
    Normal = {n1}
    Free = {c1}
    NoNum = NoNum
    InitialNext = {NoNum}
    MaxCrash = 0
    MaxFail = 1
    MaxDrift = 0
    MaxBoot = 0
    Drifts = {}
INVARIANTS
    CandidateWriteFailureRecovers
