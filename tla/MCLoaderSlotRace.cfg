SPECIFICATION Spec
CONSTANTS
    Procs = {p1}
    NoProc = NoProc
    Normal = {n1}
    Free = {c1}
    NoNum = NoNum
    InitialNext = {NoNum}
    MaxCrash = 0
    MaxFail = 0
    MaxDrift = 1
    MaxBoot = 0
    Drifts = {"race"}
PROPERTIES
    OtherFilesPreserved
CHECK_DEADLOCK FALSE
