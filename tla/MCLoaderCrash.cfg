SPECIFICATION FairSpec
CONSTANTS
    Procs = {p1}
    NoProc = NoProc
    Normal = {n1}
    Free = {c1}
    NoNum = NoNum
    InitialNext = {NoNum}
    MaxCrash = 3
    MaxFail = 2
    MaxDrift = 0
    MaxBoot = 2
    Drifts = {}
INVARIANTS
    TypeOK
    NormalEntryBoots
    EntryNeverDangles
    RestMatchesManifest
    ArtifactsHaveIntent
    RollbackAvailable
    StatusAnswers
    StatusTruthful
PROPERTIES
    ImplementsUpgrade
    EveryCallEnds
    RollbackConverges
