SPECIFICATION Spec
CONSTANTS
    Packages = {v1, v2, v3}
    MaxBuild = 3
    MaxFail = 4
    MaxKill = 2
    MaxDrift = 2
SYMMETRY Symmetry
INVARIANTS
    TypeOK
    PreviousNeverLost
    ReportsTruthful
    OutputNeverPartial
PROPERTIES
    ForeignOutputKept
    ImplementsReplacement
CHECK_DEADLOCK FALSE
