SPECIFICATION Spec
CONSTANTS
    Packages = {v1, v2}
    Own = {"themes/forest-a"}
    Confs = {"user", "broken"}
    MaxOps = 2
    MaxKill = 1
    MaxFail = 2
SYMMETRY Symmetry
INVARIANTS
    TypeOK
    ReportsTruthful
    PriorRecoverable
