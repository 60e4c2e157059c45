SPECIFICATION FairSpec
CONSTANTS
    Packages = {v1}
    Own = {"themes/forest-a"}
    Confs = {"user"}
    MaxOps = 1
    MaxKill = 2
    MaxFail = 2
PROPERTIES
    RollbackRestores
