SPECIFICATION Spec
CONSTANTS
    Images <- SmallImages
    Builders = {b1, b2}
    Signers = {s1, s2}
    Foreigns = {f1}
    Empties = {e1}
    Others = {g1}
    Drifts = {"replace", "add", "file", "collide"}
    MaxFail = 1
    MaxKill = 1
    MaxDrift = 1
SYMMETRY Symmetry
INVARIANTS
    TypeOK
    OutputWhole
    PublishedLoads
    PublishedKept
    NoImageAlone
    SignReports
PROPERTIES
    FailureRetracts
    ForeignKept
    FilesKept
CHECK_DEADLOCK FALSE
