SPECIFICATION Spec
CHECK_DEADLOCK FALSE
CONSTANTS
    Replicas = {r1, r2}
    Days = {1, 2, 3}
    Files = {f1, f2}
    SharedData = FALSE
    MaxVersions = 2
    MaxFaults = 2
SYMMETRY Symmetry
INVARIANTS
    NewestIsKept
    ObjectIsWhole
PROPERTY
    OnlyOldFilesDeleted
