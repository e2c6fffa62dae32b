SPECIFICATION MCSpec
CHECK_DEADLOCK FALSE
CONSTANTS
    r1 = r1
    Replicas = {r1, r2, r3}
    Nobody = nobody
    LockConfigured = TRUE
    Ttl = 2
    Day = 4
    Late = 1
    MaxRun = 2
    MaxDays = 3
    MaxFaults = 2
INVARIANTS
    OneRunPerOccurrence
    FaultCostsOneNight
PROPERTY
    OneReplicaInOrder
