SPECIFICATION Spec
CHECK_DEADLOCK FALSE
CONSTANTS
    Spans = {}
    Logs = {l1, l2}
    Runs = {r1}
    Hydrators = {}
    Keep = 1
    MaxLate = 2
    SameSecond = FALSE
    MaxDay = 2
    MaxSecond = 1
    MaxCopies = 2
    MaxFaults = 0
SYMMETRY Symmetry
INVARIANT
    LogsKept
