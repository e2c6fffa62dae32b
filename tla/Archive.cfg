SPECIFICATION MCSpec
CHECK_DEADLOCK FALSE
CONSTANTS
    Spans = {s1, s2}
    Logs = {l1, l2}
    Runs = {r1,r2}
    Hydrators = {h1}
    Keep = 1
    MaxLate = 1
    SameSecond = FALSE
    MaxDay = 3
    MaxSecond = 1
    MaxCopies = 2
    MaxFaults = 1
SYMMETRY Symmetry
INVARIANTS
    SpansKept
    SpanRestoredOnce
    LogsKept
PROPERTY
    RecentKept
