CHECK_DEADLOCK FALSE
SPECIFICATION FairSpec
CONSTANTS
    Hooks = {h1, h2}
    Calls = {c1}
    MaxRetries = 3
    MaxChanges = 2
    Incidents = {t1, i1, i2}
    SloIncidents = {i1, i2}
    Tasks = {t1}
    PageHooks = {h1}
    NewRows <- MCRows
    r1 = r1
    r2 = r2
    Runbooks = {r1, r2}
    Labels = {1, 3}
    MaxSteps = 1
    MaxRemovals = 1
    MaxClusters = 2
    MaxTaskFaults = 1
    Slos = {s1}
    Ticks = {k1, k2}
    NoIncident = NoIncident
    MinPoints = 1
    MaxSloFaults = 1
INVARIANTS OneTruthfulRecord DuplicatesOnlyFromLostAnswers
     CriticalIsPaged RecordedTogether 
PROPERTY DispatchEnds
