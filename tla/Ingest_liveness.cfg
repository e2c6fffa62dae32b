SPECIFICATION QuietSpec
CONSTANTS
    w1 = w1
    w2 = w2
    l1 = l1
    t1 = t1
    good = good
    other = other
    bad = bad
    sick = sick
    none = none
    Workers = {w1}
    Partitions = {l1, t1}
    TopicOf <- OnePerTopic
    MaxLog = 3
    Messages = {other, sick}
    Malformed = {}
    Poison = {sick}
    NoMessage = none
    TenantOf <- MCTenantOf
    PollMax = 1
    BatchSize = 1
    MaxBatch = 1
    FaultKinds = {"reject", "crash", "commit_error"}
    MaxFaults = 2
INVARIANTS
    BacklogBounded
PROPERTIES
    TenantsIsolated
    EventuallyResumed
    
