SPECIFICATION FairSpec
CONSTANTS
    w1 = w1
    w2 = w2
    l1 = l1
    t1 = t1
    good = good
    other = other
    bad = bad
    sick = sick
    none = none
    Workers = {w1}
    Partitions = {l1}
    TopicOf <- OneLog
    MaxLog = 2
    Messages = {good, bad}
    Malformed = {bad}
    Poison = {}
    NoMessage = none
    TenantOf <- MCTenantOf
    PollMax = 2
    BatchSize = 2
    MaxBatch = 2
    FaultKinds = {}
    MaxFaults = 0
PROPERTIES
    MalformedAcknowledged
