CHECK_DEADLOCK FALSE
SPECIFICATION FairSpec
CONSTANTS
    LogLines <- MCLogLines
    SampleLimit = 1
    Labels_ = {0, 1}
    MaxLogLines = 2
    MaxResults = 2
    RecordRows <- MCRecordRows
    MaxRecords = 3
    CausalWindow = 1
    Scores = {84, 86}
    NoScore = NoScore
    Keywords = {"P1", "P0"}
    Thresholds <- MCThresholds
    CausalFloor = 1
    ClusterRows <- MCClusterRows
    MaxRunClusters = 2
    Terms <- MCTerms
    Lines <- MCLines
    LogFiles = {"f1", "f2"}
    Reader = 1
    Interval = 2
    MaxTokens = 3
    MaxLines = 2
    SloTargets <- MCSloTargets
    Days = 2
    MaxEvents = 4
    Instances = {n1, n2}
    OldDatabases <- MCOldDatabases
    MaxKills = 1
INVARIANTS ReportIsFaithful TriageIsJustified DriftIsReal  
PROPERTIES  AgentCatchesUp 
