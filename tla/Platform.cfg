CHECK_DEADLOCK FALSE
SPECIFICATION Spec
SYMMETRY Symmetry
CONSTANTS
    a1 = a1
    b1 = b1
    b2 = b2
    p1 = p1
    ta = ta
    tb = tb
    e1 = e1
    Batches = {b1, b2}
    Size = 2
    Apis = {a1}
    DirOf <- MCDirOf
    RotateAt = 2
    MaxAttempts = 2
    MaxSeconds = 2
    Processes = {p1}
    MaxRequests = 2
    Window = 5
    Skew = 2
    MaxTime = 7
    MaxOutages = 3
    Tenants <- MCTenants
    Tier <- MCTier
    FreeDays = 0
    ProDays = 0
    EnterpriseDays = 1
    Workers = {w1, w2}
    MaxHalf = 4
    MaxRows = 2
    Emails = {"admin", "system", "sso", e1}
    Admin = "admin"
    SystemAudit = "system"
    Sso = "sso"
    Requests = {q1, q2}
    IncidentRows <- MCIncidentRows
    MaxAccounts = 4
    MaxServed = 2
    Kinds = {"dashboard", "notebook", "monitor", "metric rule", "integration", "deployment", "slo", "saved query"}
    Owners = {0, 1, 2}
    Edits = {x1, x2}
    Texts = {0, 1}
    DefaultSpan = 1
    MaxDays = 2
    Bands <- MCBands
    MaxScore = 3
    MaxDocs = 1
    MaxUpdates = 2
    MaxIncidents = 2
INVARIANTS AnswersHold WindowRespected MetersAreTheTenants  DocumentsAreTheirs
PROPERTIES KeptForItsTier WidgetsCountEach
