CONSTANTS
    JobIds = {j1, j2}
    JobTypes = {ty1, ty2}
    Keys = {k1}
    Workers = {w1}
    Reconcilers = {r1}
    Specialized = {ty2}
    OperatorActions = {"cancel"}
    LostReports = {"STOPPED", "ERROR"}
    NoJob = NoJob
    NoWorker = NoWorker
    InitialDelay = 1
    MaxDelay = 1
    Multiplier = 2
    LeaseTTL = 1
    StaleAfter = 1
    MaxAttempts = 1
SPECIFICATION FairSpec
PROPERTY
    AbandonedIsRecovered
    ShutdownDrains
