CONSTANTS
    JobIds = {j1}
    JobTypes = {ty1}
    Keys = {k1}
    Workers = {w1, w2}
    Reconcilers = {r1}
    Specialized = {}
    OperatorActions = {}
    LostReports = {}
    NoJob = NoJob
    NoWorker = NoWorker
    InitialDelay = 1
    MaxDelay = 1
    Multiplier = 2
    LeaseTTL = 2
    StaleAfter = 1
    MaxAttempts = 2
SPECIFICATION Spec
INVARIANT
    NoDuplicateExecution
