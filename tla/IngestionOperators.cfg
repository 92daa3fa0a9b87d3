CONSTANTS
    w1 = w1
    w2 = w2
    p1 = p1
    p2 = p2
    JobIds = {j1}
    JobTypes = {ty1}
    Keys = {k1}
    Workers = {w1, w2}
    Processes = {p1, p2}
    IdOf <- OwnIds
    OperatorActions = {"cancel", "retry"}
    NoJob = NoJob
    NoWorker = NoWorker
    InitialDelay = 1
    MaxDelay = 2
    Multiplier = 2
    Steps = 2
    MaxAttempts = 3
    RunLeaseTTL = 2
SPECIFICATION Spec
INVARIANTS
    StaysInStep
PROPERTIES
    StaleWriterIsRejected
    FollowsContract
