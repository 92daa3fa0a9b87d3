CONSTANTS
    JobIds = {j1}
    JobTypes = {ty1}
    Keys = {k1}
    Workers = {w1, w2}
    Reconcilers = {r1}
    Specialized = {}
    OperatorActions = {"cancel", "retry"}
    LostReports = {"BUSY", "STOPPED"}
    NoJob = NoJob
    NoWorker = NoWorker
    InitialDelay = 1
    MaxDelay = 1
    Multiplier = 2
    LeaseTTL = 1
    StaleAfter = 1
    MaxAttempts = 2
SPECIFICATION Spec
SYMMETRY Symmetry
INVARIANTS
    TypeOK
    AttemptHasOneWorker
    HolderIsLocked
    OutcomeIsDurable
    ShutdownShieldsNoJob
PROPERTIES
    FollowsLifecycle
