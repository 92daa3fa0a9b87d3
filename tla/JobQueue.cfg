CONSTANTS
    JobIds = {j1, j2}
    JobTypes = {ty1}
    Keys = {k1, k2}
    Workers = {w1, w2}
    Callers = {c1}
    NoJob = NoJob
    NoWorker = NoWorker
    InitialDelay = 1
    MaxDelay = 1
    Multiplier = 2
    MaxAttempts = 2
    MaxTime = 1
SPECIFICATION Spec
SYMMETRY Symmetry
INVARIANTS
    TypeOK
    QueuedIsClaimable
    ClaimIsCurrent
    DeadLetterIsFinal
PROPERTY
    FollowsLifecycle
CHECK_DEADLOCK FALSE
