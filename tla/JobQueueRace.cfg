CONSTANTS
    JobIds = {j1, j2}
    JobTypes = {ty1}
    Keys = {k1, k2}
    Workers = {w1, w2}
    Callers = {c1, c2}
    NoJob = NoJob
    NoWorker = NoWorker
    InitialDelay = 0
    MaxDelay = 0
    Multiplier = 2
    MaxAttempts = 1
    MaxTime = 0
SPECIFICATION Spec
SYMMETRY Symmetry
INVARIANTS
    OneJobPerKey
    AnswerHasKey
CHECK_DEADLOCK FALSE
