SPECIFICATION LiveSpec
CONSTANTS
    JobIds = {j1}
    JobTypes = {render}
    Keys = {k1}
    Workers = {w1, w2}
    NoJob = NoJob
    NoWorker = NoWorker
    InitialDelay = 0
    MaxDelay = 0
    Multiplier = 1
    Requests = {r1}
    Operators = {"cancel", "retry"}
    MaxAttempts = 2
    Faults = {"crash", "outage"}
    MaxFaults = 1
INVARIANTS
    TypeOK
    SucceededIsPublished
    CancelledIsFinal
PROPERTY
    DriftIsRepaired
