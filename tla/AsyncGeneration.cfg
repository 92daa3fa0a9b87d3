SPECIFICATION LiveSpec
CONSTANTS
    JobIds = {j1}
    JobTypes = {grounded}
    Keys = {k1}
    Workers = {w1, w2}
    NoJob = NoJob
    NoWorker = NoWorker
    InitialDelay = 0
    MaxDelay = 0
    Multiplier = 1
    AsyncRequests = {a1}
    SyncRequests = {}
    Cancellers = {}
    Recoverers = {r1}
    Operators = {"cancel", "retry"}
    Texts = {x1, x2}
    MaxAttempts = 2
    Faults = {"crash", "outage"}
    MaxFaults = 1
    Nothing = Nothing
INVARIANTS
    SucceededIsReady
    RecordMatchesStores
PROPERTIES
    JobEnds
