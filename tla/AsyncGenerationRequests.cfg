SPECIFICATION Spec
CONSTANTS
    JobIds = {j1}
    JobTypes = {grounded}
    Keys = {k1}
    Workers = {w1}
    NoJob = NoJob
    NoWorker = NoWorker
    InitialDelay = 0
    MaxDelay = 0
    Multiplier = 1
    AsyncRequests = {a1, a2}
    SyncRequests = {s1}
    Cancellers = {c1}
    Recoverers = {}
    Operators = {}
    Texts = {x1}
    MaxAttempts = 2
    Faults = {"crash"}
    MaxFaults = 1
    Nothing = Nothing

INVARIANTS
    TypeOK
    AdmissionAgrees
    EnvelopeMatchesJob
PROPERTIES
    OneOutcome
