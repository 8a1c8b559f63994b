SPECIFICATION ClaimsSpec
CONSTANTS
    r1 = r1
    r2 = r2
    r3 = r3
    g1 = g1
    Requests = {r1, r2}
    Readers = {g1}
    MaxRetries = 3
    Concurrency = 4
    MaxOverlap = 1
    CacheEnabled = FALSE
    FaultBudget <- NoFaults
PROPERTY SyncTakesTheNewerStatus
CHECK_DEADLOCK FALSE
