\* One Celery retry, one client that polls for ever.
SPECIFICATION PollingSpec
CONSTANTS
    r1 = r1
    r2 = r2
    r3 = r3
    r4 = r4
    g1 = g1
    Requests = {r1, r2}
    Readers = {g1}
    MaxRetries = 1
    Concurrency = 1
    MaxOverlap = 1
    CacheEnabled = FALSE
    FaultBudget <- OneEscape
PROPERTIES EventuallySettled PollingConverges KeepsPromise
CHECK_DEADLOCK FALSE
