\* Faults of the stores, the workers and the tasks, enough escapes to use up the
\* retries, one request at a time.
SPECIFICATION Spec
CONSTANTS
    r1 = r1
    r2 = r2
    r3 = r3
    r4 = r4
    g1 = g1
    Requests = {r1, r2}
    Readers = {}
    MaxRetries = 1
    Concurrency = 2
    MaxOverlap = 1
    CacheEnabled = TRUE
    FaultBudget <- WorkerFaults
SYMMETRY Symmetry
INVARIANTS TypeOK LowConfidenceNeedsApproval DeadLetterAfterAllRetries SingleFlight CompletedHasAnswer
CHECK_DEADLOCK FALSE
