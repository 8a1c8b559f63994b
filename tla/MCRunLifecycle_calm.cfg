\* Two mutating requests at a time, one of which may die, and one polling client.
SPECIFICATION Spec
CONSTANTS
    r1 = r1
    r2 = r2
    r3 = r3
    r4 = r4
    g1 = g1
    Requests = {r1, r2, r3}
    Readers = {g1}
    MaxRetries = 1
    Concurrency = 2
    MaxOverlap = 2
    CacheEnabled = FALSE
    FaultBudget <- OneApi
SYMMETRY Symmetry
INVARIANTS RunningIsBacked StaleRowIsRepairable SingleFlight
CHECK_DEADLOCK FALSE
