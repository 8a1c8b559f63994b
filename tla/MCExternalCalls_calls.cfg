SPECIFICATION FairSpec
CONSTANTS
    PlanTools <- SomeTools
    MaxPlanned = 2
    MaxReplanDepth = 1
    MaxRetries = 1
    MaxToolTries = 2
    MaxStoreFaults = 1
INVARIANTS
    TypeOK
    RequestsAreBounded
    CompletedStepsAreTraced
    NotifiedOnce
    SuccessMeansDelivered
PROPERTY
    PlannedRunsComplete
CHECK_DEADLOCK FALSE
