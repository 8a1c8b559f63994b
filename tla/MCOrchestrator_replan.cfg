\* One attempt with one store failure; replanning and tool retries at their limits.
SPECIFICATION FairSpec
CONSTANTS
    Plans <- SmallPlans
    MaxInject = 2
    MaxReplanDepth = 2
    MaxToolTries = 2
    MaxAttempts = 1
    MaxStoreFaults = 1
    MaxCrashes = 0
INVARIANTS NoPlanExplosion QueueIsSound OrdersIdentifySteps CompletedRunHasNoOpenSteps
PROPERTIES KeepsContract
CHECK_DEADLOCK FALSE
