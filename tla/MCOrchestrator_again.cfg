\* A second attempt after a failure, a crash or a lost answer.
SPECIFICATION Spec
CONSTANTS
    Plans <- SmallPlans
    MaxInject = 1
    MaxReplanDepth = 1
    MaxToolTries = 2
    MaxAttempts = 2
    MaxStoreFaults = 1
    MaxCrashes = 1
INVARIANTS TypeOK ContextIsFaithful ToolCallsAreLogged
PROPERTIES StepsMoveForward
CHECK_DEADLOCK FALSE
