\* Two cases of different priority, one worker.
SPECIFICATION Spec
CONSTANTS
    Runs <- ThreeRuns
    Priority <- SecondUrgent
    Concurrency = 1
    MaxReruns = 0
    MaxFaults = 0
    Cases <- TwoCases
    UserRuns = {}
    MaxPolls = 1
    MaxExpiries = 0
    Companies <- EvalOnly
PROPERTY UrgentFirst
CHECK_DEADLOCK FALSE
