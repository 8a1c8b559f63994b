\* The harness with two cases, or the load test with one run beside one report; one of each fault.
SPECIFICATION FairSpec
CONSTANTS
    Runs <- ThreeRuns
    Priority <- SecondUrgent
    Concurrency = 1
    MaxReruns = 1
    MaxFaults = 1
    Cases <- TwoCases
    UserRuns = {3}
    MaxPolls = 2
    MaxExpiries = 1
    Companies <- SmallCompanies
INVARIANTS TypeOK SkewIsMotion AcceptedRunsAreWatched
PROPERTIES EvalEnds FinishedRunsAreDropped
CHECK_DEADLOCK FALSE
