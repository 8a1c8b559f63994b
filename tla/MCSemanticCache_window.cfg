\* Three processes, three tasks, an index of two ids and one fault.
SPECIFICATION FairSpec
CONSTANTS
    a = a
    b = b
    c = c
    w1 = w1
    w2 = w2
    w3 = w3
    Runs = {a, b, c}
    Workers = {w1, w2, w3}
    Similarity <- Chain
    Threshold = 1840
    MaxEntries = 2
    MaxTasks = 3
    MaxFaults = 1
INVARIANTS TypeOK HitIsSimilar NothingBetterWasRead WindowIsBounded
PROPERTIES TasksEnd
CHECK_DEADLOCK FALSE
