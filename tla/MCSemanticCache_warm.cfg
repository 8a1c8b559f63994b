\* One process and two tasks.
SPECIFICATION Spec
CONSTANTS
    a = a
    b = b
    c = c
    w1 = w1
    Runs = {a, b, c}
    Workers = {w1}
    Similarity <- Chain
    Threshold = 1840
    MaxEntries = 2
    MaxTasks = 2
    MaxFaults = 0
INVARIANT SimilarInputIsServed
CHECK_DEADLOCK FALSE
