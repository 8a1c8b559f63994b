\* One stream over three attempts, any two or all of which may overlap, of one
\* step each.  The stream gives up after three polls.
SPECIFICATION Spec
CONSTANTS
    s1 = s1
    Streams = {s1}
    MaxAttempts = 3
    MaxSteps = 1
    MaxTicks = 3
INVARIANTS TypeOK StepsInOrder DoneAfterAllSteps StepsSurvive
CHECK_DEADLOCK FALSE
