\* Steps that raise, three errors allowed.
SPECIFICATION Spec
CONSTANTS
    Loop = {l1}
    Worker = {w1}
    Job = {j1, j2}
    NoJob = NoJob
    Tries = 1
    MaxLive = 1
    MaxStepErrors = 3
    MaxFailures = 2
    MaxFinal = 1
    MaxAttempts = 1
    Faults = {"raise"}
INVARIANT ErrorsInRowStop
CHECK_DEADLOCK FALSE
