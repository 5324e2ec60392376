\* One worker: a file whose upload began before a queued run and ended after.
SPECIFICATION Spec
CONSTANTS
    v1 = v1
    w1 = w1
    w2 = w2
    Worker = {w1}
    Files = 2
    Version = {v1}
    Week = 2
    CatchUp = 0
    Lag = 0
    MaxTime = 3
    Faults = 0
PROPERTY NoNewFileIsTrue
CHECK_DEADLOCK FALSE
