\* Two workers, two files, weeks of two points: two or three slots.
SPECIFICATION FairSpec
CONSTANTS
    v1 = v1
    w1 = w1
    w2 = w2
    Worker = {w1, w2}
    Files = 2
    Version = {v1}
    Week = 2
    CatchUp = 0
    Lag = 1
    MaxTime = 3
    Faults = 1
INVARIANT WeeksAreRecorded
INVARIANT FilesGoForward
PROPERTY WeeksGoForward
PROPERTY DueIsHandled
CHECK_DEADLOCK FALSE
