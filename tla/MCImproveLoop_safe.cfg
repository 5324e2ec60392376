\* One loop of two tries and two final runs, two workers that may be late.
SPECIFICATION Spec
CONSTANTS
    Loop = {l1}
    Worker = {w1, w2}
    Job = {j1, j2, j3}
    NoJob = NoJob
    Tries = 2
    MaxLive = 1
    MaxStepErrors = 1
    MaxFailures = 1
    MaxFinal = 2
    MaxAttempts = 2
    Faults = {"late", "lost_hook"}
SYMMETRY Alike
INVARIANT OneTraining
INVARIANT NoProbeTwice
INVARIANT TestSetOnce
INVARIANT CancelHolds
INVARIANT WaitingCanBeAccepted
PROPERTY TriggersAccept
CHECK_DEADLOCK FALSE
