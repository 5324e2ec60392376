\* One loop of one try, a worker that may die or be late, no lost hook.
SPECIFICATION FairSpec
CONSTANTS
    Loop = {l1}
    Worker = {w1}
    Job = {j1, j2}
    NoJob = NoJob
    Tries = 1
    MaxLive = 1
    MaxStepErrors = 2
    MaxFailures = 2
    MaxFinal = 1
    MaxAttempts = 1
    Faults = {"death", "raise", "unrecorded", "late"}
INVARIANT NeverStranded
PROPERTY LoopsEnd
CHECK_DEADLOCK FALSE
