\* Leases expire under live workers: one training job, two workers.
CONSTANTS
    NoJob = NoJob
    Jobs = {train}
    TrainJobs = {train}
    Workers = {w1, w2}
    MaxAttempts = 3
    LateWorkers = TRUE
SPECIFICATION FairSpec
INVARIANT OneAttemptPerClaim
PROPERTY FinishedAttemptsAreFinal
PROPERTY JobsSettle
PROPERTY CancelSettlesForGood
