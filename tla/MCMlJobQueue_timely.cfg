\* No lease expires under a live worker: a training job and another one,
\* two workers.
CONSTANTS
    NoJob = NoJob
    Jobs = {train, other}
    TrainJobs = {train}
    Workers = {w1, w2}
    MaxAttempts = 3
    LateWorkers = FALSE
SPECIFICATION FairSpec
INVARIANT TypeOK
INVARIANT OneWorkerPerJob
INVARIANT OpenAttemptIsTheRun
INVARIANT RowsAreWhole
PROPERTY ImplementsLifecycle
PROPERTY OnlyResumeReopens
