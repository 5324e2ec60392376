\* A cancel request between the worker's read and its flush.
CONSTANTS
    NoJob = NoJob
    Jobs = {train}
    TrainJobs = {train}
    Workers = {w1, w2}
    MaxAttempts = 2
    LateWorkers = FALSE
SPECIFICATION Spec
PROPERTY CancelRequestedNeverRetried
