SPECIFICATION Spec
CONSTANTS
    MaxAttempts = 2
    MaxCrashes = 0
INVARIANT AnsweredRunsAreResumed
