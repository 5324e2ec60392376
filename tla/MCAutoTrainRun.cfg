\* One run, three attempts, two crashes, any questions.
SPECIFICATION FairSpec
CONSTANTS
    MaxAttempts = 3
    MaxCrashes = 2
INVARIANT NeverCancelledWithEvidence
INVARIANT CancelledTogether
INVARIANT RestingMeansAsking
INVARIANT CompletedHasEvidence
PROPERTY NothingSplitUnconfirmed
PROPERTY ImplementsQueue
PROPERTY RunSettles
