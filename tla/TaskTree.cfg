SPECIFICATION FairSpec
CONSTANTS
    Trees <- MCTrees
    MaxAttempts = 3
    MaxRuns = 2
INVARIANTS
    EmitOnce
    NothingOutlivesItsParent
    EveryTaskAwaitsSomething
    OwnerHearsOnce
    SuccessIsEarned
    SupersededTreeIsDead
PROPERTY
    EveryRunEnds
CHECK_DEADLOCK FALSE
