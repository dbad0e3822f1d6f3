SPECIFICATION FairSpec
CONSTANTS
    Scopes <- MCScopes
INVARIANTS
    ParkedMeansQuiescent
    FunctorHasItsWaiter
    StaleOnlyIfLost
    ReaderOutlivesItsUse
PROPERTIES
    NeverAppliedMidFrame
    EveryWaitEnds
CHECK_DEADLOCK FALSE
