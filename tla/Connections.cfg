SPECIFICATION FairSpec
CONSTANTS
    MaxAddresses = 2
    LastDevice = 1
    Scopes <- MCScopes
INVARIANTS
    OneVerdictPerAttempt
    ConnectingMeansAnswerComes
    ToldIsTrue
    ClosedStaysClosed
PROPERTIES
    EveryDialEnds
CHECK_DEADLOCK FALSE
