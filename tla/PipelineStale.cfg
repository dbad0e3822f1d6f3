SPECIFICATION Spec
CONSTANTS
    Scopes <- MCRace
INVARIANTS
    NeverStale
CHECK_DEADLOCK FALSE
