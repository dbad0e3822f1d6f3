SPECIFICATION Spec
CONSTANTS
    Byte = {0, 1}
    Sizes = {1, 3, 8}
    Chunks <- MCChunks
    MaxRequest = 2
    MaxOverflow = 0
    Patterns <- MCPatterns
    PatternLists <- MCPatternLists
    kShortPatternMax = 2
    Rules = {{0}}
INVARIANTS
    SearchesAgree
PROPERTIES
    ImplementsByteQueue
CHECK_DEADLOCK FALSE
