SPECIFICATION LinkSpec
CONSTANTS
    FileSizes <- MCFileSizes
    BlockSize = 2
    ChunksPerYield = 1
    MaxRetries = 2
    MaxTransfers = 1
    Kept <- MCKept
    MaxFaults = 2
INVARIANTS
    TimerGuardsEveryWait
CHECK_DEADLOCK FALSE
