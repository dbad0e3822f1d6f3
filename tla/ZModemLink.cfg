SPECIFICATION FairLink
CONSTANTS
    FileSizes <- MCFileSizes
    BlockSize = 2
    ChunksPerYield = 1
    MaxRetries = 2
    MaxTransfers = 2
    Kept <- MCKept
    MaxFaults = 2
INVARIANTS
    OneVerdictPerTransfer
    StreamHasOneDriver
PROPERTIES
    SuccessMeansDelivered
    EndsOrLosesItsTimer
CHECK_DEADLOCK FALSE
