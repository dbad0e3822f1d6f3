SPECIFICATION FairLink
CONSTANTS
    FileSizes <- MCFileSizes
    BlockSize = 2
    NumModulus = 3
    MaxRetries = 3
    MaxTransfers = 2
    MaxFaults = 3
INVARIANTS
    RewindsAreExact
    OneVerdictPerTransfer
    TimerGuardsEveryWait
PROPERTIES
    SuccessMeansDelivered
    EveryTransferEnds
CHECK_DEADLOCK FALSE
