SPECIFICATION Spec
CONSTANTS
    Byte = {0, 1, 2}
    Configs <- MCConfigs
    Checksum <- MCChecksum
    Capacity = 5
    QueueCapacity = 2
    MaxFramesPerCall = 2
    MaxChunk = 5
    MaxStream = 6
INVARIANTS
    StampsFollowTheLastByte
    ChunkingIsInvisible
    PendingDescribesBuffer
    NoFrameDropped
PROPERTIES
    EveryTurnConsumes
CHECK_DEADLOCK FALSE
