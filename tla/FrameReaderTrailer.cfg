SPECIFICATION Spec
CONSTANTS
    Byte = {0, 1, 2}
    Configs <- MCTrailerConfigs
    Checksum <- MCChecksum
    Capacity = 16
    QueueCapacity = 9
    MaxFramesPerCall = 9
    MaxChunk = 3
    MaxStream = 6
INVARIANTS
    ChunkingIsInvisible
CHECK_DEADLOCK FALSE
