SPECIFICATION Spec
CONSTANTS
    s1 = s1
    s2 = s2
    Sources = {s1, s2}
    Slots = {1, 2, 3, 4, 5}
    NoBlock = NoBlock
    BlockRingSize = 2
    StructureRingSize = 8
    SampleCap = 2
    BudgetCheck = 1
    MaxPosted = 2
    Scopes <- MCScopes
    QuickReconnect = TRUE
INVARIANTS
    SlotsAreExclusive
    RecordingIsExact
    SamplesStayInTheirSession
    StagingNeverStarves
    OpenBlocksArePublished
PROPERTIES
    DisplayFollowsLayout
CHECK_DEADLOCK FALSE
