SPECIFICATION FairSpec
CONSTANTS
    SegmentWidth = 2
    TauMaxPercent = 70
    GrowingPercent = 180
    InitialArrayCapacity = 2
    LogInitialArrayCapacity = 1
    NumThreads = 3
    MaxBlocks = 7
    MaxSplit = 5
    MaxOrigins = 2
INVARIANTS
    TypeOK
    BlocksConserved
    ArrayRestored
    UpdateSound
    TasksSound
PROPERTIES
    BatchReturns
CHECK_DEADLOCK FALSE
