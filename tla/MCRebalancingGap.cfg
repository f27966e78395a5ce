SPECIFICATION Spec
CONSTANTS
    SegmentWidth = 2
    TauMaxPercent = 70
    GrowingPercent = 180
    InitialArrayCapacity = 2
    LogInitialArrayCapacity = 1
    NumThreads = 1
    MaxBlocks = 4
    MaxSplit = 5
    MaxOrigins = 1
INVARIANT AlwaysMerged
CHECK_DEADLOCK FALSE
