SPECIFICATION FairSpec
CONSTANTS
    Threads <- MCThreads
    Indices <- MCIndices
    NumBuckets = 2
    ParThreshold = 1
    MaxCalls = 2
INVARIANTS
    ExclusiveBucket
    FlagsCombined
    HandledOnce
PROPERTIES
    AtomicMap
    CallsEnd
