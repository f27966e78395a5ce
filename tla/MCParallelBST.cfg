SPECIFICATION FairSpec
CONSTANTS
    Settings <- Trees
    MaxKey = 64
    numberOfThreads = 4
    MaxBatches = 2
INVARIANTS
    BatchExact
    TreeSound
    NodesOnce
    RangeQueries
    FreesWhenAllHaveCut
    ReturnsWhenAllHaveLeft
PROPERTIES
    CallsReturn
