SPECIFICATION Spec
CONSTANTS
    BinarySearchCutoff = 1
    Settings <- ArraySettings
INVARIANTS
    ArrayValid
    BuffersUsable
    LoopsAdvance
    NoSharedBlock
    QueriesExact
PROPERTIES
    AtomicBatches
CHECK_DEADLOCK FALSE
