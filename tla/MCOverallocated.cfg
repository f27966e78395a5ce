SPECIFICATION Spec
CONSTANTS
    BinarySearchCutoff = 1
    AggregateWidth = 2
    Settings <- ArraySettings
INVARIANTS
    ArrayValid
    AggregatesExact
    RoomSuffices
    LoopsAdvance
    QueriesExact
PROPERTIES
    AtomicBatches
