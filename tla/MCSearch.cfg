SPECIFICATION Spec
CONSTANTS
    BinarySearchCutoff = 1
    MaxKey = 6
    MaxLength = 8
INVARIANTS
    BlockFound
    FirstElementFound
CHECK_DEADLOCK FALSE
