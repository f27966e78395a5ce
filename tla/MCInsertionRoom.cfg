SPECIFICATION Spec
CONSTANTS
    BinarySearchCutoff = 1
    Settings <- FullThenBelow
INVARIANT BufferRoom
CHECK_DEADLOCK FALSE
