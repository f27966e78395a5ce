SPECIFICATION Spec
CONSTANTS
    MinSize = 2
    MaxSize = 4
    FasterMergeMinimum = 2
    Universe <- UniverseSeven
    MaxBlocks = 2
INVARIANTS
    TypeOK
    NothingLost
    SearchSound
CHECK_DEADLOCK FALSE
