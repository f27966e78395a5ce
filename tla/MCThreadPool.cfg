SPECIFICATION FairSpec
CONSTANTS
    Tasks = {x1, x2}
    Workers = {w1, w2, w3}
    InitialWorkers = {w1, w2}
    MaxResizes = 2
    None = None
INVARIANTS
    PoolConsistent
    OnePlace
PROPERTIES
    IsQueue
    TasksRun
    OwnerReturns
