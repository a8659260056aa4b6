SPECIFICATION Spec
CONSTANTS
    FirstCapacity = 2
    LastCapacity = 8
    Master = master
    Workers = {w1, w2}
    Capacity = 2
    Length = 5
    Rounds = 2
CHECK_DEADLOCK FALSE
INVARIANTS
    OnlyReadyTasksRun
    NoTaskLost
    PredecessorsCounted
    SlotHasOneOwner
PROPERTIES
    ImplementsParallelMap
    RoundsEnd
