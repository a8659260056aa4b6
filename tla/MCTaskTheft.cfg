SPECIFICATION Spec
CONSTANTS
    FirstCapacity = 8
    LastCapacity = 8
    Master = master
    Workers = {w1, w2}
    Capacity = 3
    Length = 10
    Rounds = 1
SYMMETRY WorkersAreAlike
CHECK_DEADLOCK FALSE
INVARIANTS
    OnlyReadyTasksRun
