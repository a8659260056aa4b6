SPECIFICATION Spec
CONSTANTS
    M = 4
    N = 5
    Workers = {w1, w2, w3}
CHECK_DEADLOCK FALSE
INVARIANTS
    HandedOnce
    InputsReady
PROPERTY
    WaitEnds
