SPECIFICATION Spec
CHECK_DEADLOCK FALSE
INVARIANTS
    StartedInOrder
    TornDownInOrder
PROPERTIES
    CloseEnds
