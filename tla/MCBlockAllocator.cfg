SPECIFICATION Spec
CONSTANTS
    Threads = {t1, t2, t3}
    Blocks = {b1, b2}
    Request = 7168
    EmptyLimit = 0
    Scanned = 2
    MaxHeld = 4
SYMMETRY Alike
CHECK_DEADLOCK FALSE
INVARIANTS
    ObjectsAccounted
    BlocksAccounted
    FoundBlockHasRoom
    ObjectsFit
PROPERTIES
    ImplementsObjectPool
