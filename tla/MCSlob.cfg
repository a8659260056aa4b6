SPECIFICATION Spec
CONSTANTS
    PageSize = 32
    Sizes <- MCSizes
    Aligns <- MCAligns
    Callers = {t1, t2}
    Handles = {m1, m2}
    MaxLive = 3
SYMMETRY Symmetric
INVARIANTS
    EachPageLinkedOnce
    PagesPartitioned
    FlagMatchesBlocks
    DeviceMemoryAccounted
PROPERTY
    ImplementsDeviceHeap
