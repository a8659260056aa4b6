SPECIFICATION PageSpec
CONSTANTS
    PageSize = 8
    Sizes <- MCSizes
    Aligns <- MCAligns
INVARIANTS
    Partition
    ValidFreeBlockList
    DestroyOnlyLast
PROPERTY
    ImplementsPageMemory
