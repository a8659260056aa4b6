SPECIFICATION Spec
CONSTANTS
    Threads = {t1, t2, t3}
    NoThread = none
    Count = 2
INVARIANTS
    SlotHasOneOwner
    OneSlotEach
    RefusedOnlyWhenCrowded
    BufferAllocatedOnce
PROPERTY
    CallsEnd
