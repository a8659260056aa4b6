SPECIFICATION Spec
CONSTANTS
    Threads = {t1, t2, t3}
    Events = {1, 2}
    Manual = {2}
    Waits <- MCWaits
INVARIANTS
    NoLostWakeup
PROPERTIES
    ImplementsEventObjects
    SatisfiedWaitEnds
