SPECIFICATION Spec
CHECK_DEADLOCK FALSE
CONSTANTS
    Threads = {t1, t2}
    RingSize = 256
    MaxLoads = 3
    Textures <- SomeTextures
    Limits <- SomeLimits
INVARIANTS
    StagedWhereAnnounced
    DeviceReadsWhatWasWritten
