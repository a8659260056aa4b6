SPECIFICATION Spec
CONSTANT
    Uses <- MixedUses
INVARIANTS
    NoOverlap
    OldestIsAccepted
PROPERTIES
    OvertakingBreaks
    ImplementsRangeFifo
