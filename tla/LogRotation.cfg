CONSTANTS
    Count = 2
    MaxSize = 2
    MaxMsgs = 9
    MaxFaults = 3
SPECIFICATION Spec
INVARIANTS
    TypeOK
    NewestGapFree
    SizeBound
    NoDuplicates
PROPERTIES
    EvictWhenFull
    RollingSpec
CHECK_DEADLOCK FALSE
