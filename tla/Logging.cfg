CONSTANTS
    Threads = {t1, t2}
    Main = t1
    None = None
    Names = {n1}
    DefaultName = n1
    Levels = {1, 3}
    Thresholds = {3}
    Limit = 1
    Restart = TRUE
    MaxCalls = 3
    MaxStarts = 1
SPECIFICATION Spec
INVARIANTS
    TypeOK
    SameOrder
    PoolIsNewest
PROPERTIES
    CallsReturn
CHECK_DEADLOCK FALSE
