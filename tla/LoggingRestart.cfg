CONSTANTS
    Threads = {t1, t2}
    Main = t1
    None = None
    Names = {n1, n2}
    DefaultName = n1
    Levels = {1}
    Thresholds = {2, 3}
    Limit = 1
    Restart = TRUE
    MaxStarts = 1
    MaxCalls = 1
SPECIFICATION Spec
INVARIANT NameGuarded
CHECK_DEADLOCK FALSE
