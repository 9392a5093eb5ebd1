CONSTANTS
    Callers = {c1}
    Names = {a, b}
    Contents = {v}
    MaxCalls = 3
    MaxFaults = 1
SPECIFICATION ArchivesSpec
PROPERTIES
    ReadsBack
CHECK_DEADLOCK FALSE
