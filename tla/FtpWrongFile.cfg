CONSTANTS
    Paths = {f1, f2}
    Listing = ls
    Size = 1
    MaxCalls = 3
SPECIFICATION Spec
INVARIANT RightFile
CHECK_DEADLOCK FALSE
