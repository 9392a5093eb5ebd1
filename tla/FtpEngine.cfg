CONSTANTS
    Paths = {f1, f2}
    Listing = ls
    Size = 2
    MaxCalls = 4
SPECIFICATION Spec
INVARIANTS
    TypeOK
    OneTransfer
    RightIfTimely
PROPERTIES
    CallsReturn
CHECK_DEADLOCK FALSE
