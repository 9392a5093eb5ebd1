CONSTANTS
    Reentrant = TRUE
    MaxQueries = 2
    MaxChunks = 1
SPECIFICATION Spec
INVARIANT EmptyOnFailure
CHECK_DEADLOCK FALSE
