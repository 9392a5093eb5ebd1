CONSTANTS
    Reentrant = FALSE
    MaxQueries = 2
    MaxChunks = 2
SPECIFICATION Spec
INVARIANTS
    TypeOK
    QuietWhenIdle
PROPERTIES
    InTurn
    QueriesReturn
CHECK_DEADLOCK FALSE
