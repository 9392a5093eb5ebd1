CONSTANT MaxId = 2
SPECIFICATION Spec
INVARIANTS
    TypeOK
    NoUseAfterDestroy
    NoDanglingThread
    StatusTells
PROPERTIES
    FinishEnds
    DestroyReturns
CHECK_DEADLOCK FALSE
