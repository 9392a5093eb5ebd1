CONSTANT MaxId = 1
SPECIFICATION Spec
INVARIANT NeverFails
CHECK_DEADLOCK FALSE
