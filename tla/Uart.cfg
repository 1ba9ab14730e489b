SPECIFICATION Spec
CONSTANT MaxBytes = 1
INVARIANT FifoIsOn
CHECK_DEADLOCK FALSE
