SPECIFICATION Spec
INVARIANT NoInstanceLeft
CHECK_DEADLOCK FALSE
