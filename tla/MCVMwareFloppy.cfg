SPECIFICATION Spec
INVARIANT FloppyUnmounted
CHECK_DEADLOCK FALSE
