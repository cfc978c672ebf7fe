CONSTANT MaxCancels = 1
SPECIFICATION Spec
INVARIANT CancelGivesError
CHECK_DEADLOCK FALSE
