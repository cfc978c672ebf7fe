CONSTANTS
  States <- InstanceStates
  Pending = {"pending"}
  Target = "running"
  Successors <- InstanceSuccessors
  HasStepState = TRUE
  TimeoutSeconds = 5
SPECIFICATION Spec
INVARIANT WithinTimeout
CHECK_DEADLOCK FALSE
