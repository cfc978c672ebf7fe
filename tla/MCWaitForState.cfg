CONSTANTS
  States <- InstanceStates
  Pending = {"pending"}
  Target = "running"
  Successors <- InstanceSuccessors
  HasStepState = TRUE
  TimeoutSeconds = 5
SPECIFICATION Spec
INVARIANT TypeOK MissingForTimeout PromptInterrupt
PROPERTY InterruptEnds
CHECK_DEADLOCK FALSE
