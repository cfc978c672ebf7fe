CONSTANT MaxCancels = 2
SPECIFICATION Spec
INVARIANT TypeOK NoCrashUnasked InterruptNeverSucceeds SuccessMeansRestarted
PROPERTY ProvisionEnds ImplementsWait
CHECK_DEADLOCK FALSE
