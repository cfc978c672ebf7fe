SPECIFICATION Spec
INVARIANT TypeOK ImageAccounted ImageFromStopped
PROPERTY ImplementsBuild InterruptEnds
CHECK_DEADLOCK FALSE
