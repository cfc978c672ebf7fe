SPECIFICATION Spec
CONSTANT
  Scripts = 3
  Codes = {0, 1}
  MaxLeaks = 2
INVARIANT TypeOK SuccessMeansRan RunsItsScript ShellsAccounted
PROPERTY RunsInTurn ProvisionEnds
CHECK_DEADLOCK FALSE
