SPECIFICATION Spec
INVARIANT TypeOK ArtifactClean
PROPERTY ImplementsBuild InterruptEnds
CHECK_DEADLOCK FALSE
