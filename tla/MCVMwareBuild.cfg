SPECIFICATION Spec
INVARIANT TypeOK AtRest ArtifactWhole
PROPERTY ImplementsBuild OldDirKept InterruptEnds
CHECK_DEADLOCK FALSE
