SPECIFICATION Spec
INVARIANT ArtifactRegistered
CHECK_DEADLOCK FALSE
