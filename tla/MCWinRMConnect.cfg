SPECIFICATION Spec
INVARIANT TypeOK HaltExplained OneLateQuery
PROPERTY RunReturns WaiterEnds ImplementsWait
CHECK_DEADLOCK FALSE
