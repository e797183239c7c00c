CONSTANT MaxBlocks = 3
SPECIFICATION Spec
CHECK_DEADLOCK FALSE
INVARIANT AcyclicDependenciesOrdered
