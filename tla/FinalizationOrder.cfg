CONSTANT MaxBlocks = 4
SPECIFICATION Spec
CHECK_DEADLOCK FALSE
INVARIANTS
    EachBlockOnce
    DependenciesIntact
    FinalizerSeesMemory
