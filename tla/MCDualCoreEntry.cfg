SPECIFICATION Spec
CONSTANT NodeCounts <- MCNodeCounts
INVARIANT ImplementationIntact
CHECK_DEADLOCK FALSE
