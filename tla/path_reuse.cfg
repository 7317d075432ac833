\* A chain of three named hops.
SPECIFICATION Spec
CONSTANTS
    IdOrder <- IdsInOrder
    Graphs <- SmallGraphs
    Queries <- ThreeHops
INVARIANTS PathUnique
CHECK_DEADLOCK FALSE
