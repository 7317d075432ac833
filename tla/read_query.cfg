\* Queries of two and three clauses over every small graph.
SPECIFICATION Spec
CONSTANTS
    IdOrder <- IdsInOrder
    Graphs <- SmallGraphs
    Queries <- Agreeing
INVARIANTS TypeOK InOrder
PROPERTIES Answered
CHECK_DEADLOCK FALSE
