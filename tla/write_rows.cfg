SPECIFICATION Spec
CONSTANTS
    Graphs <- SmallGraphs
    Programs <- Small
    MaxNumber = 6
INVARIANTS TypeOK NoDangling CreateMakesAll MergeCreatesOnce MergedIsThere RowsDenote CountsBelieved DeleteTakesNamed
PROPERTIES WritesOnlyAdd
CHECK_DEADLOCK FALSE
