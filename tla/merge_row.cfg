SPECIFICATION Spec
CONSTANTS
    Graphs <- NoVertices
    Programs <- MergeTwoLabels
    MaxNumber = 6
INVARIANTS RowsDenote
CHECK_DEADLOCK FALSE
