SPECIFICATION Spec
CONSTANTS
    Graphs <- TwoApart
    Programs <- MergeAfterMerge
    MaxNumber = 6
INVARIANTS MergedIsThere
CHECK_DEADLOCK FALSE
