SPECIFICATION Spec
CONSTANTS
  a = a
  b = b
  c = c
  Worker = Worker
  Session = {s}
  Entity = {a, b}
  LastVertex = 2
  Home <- MCHome
  Value = {1, 2}
  OnEdges = FALSE
  Configured = FALSE
  Ops = {"create", "process"}
  FaultAt = {"put", "read", "save", "finish"}
  BatchLimit = 1
  PassLimit = 1
  MaxEnqueues = 1
  MaxDrops = 0
  MaxWrites = 2
  MaxCrashes = 1
  MaxFaults = 1
INVARIANTS TypeOK CheckpointCovers BuildCovers
CHECK_DEADLOCK FALSE
