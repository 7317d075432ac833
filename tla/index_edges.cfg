SPECIFICATION Spec
CONSTANTS
  a = a
  b = b
  c = c
  Worker = Worker
  Session = {s}
  Entity = {a, b, c}
  LastVertex = 2
  Home <- MCHome
  Value = {1, 2}
  OnEdges = TRUE
  Configured = FALSE
  Ops = {"create", "process"}
  FaultAt = {"write", "write_one"}
  BatchLimit = 1
  PassLimit = 2
  MaxEnqueues = 1
  MaxDrops = 0
  MaxWrites = 1
  MaxCrashes = 1
  MaxFaults = 1
INVARIANTS CheckpointCovers BuildCovers
PROPERTIES BuildFinishes BuildsKeepProperties
CHECK_DEADLOCK FALSE
