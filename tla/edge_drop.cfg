SPECIFICATION Spec
CONSTANTS
  a = a
  b = b
  c = c
  Worker = Worker
  Session = {s}
  Entity = {a, c}
  LastVertex = 2
  Home <- MCHome
  Value = {1}
  OnEdges = TRUE
  Configured = FALSE
  Ops = {"create", "drop"}
  FaultAt = {}
  BatchLimit = 2
  PassLimit = 2
  MaxEnqueues = 1
  MaxDrops = 1
  MaxWrites = 0
  MaxCrashes = 0
  MaxFaults = 0
PROPERTIES OnlyWritesChangeProperties
CHECK_DEADLOCK FALSE
