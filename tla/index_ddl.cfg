SPECIFICATION Spec
CONSTANTS
  a = a
  b = b
  c = c
  Worker = Worker
  Session = {s, t}
  Entity = {a, b}
  LastVertex = 2
  Home <- MCHome
  Value = {1}
  OnEdges = FALSE
  Configured = FALSE
  Ops = {"create", "restart", "drop"}
  FaultAt = {"put", "revision", "collect", "dequeue"}
  BatchLimit = 1
  PassLimit = 2
  MaxEnqueues = 2
  MaxDrops = 1
  MaxWrites = 0
  MaxCrashes = 1
  MaxFaults = 1
PROPERTIES JobNeverRewinds BuildFinishes
CHECK_DEADLOCK FALSE
