SPECIFICATION Spec
CONSTANTS
  v1 = v1
  v2 = v2
  e1 = e1
  e2 = e2
  K1 = K1
  K2 = K2
  Vertex = {v1, v2}
  Edge = {e1}
  Label = {}
  Unlabeled = Unlabeled
  Prop = {}
  Kind = {K1}
  Src <- MCSrc
  Dst <- MCDst
  Type <- MCType
  Tx = {t1, t2}
  Absent = Absent
  Unwritten = Unwritten
  DetachScanThreshold = 2
  MaxBatch = 2
  MaxCalls = 4
INVARIANT NoDanglingEdges
SYMMETRY Writers
