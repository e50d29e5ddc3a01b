SPECIFICATION Spec
CONSTANTS
  k1 = k1  k2 = k2  dSingle = dSingle  dBatch = dBatch  v1 = v1  v2 = v2
  r1 = r1  r2 = r2  r3 = r3
  Keys <- TwoKeys
  Digests <- TwoInputs
  Decisions <- OneDecision
  Requests <- ThreeRequests
  Size <- SizeOf
  Limit = 2
  MaxEnds = 2
  None = None
SYMMETRY Symmetry
INVARIANTS
  ReleasedIsAudited
  OncePerLifetime
  GateCountsWorkers
PROPERTIES
  BrokenLogIsFrozen
