SPECIFICATION Spec
CONSTANTS
  k1 = k1  k2 = k2  d1 = d1  d2 = d2  v1 = v1  v2 = v2
  r1 = r1  r2 = r2  r3 = r3  p1 = p1  p2 = p2
  Keys <- OneKey
  Digests <- OneDigest
  Decisions <- OneDecision
  Requests <- TwoRequests
  Processes <- TwoProcesses
  TTL = 1
  MaxTime = 1
  MaxCrashes = 0
  None = None
SYMMETRY Symmetry
INVARIANTS
  StaleIsTerminal
