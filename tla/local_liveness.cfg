SPECIFICATION FairSpec
CONSTANTS
  k1 = k1  k2 = k2  dSingle = dSingle  dBatch = dBatch  v1 = v1  v2 = v2
  r1 = r1  r2 = r2  r3 = r3
  Keys <- OneKey
  Digests <- TwoInputs
  Decisions <- TwoDecisions
  Requests <- ThreeRequests
  Size <- SizeOf
  Limit = 2
  MaxEnds = 0
  None = None
PROPERTIES
  ImplementsLedger
  EveryRequestEnds
