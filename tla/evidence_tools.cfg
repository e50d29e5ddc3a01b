SPECIFICATION EvidenceSpec
CONSTANTS
  a1 = a1  a2 = a2  a3 = a3  a4 = a4  b1 = b1  b2 = b2
  Runs <- ThreeRuns
  Directories <- TwoDirectories
  None = None
  WorkerCounts <- TheWorkers
  ConcurrencyLevels <- TheConcurrency
  RepeatNumbers <- TheRepeats
  SmokeCell <- TheSmokeCell
  Mix <- TheMix
  GrowthRequests = 2
  Checkpoints = {1, 2}
  Misbehaviours = 2
  Stages = {"day2", "day3", "day4", "day5", "day6", "day7"}
  RowsOf <- TheRows
  Draws <- TheDraws
  Invocations <- TwoInvocations
  Targets <- FourTargets
  Elsewhere <- TheDefaults
  Trusted <- TrustedPlaces
  Strays <- TheStrays
  MaxMeddling = 1
  SqliteKeys = {k1}
  SqliteInputs = {x1, x2}
  SqliteVerdicts = {v1, v2}
  SqliteCallers <- ThreeCallers
  SqliteHandles <- TwoHandles
  NoValue = NoValue
SYMMETRY Symmetry
INVARIANTS
  AccessedOncePerDirectory
  RecordIsTruthful
  AcceptedMeansExactlyOnce
  OwnedIsReleased
  JudgedOnUnseenRows
  OneEventPerKey
PROPERTIES
  RecordMovesForward
  EvidenceIsKept
  EvidenceIsNamed
  SqliteImplementsLedger
