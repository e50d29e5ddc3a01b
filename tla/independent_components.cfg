SPECIFICATION ComponentsSpec
CONSTANTS
  FreeEvents <- TheFreeEvents
  Replayed <- Scenarios
  Draws <- TheDraws
  Instants = {0, 60, 86400, 86460}
  Retention = 86400
  MaxEvents = 6
  MaxArrivals = 4
  Carts <- TheCarts
  Tables <- TheTables
  Versions = {"v1", "v2"}
  QuoteIds = {"q1"}
  EventIds = {"e1", "e2"}
  Amounts <- TheAmounts
  Times = {0, 1, 2}
  Validity = 1
  MaxQuantity = 3
  MaxLines = 2
  MaxTotal = 100
  Operators = {"oA", "oB", "oC", "oD"}
  Releases <- TheRelease
  Applies = {"oA", "oB", "oC"}
  WithRole = {"oA", "oB", "oC"}
  Nobody = "nobody"
  Frames <- TheFrames
  Splits <- TheSplits
  TestRows <- TheTestRows
  Timelines <- TheTimelines
  Gaps = {0, 1, 2}
  Comparisons <- TheComparisons
  Anchor = "anchor"
  Evidence0 <- TheReference
  Nothing = Nothing
  Publishers = {"a", "b"}
  Candidates <- TheCandidates
  Quarantined = Quarantined
  Loaders = {"l"}
  Runtime = "runtime"
  Accidents = 1
  Nobody0 = Nobody0
  RowCounts <- TheRowCounts
  Samples <- TheSamples
  Boards <- TheBoards
  Thresholds = {1, 2, 3}
  Capacities = {1, 2, 3}
  Sources <- TheSources
  Assignments <- TheAssignments
  MaxCommands = 11
  Headers <- TheHeaders
  ValidIds = {"id1", "id2"}
  FreshId = "uuid"
  MaxBytes = 3
  MaxChunks = 3
  Absent = Absent
  XContents <- TheXContents
  YContents <- TheYContents
  OtherColumns = OtherColumns
  TestTotal = 2
  TestFraud = 1
  TrainingFrames <- TheTrainingFrames
  Recipe <- TheRecipe
  Missing = Missing
  MaxDisturbances = 3
INVARIANTS
  ReportedIsExact
  ScenariosShowTheirPattern
  OneEligiblePerQuote
  VerifiedIsExact
  HistoryMatchesSchema
  CurrentStaysTrue
  SelectionsAreSound
  FeaturesAreFaithful
  ReturnedStays
  ServedIsWhole
  ProducedDataIsSound
  FinalScoresAreHeldOut
  RequestsAreAccountedFor
  NoModelSawTestRows
