SPECIFICATION MCSpec
CONSTANTS
  Paths = {1, 2}
  Texts <- TwoFiles
  Lines <- Blocks
  Undecodable <- Binary
  MaxSize = 4
  Window = 1
  Worker = "worker"
  Indexers = {"index"}
  BatchSize = 2
  MaxEdits = 2
  MaxFaults = 1
INVARIANTS
  ReadyMeansRecorded
PROPERTIES
  PointsStayKnown
  Converges
CHECK_DEADLOCK FALSE
