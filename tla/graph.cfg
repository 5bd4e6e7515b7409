SPECIFICATION MCSpec
CONSTANTS
  Paths = {"f", "g"}
  Symbols = {"s", "t"}
  Texts <- TwoTexts
  Worker = "worker"
  Indexers = {"index"}
  Degradable = {"worker"}
  Depth = 2
  Limit = 2
  None = None
  MaxEdits = 2
  MaxFaults = 1
INVARIANTS
  EdgesMatchFiles
PROPERTIES
  GraphsAlign
CHECK_DEADLOCK FALSE
