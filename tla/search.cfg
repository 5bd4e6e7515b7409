SPECIFICATION Spec
CONSTANTS
  About <- FourEntries
  NoKey = "none"
  Alike <- SameWords
  Tables <- SmallTables
  Limits = {1, 3}
  Unit = 4
  Penalty = 3
  MinScore = 1
  RerankPool = 2
  FailOpen = TRUE
  MaxReindexes = 1
INVARIANTS
  HitsAreLive
  NoOutdatedFact
  BestFirst
