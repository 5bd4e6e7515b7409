SPECIFICATION FairSpec
CONSTANTS
  Texts = {"utc", "cet", "tea"}
  KeyOf <- Keyed
  NoKey = "none"
  NoText = "nothing"
  Notes <- PlainNotes
  Captures <- TwoZones
  Typed = {"tea"}
  MaxEvents = 3
  MaxHits = 1
INVARIANTS
  StoredFactIsCurrent
  VectorsTellTruth
PROPERTIES
  FlushKeepsMeaning
  Refreshes
CHECK_DEADLOCK FALSE
