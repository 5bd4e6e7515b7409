SPECIFICATION FairSpec
CONSTANTS
  Profiles = {"hypermemory", "qmd"}
  Default = "hypermemory"
  Reinstalled = {"qmd"}
  Hypermemory = {"hypermemory"}
  Commands = {"setup", "bootstrap", "configure", "activate", "doctor"}
  Trees <- TwoTrees
  Shipped <- ShippedTree
  MaxCommands = 2
  MaxFaults = 1
INVARIANTS
  SetupDelivers
  MarkedHostWorks
  DatabaseOpens
PROPERTIES
  Recovers
CHECK_DEADLOCK FALSE
