SPECIFICATION FairSpec
CONSTANTS
  Jobs = {1, 2}
  Restores = {1}
  Linked = {2}
  Clis = {TRUE, FALSE}
  Retain = 1
  MaxClock = 3
INVARIANTS
  PublishedIsWhole
  BackupIsKept
PROPERTIES
  LeftoversGo
CHECK_DEADLOCK FALSE
