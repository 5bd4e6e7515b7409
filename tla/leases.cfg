SPECIFICATION Spec
CONSTANTS
  s1 = s1  s2 = s2  s3 = s3  s4 = s4
  Sessions = {s1, s2, s3, s4}
  Lock <- OneLock
  Dir <- MixedDir
  Journal <- MixedJournal
  Ttl <- MixedTtl
  Timeout <- OneTick
  Slack = 1
  Orphans = {s3}
  MaxTime = 5
INVARIANTS
  ExclusiveWorkers
  OneActiveLease
PROPERTIES
  LeaseIsKept
CHECK_DEADLOCK FALSE
