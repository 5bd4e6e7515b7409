SPECIFICATION FairSpec
CONSTANTS
  Keys = {k1}
  Wrappers = {w1, w2}
  Reviewers = {r1}
  Operators = {o1}
  WrapperCommands = {"create", "dry_run", "execute"}
  ReviewerCommands = {"approve", "reject", "delegate", "ingest_allow", "ingest_deny"}
  OperatorCommands = {"begin", "approved", "cancelled", "pending_approval"}
  Verdicts = {"allow", "require_approval", "deny"}
  Crashes = TRUE
  Overlap = FALSE
  Isolated = TRUE
INVARIANTS
  TypeOK
  ReplayReportsExecution
  AtMostOnce
  ReviewStands
PROPERTIES
  LifecycleSpec
  RunningResolves
CHECK_DEADLOCK FALSE
