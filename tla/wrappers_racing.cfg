SPECIFICATION Spec
CONSTANTS
  Keys = {k1}
  Wrappers = {w1, w2}
  Reviewers = {r1}
  Operators = {o1}
  WrapperCommands = {"create", "execute"}
  ReviewerCommands = {"approve", "reject", "ingest_deny"}
  OperatorCommands = {"begin", "approved"}
  Verdicts = {"allow", "require_approval", "deny"}
  Crashes = FALSE
  Overlap = TRUE
  Isolated = FALSE
SYMMETRY CommandSymmetry
INVARIANTS
  PolicyGate
  ApprovalGate
CHECK_DEADLOCK FALSE
