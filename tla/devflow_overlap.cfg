SPECIFICATION Spec
CONSTANTS
  N = 2
  Mode <- PairPlan
  NeedsApproval = {2}
  Git = TRUE
  Runs = {d1}
  Resumes = {d2}
  Cancels = {x1}
  Approvers = {d1}
  Reviews = {"approved", "rejected"}
  Overlap = TRUE
  Faults = TRUE
  Crashes = TRUE
INVARIANTS
  StagesInOrder
  ApprovalBeforeWork
  NoHollowSuccess
CHECK_DEADLOCK FALSE
