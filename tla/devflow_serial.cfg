SPECIFICATION FairSpec
CONSTANTS
  N = 3
  Mode <- ShortPlan
  NeedsApproval = {3}
  Git = TRUE
  Runs = {d1}
  Resumes = {d2, d3}
  Cancels = {x1}
  Approvers = {d2, d3}
  Reviews = {"approved", "rejected"}
  Overlap = FALSE
  Faults = TRUE
  Crashes = TRUE
INVARIANTS
  WorkerOncePerStage
  WorkerBuildsOnLast
  RestingRunResumes
PROPERTIES
  RunSettles
CHECK_DEADLOCK FALSE
