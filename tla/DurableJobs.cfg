SPECIFICATION FairSpec
CONSTANTS
  Proc = {p}
  Parent = {a, b}
  Job = {j1, j2}
  Limit = 1
  MaxAttempt = 2
  Staggered = TRUE
  Orphans = TRUE
  WorkerDies = FALSE
  NoJob = NoJob
  NoParent = NoParent
INVARIANTS NoneLeftRunning
 
CHECK_DEADLOCK FALSE
