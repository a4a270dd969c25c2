SPECIFICATION Spec
CONSTANTS
  Proc = {p, q}
  Parent = {a, b}
  Job = {j1}
  Limit = 2
  MaxAttempt = 3
  Staggered = TRUE
  Orphans = FALSE
  WorkerDies = TRUE
  NoJob = NoJob
  NoParent = NoParent
INVARIANTS OneExecution CancelIsHonoured
PROPERTIES NoLiveJobInterrupted ImplementsLifecycle
SYMMETRY Interchangeable
CHECK_DEADLOCK FALSE
