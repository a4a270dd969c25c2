SPECIFICATION Spec
CONSTANTS
  Missions = 2
  Call = {c1, c2}
  maxConcurrency = 2
  None = None
  Dead = Dead
  MaxRequests = 2
  MaxFaults = 1
INVARIANTS OneRunner ReportIsTrue
PROPERTY CancelHolds
SYMMETRY Symmetry
CHECK_DEADLOCK FALSE
