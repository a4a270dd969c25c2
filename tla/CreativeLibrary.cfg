SPECIFICATION SideBySide
CONSTANTS
  a1 = a1
  a2 = a2
  p1 = p1
  p2 = p2
  Asset = {a1, a2}
  Version = {"v1", "v2"}
  Fingerprint = {"f1"}
  Proc = {p1, p2}
  None = None
  RecoversAlone = TRUE
  MaxWrites = 3
  MaxFaults = 2
  Dialects = {"responses", "chat", "plan", "completion"}
  MaxEvents <- EventsOfEach
  MaxCuts = 1
  Target = 2
  Plans <- TwoPlans
  Marked = {"clip", "outro"}
  MaxEdits = 1
  MaxMarks = 1
  MaxDeaths = 1
  Film = {a1, a2}
  NoFilm = None
  MaxCommands = 2
  MaxOpenings = 2
  MaxImports = 1
  MaxReloads = 1
  MaxOthers = 1
  Hasty = FALSE
  Absent = Absent
  OnSteps = TRUE
CHECK_DEADLOCK FALSE
INVARIANTS OneChangeLost  RoundIsWhole AutonomyIsBounded 
