SPECIFICATION SideBySide
CONSTANTS
  c1 = c1
  c2 = c2
  Call = {c1, c2}
  Kind <- EditInspectionWorkflow
  Deps <- Chain
  Gated <- FirstIsGated
  MaxAttempts = 2
  MaxTotal = 3
  MaxPlan = 2
  MaxEdits = 1
  MaxLife = 2
  Nobody = Nobody
  r1 = r1
  r2 = r2
  r3 = r3
  Caller = {r1, r2, r3}
  ProcessOf <- TwoServers
  Kept = {"job", "workflow", "session", "mission", "protection", "analysis", "report"}
  OneServer = {"job"}
  FirstServer = "first"
  MaxSpoilt = 1
  MaxFailures = 1
  Document <- Videos
  Media = {"film", "photo", "voice", "lost"}
  MediaKind <- MediaKinds
  MediaLength <- MediaLengths
  Absent = {"lost"}
  Fps = 10
  ExportFps = {4, 10, 12, 15}
  Outlives = FALSE
  RenderEdits = 1
  MaxRenders = 2
SYMMETRY Interchangeable
CHECK_DEADLOCK FALSE
INVARIANTS EditedOnce BuildsOnItsOwn RecordsAreAccepted  TornCostsOne
