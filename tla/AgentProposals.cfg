SPECIFICATION SideBySide
CONSTANTS
  t1 = t1
  t2 = t2
  Turn = {t1}
  Mode <- SafeEdits
  Kinds = {"plan", "edit", "create", "action", "job"}
  MaxRounds = 1
  MaxProposals = 1
  MaxEdits = 1
  Nobody = Nobody
  c1 = c1
  c2 = c2
  Call = {c1, c2}
  Choice = {"all", "some"}
  MaxServed = 2
  Mortal = {c1}
  r1 = r1
  r2 = r2
  p1 = p1
  p2 = p2
  Request = {r1, r2}
  Project = {p1, p2}
  Concurrency = 1
  RateLimit = 1
  MaxServers = 2
  MaxIssued = 2
  None = None
  Serial = TRUE
  ProjectId = {p1, p2}
  NoProject = NoProject
  MaxInFlight = 2
  MaxAsked = 4
CHECK_DEADLOCK FALSE
INVARIANTS OneEffect AtItsRevision AppliedIsTrue 
PROPERTIES RejectionStands
SYMMETRY Interchangeable
