CONSTANTS
  w1 = w1
  w2 = w2
  w3 = w3
  o1 = o1
  o2 = o2
  o3 = o3
  p1 = p1
  p2 = p2
  Worker = {w1, w2}
  Op = {o1, o2, o3}
  Payload = {p1, p2}
  MaxRevision = 3
  LateSaveErrors = FALSE
  NoWorker = NoWorker
  NoPayload = NoPayload
  native = native
  normalised = normalised
  Import = {native, normalised}
  c1 = c1
  c2 = c2
  l1 = l1
  Caller = {c1, c2}
  Lister = {l1}
  Plan <- EachPlan
  Careless = {}
  MaxSaves = 2
  MaxDeaths = 1
  Nobody = Nobody
SPECIFICATION SideBySide
SYMMETRY Symmetry
  
PROPERTIES ImplementsRegister
