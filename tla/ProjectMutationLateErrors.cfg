CONSTANTS
  Worker = {w1, w2}
  Op = {o1, o2}
  Payload = {p1, p2}
  MaxRevision = 3
  LateSaveErrors = TRUE
  NoWorker = NoWorker
  NoPayload = NoPayload
SPECIFICATION Spec
PROPERTIES NoLostUpdate
