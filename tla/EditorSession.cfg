SPECIFICATION SideBySide
CONSTANTS
  Window = {w1, w2}
  s1 = s1
  s2 = s2
  s3 = s3
  Segment = {s1, s2, s3}
  SegmentRange <- Ranges
  Length = 3
  MAX_HISTORY = 2
  UndoneTogether = FALSE
  AgentBehind = FALSE
  MaxEdits = 3
  MaxCalls = 2
  MaxSent = 5
  MaxFaults = 1
  Target <- ClipAndFinding
  Kept <- OneFinding
  Reselects = FALSE
  MaxRevisions = 2
  MaxAttached = 3
  MaxRequests = 1
PROPERTIES  CutIsExact PanelIsTrue
SYMMETRY Symmetry
CHECK_DEADLOCK FALSE
