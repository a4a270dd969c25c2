SPECIFICATION FairSpec
CONSTANTS
  a1 = a1
  a2 = a2
  b1 = b1
  b2 = b2
  A = A
  B = B
  Call = {a1, a2, b1, b2}
  Process = {A, B}
  Home <- TwoEach
  Mortal = {A}
  Straggle = FALSE
  NoCall = NoCall
  Unwritten = Unwritten
 
PROPERTIES NotWedged
CHECK_DEADLOCK FALSE
