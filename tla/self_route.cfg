SPECIFICATION Spec
CONSTANTS
  a = a
  b = b
  c = c
  d = d
  s1 = s1
  s2 = s2
  s3 = s3
  s4 = s4
  c1 = c1
  c2 = c2
  sv = sv
  Node <- Four
  Seg <- PawSeg
  Attached <- Paw
  ClientPath <- OneClient
  ServPath = sv
  ServPort = 5500
  FirstPort = 909
  StaleParam = 1
  InitBound <- AllBound
  Want <- AtoD
  MaxMsg = 1
  MaxTick = 0
  FaultKind = {}
  MaxFault = 0
  Dist <- ShortestPath
INVARIANT NoSelfRoute
CHECK_DEADLOCK FALSE
