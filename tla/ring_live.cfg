SPECIFICATION FairSpec
CONSTANTS
  a = a
  b = b
  c = c
  d = d
  s1 = s1
  s2 = s2
  s3 = s3
  s4 = s4
  c1 = c1
  c2 = c2
  sv = sv
  Node <- Three
  Seg <- RingSeg
  Attached <- Ring
  ClientPath <- OneClient
  ServPath = sv
  ServPort = 5500
  FirstPort = 909
  StaleParam = 1
  InitBound <- AllBound
  Want <- AandBtoC
  MaxMsg = 2
  MaxTick = 0
  FaultKind = {}
  MaxFault = 0
  Dist <- ShortestPath
INVARIANTS NoStranded FloodBounded NextHopKnows ParkedAtHome
PROPERTIES EventuallyAnswered EventuallyQuiet
CHECK_DEADLOCK FALSE
