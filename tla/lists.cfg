SPECIFICATION FairSpec
CONSTANTS
  d1 = d1
  d2 = d2
  d3 = d3
  Dest <- Three
  News <- SomeNews
  Parked <- Frames
  MaxAlloc = 3
  StaleParam = 1
INVARIANT ListsLinked
PROPERTIES TablesImplemented SearchesEnd
CHECK_DEADLOCK FALSE
