SPECIFICATION FairSpec
CONSTANTS
  Topic = {"a", "b"}
  Name = {"c"}
  Word = {"a", "c"}
  None = None
  MaxPacketHistory = 2
  TrimChunk = 1
  MaxSent = 3
  TapMax = 3
  OutMax = 1
INVARIANTS
  
  ShownIsFiltered
PROPERTIES
  
  ClosesOnceStarted
CHECK_DEADLOCK FALSE
