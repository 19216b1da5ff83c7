SPECIFICATION FairSpec
CONSTANTS
  a = a
  b = b
  c = c
  Host = {a, b, c}
  Uuid = {1, 2, 3}
  InitUuid <- MCInitUuid
  ClusterOf <- MCClusterOf
  Fragile = {}
  MaxDrops = 2
  Msg = {m1}
INVARIANTS
  RoutedOnce
PROPERTIES
  
  FloodReaches
  FloodDiesOut
CHECK_DEADLOCK FALSE
