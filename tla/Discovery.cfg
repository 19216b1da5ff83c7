SPECIFICATION FairSpec
CONSTANTS
  n1 = n1
  n2 = n2
  n3 = n3
  n4 = n4
  n5 = n5
  Bar = Bar
  Host <- MCHost
  Uuid = {1, 2, 3, 4, 5, 6, 7}
  InitUuid <- MCInitUuid
  ClusterOf <- MCClusterOf
  BindAddresses <- MCBindAddresses
  Fragile = {n2}
  PeerTimeout = 1
  MaxCrashes = 1
  MaxMisses = 4
INVARIANTS
  BeaconRoundTrip
PROPERTIES
  ImplementsTopology
  OnlySilentDropped
  MeshForms
CHECK_DEADLOCK FALSE
