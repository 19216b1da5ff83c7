SPECIFICATION FairSpec
CONSTANTS
  ManualLink = {m1}
  DiscoveredLink = {d1, d2}
  QueueMax = 1
  OutMax = 1
INVARIANT FloodTargetsAlive
INVARIANT DialedAreLinked
INVARIANT StoppedMeansQuiet
PROPERTY FloodEnds
PROPERTY StopReturnsUnlessDropping
CHECK_DEADLOCK FALSE
