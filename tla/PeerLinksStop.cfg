SPECIFICATION FairSpec
CONSTANTS
  ManualLink = {m1}
  DiscoveredLink = {d1}
  QueueMax = 1
  OutMax = 1
PROPERTY StopReturns
CHECK_DEADLOCK FALSE
