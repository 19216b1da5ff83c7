CONSTANTS
  Thread = {t1, t2, t3, t4}
  MaxSize = 2
SPECIFICATION FairSpec
INVARIANTS
  NoLostWakeup
PROPERTIES
  OnlyDrainsAfterStop
  StopReleases
