CONSTANTS
  Client = {c1, c2}
  Wildcard = w
  StatsTopic = s
  Topic = {w, s}
  Uuid = {u1, u2, u3}
  ClientTimeout = 2
  CleanupInterval = 1
  StatsInterval = 0
  MaxHistory = 2
SPECIFICATION FairSpec
INVARIANTS
  SidesAgree
  DedupWindow
PROPERTIES
  OnlyLeaversAndZombies
  ImplementsPubSub
  SilentClientsExpire
