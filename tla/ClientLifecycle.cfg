SPECIFICATION FairSpec
CONSTANTS
  t1 = t1
  t2 = t2
  i1 = i1
  i2 = i2
  k = k
  direct = direct
  r = r
  None = None
  App = {t1, t2}
  Inst = {i1, i2}
  Key = {k}
  Owner = {direct}
  Direct = {direct}
  Req = {r}
  ReplySize = {1, 2}
  OutCap = 1
  QueueMax = 1
  PendingMax = 1
  May <- MCMay
INVARIANTS
  HeldIsAlive
  RequestsCleanUp
  AbortsOnlyInCallback
PROPERTIES
  DestructorReturns
  
CHECK_DEADLOCK FALSE
