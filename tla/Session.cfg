SPECIFICATION FairSpec
CONSTANTS
  Topic = {a}
  Instance = {i}
  ControlMax = 10
  OutMax = 1
  InMax = 4
  PipeMax = 10
  Backlog = 1
  Fault = {"timeout", "restart", "break"}
  MaxFaults = 1
INVARIANT SettledUnlessBroken
PROPERTY EventuallySubscribed
PROPERTY ShutdownCompletes
CHECK_DEADLOCK FALSE
