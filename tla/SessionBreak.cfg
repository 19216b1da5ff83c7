SPECIFICATION Spec
CONSTANTS
  Topic = {a}
  Instance = {i}
  ControlMax = 10
  OutMax = 1
  InMax = 3
  PipeMax = 10
  Backlog = 2
  Fault = {"break"}
  MaxFaults = 1
INVARIANT SettledSubscribed
CHECK_DEADLOCK FALSE
