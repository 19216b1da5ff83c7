SPECIFICATION Spec
CONSTANTS
  Topic = {a}
  Instance = {i}
  ControlMax = 10
  OutMax = 1
  InMax = 3
  PipeMax = 10
  Backlog = 2
  Fault = {}
  MaxFaults = 0
INVARIANT GoodbyeIsFinal
CHECK_DEADLOCK FALSE
