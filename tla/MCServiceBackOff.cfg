CONSTANTS
  D = 2
  Lead = 1
  Grace = 1
  CloseGrace = 2
  Retry = 1
  First = 1
  Rounds = 1
  Horizon = 10
  MaxWakes = 2
  MaxScans = 1
  SweepEvery = 3
  MaxEvents = 0
  Slack = 0
SPECIFICATION Spec
PROPERTIES
  BackOff
CHECK_DEADLOCK FALSE
