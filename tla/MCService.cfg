CONSTANTS
  D = 2
  Lead = 1
  Grace = 1
  CloseGrace = 2
  Retry = 1
  First = 1
  Rounds = 2
  Horizon = 10
  MaxWakes = 2
  MaxScans = 1
  SweepEvery = 4
  MaxEvents = 2
  Slack = 0
SPECIFICATION Spec
INVARIANTS
  OneTimer
  NothingLost
  NeverLate
  TicksInTime
  QuietAfterClose
CHECK_DEADLOCK FALSE
