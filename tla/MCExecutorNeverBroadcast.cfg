\* One wake and one crash are enough.
SPECIFICATION Spec
CONSTANTS
  p1 = p1
  p2 = p2
  r1 = r1
  Pools <- MCPools
  Rounds <- MCRounds
  MaxWakes = 1
  MaxFaults = 1
INVARIANT NeverBroadcast
CHECK_DEADLOCK FALSE
