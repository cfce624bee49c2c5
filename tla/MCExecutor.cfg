\* Two overlapping wakes, two faults.
SPECIFICATION FairSpec
CONSTANTS
  p1 = p1
  p2 = p2
  r1 = r1
  Pools <- MCPools
  Rounds <- MCRounds
  MaxWakes = 2
  MaxFaults = 2
INVARIANTS
  OneOpenRow
  CommittedIsTrue
  DuplicatesNeedFaults
  DraftsOnCommitted
PROPERTIES
  Progress
\* All is done: nothing is due any more.
CHECK_DEADLOCK FALSE
