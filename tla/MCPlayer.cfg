SPECIFICATION Spec
CONSTANTS
  MaxU64 = 1000000
  MaxU128 = 1000000000
  h1 = h1
  h2 = h2
  c = c
  Holders = {h1, h2}
  Creator = c
  Purses <- MCPurses
  Stakes <- MCStakes
  Pulls <- MCPulls
  BurnSides <- MCBurnSides
  Rounds <- MCRounds
  MaxAsks <- MCMaxAsks
  MaxCorrections = 0
  MaxForeign = 1
INVARIANTS
  DraftsStand
  NothingOrphaned
PROPERTIES
  ImplementsAccounts
CHECK_DEADLOCK FALSE
