CONSTANTS
  MaxU64 = 1000000
  MaxU128 = 100000
  Feed <- MCFeed
  HeaderTimes <- MCHeaderTimes
  Configs <- MCConfigs
  Amounts = {0, 1}
  SeedPts = {0}
SPECIFICATION KeeperSpec
INVARIANTS
  DecisionBuildable
  OverdueIsActionable
  RowsNeverBlock
PROPERTIES
  ImplementsPool
CHECK_DEADLOCK FALSE
