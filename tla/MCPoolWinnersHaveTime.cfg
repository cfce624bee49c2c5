CONSTANTS
  MaxU64 = 1000000
  MaxU128 = 100000
  Feed <- MCFeed
  HeaderTimes <- MCHeaderTimes
  Configs <- MCClaimConfigs
  Amounts = {0, 1, 2}
  SeedPts = {0}
SPECIFICATION Spec
INVARIANT
  WinnersHaveTime
CHECK_DEADLOCK FALSE
