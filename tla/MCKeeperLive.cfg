CONSTANTS
  MaxU64 = 1000000
  MaxU128 = 100000
  Feed <- MCLiveFeed
  HeaderTimes <- MCLiveHeaderTimes
  Configs <- MCConfigs
  Amounts = {0, 1}
  SeedPts = {0}
SPECIFICATION KeeperFairSpec
PROPERTIES
  Driven
CHECK_DEADLOCK FALSE
