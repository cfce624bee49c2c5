CONSTANTS
  MaxU64 = 1000000
  MaxU128 = 100000
  Feed <- MCFeed
  HeaderTimes <- MCHeaderTimes
  Configs <- MCConfigs
  Amounts = {0, 1, 3}
  SeedPts = {7}
SPECIFICATION FairSpec
INVARIANTS
  TypeOK
  EscrowExact
  SharesBacked
  Solvent
  DustBounded
  RefundExact
  ClaimsRedeemable
  PricesAreTicks
  PaidAfterContest
PROPERTIES
  RoundEnds
  CapitalReturns
  ResultLatched
  ContestMovesEarlier
  MintsOnlyFunded
  ImplementsParimutuel
CHECK_DEADLOCK FALSE
