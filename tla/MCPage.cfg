SPECIFICATION FairPage
CONSTANTS
  MaxU64 = 1000000
  MaxU128 = 100000
  Stakes = {2}
  MaxSide = 4
  Favourites = {"UP"}
  Rakes = {2500}
INVARIANTS
  NeverRefused
  NeverInvalid
  QuoteKept
  RefusalsTrue
PROPERTIES
  OnlyOwnSideDilutes
  RowsFollow
  RowsSettle
CHECK_DEADLOCK FALSE
