SPECIFICATION PageSpec
CONSTANTS
  MaxU64 = 1000000
  MaxU128 = 15
  Stakes = {2}
  MaxSide = 4
  Favourites = {"UP"}
  Rakes = {0}
INVARIANT
  NeverInvalid
CHECK_DEADLOCK FALSE
