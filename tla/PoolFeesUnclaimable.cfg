\* One provider in one pool with a large fee.
CONSTANTS
  Tokens = {1, 2}
  Providers = {ann}
  FeeTiers = {4}
  Bps = 10
  MinLP = 1
  Amounts = {4, 5, 6}
  HopLimits = {2}
  MaxPools = 1
  MaxReserve = 12
SPECIFICATION Spec
INVARIANT FeesAreClaimable
