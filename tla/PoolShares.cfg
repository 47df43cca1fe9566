\* Up to two pools over three tokens, two providers, fees of 10% and 40%: all
\* deposits, withdrawals and trades of small pools, direct and two-hop routes.
CONSTANTS
  Tokens = {1, 2, 3}
  Providers = {ann, bob}
  FeeTiers = {1, 4}
  Bps = 10
  MinLP = 1
  Amounts = {2, 5}
  HopLimits = {2}
  MaxPools = 2
  MaxReserve = 6
SYMMETRY ProviderSymmetry
SPECIFICATION Spec
INVARIANTS SharesBacked SupplyWithinMean NoRoundTripProfit RouteHonoured
PROPERTY ShareValueNeverFalls
