\* Two sources, a cooldown of two seconds.
CONSTANTS
  Sources = {binance, coinbase}
  NoSource = NoSource
  Weight <- DefaultWeights
  MaxSources = 2
  Cooldown = 2
SPECIFICATION FailoverSpec
PROPERTY FailoverHappens
CHECK_DEADLOCK FALSE
