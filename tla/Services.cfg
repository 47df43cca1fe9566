\* Small instances of nine services that share nothing.
CONSTANTS
  Users = {ann, bob}
  Days = {30, 60}
  TierSecs <- MCTierSecs
  TierBps <- MCTierBps
  Principals = {10}
  Bps = 100
  PenaltyPct = 10
  HoldingPeriod = 2
  DistributionPeriod = 1
  StakingEnd = 4
  MaxStakes = 2
  MaxDistributions = 3
  Customers = {ann}
  Pairs = {xlmusdc, ethusdc}
  OrderAmounts = {2}
  OrderPrices = {1, 2}
  Intervals = {1}
  Occurrences = {1, 3}
  None = None
  Expiries = {1, None}
  OrderEnd = 3
  MaxOrders = 2
  Farmers = {ann, bob}
  StakeAmounts = {1, 2}
  MinStake = 1
  Emissions = {0, 4}
  Scale = 5
  FarmEnd = 3
  MaxStaked = 3
  Members = {ann, bob, cid, dan}
  Nobody = Nobody
  SwapFees = {10}
  RateScale = 100
  SilverAt = 10
  GoldAt = 50
  MaxVolume = 20
  Traders = {ann, bob, cid}
  Volumes = {1, 2}
  MaxLeaderboard = 2
  TopN = 1
  MaxSeasons = 2
  MaxScore = 3
  Metrics <- MCMetrics
  NoMetrics = NoMetrics
  FeeConfigs <- MCConfigs
  FirstConfig <- MCFirstConfig
  ManualFees = {110}
  Caps = {80}
  FeeAdmins = {ann}
  AutoRecovery = 2
  Retention = 1
  HistoryCap = 3
  FeeEnd = 3
  FeedPrices = {94, 100, 106, 120}
  FirstPrice = 100
  FirstWindow = 2
  Windows = {1, 2, 3}
  Staleness = 1
  JumpBps = 1000
  OracleEnd = 2
  Owners = {ann, bob}
  AlertKinds <- MCKinds
  Events <- MCEvents
  Lifetimes = {0, 1}
  MaxAlerts = 2
  MaxFirings = 2
  AlertEnd = 2
  Thresholds <- MCThresholds
  DefaultThreshold <- MCDefaultThreshold
  VolumeAmounts = {1, 3}
  MaxRecords = 4
  BreakerEnd = 4
SPECIFICATION Spec
INVARIANTS StakingSound RewardsBacked ReferralsSound BoardHoldsTheBest  FiresOncePerSubscription
PROPERTIES OrdersSound FeesSound 
\* Times and counts are bounded.
CHECK_DEADLOCK FALSE
