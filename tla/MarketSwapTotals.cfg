\* As MarketCalls.cfg, for one property.
CONSTANTS
  ann = ann
  bob = bob
  Users = {ann, bob}
  Clients = {ann, bob}
  Tiers = {"Novice", "Trader", "Expert", "Whale"}
  TopLimit = 2
  BadgeTrades = 2
  TierTrades <- MCTierTrades
  TierVolume <- MCTierVolume
  Bps = 10000
  Precision = 100
  LpFeeBps = 30
  ToleranceBps = 100
  NormalVolume = 1000
  Hour = 1
  Day = 2
  SwapsPerHour <- MCSwapsPerHour
  LpOpsPerDay <- MCLpOpsPerDay
  Unlimited = 9
  LastSecond = 2
  Verified = {ann, bob}
  Prices = {98}
  SwapAmounts = {500}
  MintAmounts = {100}
  DepositAmounts = {500}
  BurnAmounts = {250}
  SeedAmounts = {0}
  Seed = 40000
  Faucets = {"XLM"}
  Batches <- MCBatches
  ConcentrationLimit = 7000
  MaxPerAsset = 30000
  MaxPerUser = 60000
  BaseFeeBps <- MCBaseFeeBps
  DiscountBps <- MCDiscountBps
  SwapToleranceBps = 500
  Drip = 100
  Cooldown = 2
  Thresholds = {9000}
  Slips = {20}
  Ttls = {1}
  Funds = 2000
  MaxCalls = 4
SPECIFICATION Spec
PROPERTY SwapConservesAssets
CHECK_DEADLOCK FALSE
