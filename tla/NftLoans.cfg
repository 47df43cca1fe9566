\* One token, three users, a pool.
CONSTANTS
  Users = {ann, bob, cid}
  Tokens = {deed}
  Pools = {p1}
  None = None
  Bps = 10000
  MaxSwitched = 1
  MaxEntries = 2
  MaxDay = 2
  Prices = {1}
  ListingDays = {1}
  OfferDays = {1}
  Amounts = {100}
  Rates = {100}
  LoanDays = {1}
  GraceDays = 0
  Values = {106, 200}
  BaseRate = 100
  MaxLtv = 6000
  MinRatio = 150
  TriggerLtv = 8000
  PartialLtv = 9500
  MaxQueue = 2
  Bids = {1}
  Extras = {0}
  MaxPool = 110
  InterestPrecision = 1000000
  ShareCounts = {2}
  MinVaultMint = 1
  WithdrawalDelay = 1
  WithdrawalFee = 50
SYMMETRY UserSymmetry
SPECIFICATION Spec
INVARIANTS CountersAgree NeverOverlent VaultSharesIssued
PROPERTIES HandedOver LoanOutcomeFinal
CHECK_DEADLOCK FALSE
