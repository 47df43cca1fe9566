\* Three updates of up to two levels of a book of depth one; two calls at once
\* on two points; three resting orders; a trader, and two addresses.
CONSTANTS
  Prices = {1, 2}
  MaxDepth = 1
  MaxChanges = 2
  MaxUpdates = 3
  Callers = {k1, k2}
  Days = {1, 2}
  Requests <- TwoLimits
  CacheTtl = 1
  MaxReplaySessions = 1
  MaxAwait = 1
  MaxPoints = 2
  MaxTicks = 3
  Makers = {1, 2, 3}
  Quantities = {1, 2}
  Traders = {t1}
  Instruments = {s1}
  MaxOrders = 2
  OrderWindow = 2
  MaxMessages = 1
  MessageWindow = 1
  SuspensionDuration = 2
  HaltDuration = 2
  LastTick = 5
  Ips = {ip1, ip2}
  DetectionThreshold = 1
  MaxScore = 1
  BlockDuration = 2
  ForgetAfter = 3
  MaxCount = 3
  MaxTime = 6
SPECIFICATION Spec
INVARIANTS ReplicaFaithful StalenessBounded LimitersSound
PROPERTIES MatchingSound
\* Updates, points, orders and ticks are bounded.
CHECK_DEADLOCK FALSE
