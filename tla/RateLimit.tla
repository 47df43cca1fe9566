----------------------------- MODULE RateLimit -----------------------------
(* Hourly swap and daily liquidity limits (counter/src/rate_limit.rs).  The *)
(* start of the current window is kept in storage until it expires; the     *)
(* counters are kept by user and window.  A check and the record it allows  *)
(* are separate calls of the entry points.                                  *)
EXTENDS Integers

CONSTANTS
  Clients, Tiers,
  Hour, Day,       \* 3600, 86400
  SwapsPerHour, LpOpsPerDay,  \* RateLimitConfig::for_tier
  Unlimited,       \* u32::MAX
  LastSecond       \* bound: last time explored

ASSUME RateLimitAssumption ==
  /\ Hour \in Nat \ {0} /\ Day \in Nat \ {0} /\ LastSecond \in Nat
  /\ SwapsPerHour \in [Tiers -> Nat] /\ LpOpsPerDay \in [Tiers -> Nat] /\ Unlimited \in Nat

VARIABLES
  now,
  hourly, daily,      \* CachedWindowBoundary, by the keys "hourly_c" and "daily_c"
  swapCount, lpCount  \* counters by user and start of the window

limitVars == <<hourly, daily, swapCount, lpCount>>

Times == 0..LastSecond
CachedWindowBoundary == [ start : Times, expires : Nat ]

IsValid(cached, t) == t < cached.expires

Window(t, duration) == [ start |-> (t \div duration) * duration,
                         expires |-> (t \div duration) * duration + duration ]

\* hourly_cached, daily_cached: the window to use, which is also what they store.
Cached(cached, duration) ==
  IF IsValid(cached, now) THEN cached ELSE Window(now, duration)

HourNow == Cached(hourly, Hour)
DayNow == Cached(daily, Day)

WithinSwapLimit(u, tier) ==
  \/ SwapsPerHour[tier] = Unlimited
  \/ swapCount[u][HourNow.start] < SwapsPerHour[tier]

WithinLpLimit(u, tier) ==
  \/ LpOpsPerDay[tier] = Unlimited
  \/ lpCount[u][DayNow.start] < LpOpsPerDay[tier]

\* An unlimited tier returns before the window is looked up.
HourlyLookedUp(tier) ==
  hourly' = IF SwapsPerHour[tier] = Unlimited THEN hourly ELSE HourNow

RecordSwaps(u, n) ==
  IF n = 0 THEN UNCHANGED swapCount
  ELSE swapCount' = [swapCount EXCEPT ![u][HourNow.start] = @ + n]

\* Every caller checked the limit or records it, so the window is looked up.
RecordLpOp(u) ==
  /\ daily' = DayNow
  /\ lpCount' = [lpCount EXCEPT ![u][DayNow.start] = @ + 1]

\* Removes the counters of the windows before the current ones.
Cleaned(count, u, window, duration) ==
  IF window.start >= duration THEN [count EXCEPT ![u][window.start - duration] = 0] ELSE count

CleanupRateLimits(u) ==
  /\ swapCount' = Cleaned(swapCount, u, Window(now, Hour), Hour)
  /\ lpCount' = Cleaned(lpCount, u, Window(now, Day), Day)
  /\ UNCHANGED <<now, hourly, daily>>

RateLimitInit ==
  /\ now = 0
  /\ hourly = [ start |-> 0, expires |-> 0 ] /\ daily = [ start |-> 0, expires |-> 0 ]
  /\ swapCount = [u \in Clients |-> [t \in Times |-> 0]]
  /\ lpCount = [u \in Clients |-> [t \in Times |-> 0]]
=============================================================================
