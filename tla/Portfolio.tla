----------------------------- MODULE Portfolio -----------------------------
(* The one record that holds the market (counter/portfolio.rs, tiers.rs):   *)
(* balances, profit counters, leaderboard, pool and LP positions, and one   *)
(* swap against its pool (counter/trading.rs).  Every operator takes a      *)
(* portfolio and returns the updated one; an assertion of the code is a     *)
(* predicate of its own that callers have as a guard.  Left out: analytics, *)
(* transaction history and the badges nothing can award.                    *)
EXTENDS Integers, Sequences, FiniteSets, Functions

CONSTANTS
  Users,
  TopLimit,     \* length of the leaderboard, 100
  BadgeTrades,  \* trades for the badge Trader, 10
  TierTrades,   \* trades that make a Trader, an Expert, a Whale
  TierVolume    \* profits that do

Assets == {"XLM", "USDCSIM"}
Badges == {"FirstTrade", "Trader", "LiquidityProvider"}
UserTiers == {"Novice", "Trader", "Expert", "Whale"}

ASSUME PortfolioAssumption ==
  /\ IsFiniteSet(Users) /\ TopLimit \in Nat \ {0} /\ BadgeTrades \in Nat \ {0}
  /\ TierTrades \in [{"Trader", "Expert", "Whale"} -> Nat \ {0}]
  /\ TierVolume \in [{"Trader", "Expert", "Whale"} -> Nat \ {0}]

LPPosition == [ deposited : [Assets -> Int], tokens : Nat ]
TopEntry == [ user : Users, pnl : Int ]

Portfolios ==
  [ balances : [Users -> [Assets -> Nat]], trades : [Users -> Nat], pnl : [Users -> Int],
    badges : [Users -> SUBSET Badges], failed : Nat,
    totalUsers : Nat, active : SUBSET Users, volume : Nat, top : Seq(TopEntry),
    pool : [Assets -> Nat], fees : Nat, lpDeposits : [Users -> Nat],
    positions : [Users -> LPPosition], lpTokens : Nat, lpFees : Nat ]

NewPortfolio ==
  [ balances |-> [u \in Users |-> [a \in Assets |-> 0]],
    trades |-> [u \in Users |-> 0], pnl |-> [u \in Users |-> 0],
    badges |-> [u \in Users |-> {}], failed |-> 0,
    totalUsers |-> 0, active |-> {}, volume |-> 0, top |-> <<>>,
    pool |-> [a \in Assets |-> 0], fees |-> 0, lpDeposits |-> [u \in Users |-> 0],
    positions |-> [u \in Users |-> [ deposited |-> [a \in Assets |-> 0], tokens |-> 0 ]],
    lpTokens |-> 0, lpFees |-> 0 ]

-----------------------------------------------------------------------------
Credit(p, a, u, amount) == [p EXCEPT !.balances[u][a] = @ + amount]

CanDebit(p, a, u, amount) == amount > 0 /\ p.balances[u][a] >= amount

Debit(p, a, u, amount) == [p EXCEPT !.balances[u][a] = @ - amount, !.pnl[u] = @ - amount]

\* Whoever has no trade on record yet counts as a new user.
UpdateStatsOnTrade(p, u, amount) ==
  [p EXCEPT !.volume = @ + amount,
            !.totalUsers = IF p.trades[u] = 0 THEN @ + 1 ELSE @,
            !.active = IF p.trades[u] = 0 THEN @ \cup {u} ELSE @]

TransferAsset(p, from, to, u, amount) ==
  UpdateStatsOnTrade(Credit(Debit(p, from, u, amount), to, u, amount), u, amount)

\* The stable descending order a bubble sort leaves.
SortTopTraders(entries) ==
  LET Before(i, j) == \/ entries[i].pnl > entries[j].pnl
                      \/ entries[i].pnl = entries[j].pnl /\ i < j
      Rank(i) == 1 + Cardinality({ j \in 1..Len(entries) : Before(j, i) })
  IN  [ r \in 1..Len(entries) |-> entries[CHOOSE i \in 1..Len(entries) : Rank(i) = r] ]

UpdateTopTraders(p, u) ==
  LET entry == [ user |-> u, pnl |-> p.pnl[u] ]
      found == { i \in 1..Len(p.top) : p.top[i].user = u }
      entries == IF found # {} THEN [p.top EXCEPT ![CHOOSE i \in found : TRUE] = entry]
                 ELSE IF Len(p.top) < TopLimit THEN Append(p.top, entry)
                 ELSE IF p.pnl[u] > p.top[TopLimit].pnl
                      THEN [p.top EXCEPT ![TopLimit] = entry]
                 ELSE p.top
  IN  [p EXCEPT !.top = SortTopTraders(entries)]

Mint(p, a, u, amount) ==
  UpdateTopTraders([p EXCEPT !.balances[u][a] = @ + amount, !.pnl[u] = @ + amount], u)

AwardBadge(p, u, badge) == [p EXCEPT !.badges[u] = @ \cup {badge}]

RecordTrade(p, u) ==
  LET counted == [p EXCEPT !.trades[u] = @ + 1] IN
  IF p.trades[u] = 0 THEN AwardBadge(counted, u, "FirstTrade") ELSE counted

\* WealthBuilder, Diversifier and Consistency need records nothing writes.
CheckAndAwardBadges(p, u) ==
  [p EXCEPT !.badges[u] =
     @ \cup (IF p.trades[u] >= BadgeTrades THEN {"Trader"} ELSE {})
       \cup (IF p.lpDeposits[u] >= 1 THEN {"LiquidityProvider"} ELSE {})]

CollectFee(p, amount) == [p EXCEPT !.fees = @ + amount]
AddLpFees(p, amount) == [p EXCEPT !.lpFees = @ + amount]
IncFailedOrder(p) == [p EXCEPT !.failed = @ + 1]
RecordLpDeposit(p, u) == [p EXCEPT !.lpDeposits[u] = @ + 1]
SetLiquidity(p, a, amount) == [p EXCEPT !.pool[a] = amount]

AddPoolLiquidity(p, xlm, usdc) ==
  [p EXCEPT !.pool["XLM"] = @ + xlm, !.pool["USDCSIM"] = @ + usdc]

\* A position and the total beside it.
AddLpTokens(p, u, n) == [p EXCEPT !.positions[u].tokens = @ + n, !.lpTokens = @ + n]

\* The tier goes by trades and by the profit counter, which minting raises.
CalculateUserTier(trades, volume) ==
  IF trades >= TierTrades["Whale"] /\ volume >= TierVolume["Whale"] THEN "Whale"
  ELSE IF trades >= TierTrades["Expert"] /\ volume >= TierVolume["Expert"] THEN "Expert"
  ELSE IF trades >= TierTrades["Trader"] \/ volume >= TierVolume["Trader"] THEN "Trader"
  ELSE "Novice"

GetUserTier(p, u) == CalculateUserTier(p.trades[u], p.pnl[u])

\* All that users, the pool and the fee counters hold, both assets together.
GrandTotal(p) ==
  SumFunction([u \in Users |-> p.balances[u]["XLM"] + p.balances[u]["USDCSIM"]])
  + p.pool["XLM"] + p.pool["USDCSIM"] + p.fees + p.lpFees

TotalOf(p, a) == SumFunction([u \in Users |-> p.balances[u][a]]) + p.pool[a]

-----------------------------------------------------------------------------
(* One swap, with the emergency switches it asks (src/emergency.rs).  A     *)
(* price is what the oracle answers at that call; an oracle that does not   *)
(* answer refuses the swap.  All callers use the wrapper that turns an      *)
(* error into a panic.                                                      *)

CONSTANTS
  Bps,             \* 10000
  Precision,       \* PRECISION
  LpFeeBps,        \* LP_FEE_BPS
  ToleranceBps,    \* get_min_rate_tolerance_bps
  NormalVolume     \* normal_volume, per ledger

ASSUME TradingAssumption ==
  /\ Bps \in Nat \ {0} /\ Precision \in Nat \ {0}
  /\ LpFeeBps \in 0..Bps /\ ToleranceBps \in 0..Bps /\ NormalVolume \in Nat \ {0}

Emergency == [ paused : BOOLEAN, frozen : SUBSET Users, threshold : Nat,
               volume : Nat, maxSlip : Nat ]

WouldTrip(e, amount) == ((e.volume + amount) * Bps) \div NormalVolume > e.threshold

RecordVolume(e, amount) == [e EXCEPT !.volume = @ + amount]

MinimumOutput(amount, price) ==
  (((amount * price) \div Precision) * (Bps - ToleranceBps)) \div Bps

HasReserves(p) == \A a \in Assets : p.pool[a] > 0

Product(p, from, to, amount) == (p.pool[to] * amount) \div (p.pool[from] + amount)

SwapOutput(p, from, to, amount, price) ==
  IF HasReserves(p) THEN Product(p, from, to, (amount * (Bps - LpFeeBps)) \div Bps)
  ELSE (amount * price) \div Precision

TheoreticalOutput(p, from, to, amount) ==
  IF HasReserves(p) THEN Product(p, from, to, amount) ELSE amount

\* In u128: an output above the theoretical one underflows and panics.
WithinSlippage(p, from, to, amount, price, maxSlip) ==
  LET best == TheoreticalOutput(p, from, to, amount)
      out == SwapOutput(p, from, to, amount, price)
  IN  best > 0 => out <= best /\ ((best - out) * Bps) \div best <= maxSlip

\* The amount is taken by transfer_asset, and once more by the debit after it.
SwapAccepted(p, e, from, to, u, amount, price) ==
  LET out == SwapOutput(p, from, to, amount, price) IN
  /\ amount > 0 /\ from # to
  /\ ~e.paused /\ u \notin e.frozen
  /\ ~WouldTrip(e, amount)
  /\ out >= MinimumOutput(amount, price) /\ out > 0
  /\ WithinSlippage(p, from, to, amount, price, e.maxSlip)
  /\ CanDebit(p, from, u, amount)
  /\ CanDebit(TransferAsset(p, from, to, u, amount), from, u, amount)

LpFee(amount) == (amount * LpFeeBps) \div Bps

PoolGainGross(amount) == amount
PoolGain(amount) == amount - LpFee(amount)

PoolSwapped(p, from, to, amount, out) ==
  IF HasReserves(p)
  THEN SetLiquidity(SetLiquidity(p, from, p.pool[from] + PoolGain(amount)),
                    to, p.pool[to] - out)
  ELSE p

PerformSwap(p, from, to, u, amount, out) ==
  LET paid == Debit(TransferAsset(p, from, to, u, amount), from, u, amount) IN
  AddLpFees(PoolSwapped(Credit(paid, to, u, out), from, to, amount, out), LpFee(amount))
=============================================================================
