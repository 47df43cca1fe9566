------------------------------- MODULE Market -------------------------------
(* The entry points of the single-pool market (counter/src/lib.rs): virtual *)
(* minting, swaps, liquidity, batches (counter/batch.rs), the query cache   *)
(* and the faucet (src/faucet.rs) over one portfolio.  A call that returns  *)
(* an error or panics leaves no trace and is no step.                       *)
EXTENDS Portfolio, RateLimit, SequencesExt

CONSTANTS
  Verified,          \* users with a verified KYC record
  Prices,            \* answers of the oracles
  SwapAmounts, MintAmounts, DepositAmounts, BurnAmounts, SeedAmounts,
  Batches,           \* the batches tried, sequences of operations
  ConcentrationLimit, MaxPerAsset, MaxPerUser,   \* RiskConfig
  BaseFeeBps, DiscountBps,  \* by tier
  SwapToleranceBps,  \* slippage_tolerance_bps of swap
  Faucets, Drip, Cooldown,  \* assets with a FaucetConfig, and what it says
  Thresholds, Slips, Ttls,  \* what may be configured
  Funds, Seed,       \* what users were minted, and the pool seeded with, before
  MaxCalls           \* bound: calls explored

\* Amounts are not negative: the entry points and validate_batch refuse them.
BatchOperations ==
  [ kind : {"Swap", "AddLiquidity", "RemoveLiquidity", "MintToken"}, user : Users,
    from : Assets, to : Assets, amount : Nat ]

ASSUME MarketAssumption ==
  /\ Verified \subseteq Users /\ MaxCalls \in Nat /\ Clients = Users /\ Tiers = UserTiers
  /\ SwapAmounts \cup MintAmounts \cup DepositAmounts \cup BurnAmounts \cup SeedAmounts \subseteq Nat
  /\ Prices \cup Thresholds \cup Slips \cup Ttls \subseteq Nat
  /\ \A ops \in Batches : ops \in Seq(BatchOperations) /\ ops # <<>>
  /\ BaseFeeBps \in [UserTiers -> Nat] /\ DiscountBps \in [UserTiers -> Nat]
  /\ {Drip, Cooldown, Funds, Seed, SwapToleranceBps} \subseteq Nat /\ Faucets \subseteq Assets

VARIABLES
  folio,      \* the portfolio
  emergency,  \* src/emergency.rs and MAX_SLIP
  cache,      \* PORTFOLIO_CACHE_KEY
  topCache,   \* TOP_TRADERS_CACHE_KEY
  ttl,        \* CACHE_TTL_KEY
  lastClaim,  \* LastClaim; 0 where there is none, as the code reads it
  calls,      \* bound
  \* Kept by the specification only:
  issued,     \* value brought in or taken out from outside
  opened,     \* trading volume when this ledger opened
  lpToday, swapsThisHour   \* operations of each user, by the clock

books == <<folio, cache, topCache, issued>>
history == <<lpToday, swapsThisHour, opened>>
vars == <<folio, emergency, cache, topCache, ttl, lastClaim, calls, issued, opened,
          lpToday, swapsThisHour, now, limitVars>>

NoEntry == [ cachedAt |-> -1, trades |-> 0, pnl |-> 0 ]
NoTop == [ cachedAt |-> -1, traders |-> <<>> ]

Call == calls < MaxCalls /\ calls' = calls + 1

InvalidateTopOnly == UNCHANGED cache /\ topCache' = NoTop
InvalidateQueryCache == cache' = [u \in Users |-> NoEntry] /\ topCache' = NoTop

\* The end of every entry point that writes the portfolio and says so.
Saved(p) == folio' = p /\ InvalidateQueryCache
SavedQuietly(p) == folio' = p /\ UNCHANGED <<cache, topCache>>

-----------------------------------------------------------------------------
(* Minting and trading *)

MintEntry(u, a, x) ==
  /\ Call
  /\ Saved(Mint(folio, a, u, x))
  /\ issued' = issued + x
  /\ UNCHANGED <<emergency, ttl, lastClaim, history, now, limitVars>>

\* What one swap brings in from outside: nothing, unless the pool is empty and
\* the oracle's price is paid.
Drawn(p, amount, out) == IF HasReserves(p) THEN 0 ELSE out - amount + LpFee(amount)

EffectiveFeeBps(tier) ==
  LET bps == BaseFeeBps[tier] - DiscountBps[tier] IN IF bps < 1 THEN 1 ELSE bps

Share(tier) == CASE tier = "Novice" -> 10 [] tier = "Trader" -> 4
                 [] tier = "Expert" -> 2 [] OTHER -> 1

Holdings(p, u) == p.balances[u]["XLM"] + p.balances[u]["USDCSIM"]

Concentrated(p, u) ==
  /\ Holdings(p, u) # 0
  /\ \E a \in Assets : (p.balances[u][a] * Bps) \div Holdings(p, u) >= ConcentrationLimit

WithinPositionLimits(p, u, a, amount) ==
  LET share == Share(GetUserTier(p, u)) IN
  /\ p.balances[u][a] + amount <= MaxPerAsset \div share
  /\ Holdings(p, u) + amount <= MaxPerUser \div share

Swap(u, from, to, amount, price) ==
  LET tier == GetUserTier(folio, u)
      fee == (amount * EffectiveFeeBps(tier)) \div Bps
      left == amount - fee
      charged == IF fee > 0 THEN CollectFee(Debit(folio, from, u, fee), fee) ELSE folio
      out == SwapOutput(charged, from, to, left, price)
  IN
  /\ Call
  /\ u \in Verified
  /\ WithinSwapLimit(u, tier)
  /\ ~Concentrated(folio, u)
  /\ WithinPositionLimits(folio, u, to, amount)
  /\ fee > 0 => CanDebit(folio, from, u, fee)
  /\ SwapAccepted(charged, emergency, from, to, u, left, price)
  /\ out >= (((left * price) \div Precision) * (Bps - SwapToleranceBps)) \div Bps
  /\ Saved(RecordTrade(PerformSwap(charged, from, to, u, left, out), u))
  /\ emergency' = RecordVolume(emergency, left)
  /\ issued' = issued + Drawn(charged, left, out)
  /\ HourlyLookedUp(tier)
  /\ swapsThisHour' = [swapsThisHour EXCEPT ![u] = @ + 1]
  /\ UNCHANGED <<ttl, lastClaim, lpToday, opened, now, daily, swapCount, lpCount>>

\* No limits, no tier fee: the deadline and the KYC status alone.
SafeSwap(u, from, to, amount, price) ==
  LET out == SwapOutput(folio, from, to, amount, price) IN
  /\ Call
  /\ u \in Verified
  /\ SwapAccepted(folio, emergency, from, to, u, amount, price)
  /\ Saved(RecordTrade(PerformSwap(folio, from, to, u, amount, out), u))
  /\ emergency' = RecordVolume(emergency, amount)
  /\ issued' = issued + Drawn(folio, amount, out)
  /\ swapsThisHour' = [swapsThisHour EXCEPT ![u] = @ + 1]
  /\ UNCHANGED <<ttl, lastClaim, lpToday, opened, now, limitVars>>

\* The same token twice, or no amount.
FailedOrder(u) ==
  /\ Call
  /\ u \in Verified
  /\ Saved(IncFailedOrder(folio))
  /\ UNCHANGED <<emergency, ttl, lastClaim, issued, history, now, limitVars>>

RecordTradeEntry(u) ==
  /\ Call
  /\ Saved(RecordTrade(folio, u))
  /\ UNCHANGED <<emergency, ttl, lastClaim, issued, history, now, limitVars>>

-----------------------------------------------------------------------------
(* Liquidity *)

\* The iteration stops when it repeats itself, or after a hundred rounds.
Newton(n) ==
  LET Better(guess) == (guess + n \div guess) \div 2
      \* By the rounds left, the guess and the one before.
      Rounds[r \in 0..100] == [guess \in Nat \ {0} |-> [last \in Nat |->
        IF r = 0 \/ guess = last THEN guess
        ELSE IF Better(guess) = 0 THEN 1 ELSE Rounds[r - 1][Better(guess)][guess]]]
  IN  Rounds[100][n][0]

LpTokensGenerous(p, xlm, usdc) ==
  LET Part(amount, reserve) == IF reserve > 0 THEN (amount * p.lpTokens) \div reserve ELSE 0
      x == Part(xlm, p.pool["XLM"])
      y == Part(usdc, p.pool["USDCSIM"])
  IN  IF p.lpTokens = 0 THEN Newton(xlm * usdc) ELSE IF x < y THEN y ELSE x

LpTokensMinted(p, xlm, usdc) ==
  LET Part(amount, reserve) == IF reserve > 0 THEN (amount * p.lpTokens) \div reserve ELSE 0
      x == Part(xlm, p.pool["XLM"])
      y == Part(usdc, p.pool["USDCSIM"])
  IN  IF p.lpTokens = 0 THEN Newton(xlm * usdc) ELSE IF x < y THEN x ELSE y

AddLiquidity(u, xlm, usdc) ==
  LET minted == LpTokensMinted(folio, xlm, usdc)
      paid == Debit(Debit(folio, "XLM", u, xlm), "USDCSIM", u, usdc)
      pooled == [AddPoolLiquidity(paid, xlm, usdc) EXCEPT
                   !.positions[u].deposited["XLM"] = @ + xlm,
                   !.positions[u].deposited["USDCSIM"] = @ + usdc]
  IN
  /\ Call
  /\ u \in Verified
  /\ WithinLpLimit(u, GetUserTier(folio, u))
  /\ CanDebit(folio, "XLM", u, xlm) /\ CanDebit(folio, "USDCSIM", u, usdc)
  /\ minted > 0
  /\ Saved(CheckAndAwardBadges(RecordLpDeposit(AddLpTokens(pooled, u, minted), u), u))
  /\ RecordLpOp(u)
  /\ lpToday' = [lpToday EXCEPT ![u] = @ + 1]
  /\ UNCHANGED <<emergency, ttl, lastClaim, issued, opened, swapsThisHour, now, hourly, swapCount>>

\* The limit is not checked here, but the operation counts.
RemoveLiquidity(u, tokens) ==
  LET Part(a) == (tokens * folio.pool[a]) \div folio.lpTokens
      drained == [folio EXCEPT !.pool = [a \in Assets |-> @[a] - Part(a)]]
      paid == Mint(Mint(drained, "XLM", u, Part("XLM")), "USDCSIM", u, Part("USDCSIM"))
  IN
  /\ Call
  /\ u \in Verified
  /\ 0 < tokens /\ tokens <= folio.positions[u].tokens
  /\ \A a \in Assets :
       /\ Part(a) > 0
       /\ Part(a) <= (folio.positions[u].deposited[a] * 101) \div 100
  /\ Saved(AddLpTokens([paid EXCEPT !.positions[u].deposited = [a \in Assets |-> @[a] - Part(a)]],
                       u, -tokens))
  /\ RecordLpOp(u)
  /\ lpToday' = [lpToday EXCEPT ![u] = @ + 1]
  /\ UNCHANGED <<emergency, ttl, lastClaim, issued, opened, swapsThisHour, now, hourly, swapCount>>

\* Anybody may; the cache is not told, nor does it hold pool amounts.
SetPoolLiquidity(a, amount) ==
  /\ Call
  /\ folio' = SetLiquidity(folio, a, amount)
  /\ issued' = issued + amount - folio.pool[a]
  /\ UNCHANGED <<cache, topCache, emergency, ttl, lastClaim, history, now, limitVars>>

-----------------------------------------------------------------------------
(* Batches: operations folded over the portfolio and the volume *)

Applied(acc, p, drawn) ==
  [acc EXCEPT !.folio = p, !.drawn = @ + drawn, !.executed = @ + 1]

BatchSwapUnrecorded(acc, op, price) ==
  LET p == acc.folio
      out == SwapOutput(p, op.from, op.to, op.amount, price)
  IN
  IF p.balances[op.user][op.from] < op.amount THEN [acc EXCEPT !.failed = TRUE]
  ELSE IF ~SwapAccepted(p, acc.emergency, op.from, op.to, op.user, op.amount, price)
  THEN [acc EXCEPT !.panicked = TRUE]
  ELSE Applied(acc, RecordTrade(PerformSwap(p, op.from, op.to, op.user, op.amount, out), op.user),
               Drawn(p, op.amount, out))

BatchSwap(acc, op, price) ==
  LET p == acc.folio
      out == SwapOutput(p, op.from, op.to, op.amount, price)
  IN
  IF p.balances[op.user][op.from] < op.amount THEN [acc EXCEPT !.failed = TRUE]
  ELSE IF ~SwapAccepted(p, acc.emergency, op.from, op.to, op.user, op.amount, price)
  THEN [acc EXCEPT !.panicked = TRUE]
  ELSE [Applied(acc, RecordTrade(PerformSwap(p, op.from, op.to, op.user, op.amount, out), op.user),
                Drawn(p, op.amount, out))
        EXCEPT !.emergency = RecordVolume(@, op.amount)]

\* Deposits are not taken from the user, withdrawals not from the pool.
BatchOperation(acc, op, price) ==
  LET p == acc.folio
      funded == p.balances[op.user]["XLM"] >= op.amount /\ p.balances[op.user]["USDCSIM"] >= op.amount
  IN
  CASE op.kind = "Swap" -> BatchSwap(acc, op, price)
    [] op.kind = "AddLiquidity" /\ funded ->
         Applied(acc, RecordLpDeposit(AddPoolLiquidity(p, op.amount, op.amount), op.user),
                 2 * op.amount)
    [] op.kind = "AddLiquidity" /\ ~funded -> [acc EXCEPT !.failed = TRUE]
    [] op.kind = "RemoveLiquidity" ->
         Applied(acc, Mint(Mint(p, "XLM", op.user, op.amount), "USDCSIM", op.user, op.amount),
                 2 * op.amount)
    [] op.kind = "MintToken" -> Applied(acc, Mint(p, op.from, op.user, op.amount), op.amount)

Begun == [ folio |-> folio, emergency |-> emergency, executed |-> 0, drawn |-> 0,
           failed |-> FALSE, panicked |-> FALSE ]

\* Best effort goes on after a failure, atomic execution stops; a panic ends both.
RunBatch(ops, price, atomic) ==
  LET Step(acc, op) == IF acc.panicked \/ (atomic /\ acc.failed) THEN acc
                       ELSE BatchOperation(acc, op, price)
      after[i \in 0..Len(ops)] == IF i = 0 THEN Begun ELSE Step(after[i - 1], ops[i])
  IN  after[Len(ops)]

Batch(ops, price, atomic) ==
  LET end == RunBatch(ops, price, atomic)
      caller == ops[1].user
      called == ops[1].kind # "MintToken"
      swaps == \E i \in 1..Len(ops) : ops[i].kind = "Swap"
      tier == GetUserTier(folio, caller)
      counted == IF called /\ swaps THEN end.executed ELSE 0
      kept == ~(atomic /\ end.failed)
  IN
  /\ Call
  /\ \A i \in 1..Len(ops) : ops[i].kind # "MintToken" => ops[i].user \in Verified
  /\ called /\ swaps => WithinSwapLimit(caller, tier)
  /\ ~end.panicked
  /\ emergency' = end.emergency
  /\ IF kept
     THEN /\ Saved(end.folio)
          /\ issued' = issued + end.drawn
          /\ RecordSwaps(caller, counted)
          /\ swapsThisHour' = [u \in Users |-> swapsThisHour[u] + end.folio.trades[u] - folio.trades[u]]
     ELSE UNCHANGED <<books, swapCount, swapsThisHour>>
  /\ hourly' = IF (kept /\ counted > 0) \/ (called /\ swaps /\ SwapsPerHour[tier] # Unlimited)
               THEN HourNow ELSE hourly
  /\ UNCHANGED <<ttl, lastClaim, lpToday, opened, now, daily, lpCount>>

-----------------------------------------------------------------------------
(* Queries, faucet, switches, time *)

\* A hit changes nothing; cached_at has no other reader.
GetPortfolio(u) ==
  /\ Call
  /\ cache[u] = NoEntry \/ now - cache[u].cachedAt > ttl
  /\ cache' = [cache EXCEPT ![u] =
                 [ cachedAt |-> now, trades |-> folio.trades[u], pnl |-> folio.pnl[u] ]]
  /\ UNCHANGED <<folio, topCache, issued, emergency, ttl, lastClaim, history, now, limitVars>>

GetTopTraders ==
  /\ Call
  /\ topCache = NoTop \/ now - topCache.cachedAt > ttl
  /\ topCache' = [ cachedAt |-> now, traders |-> folio.top ]
  /\ UNCHANGED <<folio, cache, issued, emergency, ttl, lastClaim, history, now, limitVars>>

ClearCache ==
  /\ Call
  /\ InvalidateQueryCache
  /\ UNCHANGED <<folio, issued, emergency, ttl, lastClaim, history, now, limitVars>>

SetCacheTtl(t) ==
  /\ Call
  /\ ttl' = t
  /\ UNCHANGED <<books, emergency, lastClaim, history, now, limitVars>>

\* Minting like any other, but the query cache is not told.
ClaimFaucet(u, a) ==
  /\ Call
  /\ lastClaim[u][a] = 0 \/ now - lastClaim[u][a] >= Cooldown
  /\ lastClaim' = [lastClaim EXCEPT ![u][a] = now]
  /\ SavedQuietly(Mint(folio, a, u, Drip))
  /\ issued' = issued + Drip
  /\ UNCHANGED <<emergency, ttl, history, now, limitVars>>

Cleanup(u) ==
  /\ Call
  /\ CleanupRateLimits(u)
  /\ UNCHANGED <<books, emergency, ttl, lastClaim, history>>

Switched(e) ==
  /\ Call
  /\ e # emergency
  /\ emergency' = e
  /\ UNCHANGED <<books, ttl, lastClaim, history, now, limitVars>>

SetPaused(on) == Switched([emergency EXCEPT !.paused = on])
FreezeUser(u) == Switched([emergency EXCEPT !.frozen = @ \cup {u}])
UnfreezeUser(u) == Switched([emergency EXCEPT !.frozen = @ \ {u}])
SetThresholdBps(t) == Switched([emergency EXCEPT !.threshold = t])
SetMaxSlippageBps(s) == Switched([emergency EXCEPT !.maxSlip = s])

\* The clock moves with the ledger, whose volume starts again at zero.
Tick ==
  /\ now < LastSecond
  /\ now' = now + 1
  /\ emergency' = [emergency EXCEPT !.volume = 0]
  /\ opened' = folio.volume
  /\ lpToday' = IF (now + 1) % Day = 0 THEN [u \in Users |-> 0] ELSE lpToday
  /\ swapsThisHour' = IF (now + 1) % Hour = 0 THEN [u \in Users |-> 0] ELSE swapsThisHour
  /\ UNCHANGED <<books, ttl, lastClaim, calls, limitVars>>

\* A market in which every user was minted the same of both assets.
Funded(p, u) == Mint(Mint(p, "XLM", u, Funds), "USDCSIM", u, Funds)

Opening ==
  LET users == SetToSeq(Users)
      minted[i \in 0..Len(users)] == IF i = 0 THEN NewPortfolio ELSE Funded(minted[i - 1], users[i])
  IN  AddPoolLiquidity(minted[Len(users)], Seed, Seed)

Init ==
  /\ folio = Opening
  /\ issued = GrandTotal(folio)
  /\ emergency = [ paused |-> FALSE, frozen |-> {}, threshold |-> Bps, volume |-> 0, maxSlip |-> Bps ]
  /\ cache = [u \in Users |-> NoEntry] /\ topCache = NoTop
  /\ ttl \in Ttls
  /\ lastClaim = [u \in Users |-> [a \in Assets |-> 0]]
  /\ calls = 0 /\ opened = 0
  /\ lpToday = [u \in Users |-> 0] /\ swapsThisHour = [u \in Users |-> 0]
  /\ RateLimitInit

UserNext(u) ==
  \/ \E a \in Faucets : ClaimFaucet(u, a)
  \/ \E a \in Assets, x \in MintAmounts : MintEntry(u, a, x)
  \/ \E from, to \in Assets, x \in SwapAmounts, price \in Prices :
       Swap(u, from, to, x, price) \/ SafeSwap(u, from, to, x, price)
  \/ FailedOrder(u) \/ RecordTradeEntry(u) \/ GetPortfolio(u) \/ Cleanup(u)
  \/ \E x, y \in DepositAmounts : AddLiquidity(u, x, y)
  \/ \E t \in BurnAmounts : RemoveLiquidity(u, t)
  \/ FreezeUser(u) \/ UnfreezeUser(u)

Next ==
  \/ \E u \in Users : UserNext(u)
  \/ \E ops \in Batches, price \in Prices, atomic \in BOOLEAN : Batch(ops, price, atomic)
  \/ \E a \in Assets, x \in SeedAmounts : SetPoolLiquidity(a, x)
  \/ GetTopTraders \/ ClearCache \/ \E t \in Ttls : SetCacheTtl(t)
  \/ \E on \in BOOLEAN : SetPaused(on)
  \/ \E t \in Thresholds : SetThresholdBps(t)
  \/ \E s \in Slips : SetMaxSlippageBps(s)
  \/ Tick

Spec == Init /\ [][Next]_vars

-----------------------------------------------------------------------------
(* Properties *)

TypeOK ==
  /\ folio \in Portfolios
  /\ emergency \in Emergency
  /\ cache \in [Users -> [cachedAt : Int, trades : Nat, pnl : Int]]
  /\ topCache \in [cachedAt : Int, traders : Seq(TopEntry)]
  /\ ttl \in Nat /\ lastClaim \in [Users -> [Assets -> Nat]]
  /\ issued \in Int /\ opened \in Nat /\ calls \in Nat
  /\ lpToday \in [Users -> Nat] /\ swapsThisHour \in [Users -> Nat]
  /\ now \in Times /\ hourly \in CachedWindowBoundary /\ daily \in CachedWindowBoundary
  /\ swapCount \in [Users -> [Times -> Nat]] /\ lpCount \in [Users -> [Times -> Nat]]

\* Across swaps, fees, liquidity and batches, what users, pool and fee counters
\* hold together is what came in from outside (portfolio.rs, "sum(all_balances)
\* + fees = total_minted").
BooksBalance == GrandTotal(folio) = issued

\* The LP tokens of the positions are the tokens in circulation, although the
\* handlers keep both by hand and batches bypass them.
LpTokensAccounted ==
  folio.lpTokens = SumFunction([u \in Users |-> folio.positions[u].tokens])

\* An operation on LP tokens never lowers what the pool holds per token.
LpValueKept ==
  [][ folio.lpTokens > 0 /\ folio'.lpTokens # folio.lpTokens =>
        \A a \in Assets : folio.pool[a] * folio'.lpTokens <= folio'.pool[a] * folio.lpTokens ]_vars

\* A cached answer has the right number of trades, and a profit no higher than
\* the real one: only the faucet changes a portfolio without telling the cache.
CacheHonest == \A u \in Users :
  cache[u] # NoEntry => cache[u].trades = folio.trades[u] /\ cache[u].pnl <= folio.pnl[u]

\* The leaderboard is sorted, has nobody twice, and never understates a profit:
\* it is brought up to date when profits rise and not when they fall.
LeaderboardSound ==
  /\ \A i, j \in 1..Len(folio.top) : i < j =>
       folio.top[i].pnl >= folio.top[j].pnl /\ folio.top[i].user # folio.top[j].user
  /\ \A i \in 1..Len(folio.top) : folio.top[i].pnl >= folio.pnl[folio.top[i].user]

\* Whatever mix of swaps and batches fills a ledger, failed batches included, no
\* trade takes the volume traded in it above the threshold of that moment.
VolumeCapped ==
  [][ folio'.volume > folio.volume =>
        ((folio'.volume - opened) * Bps) \div NormalVolume <= emergency.threshold ]_vars

\* By the clock, and not by the stored window, nobody adds liquidity more often
\* in a day than the tier of that moment allows.
LpOpsWithinLimit ==
  [][ \A u \in Users : folio'.positions[u].tokens > folio.positions[u].tokens =>
        LET limit == LpOpsPerDay[GetUserTier(folio, u)] IN
        limit = Unlimited \/ lpToday[u] < limit ]_vars

\* What portfolio.rs says of all operations but minting, of one asset: a swap
\* against the pool creates none of it and destroys no more than the fees.
SwapConservesAssets ==
  [][ folio'.volume > folio.volume /\ issued' = issued =>
        \A a \in Assets :
          /\ TotalOf(folio', a) <= TotalOf(folio, a)
          /\ TotalOf(folio', a) + (folio'.fees - folio.fees) + (folio'.lpFees - folio.lpFees)
               >= TotalOf(folio, a) ]_vars

\* What rate_limit.rs says of swaps_per_hour, "Maximum swaps per hour".
SwapsWithinLimit ==
  [][ \A u \in Users : swapsThisHour'[u] > swapsThisHour[u] =>
        LET limit == SwapsPerHour[GetUserTier(folio, u)] IN
        limit = Unlimited \/ swapsThisHour'[u] <= limit ]_vars
=============================================================================
