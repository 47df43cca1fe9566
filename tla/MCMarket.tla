------------------------------ MODULE MCMarket ------------------------------
(* Two users; the limits are scaled down so that a few calls reach them.    *)
EXTENDS Market

CONSTANTS ann, bob

Ladder(trader, expert, whale) ==
  [t \in {"Trader", "Expert", "Whale"} |->
     IF t = "Trader" THEN trader ELSE IF t = "Expert" THEN expert ELSE whale]

ByTier(novice, trader, expert, whale) ==
  [t \in UserTiers |-> IF t = "Novice" THEN novice ELSE Ladder(trader, expert, whale)[t]]

MCTierTrades == Ladder(3, 4, 9)
MCTierVolume == Ladder(3900, 4000, 9000)
MCSwapsPerHour == ByTier(1, 2, 3, 9)
MCLpOpsPerDay == ByTier(1, 2, 9, 9)
MCBaseFeeBps == ByTier(30, 25, 20, 15)
MCDiscountBps == ByTier(0, 5, 10, 20)

Op(kind, u, from, amount) ==
  [ kind |-> kind, user |-> u, from |-> from,
    to |-> IF from = "XLM" THEN "USDCSIM" ELSE "XLM", amount |-> amount ]

\* Two swaps in a row; a swap after minting, adding, removing; a failing second step.
MCBatches ==
  { << Op("Swap", ann, "XLM", 400), Op("Swap", ann, "USDCSIM", 400) >>,
    << Op("Swap", ann, "XLM", 500), Op("Swap", bob, "XLM", 3000) >>,
    << Op("AddLiquidity", ann, "XLM", 300), Op("RemoveLiquidity", ann, "XLM", 300) >>,
    << Op("MintToken", bob, "XLM", 50), Op("Swap", bob, "XLM", 500) >>,
    << Op("AddLiquidity", bob, "XLM", 9000), Op("MintToken", ann, "USDCSIM", 50) >> }

-----------------------------------------------------------------------------
\* Whatever mix of calls and batches moves them, the amounts, the LP tokens and the
\* leaderboard of the portfolio agree (portfolio.rs:1118, batch.rs:214).
PortfolioSound == TypeOK /\ BooksBalance /\ LpTokensAccounted /\ LeaderboardSound

\* No mix of calls and batches passes the volume threshold of a ledger or the daily
\* number of deposits (volume check of trading.rs, rate_limit.rs:206).
LimitsHold == VolumeCapped /\ LpOpsWithinLimit
=============================================================================
