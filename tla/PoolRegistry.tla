---------------------------- MODULE PoolRegistry ----------------------------
(* The multi-token pool registry (counter/src/liquidity_pool.rs and the     *)
(* pool_* entry points of counter/src/lib.rs): constant-product pools whose *)
(* fees are kept beside the reserves, LP shares, the treasury's withdrawal  *)
(* and the route finder.  Each action is one contract invocation.           *)
(*                                                                          *)
(* Amounts are natural numbers; the checked arithmetic of the code rejects  *)
(* an overflow, which the bound MaxReserve stands for.                      *)
EXTENDS Ledger, Sequences, TLC

CONSTANTS
  Tokens,       \* token symbols, as numbers in the order of Symbol
  Providers,    \* accounts that may hold LP shares
  FeeTiers,     \* the accepted fee tiers: 1, 5 and 30
  Bps,          \* 10000, the denominator of a fee tier
  MinLP,        \* MIN_LP_TOKENS
  Amounts,      \* the amounts callers pass
  HopLimits,    \* the values the admin passes to set_max_hops
  MaxPools,     \* bound: pools explored
  MaxReserve    \* bound: largest reserve, supply or fee balance explored

ASSUME PoolAssumption ==
  /\ Tokens \subseteq Nat
  /\ IsFiniteSet(Providers)
  /\ Bps \in Nat \ {0}
  /\ FeeTiers \subseteq 0..(Bps - 1)
  /\ MinLP \in Nat \ {0}
  /\ Amounts \subseteq Nat
  /\ HopLimits \subseteq Nat
  /\ MaxPools \in Nat /\ MaxReserve \in Nat

\* Providers differ in their balances only.
ProviderSymmetry == Permutations(Providers)

VARIABLES
  pools,        \* pools and lp_balances; pool_id is the position
  maxHops       \* max_hops

vars == <<pools, maxHops>>

-----------------------------------------------------------------------------
(* Arithmetic *)

\* Newton's iteration, from above: the first guess is below y once y is 4 or more.
Isqrt(y) ==
  LET first == y \div 2 + 1
      Better(z) == (y \div z + z) \div 2
      newton[z \in 1..first] == IF Better(z) < z THEN newton[Better(z)] ELSE z
  IN  IF y = 0 THEN 0 ELSE IF y < 4 THEN 1 ELSE newton[first]

Lesser(m, n) == IF m < n THEN m ELSE n
Greater(m, n) == IF m < n THEN n ELSE m

-----------------------------------------------------------------------------
(* One pool: reserves ra, rb of the tokens a < b, the LP supply total, the  *)
(* fee tier, the accumulated fees fa, fb, and the balances lp.              *)

LiquidityPool ==
  [ a : Tokens, b : Tokens, ra : Nat, rb : Nat, total : Nat,
    tier : FeeTiers, fa : Nat, fb : Nat, lp : [Providers -> Nat] ]

\* The pool as a trade of token t sees it.
ReserveIn(p, t) == IF t = p.a THEN p.ra ELSE p.rb
ReserveOut(p, t) == IF t = p.a THEN p.rb ELSE p.ra
Other(p, t) == IF t = p.a THEN p.b ELSE p.a

\* Mutants: shares for the better of the two ratios; an output computed on the
\* reserve without the deposit, or rounded up; a quote without the fee.
MintedGenerously(p, x, y) ==
  Greater((x * p.total) \div p.ra, (y * p.total) \div p.rb)
OutputUndamped(p, t, net) == (ReserveOut(p, t) * net) \div ReserveIn(p, t)
OutputRoundedUp(p, t, net) ==
  (ReserveOut(p, t) * net) \div (ReserveIn(p, t) + net) + 1
QuotedNetNoFee(p, x) == x

\* LP shares for a deposit of x and y.
Minted(p, x, y) ==
  IF p.total = 0 THEN Isqrt(x * y)
  ELSE Lesser((x * p.total) \div p.ra, (y * p.total) \div p.rb)

AcceptsDeposit(p, x, y) ==
  /\ x > 0 /\ y > 0
  /\ p.ra # 0 /\ p.rb # 0
  /\ Minted(p, x, y) > 0
  /\ Minted(p, x, y) >= MinLP

\* What a trade pays out for an input of which net is left after the fee.
Output(p, t, net) == (ReserveOut(p, t) * net) \div (ReserveIn(p, t) + net)

\* swap takes the fee out of the input, rounded down; the route finder scales
\* the input by 1 - tier instead.
Fee(p, x) == (x * p.tier) \div Bps
QuotedNet(p, x) == (x * (Bps - p.tier)) \div Bps

SwapOutput(p, t, x) == Output(p, t, x - Fee(p, x))
QuotedOutput(p, t, x) == Output(p, t, QuotedNet(p, x))

\* Mutant: the depositor is credited, the supply is not raised.
DepositedUnissued(p, h, x, y) ==
  [p EXCEPT !.ra = @ + x, !.rb = @ + y, !.lp[h] = @ + Minted(p, x, y)]

\* The pool after a deposit, a burn of n shares, and a trade.
Deposited(p, h, x, y) ==
  [p EXCEPT !.ra = @ + x,
            !.rb = @ + y,
            !.total = @ + Minted(p, x, y),
            !.lp[h] = @ + Minted(p, x, y)]

Burned(p, h, n) ==
  [p EXCEPT !.ra = @ - (n * p.ra) \div p.total,
            !.rb = @ - (n * p.rb) \div p.total,
            !.total = @ - n,
            !.lp[h] = @ - n]

Swapped(p, t, x) ==
  IF t = p.a
  THEN [p EXCEPT !.ra = @ + (x - Fee(p, x)),
                 !.rb = @ - SwapOutput(p, t, x),
                 !.fa = @ + Fee(p, x)]
  ELSE [p EXCEPT !.rb = @ + (x - Fee(p, x)),
                 !.ra = @ - SwapOutput(p, t, x),
                 !.fb = @ + Fee(p, x)]

\* claim_fees: the share is an integer quotient of balance and supply.
ClaimShare(p, h) == p.lp[h] \div p.total
Claimed(p, h) ==
  [p EXCEPT !.fa = @ - p.fa * ClaimShare(p, h),
            !.fb = @ - p.fb * ClaimShare(p, h)]

\* The exploration bound.
Bounded(p) ==
  /\ p.ra <= MaxReserve /\ p.rb <= MaxReserve /\ p.total <= MaxReserve
  /\ p.fa <= MaxReserve /\ p.fb <= MaxReserve

-----------------------------------------------------------------------------
(* Operations *)

PairRegistered(a, b) == \E id \in DOMAIN pools : pools[id].a = a /\ pools[id].b = b

\* The pair is stored in symbol order; the initial shares belong to nobody.
RegisterPool(t, u, x, y, tier) ==
  LET a == Lesser(t, u)
      b == Greater(t, u)
      p == [ a |-> a, b |-> b,
             ra |-> IF t = a THEN x ELSE y, rb |-> IF t = a THEN y ELSE x,
             total |-> Isqrt(x * y), tier |-> tier, fa |-> 0, fb |-> 0,
             lp |-> [h \in Providers |-> 0] ]
  IN /\ t # u
     /\ x > 0 /\ y > 0
     /\ ~PairRegistered(a, b)
     /\ Len(pools) < MaxPools
     /\ Bounded(p)
     /\ pools' = Append(pools, p)
     /\ UNCHANGED maxHops

AddLiquidity(id, h, x, y) ==
  /\ AcceptsDeposit(pools[id], x, y)
  /\ pools' = [pools EXCEPT ![id] = Deposited(@, h, x, y)]
  /\ Bounded(pools'[id])
  /\ UNCHANGED maxHops

ClaimFees(id, h) ==
  /\ pools[id].lp[h] > 0
  /\ pools' = [pools EXCEPT ![id] = Claimed(@, h)]
  /\ UNCHANGED maxHops

\* The fees are claimed first, so a holder of no shares is refused.
RemoveLiquidity(id, h, n) ==
  /\ pools[id].lp[h] > 0
  /\ n <= pools[id].lp[h]
  /\ pools' = [pools EXCEPT ![id] = Burned(Claimed(@, h), h, n)]
  /\ UNCHANGED maxHops

Swap(id, t, x, minOut) ==
  /\ x > 0
  /\ t \in {pools[id].a, pools[id].b}
  /\ SwapOutput(pools[id], t, x) >= minOut
  /\ pools' = [pools EXCEPT ![id] = Swapped(@, t, x)]
  /\ Bounded(pools'[id])
  /\ UNCHANGED maxHops

\* The treasury takes all fees of a pool.
WithdrawTreasuryFees(id) ==
  /\ pools' = [pools EXCEPT ![id].fa = 0, ![id].fb = 0]
  /\ UNCHANGED maxHops

\* Admin only, as is set_max_hops.
UpdateFeeTier(id, tier) ==
  /\ pools' = [pools EXCEPT ![id].tier = tier]
  /\ UNCHANGED maxHops

SetMaxHops(n) ==
  /\ maxHops' = n
  /\ UNCHANGED pools

Init == pools = <<>> /\ maxHops = 2

Next ==
  \/ \E t, u \in Tokens, x, y \in Amounts, tier \in FeeTiers :
        RegisterPool(t, u, x, y, tier)
  \/ \E id \in DOMAIN pools, h \in Providers, x, y \in Amounts :
        AddLiquidity(id, h, x, y)
  \/ \E id \in DOMAIN pools, h \in Providers : ClaimFees(id, h)
  \/ \E id \in DOMAIN pools, h \in Providers, n \in 0..MaxReserve :
        RemoveLiquidity(id, h, n)
  \/ \E id \in DOMAIN pools, t \in Tokens, x, minOut \in Amounts :
        Swap(id, t, x, minOut)
  \/ \E id \in DOMAIN pools : WithdrawTreasuryFees(id)
  \/ \E id \in DOMAIN pools, tier \in FeeTiers : UpdateFeeTier(id, tier)
  \/ \E n \in HopLimits : SetMaxHops(n)

Spec == Init /\ [][Next]_vars

-----------------------------------------------------------------------------
(* find_best_route: the direct pool if there is one, else the two-hop route *)
(* with the largest positive output, the earliest on a tie.  max_hops is    *)
(* computed and never consulted.                                            *)

PoolsOf(t) == { id \in DOMAIN pools : t \in {pools[id].a, pools[id].b} }
Direct(t, u) == { id \in PoolsOf(t) : u = Other(pools[id], t) }

TwoHop(t, u) ==
  { r \in (DOMAIN pools) \X (DOMAIN pools) :
      /\ r[1] \in PoolsOf(t)
      /\ Other(pools[r[1]], t) # u
      /\ r[2] \in Direct(Other(pools[r[1]], t), u) }

RouteQuote(r, t, x) ==
  IF Len(r) = 1 THEN QuotedOutput(pools[r[1]], t, x)
  ELSE QuotedOutput(pools[r[2]], Other(pools[r[1]], t),
                    QuotedOutput(pools[r[1]], t, x))

BestRoutes(t, u, x) ==
  IF Direct(t, u) # {} THEN { <<id>> : id \in Direct(t, u) }
  ELSE { r \in TwoHop(t, u) :
           /\ RouteQuote(r, t, x) > 0
           /\ \A s \in TwoHop(t, u) :
                \/ RouteQuote(s, t, x) < RouteQuote(r, t, x)
                \/ RouteQuote(s, t, x) = RouteQuote(r, t, x) /\ r[1] <= s[1] }

\* Trading x along the route, one swap per pool.
RouteTraded(r, t, x) ==
  LET first == SwapOutput(pools[r[1]], t, x)
  IN IF Len(r) = 1 THEN first
     ELSE SwapOutput(pools[r[2]], Other(pools[r[1]], t), first)

-----------------------------------------------------------------------------
(* Properties *)

\* Type invariant.
TypeOK ==
  /\ pools \in Seq(LiquidityPool)
  /\ maxHops \in Nat

\* The shares held never add up to the supply: the initial shares of a pool
\* stay unowned whatever sequence of deposits and withdrawals follows, which
\* is what keeps the last withdrawal from emptying the pool.
SharesBacked == \A id \in DOMAIN pools : Supply(pools[id].lp) < pools[id].total

\* No trade and no withdrawal drains a reserve: both sides stay positive, so
\* the divisions by a reserve and by the supply are always defined.
Solvent == \A id \in DOMAIN pools : pools[id].ra > 0 /\ pools[id].rb > 0

\* p became q and a share of q is worth no less: either both reserves per share
\* are kept (no trade), or the supply is kept and so is the product.
KeepsShareValue(p, q) ==
  \/ q.ra * p.total >= p.ra * q.total /\ q.rb * p.total >= p.rb * q.total
  \/ q.total = p.total /\ q.ra * q.rb >= p.ra * p.rb

\* No operation of one user takes value from the shares of the others:
\* rounding always goes to the pool, in deposits, withdrawals and trades.
ShareValueNeverFalls ==
  [][\A id \in DOMAIN pools : KeepsShareValue(pools[id], pools'[id])]_pools

\* Trading there and back never yields more than was put in, at any size.
NoRoundTripProfit ==
  \A id \in DOMAIN pools, t \in Tokens, x \in Amounts :
    LET p == pools[id]
        y == SwapOutput(p, t, x)
    IN t \in {p.a, p.b} => SwapOutput(Swapped(p, t, x), Other(p, t), y) <= x

\* The quote is a promise: swap and the route finder round the fee differently,
\* and still a route traded in the state it was quoted in pays at least its
\* expected_output, so that it can be passed as min_amount_out.
RouteHonoured ==
  \A t, u \in Tokens, x \in Amounts :
    t # u => \A r \in BestRoutes(t, u, x) : RouteTraded(r, t, x) >= RouteQuote(r, t, x)

\* The supply never exceeds the geometric mean of the reserves, whatever deposits,
\* withdrawals and trades follow the registration that set it to that mean: no
\* share is ever issued without reserves behind it.  The mean is what Newton's
\* iteration returns, the floor of the square root.
SupplyWithinMean ==
  \A id \in DOMAIN pools :
    LET k == pools[id].ra * pools[id].rb
        r == Isqrt(k)
    IN /\ pools[id].total <= r
       /\ r * r <= k /\ k < (r + 1) * (r + 1)

-----------------------------------------------------------------------------
(* What a comment and a test say and the code does not do (violation runs)  *)

\* liquidity_pool.rs: claim_fees pays the "proportional share of accumulated
\* fees".
FeesAreClaimable ==
  \A id \in DOMAIN pools, h \in Providers :
    LET p == pools[id]
    IN Claimed(p, h).fa = p.fa - (p.fa * p.lp[h]) \div p.total

=============================================================================
