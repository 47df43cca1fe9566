---------------------------- MODULE NftLending ----------------------------
(* Loans against tokens (counter/src/nft_lending.rs): between two users,    *)
(* or out of a pool of deposits; foreclosure of overdue loans, liquidation  *)
(* of loans whose token lost value, and the queue and the bids that lead to *)
(* it.  A price is whatever the oracle answers at that call.                *)
EXTENDS NftStorage

CONSTANTS
  Amounts,       \* loans and deposits
  Rates,         \* daily interest in Bps, of user loans
  LoanDays,      \* durations
  GraceDays,     \* LIQUIDATION_GRACE_PERIOD
  Values,        \* what oracles may answer
  BaseRate,      \* base_rate_bps of the pools
  MaxLtv,        \* MAX_LTV_BPS
  MinRatio,      \* LIQUIDATION_COLLATERALIZATION_RATIO_MIN, a percentage
  TriggerLtv, PartialLtv,  \* LIQUIDATION_TRIGGER_LTV_BPS, PARTIAL_LIQUIDATION_LTV_BPS
  InterestPrecision,  \* INTEREST_PRECISION, 10^18
  MaxQueue,      \* MAX_LIQUIDATION_QUEUE_SIZE
  Bids,          \* liquidation bids
  Extras,        \* paid beyond what is due
  MaxPool        \* bound: deposits of a pool

ASSUME LendingAssumption ==
  /\ Amounts \subseteq Nat \ {0} /\ Values \subseteq Nat \ {0} /\ Bids \subseteq Nat \ {0}
  /\ Rates \subseteq Nat \ {0} /\ LoanDays \subseteq Nat \ {0}
  /\ {GraceDays, BaseRate, MaxLtv, MinRatio, TriggerLtv, PartialLtv, MaxQueue} \subseteq Nat
  /\ InterestPrecision \in Nat \ {0} /\ Bps > 1
  /\ Extras \subseteq Nat /\ MaxPool \in Nat

VARIABLES
  pools,     \* LENDING_POOL_REGISTRY_KEY
  deposits,  \* LENDER_DEPOSITS_KEY: the amount; 0 where there is no entry
  queue,     \* LIQUIDATION_QUEUE_KEY
  bids       \* LIQUIDATION_BID_REGISTRY_KEY, by loan; amount 0 where there is none

lendVars == <<pools, deposits, queue, bids>>

NoOtherChange == UNCHANGED <<books, vaults, shares, switches, now>>

LendingPool == [ open : BOOLEAN, deposited : Int, borrowed : Int ]

NoBid == [ bidder |-> None, amount |-> 0 ]
Bid == [ bidder : Users, amount : Nat ] \cup {NoBid}

Liquidity(p) == pools[p].deposited - pools[p].borrowed

-----------------------------------------------------------------------------
(* Loans between users *)

\* A listed token is refused; that a token is offered for does not matter.
RequestLoan(u, t, amount, rate, days) ==
  /\ ~paused /\ u \notin frozen
  /\ nft[t].owner = u
  /\ ~Collateralized(t)
  /\ ~nft[t].fractional
  /\ \A i \in Live(listings) : listings[i].token # t
  /\ Room
  /\ CreateLoan([ token |-> t, borrower |-> u, lender |-> u, amount |-> amount,
                  rate |-> rate, repayment |-> amount, days |-> days, due |-> 0,
                  active |-> FALSE, repaid |-> FALSE, liquidated |-> FALSE ])
  /\ UNCHANGED <<nft, portfolio, lendVars>> /\ NoOtherChange

\* The interest: the scale is divided out of the daily interest and then once
\* more out of the total, so it is zero for every amount below the scale.
TotalInterest(amount, rate, days) ==
  (((amount * rate) \div Bps) * days) \div InterestPrecision

\* Whoever lends, the request may have been repaid, liquidated or withdrawn.
FundLoan(u, i) ==
  LET l == loans[i] IN
  /\ ~paused /\ u \notin frozen
  /\ ~l.active
  /\ l.borrower # u
  /\ loans' = [loans EXCEPT ![i] =
       [ l EXCEPT !.repayment = l.amount + TotalInterest(l.amount, l.rate, l.days),
                  !.lender = u, !.due = now + l.days, !.active = TRUE ]]
  /\ portfolio' = Counted(Counted(portfolio, l.borrower, "taken"), u, "given")
  /\ UNCHANGED <<nft, collateral, lendVars>> /\ NoOtherChange

Settled(l) == Discounted(Discounted(portfolio, l.borrower, "taken"), l.lender, "given")

RepayLoan(u, i) ==
  LET l == loans[i] IN
  /\ ~paused
  /\ l.borrower = u
  /\ Running(l)
  /\ MarkRepaid(i)
  /\ portfolio' = Settled(l)
  /\ UNCHANGED <<nft, collateral, lendVars>> /\ NoOtherChange

LiquidateLoan(i) ==
  LET l == loans[i] IN
  /\ Running(l)
  /\ now > l.due + GraceDays
  /\ TransferOwnership(l.token, l.lender)
  /\ MarkLiquidated(i)
  /\ portfolio' = Settled(l)
  /\ UNCHANGED <<collateral, lendVars>> /\ NoOtherChange

-----------------------------------------------------------------------------
(* Pools *)

CreateLendingPool(p) ==
  /\ ~pools[p].open
  /\ pools' = [pools EXCEPT ![p].open = TRUE]
  /\ UNCHANGED <<nft, loans, collateral, portfolio, deposits, queue, bids>> /\ NoOtherChange

DepositToLendingPool(u, p, amount) ==
  /\ u \notin frozen
  /\ pools[p].open
  /\ pools[p].deposited + amount <= MaxPool
  /\ pools' = [pools EXCEPT ![p].deposited = @ + amount]
  /\ deposits' = [deposits EXCEPT ![p][u] = @ + amount]
  /\ UNCHANGED <<nft, loans, collateral, portfolio, queue, bids>> /\ NoOtherChange

\* Mutant: the liquidity is not looked at.
WithdrawUnchecked(u, p, amount) ==
  /\ u \notin frozen
  /\ pools[p].open
  /\ deposits[p][u] >= amount
  /\ pools' = [pools EXCEPT ![p].deposited = @ - amount]
  /\ deposits' = [deposits EXCEPT ![p][u] = @ - amount]
  /\ UNCHANGED <<nft, loans, collateral, portfolio, queue, bids>> /\ NoOtherChange

WithdrawFromLendingPool(u, p, amount) ==
  /\ u \notin frozen
  /\ pools[p].open
  /\ amount <= Liquidity(p)
  /\ deposits[p][u] >= amount
  /\ pools' = [pools EXCEPT ![p].deposited = @ - amount]
  /\ deposits' = [deposits EXCEPT ![p][u] = @ - amount]
  /\ UNCHANGED <<nft, loans, collateral, portfolio, queue, bids>> /\ NoOtherChange

\* calculate_dynamic_interest_rate, with its kink at 80 % utilization.  The
\* slopes are 100 and 500 in 10000.  A pool with a negative balance of loans
\* divides as unsigned and panics: the caller asks for a natural one.
Utilization(pool) == (pool.borrowed * Bps) \div pool.deposited

DynamicRate(pool) ==
  LET knee == (Bps * 8) \div 10
      u == Utilization(pool)
  IN IF pool.deposited = 0 THEN BaseRate
     ELSE IF u <= knee
     THEN BaseRate + ((Bps \div 100) * u) \div knee
     ELSE BaseRate + (Bps \div 100) + ((Bps \div 20) * (u - knee)) \div (Bps - knee)

\* A listed token is accepted here.
BorrowFromLendingPool(u, p, t, amount, days, price) ==
  LET rate == DynamicRate(pools[p])
      interest == ((amount * rate) \div Bps) * days
  IN
  /\ ~paused /\ u \notin frozen
  /\ pools[p].open
  /\ amount <= Liquidity(p)
  /\ pools[p].borrowed >= 0
  /\ nft[t].owner = u
  /\ ~Collateralized(t)
  /\ ~nft[t].fractional
  /\ amount <= (price * MaxLtv) \div Bps
  /\ Room
  /\ pools' = [pools EXCEPT ![p].borrowed = @ + amount]
  /\ CreateLoan([ token |-> t, borrower |-> u, lender |-> p, amount |-> amount,
                  rate |-> rate, repayment |-> amount + interest, days |-> days,
                  due |-> now + days,
                  active |-> TRUE, repaid |-> FALSE, liquidated |-> FALSE ])
  /\ portfolio' = Counted(portfolio, u, "taken")
  /\ UNCHANGED <<nft, deposits, queue, bids>> /\ NoOtherChange

\* The pool is the caller's choice, and so is the amount from the due one up.
RepayLendingPoolLoan(u, p, i, extra) ==
  LET l == loans[i] IN
  /\ ~paused
  /\ l.borrower = u
  /\ Running(l)
  /\ pools[p].open
  /\ pools[p].deposited + TotalDue(l) + extra - l.amount <= MaxPool
  /\ MarkRepaid(i)
  /\ pools' = [pools EXCEPT ![p].borrowed = @ - l.amount,
                            ![p].deposited = @ + TotalDue(l) + extra - l.amount]
  /\ portfolio' = Settled(l)
  /\ UNCHANGED <<nft, collateral, deposits, queue, bids>> /\ NoOtherChange

CanLiquidateLoan(l, price) ==
  /\ Running(l)
  /\ \/ (price * 100) \div l.amount < MinRatio
     \/ now > l.due + GraceDays

\* The liquidator pays nothing; a pool forgets the loan, its lenders keep
\* their claims.
LiquidateUndercollateralizedLoan(u, i, price) ==
  LET l == loans[i] IN
  /\ u \notin frozen
  /\ CanLiquidateLoan(l, price)
  /\ MarkLiquidated(i)
  /\ TransferOwnership(l.token, u)
  /\ pools' = IF l.lender \in Pools
              THEN [pools EXCEPT ![l.lender].borrowed = @ - l.amount] ELSE pools
  /\ portfolio' = Discounted(portfolio, l.borrower, "taken")
  /\ UNCHANGED <<collateral, deposits, queue, bids>> /\ NoOtherChange

-----------------------------------------------------------------------------
(* The liquidation queue *)

LoanLtv(l, value) == (TotalDue(l) * Bps) \div value

Undercollateralized(l, value) == Running(l) /\ LoanLtv(l, value) > TriggerLtv

Queued(i) == \E n \in 1..Len(queue) : queue[n] = i

EnqueueLiquidation(i, value) ==
  /\ Undercollateralized(loans[i], value)
  /\ Len(queue) < MaxQueue
  /\ queue' = IF Queued(i) THEN queue ELSE Append(queue, i)
  /\ UNCHANGED <<nft, loans, collateral, portfolio, pools, deposits, bids>> /\ NoOtherChange

PlaceLiquidationBid(u, i, amount, value) ==
  /\ loans[i].borrower # u
  /\ Undercollateralized(loans[i], value)
  /\ amount > bids[i].amount
  /\ bids' = [bids EXCEPT ![i] = [ bidder |-> u, amount |-> amount ]]
  /\ UNCHANGED <<nft, loans, collateral, portfolio, pools, deposits, queue>> /\ NoOtherChange

\* Half of the debt is forgiven and the loan goes on.
PartialLiquidation(i) ==
  /\ loans' = [loans EXCEPT ![i].repayment = TotalDue(loans[i]) - TotalDue(loans[i]) \div 2]
  /\ UNCHANGED <<nft, portfolio, bids>>

\* The token goes to the best bid, however old, or to the lender.
FullLiquidation(i) ==
  LET l == loans[i] IN
  /\ TransferOwnership(l.token, IF bids[i] # NoBid THEN bids[i].bidder ELSE l.lender)
  /\ MarkLiquidated(i)
  /\ portfolio' = Settled(l)
  /\ bids' = [bids EXCEPT ![i] = NoBid]

ExecuteLiquidation(i, value) ==
  /\ Undercollateralized(loans[i], value)
  /\ IF LoanLtv(loans[i], value) <= PartialLtv
     THEN PartialLiquidation(i) ELSE FullLiquidation(i)
  /\ UNCHANGED <<collateral, pools, deposits>> /\ NoOtherChange

ExecuteLiquidationNow(i, value) == ExecuteLiquidation(i, value) /\ UNCHANGED queue

\* A set of numbers in ascending order: one sequence.
Ascending(S) ==
  { s \in [1..Cardinality(S) -> S] : \A m, n \in DOMAIN s : m < n => s[m] < s[n] }

\* Every loan whose token lost too much is queued, in the order of the ids; the
\* queue may outgrow its limit here, of which only the additions are counted.
MonitorAndQueueLiquidations(value) ==
  LET due == { i \in 1..Len(loans) :
                 /\ Undercollateralized(loans[i], value[loans[i].token])
                 /\ ~Queued(i) }
  IN
  /\ due # {}
  /\ \E added \in Ascending(due) :
       queue' = queue \o SubSeq(added, 1, IF Len(added) < MaxQueue THEN Len(added) ELSE MaxQueue)
  /\ UNCHANGED <<nft, loans, collateral, portfolio, pools, deposits, bids>> /\ NoOtherChange

\* One item of the queue is processed: the first that can be executed leaves the
\* queue, and those before it that cannot stay in it.  process_liquidation_queue
\* repeats this for different loans, which differ in token, up to max_items times.
ProcessLiquidationQueue(n, value) ==
  /\ \A m \in 1..(n-1) : ~Undercollateralized(loans[queue[m]], value[loans[queue[m]].token])
  /\ queue[n] \in 1..Len(loans)
  /\ ExecuteLiquidation(queue[n], value[loans[queue[n]].token])
  /\ queue' = SubSeq(queue, 1, n - 1) \o SubSeq(queue, n + 1, Len(queue))

LendingInit ==
  /\ pools = [p \in Pools |-> [ open |-> FALSE, deposited |-> 0, borrowed |-> 0 ]]
  /\ deposits = [p \in Pools |-> [u \in Users |-> 0]]
  /\ queue = <<>>
  /\ bids = [i \in 1..MaxEntries |-> NoBid]

LendingNext ==
  \/ \E u \in Users, t \in Tokens, a \in Amounts, r \in Rates, d \in LoanDays :
       RequestLoan(u, t, a, r, d)
  \/ \E p \in Pools : CreateLendingPool(p)
  \/ \E u \in Users, p \in Pools, a \in Amounts :
       \/ DepositToLendingPool(u, p, a)
       \/ WithdrawFromLendingPool(u, p, a)
       \/ \E t \in Tokens, d \in LoanDays, v \in Values :
            BorrowFromLendingPool(u, p, t, a, d, v)
  \/ \E u \in Users, i \in 1..Len(loans) :
       \/ FundLoan(u, i)
       \/ RepayLoan(u, i)
       \/ \E p \in Pools, extra \in Extras : RepayLendingPoolLoan(u, p, i, extra)
       \/ \E v \in Values : LiquidateUndercollateralizedLoan(u, i, v)
       \/ \E b \in Bids, v \in Values : PlaceLiquidationBid(u, i, b, v)
  \/ \E i \in 1..Len(loans) :
       \/ LiquidateLoan(i)
       \/ \E v \in Values : EnqueueLiquidation(i, v) \/ ExecuteLiquidationNow(i, v)
  \/ \E v \in [Tokens -> Values] :
       \/ MonitorAndQueueLiquidations(v)
       \/ \E n \in 1..Len(queue) : ProcessLiquidationQueue(n, v)
===========================================================================
