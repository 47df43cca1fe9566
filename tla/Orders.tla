------------------------------- MODULE Orders -------------------------------
(* The order manager (counter/src/orders.rs): limit, stop-loss and          *)
(* recurring orders, the matcher that sweeps the book of a pair at a price, *)
(* the sweep of due recurring orders, cancellation and expiry.  Each action *)
(* is one contract invocation; anyone may call a sweep, at any time.        *)
(*                                                                          *)
(* The lists the code keeps beside the orders (the book of a pair, the      *)
(* recurring list, the list of a user) only grow, and a sweep treats their  *)
(* entries one by one: they are the sets Book(pair) and Recurring below,    *)
(* and what a sweep does to one order is Matched or Ran.                    *)
EXTENDS Integers, Sequences

CONSTANTS
  Customers, Pairs,
  OrderAmounts,   \* amount_in of new orders
  OrderPrices,    \* limit and trigger prices, and current prices
  Intervals,      \* interval_secs of recurring orders
  Occurrences,    \* occurrences of recurring orders
  Expiries,       \* expires_at of new orders, None for no expiry
  None,           \* Rust's Option::None
  OrderEnd,       \* bound: last ledger timestamp explored
  MaxOrders       \* bound: orders placed

ASSUME OrderAssumption ==
  /\ OrderAmounts \subseteq Nat /\ OrderPrices \subseteq Nat
  /\ Intervals \subseteq Nat /\ Occurrences \subseteq Nat
  /\ None \notin Nat /\ Expiries \subseteq Nat \cup {None}
  /\ OrderEnd \in Nat /\ MaxOrders \in Nat

VARIABLES
  orders,         \* the stored orders; order_id is the position
  orderNow             \* env.ledger().timestamp()

orderVars == <<orders, orderNow>>

-----------------------------------------------------------------------------
(* Orders *)

OrderType == {"Limit", "StopLoss", "Recurring"}
Open == {"Pending", "PartiallyFilled", "Scheduled"}
OrderStatus == Open \cup {"Filled", "Cancelled", "Expired"}
Option(S) == S \cup {None}

\* level is the limit price of a limit order, the trigger of a stop-loss.
Order == [ owner : Customers, type : OrderType, pair : Pairs, amount : OrderAmounts,
           filled : Nat, level : Option(OrderPrices), status : OrderStatus,
           created : Nat, expires : Option(Nat), filledAt : Option(Nat),
           interval : Option(Nat), occurrences : Option(Nat),
           remaining : Option(Nat), nextRun : Option(Nat) ]

Book(pair) == { id \in DOMAIN orders : orders[id].pair = pair }
Recurring == { id \in DOMAIN orders : orders[id].type = "Recurring" }

\* Expiry is looked at before the status, so it also overtakes a closed order.
ExpiredNow(o) == o.expires # None /\ orderNow > o.expires

\* Recurring orders are in the book too, and never match there.
Matchable(o, price) ==
  /\ o.status \in {"Pending", "PartiallyFilled"}
  /\ o.type \in {"Limit", "StopLoss"}
  /\ price <= o.level

\* What match_pending_orders does to an order of the pair.
Matched(o, price) ==
  IF ExpiredNow(o) THEN [o EXCEPT !.status = "Expired"]
  ELSE IF Matchable(o, price)
       THEN [o EXCEPT !.status = "Filled", !.filledAt = orderNow]
       ELSE o

\* Mutant: one run too many.
ExecutedOnceMore(o) ==
  LET left == IF o.remaining > 0 THEN o.remaining - 1 ELSE 0
      last == o.remaining = 0
  IN [o EXCEPT !.filled = @ + o.amount, !.remaining = left,
               !.status = IF last THEN "Filled" ELSE "Scheduled",
               !.filledAt = IF last THEN orderNow ELSE @,
               !.nextRun = IF last THEN None ELSE orderNow + o.interval]

Due(o) ==
  /\ o.status \in {"Pending", "Scheduled"}
  /\ o.nextRun # None
  /\ orderNow >= o.nextRun

\* One execution: the next run is counted from the present, not from the schedule.
Executed(o) ==
  LET left == IF o.remaining > 0 THEN o.remaining - 1 ELSE 0
  IN [o EXCEPT !.filled = @ + o.amount,
               !.remaining = left,
               !.status = IF left = 0 THEN "Filled" ELSE "Scheduled",
               !.filledAt = IF left = 0 THEN orderNow ELSE @,
               !.nextRun = IF left = 0 THEN None ELSE orderNow + o.interval]

\* What execute_due_orders does to a recurring order.
Ran(o) ==
  IF ExpiredNow(o) THEN [o EXCEPT !.status = "Expired"]
  ELSE IF Due(o) THEN Executed(o) ELSE o

-----------------------------------------------------------------------------
(* Operations *)

\* create_order: place_limit_order and place_stop_loss differ in the type.
PlaceOrder(u, type, pair, amount, level, expires) ==
  /\ amount > 0 /\ level # 0
  /\ Len(orders) < MaxOrders
  /\ orders' = Append(orders,
       [ owner |-> u, type |-> type, pair |-> pair, amount |-> amount,
         filled |-> 0, level |-> level, status |-> "Pending",
         created |-> orderNow, expires |-> expires, filledAt |-> None,
         interval |-> None, occurrences |-> None, remaining |-> None,
         nextRun |-> None ])
  /\ UNCHANGED orderNow

PlaceRecurringOrder(u, pair, amount, interval, occurrences, expires) ==
  /\ amount > 0 /\ interval # 0 /\ occurrences # 0
  /\ Len(orders) < MaxOrders
  /\ orders' = Append(orders,
       [ owner |-> u, type |-> "Recurring", pair |-> pair, amount |-> amount,
         filled |-> 0, level |-> None, status |-> "Pending",
         created |-> orderNow, expires |-> expires, filledAt |-> None,
         interval |-> interval, occurrences |-> occurrences,
         remaining |-> occurrences, nextRun |-> orderNow + interval ])
  /\ UNCHANGED orderNow

CancelOrder(id, u) ==
  /\ orders[id].owner = u
  /\ orders[id].status \in Open
  /\ orders' = [orders EXCEPT ![id].status = "Cancelled"]
  /\ UNCHANGED orderNow

MatchPendingOrders(pair, price) ==
  /\ orders' = [id \in DOMAIN orders |->
                  IF id \in Book(pair) THEN Matched(orders[id], price)
                  ELSE orders[id]]
  /\ UNCHANGED orderNow

ExecuteDueOrders ==
  /\ orders' = [id \in DOMAIN orders |->
                  IF id \in Recurring THEN Ran(orders[id]) ELSE orders[id]]
  /\ UNCHANGED orderNow

OrderTick ==
  /\ orderNow < OrderEnd
  /\ orderNow' = orderNow + 1
  /\ UNCHANGED orders

OrderInit == orders = <<>> /\ orderNow = 0

OrderNext ==
  \/ \E u \in Customers, type \in {"Limit", "StopLoss"}, pair \in Pairs,
        amount \in OrderAmounts, level \in OrderPrices, expires \in Expiries :
        PlaceOrder(u, type, pair, amount, level, expires)
  \/ \E u \in Customers, pair \in Pairs, amount \in OrderAmounts, interval \in Intervals,
        occurrences \in Occurrences, expires \in Expiries :
        PlaceRecurringOrder(u, pair, amount, interval, occurrences, expires)
  \/ \E id \in DOMAIN orders, u \in Customers : CancelOrder(id, u)
  \/ \E pair \in Pairs, price \in OrderPrices : MatchPendingOrders(pair, price)
  \/ ExecuteDueOrders
  \/ OrderTick

OrderSpec == OrderInit /\ [][OrderNext]_orderVars

-----------------------------------------------------------------------------
(* Properties *)

\* Type invariant; levels, intervals and schedules go with their order types.
OrderTypeOK ==
  /\ orders \in Seq(Order)
  /\ orderNow \in Nat
  /\ \A id \in DOMAIN orders :
       LET o == orders[id]
       IN /\ o.type = "Recurring" <=> o.interval # None
          /\ o.type = "Recurring" <=> o.remaining # None
          /\ o.type = "Recurring" <=> o.level = None

Executions(o) == o.occurrences - o.remaining

\* Two sweeps of two lists reach a recurring order, and cancellations and
\* expiries come in between: still every execution is paid for exactly once,
\* none beyond the number ordered, and all of them if it counts as filled.
ExecutionsAccounted ==
  \A id \in Recurring :
    LET o == orders[id]
    IN /\ o.remaining \in 0..o.occurrences
       /\ o.filled = Executions(o) * o.amount
       /\ o.filledAt # None <=> o.remaining = 0
       /\ o.status \in Open => o.remaining > 0

\* However often the sweeps are called, a recurring order is never ahead of its
\* schedule: k executions take k intervals.
NeverAhead ==
  \A id \in Recurring :
    LET o == orders[id]
    IN Executions(o) > 0 => o.created + Executions(o) * o.interval <= orderNow

\* No order is filled after it has expired, though expiry is only ever
\* recorded when a sweep happens to see it.
FilledInTime ==
  \A id \in DOMAIN orders :
    LET o == orders[id]
    IN o.filledAt # None /\ o.expires # None => o.filledAt <= o.expires

\* A closed order is never reopened, cancelled or filled after the fact: its
\* amounts, its occurrences and its fill time are final, and all that can still
\* befall it is to be marked as expired.
ClosedIsFinal ==
  [][\A id \in DOMAIN orders :
       orders[id].status \notin Open =>
         /\ orders'[id].status \in {orders[id].status, "Expired"}
         /\ orders'[id].filled = orders[id].filled
         /\ orders'[id].filledAt = orders[id].filledAt]_orders

\* Whatever the order of sweeps, cancellations and expiries, executions are paid
\* for once, on schedule and not after the expiry, and a closed order is final
\* (orders.rs:182, 434, 495).
OrdersSound ==
  /\ [](OrderTypeOK /\ ExecutionsAccounted /\ NeverAhead /\ FilledInTime)
  /\ ClosedIsFinal

-----------------------------------------------------------------------------
(* What the comments say and the code does not do (violation runs)          *)

\* orders.rs: "Expired, // Order expired without being filled".
ExpiredUnfilled ==
  \A id \in DOMAIN orders :
    orders[id].status = "Expired" => orders[id].filledAt = None

=============================================================================
