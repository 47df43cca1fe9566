------------------------------ MODULE Matching ------------------------------
(* The matching engine (matching_engine.rs) and the orders it is given      *)
(* (order_types.rs).  The engine only says what to fill: whoever calls it   *)
(* hands it one side of a book, in any order, and applies the answer to the *)
(* orders.  Quantities are whole lots; a pro-rata share is rounded down to  *)
(* one.  Prices do not decide anything here, and are left out.              *)
EXTENDS SequencesExt, Ledger

CONSTANTS
  Makers,         \* resting orders, numbered as they are created
  Quantities      \* of new orders

ASSUME MatchingAssumption ==
  IsFiniteSet(Makers) /\ Makers \subseteq Nat /\ Quantities \subseteq Nat \ {0}

VARIABLES
  algorithm,
  orders,         \* the resting orders
  incoming,       \* the order that comes in
  matches,        \* history: the last answer of the engine, and its algorithm
  overbid         \* history: an auction was held for an order filled in part

matchVars == <<algorithm, orders, incoming, matches, overbid>>

Algorithms == {"FIFO", "ProRata", "TimeWeighted", "Auction"}
Order == [quantity : Nat, filled : Nat,
          status : {"None", "New", "PartiallyFilled", "Filled", "Cancelled"}]
NoOrder == [quantity |-> 0, filled |-> 0, status |-> "None"]
NewOrder(q) == [quantity |-> q, filled |-> 0, status |-> "New"]

AtMost(a, b) == IF a <= b THEN a ELSE b
Rest(o) == IF o.filled < o.quantity THEN o.quantity - o.filled ELSE 0

\* update_filled and cancel.
UpdateFilled(o, q) ==
  LET filled == o.filled + q IN
  [o EXCEPT !.filled = filled,
    !.status = IF filled = o.quantity THEN "Filled"
               ELSE IF filled > 0 THEN "PartiallyFilled" ELSE @]
Cancelled(o) == IF o.filled = o.quantity THEN o ELSE [o EXCEPT !.status = "Cancelled"]

-----------------------------------------------------------------------------
(* The algorithms: what each resting order gets *)

\* What the engine is handed to choose from.
Resting == { m \in Makers : Rest(orders[m]) > 0 /\ orders[m].status # "Cancelled" }

\* Mutant: orders are taken as the caller lists them.
TurnsAsListed(makers) == SetToSeqs(makers)

\* Whatever the order in which the caller lists them: by the time of creation
\* under FIFO, and by its reverse, the youngest first, under TimeWeighted.
Turns(makers) ==
  { list \in SetToSeqs(makers) : \A i, j \in DOMAIN list : i < j =>
      /\ algorithm = "FIFO" => list[i] < list[j]
      /\ algorithm = "TimeWeighted" => list[i] > list[j] }

\* An auction is held for the whole quantity, whatever was filled before.
Wanted == IF algorithm = "Auction" THEN incoming.quantity ELSE Rest(incoming)

\* An order gets what is left, as far as it goes; under ProRata of what is left
\* at its turn, not of what was wanted, what the order is of all that is there.
Available == Supply([m \in Makers |-> IF m \in Resting THEN Rest(orders[m]) ELSE 0])
Part(m, left) ==
  AtMost(IF algorithm = "ProRata" THEN (left * Rest(orders[m])) \div Available ELSE left,
         Rest(orders[m]))

\* What is left after each turn.
Left(list) ==
  LET left[i \in 0..Len(list)] ==
        IF i = 0 THEN Wanted ELSE left[i - 1] - Part(list[i], left[i - 1])
  IN left

EngineAnswer(list) ==
  [m \in Makers |->
     IF \A i \in DOMAIN list : list[i] # m THEN 0
     ELSE LET turn == CHOOSE i \in DOMAIN list : list[i] = m
          IN Left(list)[turn - 1] - Left(list)[turn]]

-----------------------------------------------------------------------------

SwitchAlgorithm(a) ==
  /\ a # algorithm /\ algorithm' = a
  /\ UNCHANGED <<orders, incoming, matches, overbid>>

\* The next resting order, or the next incoming one.
PlaceOrder(q) ==
  \E m \in Makers :
    /\ { n \in Makers : orders[n] = NoOrder } = { n \in Makers : n >= m }
    /\ orders' = [orders EXCEPT ![m] = NewOrder(q)]
    /\ UNCHANGED <<algorithm, incoming, matches, overbid>>

Arrive(q) ==
  /\ incoming' = NewOrder(q)
  /\ overbid' = FALSE
  /\ UNCHANGED <<algorithm, orders, matches>>

Cancel(m) ==
  /\ orders[m] # NoOrder
  /\ orders' = [orders EXCEPT ![m] = Cancelled(@)]
  /\ UNCHANGED <<algorithm, incoming, matches, overbid>>

\* match_orders, and its caller applying the answer.
MatchOrders ==
  \E list \in Turns(Resting) :
    LET answer == EngineAnswer(list) IN
    /\ incoming # NoOrder
    /\ matches' = [by |-> algorithm, lots |-> answer]
    /\ orders' = [m \in Makers |->
         IF answer[m] = 0 THEN orders[m] ELSE UpdateFilled(orders[m], answer[m])]
    /\ incoming' = UpdateFilled(incoming, Supply(answer))
    /\ overbid' = (overbid \/ (algorithm = "Auction" /\ incoming.filled > 0))
    /\ UNCHANGED algorithm

MatchInit ==
  /\ algorithm \in Algorithms
  /\ orders = [m \in Makers |-> NoOrder] /\ incoming = NoOrder
  /\ matches = [by |-> "FIFO", lots |-> [m \in Makers |-> 0]] /\ overbid = FALSE

MatchNext ==
  \/ \E a \in Algorithms : SwitchAlgorithm(a)
  \/ \E q \in Quantities : PlaceOrder(q) \/ Arrive(q)
  \/ \E m \in Makers : Cancel(m)
  \/ MatchOrders

MatchSpec == MatchInit /\ [][MatchNext]_matchVars

-----------------------------------------------------------------------------
(* Properties *)

\* Type invariant.
MatchTypeOK ==
  /\ algorithm \in Algorithms /\ overbid \in BOOLEAN
  /\ orders \in [Makers -> Order] /\ incoming \in Order

\* Whatever algorithms are switched between, no resting order is filled beyond
\* its quantity, and no incoming one but by an auction held for an order that
\* was filled in part; and under FIFO a younger order is filled only after all
\* that the older ones had left.
NoOverfill ==
  /\ \A m \in Makers : orders[m].filled <= orders[m].quantity
  /\ ~overbid => incoming.filled <= incoming.quantity

FifoByAge ==
  matches'.by = "FIFO" /\ matches' # matches =>
    \A m, n \in Makers : m < n /\ matches'.lots[n] > 0 =>
      orders'[m].status = "Cancelled" \/ Rest(orders'[m]) = 0

MatchingSound == [][NoOverfill' /\ FifoByAge]_matchVars

=============================================================================
