---------------------------- MODULE BookReplica -----------------------------
(* The order book that the market data server keeps from the updates of a   *)
(* source (orderbook.rs).  Updates may be lost, repeated and come in any    *)
(* order; the book takes one if its id is above the last one taken.  The    *)
(* quantity of a level stands for the update that set it.                   *)
EXTENDS Integers, Sequences, FiniteSets

CONSTANTS
  Prices,
  MaxDepth,       \* max_depth of the aggregator
  MaxChanges,     \* bound: levels an update changes
  MaxUpdates      \* bound: updates of the source

ASSUME ReplicaAssumption ==
  IsFiniteSet(Prices) /\ Prices \subseteq Nat /\ {MaxDepth, MaxChanges, MaxUpdates} \subseteq Nat

VARIABLES
  source,         \* the book of the source after each of its updates, and before
  wire,           \* ids of updates that may still arrive
  bids, asks,     \* the levels the replica shows: quantities by price
  lastUpdateId,
  taken,          \* history: the updates the replica took
  pruned          \* history: some level was dropped for depth

replicaVars == <<source, wire, bids, asks, lastUpdateId, taken, pruned>>

Empty == [p \in {} |-> 0]
Levels == {"bid", "ask"} \X Prices

\* The book of the source after update n, side by side.
SourceAt(n) == source[n + 1]
Side(book, side) == [p \in { q \in Prices : book[<<side, q>>] # 0 } |-> book[<<side, p>>]]

\* update_price_level, for each level of the side that the update changes.
Updated(shown, side, n) ==
  LET changed == { p \in Prices : SourceAt(n)[<<side, p>>] # SourceAt(n - 1)[<<side, p>>] }
      after == Side(SourceAt(n), side)
  IN [p \in (DOMAIN shown \ changed) \cup (DOMAIN after \cap changed) |->
        IF p \in changed THEN after[p] ELSE shown[p]]

\* maintain_depth: the lowest bids and the highest asks go.
Better(side, p, q) == IF side = "bid" THEN p > q ELSE p < q
MaintainDepth(shown, side) ==
  LET kept == { p \in DOMAIN shown :
                  Cardinality({ q \in DOMAIN shown : Better(side, q, p) }) < MaxDepth }
  IN [p \in kept |-> shown[p]]

-----------------------------------------------------------------------------

\* The source changes some levels and says so.
Publish(levels, removed) ==
  LET n == Len(source) IN
  /\ n <= MaxUpdates
  /\ source' = Append(source, [l \in Levels |->
       IF l \in removed THEN 0 ELSE IF l \in levels THEN n ELSE SourceAt(n - 1)[l]])
  /\ wire' = wire \cup {n}
  /\ UNCHANGED <<bids, asks, lastUpdateId, taken, pruned>>

Lose(n) ==
  /\ wire' = wire \ {n}
  /\ UNCHANGED <<source, bids, asks, lastUpdateId, taken, pruned>>

\* Mutant: any update that was not the last one is taken.
FreshUnlessRepeated(n) == n # lastUpdateId

Fresh(n) == n > lastUpdateId

\* update_orderbook, of a copy of the update; an old one is refused.
UpdateOrderbook(n) ==
  LET newBids == Updated(bids, "bid", n)
      newAsks == Updated(asks, "ask", n)
  IN
  /\ Fresh(n)
  /\ bids' = MaintainDepth(newBids, "bid")
  /\ asks' = MaintainDepth(newAsks, "ask")
  /\ lastUpdateId' = n
  /\ taken' = taken \cup {n}
  /\ pruned' = (pruned \/ <<bids', asks'>> # <<newBids, newAsks>>)
  /\ UNCHANGED <<source, wire>>

ReplicaInit ==
  /\ source = <<[l \in Levels |-> 0]>> /\ wire = {}
  /\ bids = Empty /\ asks = Empty
  /\ lastUpdateId = 0 /\ taken = {} /\ pruned = FALSE

ReplicaNext ==
  \/ \E levels \in SUBSET Levels : \E removed \in SUBSET levels :
       levels # {} /\ Cardinality(levels) <= MaxChanges /\ Publish(levels, removed)
  \/ \E n \in wire : Lose(n) \/ UpdateOrderbook(n)

ReplicaSpec == ReplicaInit /\ [][ReplicaNext]_replicaVars

-----------------------------------------------------------------------------
(* Properties *)

\* Type invariant.
ReplicaTypeOK ==
  /\ source \in Seq([Levels -> Nat])
  /\ wire \subseteq 1..MaxUpdates /\ taken \subseteq 1..MaxUpdates
  /\ DOMAIN bids \subseteq Prices /\ DOMAIN asks \subseteq Prices
  /\ lastUpdateId \in Nat /\ pruned \in BOOLEAN

\* A replica that missed no update up to the last one it took shows nothing
\* that the source had not at that point, and all of it unless depth was cut;
\* and it never shows more levels than the depth, whatever arrived in what order.
ReplicaFaithful ==
  /\ Cardinality(DOMAIN bids) <= MaxDepth /\ Cardinality(DOMAIN asks) <= MaxDepth
  /\ taken = 1..lastUpdateId =>
       LET sourceBids == Side(SourceAt(lastUpdateId), "bid")
           sourceAsks == Side(SourceAt(lastUpdateId), "ask")
       IN /\ \A p \in DOMAIN bids : p \in DOMAIN sourceBids /\ bids[p] = sourceBids[p]
          /\ \A p \in DOMAIN asks : p \in DOMAIN sourceAsks /\ asks[p] = sourceAsks[p]
          /\ ~pruned => bids = sourceBids /\ asks = sourceAsks

=============================================================================
