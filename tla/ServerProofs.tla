---------------------------- MODULE ServerProofs -----------------------------
(* Proofs about the market data server.  Its replica of an order book shows *)
(* what was published, its cached answers are as fresh as it says, its      *)
(* limits on orders and addresses and its matching engine do what they are  *)
(* for, for any number of prices, requests, traders, addresses and orders;  *)
(* its connection manager implements the gauge, for any finite set of       *)
(* connections, limits and width of words; and its sessions keep the order  *)
(* of the feed, for any clients and symbols.                                *)
EXTENDS MCStreamData, ConnectionManager, Sessions, FiniteSetTheorems, TLAPS

\* The provers that a leaf which names none is given, and for how long.
USE SMTT(30), ZenonT(30)

-----------------------------------------------------------------------------
(* Members of a set that have few others ahead of them *)

\* An order on a set, as the pairs of a member and one that comes after it.
Orders(S, R) ==
  /\ \A p \in S : <<p, p>> \notin R
  /\ \A p, q \in S : p # q => <<p, q>> \in R \/ <<q, p>> \in R
  /\ \A p, q, r \in S : <<p, q>> \in R /\ <<q, r>> \in R => <<p, r>> \in R
Ahead(S, R, p) == { q \in S : <<q, p>> \in R }
First(S, R, d) == { p \in S : Cardinality(Ahead(S, R, p)) < d }

\* The further back, the more are ahead.
LEMMA MoreAhead ==
  ASSUME NEW S, IsFiniteSet(S), NEW R, Orders(S, R), NEW p \in S, NEW q \in S, <<p, q>> \in R
  PROVE  /\ Cardinality(Ahead(S, R, p)) \in Nat /\ Cardinality(Ahead(S, R, q)) \in Nat
         /\ Cardinality(Ahead(S, R, p)) < Cardinality(Ahead(S, R, q))
<1> DEFINE A == Ahead(S, R, p)
           B == Ahead(S, R, q)
<1>1. IsFiniteSet(A) /\ IsFiniteSet(B)
  <2>1. A \in SUBSET S /\ B \in SUBSET S
    BY DEF Ahead
  <2> QED
    BY <2>1, FS_Subset
<1>2. p \notin A /\ A \cup {p} \subseteq B
  BY DEF Ahead, Orders
<1>3. IsFiniteSet(A \cup {p}) /\ Cardinality(A \cup {p}) = Cardinality(A) + 1
  BY <1>1, <1>2, FS_AddElement
<1>4. Cardinality(A \cup {p}) <= Cardinality(B)
  BY <1>1, <1>2, FS_Subset
<1>5. Cardinality(A) \in Nat /\ Cardinality(B) \in Nat
  BY <1>1, FS_CardinalityType
<1> QED
  BY <1>3, <1>4, <1>5

\* A finite set has a last member, the one with the most ahead of it.
LEMMA LastMember ==
  ASSUME NEW S, IsFiniteSet(S), NEW R, Orders(S, R), NEW K \in SUBSET S, K # {}
  PROVE  \E w \in K : \A p \in K : p # w => <<p, w>> \in R
<1> DEFINE n == Cardinality(S)
           a(p) == Cardinality(Ahead(S, R, p))
           N == { n - a(p) : p \in K }
<1>1. \A p \in S : a(p) \in Nat /\ a(p) <= n
  BY FS_Subset, FS_CardinalityType DEF Ahead
<1>2. n \in Nat
  BY FS_CardinalityType
<1>3. N \in SUBSET Nat
  BY <1>1, <1>2
<1>4. PICK p \in K : TRUE
  OBVIOUS
<1>5. PICK m \in N : TRUE
  OBVIOUS
<1>6. PICK k \in N : \A l \in N : k <= l
  <2> HIDE DEF N
  <2> QED
    BY <1>3, <1>5, LeastMember
<1>7. PICK w \in K : k = n - a(w)
  OBVIOUS
<1>8. ASSUME NEW q \in K, q # w PROVE <<q, w>> \in R
  <2>1. SUFFICES ASSUME <<w, q>> \in R PROVE FALSE
    BY <1>8 DEF Orders
  <2>2. a(w) < a(q)
    BY <2>1, MoreAhead
  <2>3. n - a(q) \in N
    OBVIOUS
  <2>4. n - a(w) <= n - a(q)
    BY <1>6, <1>7, <2>3
  <2> HIDE DEF a, n
  <2> QED
    BY <1>1, <1>2, <2>2, <2>4
<1> QED
  BY <1>8

\* And a first one.
LEMMA FirstMember ==
  ASSUME NEW S, IsFiniteSet(S), NEW R, Orders(S, R), NEW K \in SUBSET S, K # {}
  PROVE  \E w \in K : \A p \in K : p # w => <<w, p>> \in R
<1> DEFINE Q == { e \in S \X S : <<e[2], e[1]>> \in R }
<1>1. Orders(S, Q)
  BY DEF Orders
<1>2. PICK w \in K : \A p \in K : p # w => <<p, w>> \in Q
  BY <1>1, LastMember
<1> QED
  BY <1>2

\* There are no more than d that have fewer than d ahead of them, and no fewer if
\* there are others.
LEMMA FirstCount ==
  ASSUME NEW S, IsFiniteSet(S), NEW R, Orders(S, R), NEW d \in Nat
  PROVE  /\ IsFiniteSet(First(S, R, d)) /\ Cardinality(First(S, R, d)) \in Nat
         /\ Cardinality(First(S, R, d)) <= d
         /\ First(S, R, d) # S => Cardinality(First(S, R, d)) = d
<1> DEFINE F == First(S, R, d)
<1>1. F \in SUBSET S
  BY DEF First
<1>2. IsFiniteSet(F) /\ Cardinality(F) \in Nat
  BY <1>1, FS_Subset, FS_CardinalityType
<1>3. \A p \in S : IsFiniteSet(Ahead(S, R, p)) /\ Cardinality(Ahead(S, R, p)) \in Nat
  BY FS_Subset, FS_CardinalityType DEF Ahead
<1>4. Cardinality(F) <= d
  <2>1. CASE F = {}
    BY <2>1, FS_EmptySet
  <2>2. CASE F # {}
    <3>1. PICK w \in F : \A p \in F : p # w => <<p, w>> \in R
      BY <1>1, <2>2, LastMember
    <3>2. F \ {w} \subseteq Ahead(S, R, w) /\ w \in S
      BY <1>1, <3>1 DEF Ahead
    <3>3. Cardinality(F \ {w}) <= Cardinality(Ahead(S, R, w))
      BY <1>3, <3>2, FS_Subset
    <3>4. Cardinality(F \ {w}) = Cardinality(F) - 1
      BY <1>2, FS_RemoveElement
    <3>5. Cardinality(Ahead(S, R, w)) < d
      BY DEF First
    <3> QED
      BY <1>2, <1>3, <3>2, <3>3, <3>4, <3>5
  <2> QED
    BY <2>1, <2>2
<1>5. ASSUME F # S PROVE Cardinality(F) >= d
  <2>1. PICK w \in S \ F : \A p \in S \ F : p # w => <<w, p>> \in R
    <3>1. S \ F \in SUBSET S /\ S \ F # {}
      BY <1>1, <1>5
    <3>2. \A K \in SUBSET S : K # {} => \E x \in K : \A p \in K : p # x => <<x, p>> \in R
      BY FirstMember
    <3> HIDE DEF F
    <3> QED
      BY <3>1, <3>2
  <2>2. Ahead(S, R, w) \subseteq F
    BY <2>1 DEF Ahead, Orders
  <2>3. Cardinality(Ahead(S, R, w)) <= Cardinality(F)
    BY <1>2, <2>2, FS_Subset
  <2>4. Cardinality(Ahead(S, R, w)) >= d
    BY <1>3 DEF First
  <2> QED
    BY <1>2, <1>3, <2>3, <2>4
<1> QED
  BY <1>2, <1>4, <1>5

-----------------------------------------------------------------------------
(* The replica of an order book *)

\* What a side shows at update n: nothing but levels of the source, and all of
\* them if none was dropped.
Shows(shown, side, n) ==
  /\ \A p \in DOMAIN shown : p \in DOMAIN Side(SourceAt(n), side) /\ shown[p] = Side(SourceAt(n), side)[p]
  /\ ~pruned => shown = Side(SourceAt(n), side)

\* A side of the replica.
Shallow(shown) ==
  /\ shown = [p \in DOMAIN shown |-> shown[p]] /\ DOMAIN shown \subseteq Prices
  /\ Cardinality(DOMAIN shown) <= MaxDepth

ReplicaInv ==
  /\ source \in Seq([Levels -> Nat]) /\ pruned \in BOOLEAN
  /\ lastUpdateId \in Nat /\ lastUpdateId < Len(source) /\ Len(source) <= MaxUpdates + 1
  /\ wire \subseteq 1..(Len(source) - 1) /\ taken \subseteq 1..lastUpdateId
  /\ Shallow(bids) /\ Shallow(asks)
  /\ taken = 1..lastUpdateId =>
       Shows(bids, "bid", lastUpdateId) /\ Shows(asks, "ask", lastUpdateId)

\* Cutting a side to the depth.
LEMMA DepthKept ==
  ASSUME NEW shown, DOMAIN shown \subseteq Prices, NEW side \in {"bid", "ask"}
  PROVE  /\ Shallow(MaintainDepth(shown, side))
         /\ DOMAIN MaintainDepth(shown, side) \subseteq DOMAIN shown
         /\ \A p \in DOMAIN MaintainDepth(shown, side) : MaintainDepth(shown, side)[p] = shown[p]
<1> DEFINE S == DOMAIN shown
           R == { e \in S \X S : Better(side, e[1], e[2]) }
           front == { p \in S : Cardinality({ q \in S : Better(side, q, p) }) < MaxDepth }
<1>1. IsFiniteSet(S) /\ S \subseteq Nat /\ MaxDepth \in Nat
  BY ReplicaAssumption, FS_Subset
<1>2. Orders(S, R)
  BY <1>1 DEF Orders, Better
<1>3. \A p \in S : { q \in S : Better(side, q, p) } = Ahead(S, R, p)
  BY DEF Ahead
<1>4. front = First(S, R, MaxDepth)
  BY <1>3 DEF First
<1>5. Cardinality(front) <= MaxDepth
  <2> HIDE DEF S, R, front
  <2> QED
    BY <1>1, <1>2, <1>4, FirstCount
<1>6. MaintainDepth(shown, side) = [p \in front |-> shown[p]]
  BY DEF MaintainDepth
<1>7. DOMAIN MaintainDepth(shown, side) = front /\ front \subseteq S
  BY <1>6
<1> QED
  BY <1>5, <1>6, <1>7 DEF Shallow

\* A side that shows an update and is changed by the next one shows that one.
LEMMA UpdatedShows ==
  ASSUME NEW shown, DOMAIN shown \subseteq Prices, NEW side \in {"bid", "ask"},
         source \in Seq([Levels -> Nat]), NEW n \in 1..(Len(source) - 1)
  PROVE  LET u == Updated(shown, side, n) IN
         /\ u = [p \in DOMAIN u |-> u[p]] /\ DOMAIN u \subseteq Prices
         /\ (\A p \in DOMAIN shown : p \in DOMAIN Side(SourceAt(n - 1), side)
                                     /\ shown[p] = Side(SourceAt(n - 1), side)[p]) =>
              \A p \in DOMAIN u : p \in DOMAIN Side(SourceAt(n), side)
                                  /\ u[p] = Side(SourceAt(n), side)[p]
         /\ shown = Side(SourceAt(n - 1), side) => u = Side(SourceAt(n), side)
<1> DEFINE old == SourceAt(n - 1)
           new == SourceAt(n)
           changed == { p \in Prices : new[<<side, p>>] # old[<<side, p>>] }
           after == Side(new, side)
           before == Side(old, side)
           D == (DOMAIN shown \ changed) \cup (DOMAIN after \cap changed)
           u == Updated(shown, side, n)
<1>1. u = [p \in D |-> IF p \in changed THEN after[p] ELSE shown[p]]
  BY DEF Updated
<1>2. DOMAIN u = D /\ \A p \in D : u[p] = IF p \in changed THEN after[p] ELSE shown[p]
  BY <1>1
<1>3. /\ DOMAIN after = { q \in Prices : new[<<side, q>>] # 0 }
      /\ \A p \in DOMAIN after : after[p] = new[<<side, p>>]
      /\ after = [p \in DOMAIN after |-> after[p]]
  BY DEF Side
<1>4. /\ DOMAIN before = { q \in Prices : old[<<side, q>>] # 0 }
      /\ \A p \in DOMAIN before : before[p] = old[<<side, p>>]
  BY DEF Side
<1>5. D \subseteq Prices
  BY <1>3
<1>6. ASSUME \A p \in DOMAIN shown : p \in DOMAIN before /\ shown[p] = before[p]
      PROVE  \A p \in D : p \in DOMAIN after /\ u[p] = after[p]
  BY <1>2, <1>3, <1>4, <1>6
<1>7. ASSUME shown = before
      PROVE  u = after
  <2>1. D = DOMAIN after
    BY <1>3, <1>4, <1>7
  <2>2. \A p \in D : u[p] = after[p]
    BY <1>2, <1>3, <1>4, <1>7, <2>1
  <2>3. u = [p \in D |-> u[p]]
    BY <1>1
  <2>4. after = [p \in D |-> after[p]]
    BY <1>3, <2>1
  <2> HIDE DEF D, u, after
  <2> QED
    BY <2>2, <2>3, <2>4
<1> HIDE DEF after, before, changed, D, u
<1> QED
  BY <1>1, <1>2, <1>5, <1>6, <1>7 DEF u, after, before

\* A side after the update that follows the one it shows.
LEMMA SideUpdated ==
  ASSUME ReplicaInv, NEW n \in 1..(Len(source) - 1), NEW side \in {"bid", "ask"},
         NEW shown, Shallow(shown), NEW cut \in BOOLEAN,
         NEW after, after = MaintainDepth(Updated(shown, side, n), side),
         ~cut => ~pruned /\ after = Updated(shown, side, n)
  PROVE  /\ Shallow(after)
         /\ Shows(shown, side, n - 1) =>
              /\ \A p \in DOMAIN after : p \in DOMAIN Side(SourceAt(n), side)
                                         /\ after[p] = Side(SourceAt(n), side)[p]
              /\ ~cut => after = Side(SourceAt(n), side)
<1> DEFINE u == Updated(shown, side, n)
<1>1. DOMAIN u \subseteq Prices
  BY UpdatedShows DEF ReplicaInv, Shallow
<1>2. /\ Shallow(after) /\ DOMAIN after \subseteq DOMAIN u
      /\ \A p \in DOMAIN after : after[p] = u[p]
  BY <1>1, DepthKept
<1>3. ASSUME Shows(shown, side, n - 1)
      PROVE  /\ \A p \in DOMAIN u : p \in DOMAIN Side(SourceAt(n), side)
                                    /\ u[p] = Side(SourceAt(n), side)[p]
             /\ ~pruned => u = Side(SourceAt(n), side)
  BY <1>3, UpdatedShows, ZenonT(60) DEF ReplicaInv, Shallow, Shows
<1> QED
  BY <1>2, <1>3

LEMMA ReplicaBegins == ReplicaInit => ReplicaInv
<1> SUFFICES ASSUME ReplicaInit PROVE ReplicaInv
  OBVIOUS
<1>1. DOMAIN Empty = {} /\ Empty = [p \in {} |-> Empty[p]]
  BY DEF Empty
<1>2. \A side \in {"bid", "ask"} : Side(SourceAt(0), side) = Empty
  <2>1. \A side \in {"bid", "ask"} : \A p \in Prices : SourceAt(0)[<<side, p>>] = 0
    BY DEF ReplicaInit, SourceAt, Levels
  <2>2. \A side \in {"bid", "ask"} : { q \in Prices : SourceAt(0)[<<side, q>>] # 0 } = {}
    BY <2>1
  <2>3. \A side \in {"bid", "ask"} : Side(SourceAt(0), side) = [p \in {} |-> SourceAt(0)[<<side, p>>]]
    BY <2>2 DEF Side
  <2> QED
    BY <2>3 DEF Empty
<1>3. Shallow(bids) /\ Shallow(asks)
  BY <1>1, FS_EmptySet, ReplicaAssumption DEF ReplicaInit, Shallow
<1>4. Shows(bids, "bid", 0) /\ Shows(asks, "ask", 0)
  BY <1>1, <1>2 DEF Shows, ReplicaInit
<1>5. Len(source) = 1 /\ source \in Seq([Levels -> Nat]) /\ 1..0 = {}
  BY DEF ReplicaInit
<1>6. MaxUpdates \in Nat /\ wire = {} /\ taken = {} /\ lastUpdateId = 0 /\ pruned = FALSE
  BY ReplicaAssumption DEF ReplicaInit
<1>7. Shows(bids, "bid", lastUpdateId) /\ Shows(asks, "ask", lastUpdateId)
  BY <1>4, <1>6
<1>8. lastUpdateId < Len(source) /\ Len(source) <= MaxUpdates + 1
  BY <1>5, <1>6
<1>9. wire \subseteq 1..(Len(source) - 1) /\ taken \subseteq 1..lastUpdateId
  BY <1>6
<1>10. lastUpdateId \in Nat /\ pruned \in BOOLEAN
  BY <1>6
<1> QED
  BY <1>3, <1>5, <1>7, <1>8, <1>9, <1>10 DEF ReplicaInv

\* What the source said before stays as it was.
LEMMA PublishKeeps ==
  ASSUME ReplicaInv, NEW levels \in SUBSET Levels, NEW removed \in SUBSET levels,
         Publish(levels, removed)
  PROVE  ReplicaInv'
<1> DEFINE n == Len(source)
           book == [l \in Levels |->
                     IF l \in removed THEN 0 ELSE IF l \in levels THEN n ELSE SourceAt(n - 1)[l]]
<1>1. n \in Nat /\ n >= 1 /\ n <= MaxUpdates /\ MaxUpdates \in Nat
  BY ReplicaAssumption DEF ReplicaInv, Publish
<1>2. book \in [Levels -> Nat]
  <2>1. SourceAt(n - 1) \in [Levels -> Nat]
    BY <1>1 DEF ReplicaInv, SourceAt
  <2> QED
    BY <1>1, <2>1
<1>3. source' = Append(source, book)
  BY DEF Publish
<1>4. source' \in Seq([Levels -> Nat]) /\ Len(source') = n + 1
      /\ \A k \in 1..n : source'[k] = source[k]
  <2> HIDE DEF book
  <2> QED
    BY <1>2, <1>3 DEF ReplicaInv
<1>5. UNCHANGED <<bids, asks, lastUpdateId, taken, pruned>> /\ wire' = wire \cup {n}
  BY DEF Publish
<1>6. lastUpdateId \in Nat /\ lastUpdateId < n /\ SourceAt(lastUpdateId)' = SourceAt(lastUpdateId)
  <2>1. lastUpdateId \in Nat /\ lastUpdateId < n
    BY DEF ReplicaInv
  <2>2. lastUpdateId' = lastUpdateId /\ source'[lastUpdateId + 1] = source[lastUpdateId + 1]
    BY <1>1, <1>4, <1>5, <2>1, SMTT(40)
  <2> QED
    BY <2>1, <2>2 DEF SourceAt
<1>7. \A side \in {"bid", "ask"} : Side(SourceAt(lastUpdateId), side)' = Side(SourceAt(lastUpdateId), side)
  BY <1>6 DEF Side
<1>8. wire' \subseteq 1..n
  <2>1. \A k \in wire : k \in 1..(n - 1)
    BY DEF ReplicaInv
  <2>2. \A k \in wire \cup {n} : k \in 1..n
    BY <1>1, <2>1
  <2> QED
    BY <1>5, <2>2
<1>9. (taken = 1..lastUpdateId => Shows(bids, "bid", lastUpdateId) /\ Shows(asks, "ask", lastUpdateId))'
  BY <1>5, <1>7 DEF ReplicaInv, Shows
<1>10. (Shallow(bids) /\ Shallow(asks))'
  BY <1>5 DEF ReplicaInv, Shallow
<1> QED
  BY <1>1, <1>4, <1>5, <1>6, <1>8, <1>9, <1>10 DEF ReplicaInv

\* A replica that misses nothing takes the update after the last one.
LEMMA UpdateKeeps ==
  ASSUME ReplicaInv, NEW n \in wire, UpdateOrderbook(n)
  PROVE  ReplicaInv'
<1> DEFINE newBids == Updated(bids, "bid", n)
           newAsks == Updated(asks, "ask", n)
<1>1. n \in 1..(Len(source) - 1) /\ Len(source) \in Nat /\ n \in Nat /\ n > lastUpdateId
  BY DEF ReplicaInv, UpdateOrderbook, Fresh
<1>2. /\ bids' = MaintainDepth(newBids, "bid") /\ asks' = MaintainDepth(newAsks, "ask")
      /\ lastUpdateId' = n /\ taken' = taken \cup {n} /\ source' = source /\ wire' = wire
  BY DEF UpdateOrderbook
<1>3. /\ pruned' \in BOOLEAN
      /\ ~pruned' => ~pruned /\ bids' = newBids /\ asks' = newAsks
  BY DEF UpdateOrderbook, ReplicaInv
<1>4. (taken' = 1..n) => n - 1 = lastUpdateId /\ taken = 1..lastUpdateId
  <2> SUFFICES ASSUME taken \cup {n} = 1..n PROVE n - 1 = lastUpdateId /\ taken = 1..lastUpdateId
    BY <1>2
  <2>1. taken \subseteq 1..lastUpdateId /\ lastUpdateId \in Nat
    BY DEF ReplicaInv
  <2>2. lastUpdateId + 1 \in taken \cup {n}
    BY <1>1, <2>1
  <2>3. n = lastUpdateId + 1
    BY <1>1, <2>1, <2>2
  <2>4. \A k \in 1..lastUpdateId : k \in taken \cup {n} /\ k # n
    BY <2>1, <2>3
  <2>5. \A k \in 1..lastUpdateId : k \in taken
    BY <2>4
  <2>6. taken = 1..lastUpdateId
    BY <2>1, <2>5
  <2> QED
    BY <2>1, <2>3, <2>6
<1>5. PICK b : b = bids'
  OBVIOUS
<1>6. PICK a : a = asks'
  OBVIOUS
<1>7. PICK cut \in BOOLEAN : cut = pruned'
  BY <1>3
<1>8. /\ Shallow(b)
      /\ Shows(bids, "bid", n - 1) =>
           /\ \A p \in DOMAIN b : p \in DOMAIN Side(SourceAt(n), "bid")
                                  /\ b[p] = Side(SourceAt(n), "bid")[p]
           /\ ~cut => b = Side(SourceAt(n), "bid")
  BY <1>1, <1>2, <1>3, <1>5, <1>7, SideUpdated DEF ReplicaInv
<1>9. /\ Shallow(a)
      /\ Shows(asks, "ask", n - 1) =>
           /\ \A p \in DOMAIN a : p \in DOMAIN Side(SourceAt(n), "ask")
                                  /\ a[p] = Side(SourceAt(n), "ask")[p]
           /\ ~cut => a = Side(SourceAt(n), "ask")
  BY <1>1, <1>2, <1>3, <1>6, <1>7, SideUpdated DEF ReplicaInv
<1>10. (Shallow(bids) /\ Shallow(asks))'
  BY <1>5, <1>6, <1>8, <1>9 DEF Shallow
<1>11. \A side \in {"bid", "ask"} : Side(SourceAt(lastUpdateId), side)' = Side(SourceAt(n), side)
  BY <1>2 DEF Side, SourceAt
<1>12. (taken = 1..lastUpdateId => Shows(bids, "bid", lastUpdateId) /\ Shows(asks, "ask", lastUpdateId))'
  <2> SUFFICES ASSUME taken' = 1..n
               PROVE  (Shows(bids, "bid", lastUpdateId) /\ Shows(asks, "ask", lastUpdateId))'
    BY <1>2
  <2>1. Shows(bids, "bid", n - 1) /\ Shows(asks, "ask", n - 1)
    BY <1>4 DEF ReplicaInv
  <2> QED
    BY <1>5, <1>6, <1>7, <1>8, <1>9, <1>11, <2>1 DEF Shows
<1>13. taken' \subseteq 1..n
  BY <1>1, <1>2 DEF ReplicaInv
<1> QED
  BY <1>1, <1>2, <1>3, <1>10, <1>12, <1>13 DEF ReplicaInv

LEMMA ReplicaStep == ReplicaInv /\ [ReplicaNext]_replicaVars => ReplicaInv'
<1> SUFFICES ASSUME ReplicaInv, [ReplicaNext]_replicaVars PROVE ReplicaInv'
  OBVIOUS
<1>1. CASE \E levels \in SUBSET Levels : \E removed \in SUBSET levels :
             levels # {} /\ Cardinality(levels) <= MaxChanges /\ Publish(levels, removed)
  BY <1>1, PublishKeeps
<1>2. CASE \E n \in wire : UpdateOrderbook(n)
  BY <1>2, UpdateKeeps
<1>3. CASE UNCHANGED <<source, bids, asks, lastUpdateId, taken, pruned>> /\ wire' \subseteq wire
  BY <1>3, ZenonT(60) DEF ReplicaInv, Shallow, Shows, Side, SourceAt
<1>4. ASSUME NEW n \in wire, Lose(n)
      PROVE  UNCHANGED <<source, bids, asks, lastUpdateId, taken, pruned>> /\ wire' \subseteq wire
  BY <1>4 DEF Lose
<1>5. UNCHANGED replicaVars =>
        UNCHANGED <<source, bids, asks, lastUpdateId, taken, pruned>> /\ wire' \subseteq wire
  BY DEF replicaVars
<1> QED
  BY <1>1, <1>2, <1>3, <1>4, <1>5 DEF ReplicaNext

\* Whatever arrives in what order, a replica that missed nothing shows what the
\* source had, and is no deeper than it may be.
LEMMA ReplicaIsFaithful == ReplicaInv => ReplicaFaithful
BY DEF ReplicaInv, Shallow, Shows, ReplicaFaithful

\* The replica keeps its types.
LEMMA ReplicaTyped == ReplicaInv => ReplicaTypeOK
<1> SUFFICES ASSUME ReplicaInv PROVE ReplicaTypeOK
  OBVIOUS
<1>1. Len(source) - 1 <= MaxUpdates /\ MaxUpdates \in Nat /\ Len(source) \in Nat
  BY ReplicaAssumption DEF ReplicaInv
<1> QED
  BY <1>1 DEF ReplicaInv, ReplicaTypeOK, Shallow

\* For any prices, depth and number of updates, lost, repeated and reordered as
\* they may be.
THEOREM ReplicaStaysFaithful == ReplicaSpec => []ReplicaFaithful
BY ReplicaBegins, ReplicaStep, ReplicaIsFaithful, PTL DEF ReplicaSpec

-----------------------------------------------------------------------------
(* Historical data *)

\* The points of a range that data does not have are no older than t, or the
\* data is as long as some request wanted it.
Complete(data, range, t) ==
  \A p \in kept : points[p].day \in range[1]..range[2] /\ p \notin data =>
    \/ points[p].at >= t
    \/ \E r \in Requests : RangeKey(r) = range /\ Cardinality(data) = r.limit

\* How old the points may be that a call misses.
Since(call) == IF call.cached THEN call.since - CacheTtl - MaxAwait + 1 ELSE call.since

Pending(call) ==
  /\ call # NoCall
  /\ call.request \in Requests /\ call.cached \in BOOLEAN /\ call.data \subseteq DOMAIN points
  /\ call.since \in Nat /\ call.since <= tick /\ tick <= call.since + MaxAwait
  /\ Complete(call.data, RangeKey(call.request), Since(call))

Cachable(range, entries) ==
  /\ entries.data \subseteq DOMAIN points
  /\ entries.at \in Nat /\ entries.at <= tick
  /\ Complete(entries.data, range, entries.at - MaxAwait)

HistoryInv ==
  /\ points \in Seq([day : Days, at : Nat]) /\ kept \subseteq DOMAIN points
  /\ tick \in 0..MaxTicks /\ sessions \in Nat
  /\ \A c \in Callers : calls[c] = NoCall \/ Pending(calls[c])
  /\ DOMAIN calls = Callers
  /\ \A k \in DOMAIN cache : Cachable(k, cache[k])
  /\ StalenessBounded

\* What is found and cut to the limit misses points only if there are as many as that.
LEMMA FoundComplete ==
  ASSUME HistoryInv, NEW r \in Requests
  PROVE  /\ Truncated(Within(kept, r), r.limit) \subseteq DOMAIN points
         /\ Complete(Truncated(Within(kept, r), r.limit), RangeKey(r), tick)
<1> DEFINE S == Within(kept, r)
           R == { e \in S \X S : e[1] < e[2] }
           found == Truncated(S, r.limit)
<1>1. S \subseteq kept /\ S \in SUBSET DOMAIN points /\ DOMAIN points = 1..Len(points)
      /\ Len(points) \in Nat
  BY DEF Within, HistoryInv
<1>2. IsFiniteSet(S) /\ S \subseteq Nat
  <2>1. IsFiniteSet(DOMAIN points)
    <3>1. 1 \in Int /\ Len(points) \in Int
      BY <1>1
    <3> QED
      BY <1>1, <3>1, FS_Interval
  <2> QED
    BY <1>1, <2>1, FS_Subset
<1>3. Orders(S, R)
  BY <1>2 DEF Orders
<1>4. found = First(S, R, r.limit)
  <2>1. \A p \in S : { q \in S : q < p } = Ahead(S, R, p)
    BY DEF Ahead
  <2> QED
    BY <2>1 DEF First, Truncated
<1>5. r.limit \in Nat
  BY HistoryAssumption
<1>6. found # S => Cardinality(found) = r.limit
  <2> HIDE DEF S, R, found
  <2> QED
    BY <1>2, <1>3, <1>4, <1>5, FirstCount
<1>7. found \subseteq S
  BY DEF Truncated
<1>8. RangeKey(r)[1] = r.first /\ RangeKey(r)[2] = r.last
  BY DEF RangeKey
<1>9. \A p \in kept : points[p].day \in RangeKey(r)[1]..RangeKey(r)[2] => p \in S
  BY <1>8 DEF Within
<1> QED
  BY <1>1, <1>6, <1>7, <1>9 DEF Complete

\* Points that come later, and those that go, change nothing of that.
LEMMA CompleteLater ==
  ASSUME NEW data, NEW range, NEW t \in Int, Complete(data, range, t),
         kept' \ kept \subseteq { p \in DOMAIN points' : points'[p].at \in Int /\ points'[p].at >= t },
         \A p \in kept : points'[p] = points[p]
  PROVE  Complete(data, range, t)'
BY DEF Complete

\* Whatever a step does to the store, what was complete is.
Newer == { p \in DOMAIN points' : points'[p].at \in Int /\ points'[p].at >= tick }

LEMMA StillHeld ==
  ASSUME HistoryInv, \A p \in DOMAIN points : p \in DOMAIN points' /\ points'[p] = points[p],
         kept' \ kept \subseteq Newer, tick' = tick
  PROVE  /\ \A call : Pending(call) => Pending(call)'
         /\ \A range, e : Cachable(range, e) => Cachable(range, e)'
<1>1. tick \in Nat /\ MaxAwait \in Nat /\ CacheTtl \in Nat \ {0}
  BY HistoryAssumption DEF HistoryInv
<1>2. ASSUME NEW t \in Int, t <= tick, NEW data, NEW range, Complete(data, range, t)
      PROVE  Complete(data, range, t)'
  <2>1. kept' \ kept \subseteq { p \in DOMAIN points' : points'[p].at \in Int /\ points'[p].at >= t }
    BY <1>1, <1>2 DEF Newer
  <2>2. \A p \in kept : points'[p] = points[p]
    BY DEF HistoryInv
  <2> QED
    BY <1>2, <2>1, <2>2, CompleteLater
<1>3. ASSUME NEW call, Pending(call) PROVE Pending(call)'
  <2>1. Since(call) \in Int /\ Since(call) <= tick
    BY <1>1, <1>3 DEF Pending, Since
  <2>2. Complete(call.data, RangeKey(call.request), Since(call))'
    BY <1>2, <1>3, <2>1 DEF Pending
  <2> QED
    BY <1>3, <2>2 DEF Pending
<1>4. ASSUME NEW range, NEW e, Cachable(range, e) PROVE Cachable(range, e)'
  <2>1. e.at - MaxAwait \in Int /\ e.at - MaxAwait <= tick
    BY <1>1, <1>4 DEF Cachable
  <2>2. Complete(e.data, range, e.at - MaxAwait)'
    BY <1>2, <1>4, <2>1 DEF Cachable
  <2> QED
    BY <1>4, <2>2 DEF Cachable
<1> QED
  BY <1>3, <1>4

\* Points have times.
LEMMA PointTimes == HistoryInv => \A p \in kept : points[p].at \in Nat
<1> SUFFICES ASSUME HistoryInv, NEW p \in kept PROVE points[p].at \in Nat
  OBVIOUS
<1>1. p \in 1..Len(points)
  BY DEF HistoryInv
<1>2. points[p] \in [day : Days, at : Nat]
  <2>1. PICK T : T = [day : Days, at : Nat]
    OBVIOUS
  <2>2. points \in Seq(T)
    BY <2>1 DEF HistoryInv
  <2>3. points[p] \in T
    BY <1>1, <2>2
  <2> QED
    BY <2>1, <2>3
<1> QED
  BY <1>2

LEMMA HistoryBegins == HistoryInit => HistoryInv
<1> SUFFICES ASSUME HistoryInit PROVE HistoryInv
  OBVIOUS
<1>1. MaxTicks \in Nat
  BY HistoryAssumption
<1> QED
  BY <1>1 DEF HistoryInit, HistoryInv, StalenessBounded

\* A point that is stored is younger than all that is waited for.
LEMMA StoreKeeps ==
  ASSUME HistoryInv, NEW day \in Days, StoreData(day)
  PROVE  HistoryInv'
<1> DEFINE n == Len(points) + 1
           point == [day |-> day, at |-> tick]
<1>1. points' = Append(points, point) /\ kept' = kept \cup {n} /\ tick' = tick
      /\ calls' = calls /\ sessions' = sessions /\ answer' = NoAnswer
      /\ cache' = Without(DayKey(day))
  BY DEF StoreData
<1>2. tick \in Nat /\ point \in [day : Days, at : Nat]
  BY HistoryAssumption DEF HistoryInv
<1>3. /\ points' \in Seq([day : Days, at : Nat]) /\ DOMAIN points' = 1..n
      /\ DOMAIN points = 1..(n - 1) /\ n \in Nat
      /\ points'[n] = point /\ \A p \in 1..(n - 1) : points'[p] = points[p]
  <2> HIDE DEF point
  <2> QED
    BY <1>1, <1>2 DEF HistoryInv
<1>4. kept' \ kept \subseteq Newer
  BY <1>1, <1>2, <1>3 DEF Newer
<1>5. \A p \in DOMAIN points : p \in DOMAIN points' /\ points'[p] = points[p]
  BY <1>3
<1>6. /\ \A call : Pending(call) => Pending(call)'
      /\ \A range, e : Cachable(range, e) => Cachable(range, e)'
  BY <1>1, <1>4, <1>5, StillHeld
<1>7. \A k \in DOMAIN cache' : k \in DOMAIN cache /\ cache'[k] = cache[k]
  BY <1>1 DEF Without
<1>8. (\A k \in DOMAIN cache : Cachable(k, cache[k]))'
  BY <1>6, <1>7 DEF HistoryInv
<1>9. (\A c \in Callers : calls[c] = NoCall \/ Pending(calls[c]))'
  BY <1>1, <1>6 DEF HistoryInv
<1>10. kept' \subseteq DOMAIN points'
  BY <1>1, <1>3 DEF HistoryInv
<1> QED
  BY <1>1, <1>3, <1>8, <1>9, <1>10 DEF HistoryInv, StalenessBounded

\* A step that stores nothing and neither asks nor answers.
LEMMA FewerKeeps ==
  ASSUME HistoryInv, kept' \subseteq kept, answer' = NoAnswer, sessions' \in Nat,
         UNCHANGED <<points, cache, calls, tick>>
  PROVE  HistoryInv'
<1>1. kept' \ kept \subseteq Newer
  OBVIOUS
<1>2. /\ \A call : Pending(call) => Pending(call)'
      /\ \A range, e : Cachable(range, e) => Cachable(range, e)'
  BY <1>1, StillHeld
<1>3. (\A k \in DOMAIN cache : Cachable(k, cache[k]))'
  BY <1>2 DEF HistoryInv
<1>4. (\A c \in Callers : calls[c] = NoCall \/ Pending(calls[c]))'
  BY <1>2 DEF HistoryInv
<1> QED
  BY <1>3, <1>4 DEF HistoryInv, StalenessBounded

\* What a call goes on with is complete as far as the cache may lag behind.
LEMMA AskKeeps ==
  ASSUME HistoryInv, NEW c \in Callers, NEW r \in Requests, NEW replay \in BOOLEAN,
         Ask(c, r, replay)
  PROVE  HistoryInv'
<1> DEFINE found == Truncated(Within(kept, r), r.limit)
           range == RangeKey(r)
           call == [at |-> "waiting", request |-> r, replay |-> replay, since |-> tick,
                    cached |-> Alive(range),
                    data |-> IF Alive(range) THEN cache[range].data ELSE found]
<1>1. calls' = [calls EXCEPT ![c] = call] /\ answer' = NoAnswer
      /\ UNCHANGED <<points, kept, cache, sessions, tick>>
  BY DEF Ask
<1>2. tick \in Nat /\ MaxAwait \in Nat /\ CacheTtl \in Nat \ {0}
  BY HistoryAssumption DEF HistoryInv
<1>3. call # NoCall
  <2>1. call.at # NoCall.at
    BY DEF NoCall
  <2> QED
    BY <2>1
<1>4. Alive(range) \in BOOLEAN
  BY DEF Alive
<1>5. Pending(call)
  <2>1. CASE Alive(range)
    <3>1. Cachable(range, cache[range]) /\ tick < cache[range].at + CacheTtl
      BY <2>1 DEF Alive, HistoryInv
    <3>2. /\ call.data = cache[range].data /\ call.since = tick /\ call.cached
          /\ call.request = r
      BY <2>1
    <3>3. Since(call) = tick - CacheTtl - MaxAwait + 1
      BY <3>2 DEF Since
    <3>4. cache[range].at - MaxAwait >= Since(call)
      BY <1>2, <3>1, <3>3 DEF Cachable
    <3>5. Complete(cache[range].data, range, cache[range].at - MaxAwait)
          /\ cache[range].at \in Nat /\ cache[range].data \subseteq DOMAIN points
      BY <3>1 DEF Cachable
    <3>6. \A p \in kept : points[p].at \in Nat
      BY PointTimes
    <3>7. Complete(cache[range].data, range, Since(call))
      BY <1>2, <3>3, <3>4, <3>5, <3>6 DEF Complete
    <3> HIDE DEF call
    <3>8. Complete(call.data, RangeKey(call.request), Since(call))
      BY <3>2, <3>7
    <3>9. call.cached \in BOOLEAN /\ call.data \subseteq DOMAIN points
      BY <1>4, <3>2, <3>5 DEF call
    <3> QED
      BY <1>2, <1>3, <3>2, <3>8, <3>9 DEF Pending
  <2>2. CASE ~Alive(range)
    <3>1. /\ call.data = found /\ call.since = tick /\ ~call.cached /\ call.request = r
          /\ call.cached \in BOOLEAN
      BY <2>2, <1>4
    <3>2. found \subseteq DOMAIN points /\ Complete(found, range, tick)
      BY FoundComplete
    <3> HIDE DEF call, found
    <3>3. Since(call) = tick
      BY <3>1 DEF Since
    <3> QED
      BY <1>2, <1>3, <3>1, <3>2, <3>3 DEF Pending
  <2> QED
    BY <2>1, <2>2
<1>6. (\A d \in Callers : calls[d] = NoCall \/ Pending(calls[d]))'
  <2>1. \A x : Pending(x)' <=> Pending(x)
    BY <1>1 DEF Pending, Complete
  <2>2. \A d \in Callers : calls'[d] = IF d = c THEN call ELSE calls[d]
    BY <1>1 DEF HistoryInv
  <2> HIDE DEF call
  <2> QED
    BY <1>5, <2>1, <2>2 DEF HistoryInv
<1>7. \A span, e : Cachable(span, e)' <=> Cachable(span, e)
  BY <1>1 DEF Cachable, Complete
<1> HIDE DEF call
<1>8. DOMAIN calls' = Callers
  BY <1>1 DEF HistoryInv
<1> QED
  BY <1>1, <1>6, <1>7, <1>8 DEF HistoryInv, StalenessBounded

\* An answer misses what the call missed, and is cached for what it is.
LEMMA AnsweredKeeps ==
  ASSUME HistoryInv, NEW c \in Callers, calls[c] # NoCall, Answered(c), sessions' \in Nat
  PROVE  HistoryInv'
<1> DEFINE call == calls[c]
           range == RangeKey(call.request)
<1>1. /\ cache' = CachedAfter(call) /\ answer' = [data |-> call.data, call |-> call]
      /\ calls' = [calls EXCEPT ![c] = NoCall] /\ UNCHANGED <<points, kept, tick>>
  BY DEF Answered
<1>2. tick \in Nat /\ MaxAwait \in Nat /\ CacheTtl \in Nat \ {0}
  BY HistoryAssumption DEF HistoryInv
<1>3. Pending(call)
  BY DEF HistoryInv
<1>4. \A span, e : Cachable(span, e)' <=> Cachable(span, e)
  BY <1>1 DEF Cachable, Complete
<1>5. \A x : Pending(x)' <=> Pending(x)
  BY <1>1 DEF Pending, Complete
<1>6. \A p \in kept : points[p].at \in Nat
  BY PointTimes
<1>7. (\A k \in DOMAIN cache : Cachable(k, cache[k]))'
  <2>1. CASE call.cached
    BY <1>1, <1>4, <2>1 DEF CachedAfter, HistoryInv
  <2>2. CASE ~call.cached
    <3> DEFINE entries == [data |-> call.data, at |-> tick]
    <3>1. cache' = With(range, call.data)
      BY <1>1, <2>2 DEF CachedAfter
    <3>2. \A k \in DOMAIN cache' : (k = range /\ cache'[k] = entries)
                                   \/ (k \in DOMAIN cache /\ cache'[k] = cache[k])
      BY <3>1 DEF With
    <3>3. Since(call) = call.since
      BY <2>2 DEF Since
    <3>4. Complete(call.data, range, call.since) /\ call.data \subseteq DOMAIN points
          /\ call.since \in Nat /\ tick <= call.since + MaxAwait
      BY <1>3, <3>3 DEF Pending
    <3>5. Complete(call.data, range, tick - MaxAwait)
      BY <1>2, <1>6, <3>4 DEF Complete
    <3>6. Cachable(range, entries)
      BY <1>2, <3>4, <3>5 DEF Cachable
    <3> HIDE DEF entries
    <3> QED
      BY <1>4, <3>2, <3>6 DEF HistoryInv
  <2> QED
    BY <2>1, <2>2
<1>8. (\A d \in Callers : calls[d] = NoCall \/ Pending(calls[d]))' /\ DOMAIN calls' = Callers
  BY <1>1, <1>5 DEF HistoryInv
<1>9. StalenessBounded'
  <2> SUFFICES ASSUME NEW p \in DOMAIN points', Missed(p)'
               PROVE  \/ points'[p].at > answer'.call.since - CacheTtl - MaxAwait
                      \/ \E r \in Requests :
                           RangeKey(r) = RangeKey(answer'.call.request)
                           /\ Cardinality(answer'.data) = r.limit
    BY DEF StalenessBounded
  <2>1. answer'.data = call.data /\ answer'.call = call
    BY <1>1
  <2>2. p \in kept /\ points[p].day \in call.request.first..call.request.last /\ p \notin call.data
    BY <1>1, <2>1 DEF Missed, Within
  <2>3. range[1] = call.request.first /\ range[2] = call.request.last
    BY DEF RangeKey
  <2>4. Complete(call.data, range, Since(call))
    BY <1>3 DEF Pending
  <2>5. \/ points[p].at >= Since(call)
        \/ \E r \in Requests : RangeKey(r) = range /\ Cardinality(call.data) = r.limit
    BY <2>2, <2>3, <2>4 DEF Complete
  <2>6. Since(call) \in Int /\ Since(call) > call.since - CacheTtl - MaxAwait
        /\ call.since \in Nat
    BY <1>2, <1>3 DEF Pending, Since
  <2>7. points[p].at >= Since(call) => points[p].at > call.since - CacheTtl - MaxAwait
    BY <1>2, <1>6, <2>2, <2>6
  <2> QED
    BY <1>1, <2>1, <2>5, <2>7
<1> QED
  BY <1>1, <1>7, <1>8, <1>9 DEF HistoryInv

\* Time passes only while no call has waited its longest.
LEMMA TickKeeps ==
  ASSUME HistoryInv, TickPasses
  PROVE  HistoryInv'
<1>1. tick < MaxTicks /\ tick' = tick + 1 /\ answer' = NoAnswer
      /\ UNCHANGED <<points, kept, cache, calls, sessions>>
  BY DEF TickPasses
<1>2. tick \in Nat /\ MaxTicks \in Nat /\ tick' \in 0..MaxTicks /\ MaxAwait \in Nat
  BY <1>1, HistoryAssumption DEF HistoryInv
<1>3. ASSUME NEW d \in Callers, calls[d] # NoCall PROVE Pending(calls[d])'
  <2>1. Pending(calls[d]) /\ tick < calls[d].since + MaxAwait
    BY <1>3 DEF HistoryInv, TickPasses
  <2>2. PICK call : call = calls[d]
    OBVIOUS
  <2>3. call.since <= tick' /\ tick' <= call.since + MaxAwait
    BY <1>1, <1>2, <2>1, <2>2 DEF Pending
  <2>4. Pending(call)'
    BY <1>1, <2>1, <2>2, <2>3 DEF Pending, Complete
  <2> QED
    BY <1>1, <2>2, <2>4
<1>4. ASSUME NEW k \in DOMAIN cache PROVE Cachable(k, cache[k])'
  BY <1>1, <1>2 DEF HistoryInv, Cachable, Complete
<1> QED
  BY <1>1, <1>2, <1>3, <1>4 DEF HistoryInv, StalenessBounded

LEMMA HistoryStep == HistoryInv /\ [HistoryNext]_historyVars => HistoryInv'
<1> SUFFICES ASSUME HistoryInv, [HistoryNext]_historyVars PROVE HistoryInv'
  OBVIOUS
<1>1. ASSUME NEW day \in Days, StoreData(day) PROVE HistoryInv'
  BY <1>1, StoreKeeps
<1>2. ASSUME NEW day \in Days, DeleteOldData(day) PROVE HistoryInv'
  <2>1. kept' \subseteq kept /\ answer' = NoAnswer /\ sessions' \in Nat
        /\ UNCHANGED <<points, cache, calls, tick>>
    BY <1>2 DEF DeleteOldData, HistoryInv
  <2> QED
    BY <2>1, FewerKeeps
<1>3. ASSUME NEW c \in Callers, NEW r \in Requests, NEW replay \in BOOLEAN, Ask(c, r, replay)
      PROVE  HistoryInv'
  BY <1>3, AskKeeps
<1>4. ASSUME NEW c \in Callers, Answer(c) PROVE HistoryInv'
  BY <1>4, AnsweredKeeps DEF Answer, HistoryInv
<1>5. ASSUME NEW c \in Callers, CreateReplaySession(c) PROVE HistoryInv'
  <2>1. sessions' \in Nat
    BY <1>5 DEF CreateReplaySession, HistoryInv
  <2> QED
    BY <1>5, <2>1, AnsweredKeeps DEF CreateReplaySession
<1>6. ASSUME StopReplay PROVE HistoryInv'
  <2>1. kept' \subseteq kept /\ answer' = NoAnswer /\ sessions' \in Nat
        /\ UNCHANGED <<points, cache, calls, tick>>
    BY <1>6 DEF StopReplay, HistoryInv
  <2> QED
    BY <2>1, FewerKeeps
<1>7. ASSUME TickPasses PROVE HistoryInv'
  BY <1>7, TickKeeps
<1>8. ASSUME UNCHANGED historyVars PROVE HistoryInv'
  BY <1>8 DEF historyVars, HistoryInv, Pending, Cachable, Complete, StalenessBounded, Missed,
              Within
<1> QED
  BY <1>1, <1>2, <1>3, <1>4, <1>5, <1>6, <1>7, <1>8 DEF HistoryNext

LEMMA HistoryTyped == HistoryInv => HistoryTypeOK
<1> SUFFICES ASSUME HistoryInv PROVE HistoryTypeOK
  OBVIOUS
<1>1. \A k \in DOMAIN cache : cache[k].data \subseteq DOMAIN points /\ cache[k].at \in 0..MaxTicks
  <2>1. tick \in 0..MaxTicks /\ MaxTicks \in Nat
    BY HistoryAssumption DEF HistoryInv
  <2> QED
    BY <2>1 DEF HistoryInv, Cachable
<1> QED
  BY <1>1 DEF HistoryInv, HistoryTypeOK

\* For any callers, requests, lifetime of the cache and time that a call may wait.
THEOREM AnswersAreFresh == HistorySpec => []StalenessBounded
<1>1. HistoryInv => StalenessBounded
  BY DEF HistoryInv
<1> QED
  BY <1>1, HistoryBegins, HistoryStep, PTL DEF HistorySpec

-----------------------------------------------------------------------------
(* The limits of orders and messages *)

\* What is kept of the times of a trader is what was accepted in the window that
\* ends now, and nothing was accepted after now.
RateInv ==
  /\ RateTypeOK /\ OrdersWithinRate
  /\ \A t \in Traders : \A x \in Ticks :
       /\ x > now => accepted[t][x] = 0
       /\ now - x < OrderWindow => orderTimes[t][x] = accepted[t][x]

LEMMA TicksFinite == IsFiniteSet(Ticks) /\ Ticks \subseteq Nat /\ LastTick \in Nat
<1>1. LastTick \in Nat
  BY OrderRateAssumption
<1>2. 0 \in Int /\ LastTick \in Int
  BY <1>1
<1> QED
  BY <1>1, <1>2, FS_Interval DEF Ticks

\* Dropping what is no longer recent, and adding an entry.
LEMMA RecentTyped ==
  ASSUME now \in Ticks, NEW times \in [Ticks -> Nat], NEW window \in Nat
  PROVE  /\ Recent(times, window) \in [Ticks -> Nat]
         /\ \A x \in Ticks : Recent(times, window)[x] = IF now - x < window THEN times[x] ELSE 0
         /\ WithNow(times) \in [Ticks -> Nat]
         /\ \A x \in Ticks : WithNow(times)[x] = IF x = now THEN times[x] + 1 ELSE times[x]
BY TicksFinite DEF Recent, WithNow

LEMMA RateBegins == RateInit => RateInv
<1> SUFFICES ASSUME RateInit PROVE RateInv
  OBVIOUS
<1>1. NoTimes \in [Ticks -> Nat] /\ \A x \in Ticks : NoTimes[x] = 0
  BY DEF NoTimes
<1>2. /\ orderTimes = [t \in Traders |-> NoTimes] /\ violations = [t \in Traders |-> 0]
      /\ suspendedUntil = [t \in Traders |-> Never]
      /\ messageTimes = NoTimes /\ haltedAt = [s \in Instruments |-> Never]
      /\ accepted = [t \in Traders |-> NoTimes] /\ now = 0
  BY DEF RateInit
<1>3. 0 \in Ticks
  BY TicksFinite DEF Ticks
<1>4. RateTypeOK
  BY <1>1, <1>2, <1>3 DEF RateTypeOK
<1>5. ASSUME NEW t \in Traders, NEW start \in Ticks
      PROVE  Supply(Minute(accepted[t], start)) <= MaxOrders
  <2>1. Minute(accepted[t], start) = [x \in Ticks |-> 0]
    BY <1>1, <1>2 DEF Minute
  <2> QED
    BY <2>1, SupplyZero, OrderRateAssumption
<1>6. \A t \in Traders : \A x \in Ticks : accepted[t][x] = 0 /\ orderTimes[t][x] = 0
  BY <1>1, <1>2
<1> QED
  BY <1>4, <1>5, <1>6 DEF RateInv, OrdersWithinRate

\* An order is accepted while what the window ending now holds is below the maximum;
\* every other window with now in it holds no more of what was accepted.
LEMMA SubmitKeeps ==
  ASSUME RateInv, NEW t \in Traders, SubmitOrder(t)
  PROVE  RateInv'
<1> DEFINE recent == Recent(orderTimes[t], OrderWindow)
<1>1. /\ orderTimes' = [orderTimes EXCEPT ![t] = WithNow(recent)]
      /\ accepted' = [accepted EXCEPT ![t] = WithNow(accepted[t])]
      /\ suspendedUntil' = Cleared(t)
      /\ UNCHANGED <<violations, messageTimes, haltedAt, now>>
  BY DEF SubmitOrder
<1>2. /\ now \in Ticks /\ now \in Nat /\ orderTimes[t] \in [Ticks -> Nat]
      /\ accepted[t] \in [Ticks -> Nat] /\ MaxOrders \in Nat /\ OrderWindow \in Nat
  BY TicksFinite, OrderRateAssumption DEF RateInv, RateTypeOK
<1>3. /\ recent \in [Ticks -> Nat]
      /\ \A x \in Ticks : recent[x] = IF now - x < OrderWindow THEN orderTimes[t][x] ELSE 0
  BY <1>2, RecentTyped
<1>4. Supply(recent) \in Nat /\ Supply(recent) < MaxOrders
  <2>1. Supply(recent) \in Nat
    BY <1>3, TicksFinite, SupplyType
  <2> QED
    BY <1>2, <2>1 DEF SubmitOrder, OverLimit
<1> HIDE DEF recent
<1>5. /\ WithNow(recent) \in [Ticks -> Nat] /\ WithNow(accepted[t]) \in [Ticks -> Nat]
      /\ \A x \in Ticks : WithNow(recent)[x] = IF x = now THEN recent[x] + 1 ELSE recent[x]
      /\ \A x \in Ticks : WithNow(accepted[t])[x]
                            = IF x = now THEN accepted[t][x] + 1 ELSE accepted[t][x]
  BY <1>2, <1>3, RecentTyped
<1>6. suspendedUntil' \in [Traders -> Nat \cup {Never}]
  BY <1>1 DEF Cleared, RateInv, RateTypeOK
<1>7. RateTypeOK'
  BY <1>1, <1>5, <1>6 DEF RateInv, RateTypeOK
<1>8. /\ orderTimes'[t] = WithNow(recent) /\ accepted'[t] = WithNow(accepted[t]) /\ now' = now
      /\ \A u \in Traders \ {t} : orderTimes'[u] = orderTimes[u] /\ accepted'[u] = accepted[u]
  BY <1>1 DEF RateInv, RateTypeOK
<1>9. ASSUME NEW start \in Ticks
      PROVE  Supply(Minute(accepted'[t], start)) <= MaxOrders
  <2> DEFINE old == Minute(accepted[t], start)
             new == Minute(WithNow(accepted[t]), start)
  <2>1. start \in Nat /\ old \in [Ticks -> Nat] /\ new \in [Ticks -> Nat]
    BY <1>2, <1>5, TicksFinite DEF Minute
  <2>2. CASE now \in start..(start + OrderWindow - 1)
    <3>1. old[now] \in Nat /\ new = [old EXCEPT ![now] = old[now] + 1]
      BY <1>2, <1>5, <2>1, <2>2 DEF Minute
    <3>2. Supply(new) = Supply(old) + 1
      <4> HIDE DEF old, new
      <4>1. IsFiniteSet(Ticks) /\ now \in Ticks /\ old \in [Ticks -> Nat] /\ 1 \in Nat
        BY <1>2, <2>1, TicksFinite
      <4>2. Supply([old EXCEPT ![now] = old[now] + 1]) = Supply(old) + 1
        BY ONLY <4>1, SupplyCredit, ZenonT(60)
      <4> QED
        BY <3>1, <4>2
    <3>3. \A x \in Ticks : old[x] <= recent[x]
      <4> SUFFICES ASSUME NEW x \in Ticks PROVE old[x] <= recent[x]
        OBVIOUS
      <4>1. x \in Nat /\ recent[x] \in Nat /\ accepted[t][x] \in Nat
        BY <1>2, <1>3, TicksFinite
      <4>2. old[x] = IF x \in start..(start + OrderWindow - 1) THEN accepted[t][x] ELSE 0
        BY DEF Minute
      <4>3. CASE x \in start..(start + OrderWindow - 1) /\ x <= now
        <5>1. now - x < OrderWindow
          BY <1>2, <2>1, <2>2, <4>1, <4>3
        <5> QED
          BY <1>3, <4>1, <4>2, <4>3, <5>1 DEF RateInv
      <4>4. CASE x > now
        <5>1. accepted[t][x] = 0
          BY <4>4 DEF RateInv
        <5> QED
          BY <4>1, <4>2, <5>1
      <4>5. CASE x \notin start..(start + OrderWindow - 1)
        BY <4>1, <4>2, <4>5
      <4> QED
        BY <1>2, <4>1, <4>3, <4>4, <4>5
    <3>4. Supply(old) <= Supply(recent) /\ Supply(old) \in Nat
      <4> HIDE DEF old
      <4> QED
        BY <1>3, <2>1, <3>3, TicksFinite, SupplyMonotone, SupplyType
    <3> QED
      BY <1>2, <1>4, <1>8, <3>2, <3>4
  <2>3. CASE now \notin start..(start + OrderWindow - 1)
    <3>1. new = old
      BY <1>2, <1>5, <2>3 DEF Minute
    <3> QED
      BY <1>8, <3>1 DEF RateInv, OrdersWithinRate
  <2> QED
    BY <2>2, <2>3
<1>10. OrdersWithinRate'
  <2> SUFFICES ASSUME NEW u \in Traders, NEW start \in Ticks
               PROVE  Supply(Minute(accepted'[u], start)) <= MaxOrders
    BY DEF OrdersWithinRate, Minute
  <2>1. CASE u = t
    BY <1>9, <2>1
  <2>2. CASE u # t
    BY <1>8, <2>2 DEF RateInv, OrdersWithinRate
  <2> QED
    BY <2>1, <2>2
<1>11. ASSUME NEW u \in Traders, NEW x \in Ticks
       PROVE  /\ x > now' => accepted'[u][x] = 0
              /\ now' - x < OrderWindow => orderTimes'[u][x] = accepted'[u][x]
  BY <1>2, <1>3, <1>5, <1>8 DEF RateInv
<1> QED
  BY <1>7, <1>10, <1>11 DEF RateInv

\* Steps that accept nothing.
LEMMA RateKept ==
  ASSUME RateInv, RateTypeOK', accepted' = accepted, now' \in Nat, now' >= now,
         \A t \in Traders : \A x \in Ticks :
           now - x < OrderWindow => orderTimes'[t][x] = orderTimes[t][x]
  PROVE  RateInv'
<1>1. now \in Nat /\ OrderWindow \in Nat
  BY TicksFinite, OrderRateAssumption DEF RateInv, RateTypeOK
<1>2. OrdersWithinRate'
  BY DEF RateInv, OrdersWithinRate, Minute
<1>3. ASSUME NEW u \in Traders, NEW x \in Ticks
      PROVE  /\ x > now' => accepted'[u][x] = 0
             /\ now' - x < OrderWindow => orderTimes'[u][x] = accepted'[u][x]
  <2>1. x \in Nat
    BY TicksFinite
  <2>2. x > now' => x > now
    BY <1>1, <2>1
  <2>3. now' - x < OrderWindow => now - x < OrderWindow
    <3>1. \A m \in Nat : m >= now /\ m - x < OrderWindow => now - x < OrderWindow
      BY <1>1, <2>1
    <3> QED
      BY <3>1
  <2>4. x > now => accepted[u][x] = 0
    BY DEF RateInv
  <2>5. now - x < OrderWindow =>
          orderTimes[u][x] = accepted[u][x] /\ orderTimes'[u][x] = orderTimes[u][x]
    BY DEF RateInv
  <2> QED
    BY <2>2, <2>3, <2>4, <2>5
<1> QED
  BY <1>2, <1>3 DEF RateInv

LEMMA RateStep == RateInv /\ [RateNext]_rateVars => RateInv'
<1> SUFFICES ASSUME RateInv, [RateNext]_rateVars PROVE RateInv'
  OBVIOUS
<1>1. /\ now \in Ticks /\ now \in Nat /\ OrderWindow \in Nat /\ MessageWindow \in Nat
      /\ SuspensionDuration \in Nat /\ LastTick \in Nat
  BY TicksFinite, OrderRateAssumption DEF RateInv, RateTypeOK
<1>2. ASSUME NEW t \in Traders, SubmitOrder(t) PROVE RateInv'
  BY <1>2, SubmitKeeps
<1>3. ASSUME NEW t \in Traders, RefuseOrder(t) PROVE RateInv'
  <2>1. /\ orderTimes' = [orderTimes EXCEPT ![t] = Recent(orderTimes[t], OrderWindow)]
        /\ violations' = [violations EXCEPT ![t] = @ + 1]
        /\ UNCHANGED <<messageTimes, haltedAt, accepted, now>>
    BY <1>3 DEF RefuseOrder
  <2>2. orderTimes[t] \in [Ticks -> Nat]
    BY DEF RateInv, RateTypeOK
  <2>3. /\ Recent(orderTimes[t], OrderWindow) \in [Ticks -> Nat]
        /\ \A x \in Ticks : Recent(orderTimes[t], OrderWindow)[x]
                              = IF now - x < OrderWindow THEN orderTimes[t][x] ELSE 0
    BY <1>1, <2>2, RecentTyped
  <2>4. suspendedUntil' \in [Traders -> Nat \cup {Never}]
    BY <1>1, <1>3 DEF RefuseOrder, Cleared, RateInv, RateTypeOK
  <2>5. orderTimes' \in [Traders -> [Ticks -> Nat]] /\ violations' \in [Traders -> Nat]
    BY <2>1, <2>3 DEF RateInv, RateTypeOK
  <2>6. RateTypeOK'
    BY <2>1, <2>4, <2>5 DEF RateInv, RateTypeOK
  <2>7. \A u \in Traders : \A x \in Ticks :
           now - x < OrderWindow => orderTimes'[u][x] = orderTimes[u][x]
    BY <2>1, <2>3 DEF RateInv, RateTypeOK
  <2> QED
    BY <1>1, <2>1, <2>6, <2>7, RateKept
<1>4. ASSUME SubmitMessage PROVE RateInv'
  <2>1. UNCHANGED <<orderTimes, violations, suspendedUntil, haltedAt, accepted, now>>
    BY <1>4 DEF SubmitMessage
  <2>2. PICK recent : recent = Recent(messageTimes, MessageWindow)
    OBVIOUS
  <2>3. recent \in [Ticks -> Nat]
    BY <1>1, <2>2, RecentTyped DEF RateInv, RateTypeOK
  <2>4. messageTimes' \in {WithNow(recent), recent} /\ WithNow(recent) \in [Ticks -> Nat]
    BY <1>1, <1>4, <2>2, <2>3, RecentTyped DEF SubmitMessage
  <2> QED
    BY <1>1, <2>1, <2>3, <2>4, RateKept DEF RateInv, RateTypeOK
<1>5. ASSUME NEW s \in Instruments, NEW beyond \in BOOLEAN, CheckCircuitBreaker(s, beyond)
      PROVE  RateInv'
  <2>1. UNCHANGED <<orderTimes, violations, suspendedUntil, messageTimes, accepted, now>>
    BY <1>5 DEF CheckCircuitBreaker
  <2>2. haltedAt' \in [Instruments -> Nat \cup {Never}]
    BY <1>1, <1>5 DEF CheckCircuitBreaker, RateInv, RateTypeOK
  <2>3. RateTypeOK'
    BY <2>1, <2>2 DEF RateInv, RateTypeOK
  <2> QED
    BY <1>1, <2>1, <2>3, RateKept
<1>6. ASSUME RatePasses PROVE RateInv'
  <2>1. /\ now' = now + 1 /\ now < LastTick
        /\ UNCHANGED <<orderTimes, violations, suspendedUntil, messageTimes, haltedAt, accepted>>
    BY <1>6 DEF RatePasses
  <2>2. now' \in Ticks
    BY <1>1, <2>1 DEF Ticks
  <2>3. RateTypeOK'
    BY <2>1, <2>2 DEF RateInv, RateTypeOK
  <2> QED
    BY <1>1, <2>1, <2>3, RateKept
<1>7. ASSUME UNCHANGED rateVars PROVE RateInv'
  <2>1. UNCHANGED <<orderTimes, violations, suspendedUntil, messageTimes, haltedAt, accepted, now>>
    BY <1>7 DEF rateVars
  <2>2. RateTypeOK'
    BY <2>1 DEF RateInv, RateTypeOK
  <2> QED
    BY <1>1, <2>1, <2>2, RateKept
<1> QED
  BY <1>2, <1>3, <1>4, <1>5, <1>6, <1>7 DEF RateNext

\* Every part of the rate limits is kept, and with it that no window holds too many.
LEMMA RateInvHolds == RateInv => RateTypeOK /\ OrdersWithinRate
BY DEF RateInv

-----------------------------------------------------------------------------
(* Blocks of addresses *)

\* Until a block for too many requests is over, its address is known and blocked,
\* and had its last request at the earliest when the block began.
IpInv ==
  /\ IpTypeOK /\ FloodBlockServed
  /\ \A ip \in Ips :
       /\ tracker[ip] # Unknown => tracker[ip].last <= time
       /\ time < banned[ip] =>
            /\ tracker[ip] # Unknown
            /\ tracker[ip].until >= banned[ip] /\ banned[ip] <= tracker[ip].last + BlockDuration

\* What is known of an address, and what is not.
LEMMA Known ==
  /\ \A s \in IpStats : /\ s.known = TRUE /\ s # Unknown
                        /\ s.count \in Nat /\ s.last \in Nat /\ s.score \in Nat
                        /\ s.until \in Nat \cup {NotBlocked}
  /\ Unknown.known = FALSE /\ NotBlocked = -1
<1>1. Unknown.known = FALSE /\ NotBlocked = -1
  BY DEF Unknown, NotBlocked
<1>2. ASSUME NEW s \in IpStats
      PROVE  /\ s.known = TRUE /\ s # Unknown
             /\ s.count \in Nat /\ s.last \in Nat /\ s.score \in Nat
             /\ s.until \in Nat \cup {NotBlocked}
  <2>1. /\ s.known = TRUE /\ s.count \in Nat /\ s.last \in Nat /\ s.score \in Nat
        /\ s.until \in Nat \cup {NotBlocked}
    BY DEF IpStats
  <2> QED
    BY <1>1, <2>1
<1> QED
  BY <1>1, <1>2

LEMMA IpConstants ==
  /\ DetectionThreshold \in Nat /\ MaxScore \in Nat /\ BlockDuration \in Nat
  /\ ForgetAfter \in Nat /\ MaxCount \in Nat /\ MaxTime \in Nat
  /\ BlockDuration <= ForgetAfter /\ Nobody \notin Ips
BY IpAssumption

LEMMA IpBegins == IpInit => IpInv
<1> SUFFICES ASSUME IpInit PROVE IpInv
  OBVIOUS
<1>1. /\ \A ip \in Ips : tracker[ip] = Unknown /\ banned[ip] = -1
      /\ admitted = Nobody /\ time = 0 /\ 0 \in 0..MaxTime
  BY Known, IpConstants DEF IpInit
<1>2. IpTypeOK
  BY <1>1, IpConstants DEF IpInit, IpTypeOK
<1>3. FloodBlockServed
  BY <1>1, IpConstants DEF FloodBlockServed
<1> QED
  BY <1>1, <1>2, <1>3 DEF IpInv

\* An address that asks.
LEMMA CheckIpKeeps ==
  ASSUME IpInv, NEW ip \in Ips, CheckIp(ip)
  PROVE  IpInv'
<1> DEFINE had == Entry(ip)
           stats == Requested(had)
<1>1. time \in Nat /\ time \in 0..MaxTime /\ time' = time
  BY IpConstants DEF CheckIp, IpInv, IpTypeOK
<1>2. had \in IpStats /\ had.last <= time
  <2>1. CASE tracker[ip] = Unknown
    <3>1. had = [known |-> TRUE, count |-> 0, last |-> time, until |-> NotBlocked, score |-> 0]
      BY <2>1, Known DEF Entry
    <3> QED
      BY <1>1, <3>1 DEF IpStats
  <2>2. CASE tracker[ip] # Unknown
    <3>1. tracker[ip] \in IpStats
      BY <2>2 DEF IpInv, IpTypeOK
    <3>2. had = tracker[ip]
      BY <3>1, Known DEF Entry
    <3> QED
      BY <2>2, <3>1, <3>2 DEF IpInv
  <2> QED
    BY <2>1, <2>2
<1>3. tracker[ip] # Unknown => had = tracker[ip]
  BY Known DEF Entry, IpInv, IpTypeOK
<1> HIDE DEF had
<1>4. stats \in IpStats /\ stats.last = time
      /\ stats.until = IF had.count + 1 > DetectionThreshold THEN time + BlockDuration ELSE NotBlocked
  <2>1. /\ had.count + 1 \in Nat /\ time + BlockDuration \in Nat
    BY <1>1, <1>2, Known, IpConstants
  <2>2. PICK u : u = IF had.count + 1 > DetectionThreshold THEN time + BlockDuration
                     ELSE NotBlocked
    OBVIOUS
  <2>3. u \in Nat \cup {NotBlocked}
    BY <2>1, <2>2
  <2>4. stats = [had EXCEPT !.count = had.count + 1, !.last = time, !.until = u]
    BY <2>2 DEF Requested
  <2>5. stats \in IpStats /\ stats.last = time /\ stats.until = u
    BY <1>1, <1>2, <2>1, <2>3, <2>4 DEF IpStats
  <2> QED
    BY <2>2, <2>5
<1> HIDE DEF stats
<1>5. CASE Blocked(had)
  <2>1. admitted' = Nobody /\ tracker' = tracker /\ banned' = banned
    BY <1>5 DEF CheckIp, had
  <2> QED
    BY <1>1, <2>1, IpConstants DEF IpInv, IpTypeOK, FloodBlockServed
<1>6. CASE ~Blocked(had)
  <2>1. /\ tracker' = [tracker EXCEPT ![ip] = stats]
        /\ admitted' = IF stats.until = NotBlocked THEN ip ELSE Nobody
        /\ banned' = IF stats.until = NotBlocked THEN banned
                     ELSE [banned EXCEPT ![ip] = stats.until]
    BY <1>6 DEF CheckIp, had, stats
  <2>2. time >= banned[ip]
    <3>1. SUFFICES ASSUME time < banned[ip] PROVE FALSE
      BY <1>1 DEF IpInv, IpTypeOK, NotBlocked
    <3>2. tracker[ip] # Unknown /\ tracker[ip].until >= banned[ip]
      BY <3>1 DEF IpInv
    <3>3. had.until > time /\ had.until # NotBlocked
      BY <1>1, <1>2, <1>3, <3>1, <3>2, Known DEF IpInv, IpTypeOK
    <3> QED
      BY <1>1, <1>6, <3>3 DEF Blocked
  <2>3. /\ tracker'[ip] = stats /\ \A i \in Ips \ {ip} : tracker'[i] = tracker[i]
        /\ tracker' \in [Ips -> {Unknown} \cup IpStats]
    BY <1>4, <2>1 DEF IpInv, IpTypeOK
  <2>4. CASE stats.until = NotBlocked
    <3>1. banned' = banned /\ admitted' = ip
      BY <2>1, <2>4
    <3>2. FloodBlockServed' /\ IpTypeOK'
      BY <1>1, <2>2, <2>3, <3>1, IpConstants DEF IpInv, IpTypeOK, FloodBlockServed
    <3>3. ASSUME NEW i \in Ips
          PROVE  /\ tracker'[i] # Unknown => tracker'[i].last <= time'
                 /\ time' < banned'[i] =>
                      /\ tracker'[i] # Unknown
                      /\ tracker'[i].until >= banned'[i]
                      /\ banned'[i] <= tracker'[i].last + BlockDuration
      <4>1. CASE i = ip
        <5>1. ~(time < banned[ip])
          BY <1>1, <2>2 DEF IpInv, IpTypeOK, NotBlocked
        <5> QED
          BY <1>1, <1>4, <2>3, <3>1, <4>1, <5>1
      <4>2. CASE i # ip
        BY <1>1, <2>3, <3>1, <4>2 DEF IpInv
      <4> QED
        BY <4>1, <4>2
    <3> QED
      BY <3>2, <3>3 DEF IpInv
  <2>5. CASE stats.until # NotBlocked
    <3>1. /\ banned' = [banned EXCEPT ![ip] = stats.until] /\ admitted' = Nobody
          /\ stats.until = time + BlockDuration /\ stats.until \in Nat
      <4>1. stats.until = time + BlockDuration
        BY <1>4, <2>5
      <4>2. stats.until \in Nat
        BY <1>1, <4>1, IpConstants
      <4> QED
        BY <2>1, <2>5, <4>1, <4>2
    <3>2. /\ banned'[ip] = stats.until
          /\ \A i \in Ips \ {ip} : banned'[i] = banned[i]
          /\ banned' \in [Ips -> Nat \cup {NotBlocked}]
      BY <3>1 DEF IpInv, IpTypeOK
    <3>3. FloodBlockServed' /\ IpTypeOK'
      <4>1. FloodBlockServed'
        BY <3>1, IpConstants DEF FloodBlockServed
      <4>2. IpTypeOK'
        <5>1. admitted' \in Ips \cup {Nobody} /\ time' \in 0..MaxTime
          BY <1>1, <3>1
        <5>2. tracker' \in [Ips -> {Unknown} \cup IpStats]
              /\ banned' \in [Ips -> Nat \cup {NotBlocked}]
          BY <2>3, <3>2
        <5> QED
          BY ONLY <5>1, <5>2 DEF IpTypeOK
      <4> QED
        BY <4>1, <4>2
    <3>4. ASSUME NEW i \in Ips
          PROVE  /\ tracker'[i] # Unknown => tracker'[i].last <= time'
                 /\ time' < banned'[i] =>
                      /\ tracker'[i] # Unknown
                      /\ tracker'[i].until >= banned'[i]
                      /\ banned'[i] <= tracker'[i].last + BlockDuration
      <4>1. CASE i = ip
        BY <1>1, <1>4, <2>3, <3>1, <3>2, <4>1, Known
      <4>2. CASE i # ip
        BY <1>1, <2>3, <3>2, <4>2 DEF IpInv
      <4> QED
        BY <4>1, <4>2
    <3> QED
      BY <3>3, <3>4 DEF IpInv
  <2> QED
    BY <2>4, <2>5
<1> QED
  BY <1>5, <1>6

\* An address that is reported: its block may only become longer.
LEMMA ReportKeeps ==
  ASSUME IpInv, NEW ip \in Ips, ReportSuspiciousActivity(ip)
  PROVE  IpInv'
<1> DEFINE stats == tracker[ip]
           ends == IF stats.score + 1 > MaxScore THEN time + BlockDuration ELSE stats.until
           marked == [stats EXCEPT !.score = stats.score + 1, !.until = ends]
<1>1. /\ stats.known /\ admitted' = Nobody /\ banned' = banned /\ time' = time
      /\ tracker' = [tracker EXCEPT ![ip].score = @ + 1, ![ip].until = ends]
  BY DEF ReportSuspiciousActivity
<1>2. stats \in IpStats /\ stats # Unknown /\ time \in Nat
  BY <1>1, Known, IpConstants DEF IpInv, IpTypeOK
<1>3. stats.last <= time
  BY <1>2 DEF IpInv
<1>4. tracker' = [tracker EXCEPT ![ip] = marked]
  BY <1>1 DEF IpInv, IpTypeOK
<1>5. ends \in Nat \cup {NotBlocked}
  BY <1>2, Known, IpConstants
<1> HIDE DEF ends
<1>6. marked \in IpStats /\ marked.last = stats.last /\ marked.until = ends
  <2>1. stats.score + 1 \in Nat
    BY <1>2, Known
  <2> QED
    BY <1>2, <1>5, <2>1 DEF IpStats
<1> HIDE DEF marked
<1>7. tracker'[ip] = marked /\ (\A i \in Ips \ {ip} : tracker'[i] = tracker[i])
      /\ tracker' \in [Ips -> {Unknown} \cup IpStats]
  BY <1>4, <1>6 DEF IpInv, IpTypeOK
<1>8. IpTypeOK' /\ FloodBlockServed'
  BY <1>1, <1>7, IpConstants DEF IpInv, IpTypeOK, FloodBlockServed
<1>9. ASSUME NEW i \in Ips
      PROVE  /\ tracker'[i] # Unknown => tracker'[i].last <= time'
             /\ time' < banned'[i] =>
                  /\ tracker'[i] # Unknown
                  /\ tracker'[i].until >= banned'[i]
                  /\ banned'[i] <= tracker'[i].last + BlockDuration
  <2>1. CASE i = ip
    <3>1. tracker'[i].last <= time'
      BY <1>1, <1>3, <1>6, <1>7, <2>1
    <3>2. ASSUME time < banned[ip]
          PROVE  ends >= banned[ip] /\ banned[ip] <= stats.last + BlockDuration
      <4>1. /\ banned[ip] \in Nat /\ stats.until >= banned[ip]
            /\ banned[ip] <= stats.last + BlockDuration
        BY <1>2, <3>2 DEF IpInv, IpTypeOK, NotBlocked
      <4>2. stats.last \in Nat /\ BlockDuration \in Nat
        BY <1>2, Known, IpConstants
      <4> QED
        BY <1>2, <1>3, <4>1, <4>2 DEF ends
    <3> QED
      BY <1>1, <1>6, <1>7, <2>1, <3>1, <3>2, Known
  <2>2. CASE i # ip
    BY <1>1, <1>7, <2>2 DEF IpInv
  <2> QED
    BY <2>1, <2>2
<1> QED
  BY <1>8, <1>9 DEF IpInv

\* Nobody is forgotten whose block is not over.
LEMMA CleanupKeeps ==
  ASSUME IpInv, CleanupOldEntries
  PROVE  IpInv'
<1>1. /\ tracker' = [ip \in Ips |->
           IF tracker[ip].known /\ Stale(tracker[ip]) THEN Unknown ELSE tracker[ip]]
      /\ admitted' = Nobody /\ banned' = banned /\ time' = time
  BY DEF CleanupOldEntries
<1>2. \A ip \in Ips : tracker[ip] \in {Unknown} \cup IpStats /\ time \in Nat
                      /\ banned[ip] \in Nat \cup {NotBlocked}
  BY IpConstants DEF IpInv, IpTypeOK
<1>3. IpTypeOK' /\ FloodBlockServed'
  BY <1>1, <1>2, IpConstants DEF IpInv, IpTypeOK, FloodBlockServed
<1>4. ASSUME NEW ip \in Ips
      PROVE  /\ tracker'[ip] # Unknown => tracker'[ip].last <= time'
             /\ time' < banned'[ip] =>
                  /\ tracker'[ip] # Unknown
                  /\ tracker'[ip].until >= banned'[ip]
                  /\ banned'[ip] <= tracker'[ip].last + BlockDuration
  <2>1. CASE tracker'[ip] = tracker[ip]
    BY <1>1, <2>1 DEF IpInv
  <2>2. CASE tracker'[ip] # tracker[ip]
    <3>1. tracker'[ip] = Unknown /\ tracker[ip] # Unknown /\ tracker[ip].last + ForgetAfter <= time
      BY <1>1, <2>2 DEF Stale
    <3>2. tracker[ip] \in IpStats /\ tracker[ip].last \in Nat
      BY <1>2, <3>1, Known
    <3>3. ~(time < banned[ip])
      <4>1. time < banned[ip] => banned[ip] <= tracker[ip].last + BlockDuration
        BY DEF IpInv
      <4> QED
        BY <1>2, <3>1, <3>2, <4>1, Known, IpConstants
    <3> QED
      BY <1>1, <3>1, <3>3
  <2> QED
    BY <2>1, <2>2
<1> QED
  BY <1>3, <1>4 DEF IpInv

LEMMA IpStep == IpInv /\ [IpNext]_ipVars => IpInv'
<1> SUFFICES ASSUME IpInv, [IpNext]_ipVars PROVE IpInv'
  OBVIOUS
<1>1. ASSUME NEW ip \in Ips, CheckIp(ip) PROVE IpInv'
  BY <1>1, CheckIpKeeps
<1>2. ASSUME NEW ip \in Ips, ReportSuspiciousActivity(ip) PROVE IpInv'
  BY <1>2, ReportKeeps
<1>3. ASSUME CleanupOldEntries PROVE IpInv'
  BY <1>3, CleanupKeeps
<1>4. ASSUME TimePasses PROVE IpInv'
  <2>1. /\ time' = time + 1 /\ time < MaxTime /\ admitted' = Nobody
        /\ tracker' = tracker /\ banned' = banned
    BY <1>4 DEF TimePasses
  <2>2. time \in Nat /\ time' \in 0..MaxTime
    BY <2>1, IpConstants DEF IpInv, IpTypeOK
  <2>3. IpTypeOK' /\ FloodBlockServed'
    BY <2>1, <2>2, IpConstants DEF IpInv, IpTypeOK, FloodBlockServed
  <2>4. ASSUME NEW ip \in Ips
        PROVE  /\ tracker[ip] # Unknown => tracker[ip].last <= time + 1
               /\ time + 1 < banned[ip] => time < banned[ip]
    <3>1. tracker[ip] # Unknown => tracker[ip].last \in Nat /\ tracker[ip].last <= time
      BY Known DEF IpInv, IpTypeOK
    <3>2. banned[ip] \in Nat \cup {NotBlocked}
      BY DEF IpInv, IpTypeOK
    <3> QED
      BY <2>2, <3>1, <3>2, Known
  <2> QED
    BY <2>1, <2>3, <2>4 DEF IpInv
<1>5. ASSUME UNCHANGED ipVars PROVE IpInv'
  BY <1>5 DEF ipVars, IpInv, IpTypeOK, FloodBlockServed
<1> QED
  BY <1>1, <1>2, <1>3, <1>4, <1>5 DEF IpNext

-----------------------------------------------------------------------------
(* The matching engine *)

MatchInv == MatchTypeOK /\ NoOverfill

\* What is left of an order is a natural number, and filling it with no more than
\* that fills no more than it is.
LEMMA Filling ==
  ASSUME NEW o \in Order, NEW q \in Nat
  PROVE  /\ Rest(o) \in Nat /\ o.quantity \in Nat /\ o.filled \in Nat
         /\ Rest(o) <= o.quantity
         /\ o.filled <= o.quantity => o.filled + Rest(o) = o.quantity
         /\ UpdateFilled(o, q) \in Order
         /\ UpdateFilled(o, q).filled = o.filled + q
         /\ UpdateFilled(o, q).quantity = o.quantity
<1>1. o.quantity \in Nat /\ o.filled \in Nat
      /\ o.status \in {"None", "New", "PartiallyFilled", "Filled", "Cancelled"}
  BY DEF Order
<1>2. PICK f : f = o.filled + q
  OBVIOUS
<1>3. PICK st : st = IF f = o.quantity THEN "Filled" ELSE IF f > 0 THEN "PartiallyFilled" ELSE o.status
  OBVIOUS
<1>4. st \in {"None", "New", "PartiallyFilled", "Filled", "Cancelled"}
  BY <1>1, <1>3
<1>5. UpdateFilled(o, q) = [o EXCEPT !.filled = f, !.status = st]
  BY <1>2, <1>3 DEF UpdateFilled
<1>6. f \in Nat
  BY <1>1, <1>2
<1>7. /\ UpdateFilled(o, q) \in Order /\ UpdateFilled(o, q).filled = f
      /\ UpdateFilled(o, q).quantity = o.quantity
  BY <1>4, <1>5, <1>6 DEF Order
<1> QED
  BY <1>1, <1>2, <1>7 DEF Rest

\* A share of what is left, by a part of all there is, is no more than what is left.
LEMMA ShareWithin ==
  ASSUME NEW l \in Nat, NEW r \in Nat, NEW a \in Nat \ {0}, r <= a
  PROVE  (l * r) \div a \in Nat /\ (l * r) \div a <= l
<1> DEFINE q == (l * r) \div a
<1>1. l * r \in Nat /\ l * r <= l * a
  OBVIOUS
<1>2. q \in Nat /\ q * a <= l * r
  <2>1. \A x \in Nat : x \div a \in Nat /\ (x \div a) * a <= x
    OBVIOUS
  <2> QED
    BY <1>1, <2>1
<1> HIDE DEF q
<1>3. ~(q > l)
  <2>1. SUFFICES ASSUME q >= l + 1 PROVE FALSE
    BY <1>2
  <2>2. q * a >= (l + 1) * a
    BY <1>2, <2>1
  <2>3. (l + 1) * a = l * a + a /\ l * a \in Nat /\ q * a \in Nat
    BY <1>2
  <2> QED
    BY <1>1, <1>2, <2>2, <2>3
<1> QED
  BY <1>2, <1>3 DEF q

\* What an order gets is within what is left and what it has.
LEMMA PartWithin ==
  ASSUME MatchInv, NEW m \in Resting, NEW l \in Nat
  PROVE  /\ Part(m, l) \in Nat /\ Part(m, l) <= l /\ Part(m, l) <= Rest(orders[m])
         /\ algorithm # "ProRata" => Part(m, l) = AtMost(l, Rest(orders[m]))
<1> DEFINE held == [k \in Makers |-> IF k \in Resting THEN Rest(orders[k]) ELSE 0]
<1>1. \A k \in Makers : orders[k] \in Order /\ Rest(orders[k]) \in Nat
  <2>1. \A k \in Makers : orders[k] \in Order
    BY DEF MatchInv, MatchTypeOK
  <2> QED
    BY <2>1, Filling
<1>2. m \in Makers /\ Rest(orders[m]) \in Nat \ {0}
  BY <1>1 DEF Resting
<1>3. held \in [Makers -> Nat] /\ held[m] = Rest(orders[m]) /\ IsFiniteSet(Makers)
  BY <1>1, <1>2, MatchingAssumption
<1>4. Supply(held) \in Nat /\ held[m] <= Supply(held)
  <2> HIDE DEF held
  <2> QED
    BY <1>2, <1>3, SupplyType, BalanceAtMostSupply
<1>5. Available = Supply(held)
  BY DEF Available
<1>6. Available \in Nat \ {0} /\ Rest(orders[m]) <= Available
  BY <1>2, <1>3, <1>4, <1>5
<1>7. (l * Rest(orders[m])) \div Available \in Nat /\ (l * Rest(orders[m])) \div Available <= l
  BY <1>2, <1>6, ShareWithin
<1> HIDE DEF held
<1> QED
  BY <1>2, <1>7 DEF Part, AtMost

\* The loop over the orders ends, and says what it is meant to.
LEMMA LeftDefined ==
  ASSUME NEW list, Len(list) \in Nat
  PROVE  /\ Left(list)[0] = Wanted
         /\ \A i \in 1..Len(list) :
              Left(list)[i] = Left(list)[i - 1] - Part(list[i], Left(list)[i - 1])
<1> DEFINE Settles(n) == \E f : f = [i \in 0..n |-> IF i = 0 THEN Wanted
                                     ELSE f[i - 1] - Part(list[i], f[i - 1])]
           Bad == { n \in Nat : ~ Settles(n) }
<1>1. Settles(0)
  <2> DEFINE f == [i \in 0..0 |-> Wanted]
  <2>1. f = [i \in 0..0 |-> IF i = 0 THEN Wanted ELSE f[i - 1] - Part(list[i], f[i - 1])]
    OBVIOUS
  <2> QED
    BY <2>1
<1>2. ASSUME NEW n \in Nat, Settles(n) PROVE Settles(n + 1)
  <2>1. PICK g : g = [i \in 0..n |-> IF i = 0 THEN Wanted ELSE g[i - 1] - Part(list[i], g[i - 1])]
    BY <1>2
  <2> DEFINE last == g[n] - Part(list[n + 1], g[n])
             f == [i \in 0..(n + 1) |-> IF i = n + 1 THEN last ELSE g[i]]
  <2>2. g[0] = Wanted /\ \A i \in 1..n : g[i] = g[i - 1] - Part(list[i], g[i - 1])
    BY <2>1
  <2>3. \A i \in 0..n : f[i] = g[i]
    OBVIOUS
  <2>4. f[n + 1] = last /\ f[n] = g[n]
    OBVIOUS
  <2>5. \A i \in 0..(n + 1) : f[i] = IF i = 0 THEN Wanted ELSE f[i - 1] - Part(list[i], f[i - 1])
    <3> SUFFICES ASSUME NEW i \in 0..(n + 1)
                 PROVE  f[i] = IF i = 0 THEN Wanted ELSE f[i - 1] - Part(list[i], f[i - 1])
      OBVIOUS
    <3>1. CASE i = 0
      BY <2>2, <2>3, <3>1
    <3>2. CASE i \in 1..n
      <4>1. i - 1 \in 0..n /\ i \in 0..n
        BY <3>2
      <4> HIDE DEF f
      <4> QED
        BY <2>2, <2>3, <3>2, <4>1
    <3>3. CASE i = n + 1
      <4>1. i - 1 = n /\ i # 0
        BY <3>3
      <4> HIDE DEF f
      <4> QED
        BY <2>4, <3>3, <4>1
    <3> QED
      BY <3>1, <3>2, <3>3
  <2>6. f = [i \in 0..(n + 1) |-> f[i]]
    OBVIOUS
  <2> HIDE DEF f
  <2>7. f = [i \in 0..(n + 1) |-> IF i = 0 THEN Wanted ELSE f[i - 1] - Part(list[i], f[i - 1])]
    BY <2>5, <2>6
  <2> QED
    BY <2>7
<1>3. Settles(Len(list))
  <2> SUFFICES ASSUME Len(list) \in Bad PROVE FALSE
    OBVIOUS
  <2>1. PICK n \in Bad : \A k \in Bad : n <= k
    <3>1. Bad \in SUBSET Nat
      OBVIOUS
    <3> HIDE DEF Bad
    <3> QED
      BY <3>1, LeastMember
  <2>2. n \in Nat /\ n # 0
    BY <1>1
  <2>3. n - 1 \in Nat /\ n - 1 \notin Bad
    <3>1. n - 1 \in Nat /\ ~(n <= n - 1)
      BY <2>2
    <3> HIDE DEF Bad
    <3> QED
      BY <2>1, <3>1
  <2>4. Settles(n - 1)
    BY <2>3
  <2>5. (n - 1) + 1 = n
    BY <2>2
  <2> HIDE DEF Settles
  <2>6. Settles((n - 1) + 1)
    BY <1>2, <2>3, <2>4
  <2> QED
    BY <2>5, <2>6
<1> DEFINE L == CHOOSE f : f = [i \in 0..Len(list) |-> IF i = 0 THEN Wanted
                                  ELSE f[i - 1] - Part(list[i], f[i - 1])]
<1>4. Left(list) = L
  BY DEF Left
<1>5. L = [i \in 0..Len(list) |-> IF i = 0 THEN Wanted ELSE L[i - 1] - Part(list[i], L[i - 1])]
  BY <1>3
<1> HIDE DEF L
<1>6. L[0] = Wanted /\ \A i \in 1..Len(list) : L[i] = L[i - 1] - Part(list[i], L[i - 1])
  BY <1>5
<1> QED
  BY <1>4, <1>6

\* A list of the resting orders names each of them once.
LEMMA ListOfResting ==
  ASSUME NEW list \in SetToSeqs(Resting)
  PROVE  /\ Len(list) \in Nat /\ DOMAIN list = 1..Len(list)
         /\ \A i \in 1..Len(list) : list[i] \in Resting /\ list[i] \in Makers
         /\ \A i, j \in 1..Len(list) : list[i] = list[j] => i = j
         /\ \A m \in Resting : \E i \in 1..Len(list) : list[i] = m
<1>1. Resting \in SUBSET Makers /\ IsFiniteSet(Makers)
  BY MatchingAssumption DEF Resting
<1>2. PICK R : R = Resting
  OBVIOUS
<1>3. IsFiniteSet(R) /\ R \in SUBSET Makers
  BY <1>1, <1>2, FS_Subset
<1>4. PICK n \in Nat : n = Cardinality(R)
  BY <1>3, FS_CardinalityType
<1>5. PICK D : D = 1..n
  OBVIOUS
<1>6. list \in [D -> R] /\ \A i, j \in D : i # j => list[i] # list[j]
  BY <1>2, <1>4, <1>5 DEF SetToSeqs
<1>7. Len(list) = n /\ DOMAIN list = 1..n
  <2>1. list \in Seq(R)
    BY <1>4, <1>5, <1>6
  <2> QED
    BY <1>4, <1>5, <1>6, <2>1
<1>8. IsFiniteSet(D) /\ Cardinality(D) = n
  <2>1. 1 \in Int /\ n \in Int
    OBVIOUS
  <2>2. IsFiniteSet(1..n) /\ Cardinality(1..n) = IF 1 > n THEN 0 ELSE n - 1 + 1
    BY <2>1, FS_Interval
  <2> QED
    BY <1>5, <2>2
<1>9. list \in Injection(D, R)
  BY <1>6 DEF Injection, IsInjective
<1>10. list \in Surjection(D, R)
  BY <1>3, <1>4, <1>8, <1>9, FS_Injection
<1>11. \A m \in R : \E i \in D : list[i] = m
  BY <1>10 DEF Surjection
<1> QED
  BY <1>2, <1>3, <1>5, <1>6, <1>7, <1>11

\* What is left never grows, and shrinks by what an order gets.
LEMMA LeftBounds ==
  ASSUME MatchInv, NEW list \in SetToSeqs(Resting)
  PROVE  /\ Wanted \in Nat /\ Left(list)[0] = Wanted
         /\ \A i \in 0..Len(list) :
              Left(list)[i] \in Nat /\ \A k \in 0..i : Left(list)[i] <= Left(list)[k]
         /\ \A i \in 1..Len(list) :
              Left(list)[i] = Left(list)[i - 1] - Part(list[i], Left(list)[i - 1])
<1>1. PICK n \in Nat : n = Len(list)
  BY ListOfResting
<1>2. PICK L : L = Left(list)
  OBVIOUS
<1>3. /\ L[0] = Wanted
      /\ \A i \in 1..n : L[i] = L[i - 1] - Part(list[i], L[i - 1])
  BY <1>1, <1>2, LeftDefined
<1>4. Wanted \in Nat
  <2>1. incoming \in Order
    BY DEF MatchInv, MatchTypeOK
  <2>2. Rest(incoming) \in Nat /\ incoming.quantity \in Nat
    BY <2>1, Filling
  <2> QED
    BY <2>2 DEF Wanted
<1> DEFINE Falls(i) == L[i] \in Nat /\ \A k \in 0..i : L[k] \in Nat /\ L[i] <= L[k]
           Bad == { i \in 0..n : ~ Falls(i) }
<1>5. Falls(0)
  BY <1>3, <1>4
<1>6. ASSUME NEW i \in 1..n, Falls(i - 1) PROVE Falls(i)
  <2>1. PICK l \in Nat : l = L[i - 1]
    BY <1>6
  <2>2. list[i] \in Resting
    BY <1>1, ListOfResting
  <2>3. PICK p : p = Part(list[i], l)
    OBVIOUS
  <2>4. p \in Nat /\ p <= l
    BY <2>2, <2>3, PartWithin
  <2>5. L[i] = l - p
    BY <1>3, <2>1, <2>3
  <2>6. \A k \in 0..i : k \in 0..(i - 1) \/ k = i
    OBVIOUS
  <2>7. \A k \in 0..(i - 1) : l <= L[k] /\ L[k] \in Nat
    BY <1>6, <2>1
  <2> QED
    BY <2>4, <2>5, <2>6, <2>7
<1>7. \A i \in 0..n : Falls(i)
  <2> SUFFICES ASSUME NEW x \in Bad PROVE FALSE
    OBVIOUS
  <2>1. PICK i \in Bad : \A k \in Bad : i <= k
    <3>1. Bad \in SUBSET Nat
      OBVIOUS
    <3> HIDE DEF Bad
    <3> QED
      BY <3>1, LeastMember
  <2>2. i \in 0..n /\ ~ Falls(i)
    OBVIOUS
  <2> HIDE DEF Falls
  <2>3. i \in 1..n /\ i - 1 \in 0..n /\ ~(i <= i - 1)
    BY <1>5, <2>2
  <2>4. i - 1 \notin Bad
    <3> HIDE DEF Bad
    <3> QED
      BY <2>1, <2>3
  <2>5. Falls(i - 1)
    BY <2>3, <2>4
  <2> QED
    BY <1>6, <2>2, <2>3, <2>5
<1> QED
  BY <1>1, <1>2, <1>3, <1>4, <1>7

\* What the engine answers: to each listed order what it gets at its turn, which is
\* no more than it has, and to the others nothing.
LEMMA AnswerOfTurn ==
  ASSUME MatchInv, NEW list \in SetToSeqs(Resting)
  PROVE  /\ \A i \in 1..Len(list) :
              EngineAnswer(list)[list[i]] = Part(list[i], Left(list)[i - 1])
         /\ \A m \in Makers : (\A i \in 1..Len(list) : list[i] # m) => EngineAnswer(list)[m] = 0
         /\ EngineAnswer(list) \in [Makers -> Nat]
         /\ \A m \in Makers : EngineAnswer(list)[m] <= Rest(orders[m])
<1>1. PICK n \in Nat : n = Len(list) /\ DOMAIN list = 1..n
  BY ListOfResting
<1>2. PICK L : L = Left(list)
  OBVIOUS
<1>3. ASSUME NEW i \in 1..n PROVE EngineAnswer(list)[list[i]] = Part(list[i], L[i - 1])
  <2>1. list[i] \in Makers
    BY <1>1, ListOfResting
  <2>2. (CHOOSE j \in 1..n : list[j] = list[i]) = i
    <3>1. \A j \in 1..n : list[j] = list[i] => j = i
      BY <1>1, ListOfResting
    <3> QED
      BY <3>1
  <2>3. EngineAnswer(list)[list[i]] = L[i - 1] - L[i]
    BY <1>1, <1>2, <2>1, <2>2 DEF EngineAnswer
  <2>4. PICK l \in Nat : l = L[i - 1]
    <3>1. i - 1 \in 0..n
      OBVIOUS
    <3> QED
      BY <1>1, <1>2, <3>1, LeftBounds
  <2>5. PICK p \in Nat : p = Part(list[i], l)
    <3>1. list[i] \in Resting
      BY <1>1, ListOfResting
    <3> QED
      BY <3>1, PartWithin
  <2>6. L[i] = l - p
    BY <1>1, <1>2, <2>4, <2>5, LeftBounds
  <2> QED
    BY <2>3, <2>4, <2>5, <2>6
<1>4. ASSUME NEW m \in Makers, \A i \in 1..n : list[i] # m PROVE EngineAnswer(list)[m] = 0
  BY <1>1, <1>4 DEF EngineAnswer
<1>5. ASSUME NEW m \in Makers
      PROVE  EngineAnswer(list)[m] \in Nat /\ EngineAnswer(list)[m] <= Rest(orders[m])
  <2>1. CASE \A i \in 1..n : list[i] # m
    <3>1. orders[m] \in Order
      BY DEF MatchInv, MatchTypeOK
    <3>2. Rest(orders[m]) \in Nat
      BY <3>1, Filling
    <3> QED
      BY <1>4, <2>1, <3>2
  <2>2. CASE \E i \in 1..n : list[i] = m
    <3>1. PICK i \in 1..n : list[i] = m
      BY <2>2
    <3>2. PICK l \in Nat : l = L[i - 1]
      <4>1. i - 1 \in 0..n
        OBVIOUS
      <4> QED
        BY <1>1, <1>2, <4>1, LeftBounds
    <3>3. m \in Resting
      BY <1>1, <3>1, ListOfResting
    <3> QED
      BY <1>3, <3>1, <3>2, <3>3, PartWithin
  <2> QED
    BY <2>1, <2>2
<1>6. PICK a : a = EngineAnswer(list)
  OBVIOUS
<1>7. a = [m \in Makers |-> a[m]]
  BY <1>6 DEF EngineAnswer
<1>8. a \in [Makers -> Nat]
  BY <1>5, <1>6, <1>7
<1> QED
  BY <1>1, <1>2, <1>3, <1>4, <1>5, <1>6, <1>8

\* What the engine gives to all together is what was wanted but for what is left.
LEMMA AnswersAddUp ==
  ASSUME MatchInv, NEW list \in SetToSeqs(Resting)
  PROVE  /\ Supply(EngineAnswer(list)) = Wanted - Left(list)[Len(list)]
         /\ Supply(EngineAnswer(list)) \in Nat /\ Supply(EngineAnswer(list)) <= Wanted
<1>1. PICK n \in Nat : n = Len(list)
  BY ListOfResting
<1>2. PICK L : L = Left(list)
  OBVIOUS
<1>3. PICK a \in [Makers -> Nat] : a = EngineAnswer(list)
  BY AnswerOfTurn
<1>4. PICK w \in Nat : w = Wanted /\ L[0] = w
  BY <1>2, LeftBounds
<1>5. \A i \in 0..n : L[i] \in Nat /\ L[i] <= w
  <2>1. \A i \in 0..n : 0 \in 0..i
    OBVIOUS
  <2> QED
    BY <1>1, <1>2, <1>4, <2>1, LeftBounds
<1>6. \A i \in 1..n : /\ list[i] \in Makers /\ a[list[i]] \in Nat
                      /\ L[i] = L[i - 1] - a[list[i]]
                      /\ \A j \in 1..n : list[j] = list[i] => j = i
  <2> SUFFICES ASSUME NEW i \in 1..n
               PROVE  /\ list[i] \in Makers /\ a[list[i]] \in Nat
                      /\ L[i] = L[i - 1] - a[list[i]]
                      /\ \A j \in 1..n : list[j] = list[i] => j = i
    OBVIOUS
  <2>1. list[i] \in Makers /\ \A j \in 1..n : list[j] = list[i] => j = i
    BY <1>1, ListOfResting
  <2>2. L[i] = L[i - 1] - Part(list[i], L[i - 1])
    BY <1>1, <1>2, LeftBounds
  <2>3. a[list[i]] = Part(list[i], L[i - 1])
    BY <1>1, <1>2, <1>3, AnswerOfTurn
  <2> QED
    BY <2>1, <2>2, <2>3
<1> DEFINE Upto(k) == [m \in Makers |-> IF \E i \in 1..k : list[i] = m THEN a[m] ELSE 0]
           Adds(k) == Supply(Upto(k)) = w - L[k]
           Bad == { k \in 0..n : ~ Adds(k) }
<1>7. \A k : Upto(k) \in [Makers -> Nat]
  OBVIOUS
<1>8. Adds(0)
  <2>1. Upto(0) = [m \in Makers |-> 0]
    OBVIOUS
  <2> HIDE DEF Upto
  <2> QED
    BY <1>4, <2>1, SupplyZero
<1>9. ASSUME NEW k \in 1..n, Adds(k - 1) PROVE Adds(k)
  <2>1. PICK h \in Makers : h = list[k]
    BY <1>6
  <2>2. \A i : i \in 1..k <=> i \in 1..(k - 1) \/ i = k
    OBVIOUS
  <2>3. \A i \in 1..(k - 1) : i \in 1..n /\ list[i] # h
    <3>1. \A i \in 1..(k - 1) : i \in 1..n /\ i # k
      OBVIOUS
    <3> QED
      BY <1>6, <2>1, <3>1
  <2>4. Upto(k - 1)[h] = 0
    BY <2>3
  <2>5. Upto(k) = [Upto(k - 1) EXCEPT ![h] = a[h]]
    <3>1. \A m \in Makers : Upto(k)[m] = IF m = h THEN a[h] ELSE Upto(k - 1)[m]
      <4> SUFFICES ASSUME NEW m \in Makers
                   PROVE  Upto(k)[m] = IF m = h THEN a[h] ELSE Upto(k - 1)[m]
        OBVIOUS
      <4>1. CASE m = h
        <5>1. k \in 1..k
          OBVIOUS
        <5> QED
          BY <2>1, <4>1, <5>1
      <4>2. CASE m # h
        <5>1. (\E i \in 1..k : list[i] = m) <=> (\E i \in 1..(k - 1) : list[i] = m)
          BY <2>1, <2>2, <4>2
        <5> QED
          BY <4>2, <5>1
      <4> QED
        BY <4>1, <4>2
    <3> QED
      BY <3>1
  <2> HIDE DEF Upto
  <2>6. a[h] \in Nat /\ Upto(k - 1)[h] + a[h] = a[h]
    BY <2>4
  <2>7. Supply([Upto(k - 1) EXCEPT ![h] = Upto(k - 1)[h] + a[h]]) = Supply(Upto(k - 1)) + a[h]
    <3>1. IsFiniteSet(Makers)
      BY MatchingAssumption
    <3> QED
      BY <1>7, <2>6, <3>1, SupplyCredit
  <2>8. Supply(Upto(k)) = Supply(Upto(k - 1)) + a[h]
    BY <2>5, <2>6, <2>7
  <2>9. k - 1 \in 0..n /\ k \in 0..n
    OBVIOUS
  <2>10. L[k - 1] \in Nat /\ L[k] = L[k - 1] - a[h]
    BY <1>5, <1>6, <2>1, <2>9
  <2> QED
    BY <1>9, <2>6, <2>8, <2>10
<1>10. Adds(n)
  <2> SUFFICES ASSUME n \in Bad PROVE FALSE
    OBVIOUS
  <2>1. PICK i \in Bad : \A k \in Bad : i <= k
    <3>1. Bad \in SUBSET Nat
      OBVIOUS
    <3> HIDE DEF Bad
    <3> QED
      BY <3>1, LeastMember
  <2>2. i \in 0..n /\ ~ Adds(i)
    OBVIOUS
  <2> HIDE DEF Adds
  <2>3. i \in 1..n /\ i - 1 \in 0..n /\ ~(i <= i - 1)
    BY <1>8, <2>2
  <2>4. i - 1 \notin Bad
    <3> HIDE DEF Bad
    <3> QED
      BY <2>1, <2>3
  <2>5. Adds(i - 1)
    BY <2>3, <2>4
  <2> QED
    BY <1>9, <2>2, <2>3, <2>5
<1>11. Upto(n) = a
  <2>1. \A m \in Makers : (\A i \in 1..n : list[i] # m) => a[m] = 0
    BY <1>1, <1>3, AnswerOfTurn
  <2>2. \A m \in Makers : Upto(n)[m] = a[m]
    BY <2>1
  <2> QED
    BY <2>2
<1> HIDE DEF Upto
<1>12. Supply(a) = w - L[n] /\ L[n] \in Nat /\ L[n] <= w
  BY <1>5, <1>10, <1>11
<1> QED
  BY <1>1, <1>2, <1>3, <1>4, <1>12

LEMMA MatchBegins == MatchInit => MatchInv
<1> SUFFICES ASSUME MatchInit PROVE MatchInv
  OBVIOUS
<1>1. NoOrder \in Order /\ NoOrder.filled = 0 /\ NoOrder.quantity = 0
  BY DEF NoOrder, Order
<1>2. /\ algorithm \in Algorithms /\ orders = [m \in Makers |-> NoOrder]
      /\ incoming = NoOrder /\ overbid = FALSE
  BY DEF MatchInit
<1>3. incoming.filled <= incoming.quantity /\ \A m \in Makers : orders[m].filled <= orders[m].quantity
  BY <1>1, <1>2
<1>4. MatchTypeOK
  BY <1>1, <1>2 DEF MatchTypeOK
<1> QED
  BY <1>3, <1>4 DEF MatchInv, NoOverfill

\* A new order, and a cancelled one, are orders that are not overfilled.
LEMMA NewAndCancelled ==
  /\ \A q \in Quantities : /\ NewOrder(q) \in Order
                           /\ NewOrder(q).filled <= NewOrder(q).quantity
  /\ \A o \in Order : /\ Cancelled(o) \in Order
                      /\ Cancelled(o).filled = o.filled /\ Cancelled(o).quantity = o.quantity
<1>1. ASSUME NEW q \in Quantities
      PROVE  NewOrder(q) \in Order /\ NewOrder(q).filled <= NewOrder(q).quantity
  <2>1. q \in Nat
    BY MatchingAssumption
  <2> QED
    BY <2>1 DEF NewOrder, Order
<1>2. ASSUME NEW o \in Order
      PROVE  /\ Cancelled(o) \in Order
             /\ Cancelled(o).filled = o.filled /\ Cancelled(o).quantity = o.quantity
  BY DEF Cancelled, Order
<1> QED
  BY <1>1, <1>2

\* Applying the got overfills nobody, except that an auction may overfill the
\* order it is held for.
LEMMA MatchKeeps ==
  ASSUME MatchInv, MatchOrders
  PROVE  MatchInv'
<1>1. PICK list \in Turns(Resting) :
        LET got == EngineAnswer(list) IN
        /\ incoming # NoOrder
        /\ matches' = [by |-> algorithm, lots |-> got]
        /\ orders' = [m \in Makers |->
             IF got[m] = 0 THEN orders[m] ELSE UpdateFilled(orders[m], got[m])]
        /\ incoming' = UpdateFilled(incoming, Supply(got))
        /\ overbid' = (overbid \/ (algorithm = "Auction" /\ incoming.filled > 0))
        /\ UNCHANGED algorithm
  BY DEF MatchOrders
<1>2. list \in SetToSeqs(Resting)
  BY DEF Turns
<1>3. PICK a : a = EngineAnswer(list)
  OBVIOUS
<1>4. a \in [Makers -> Nat] /\ \A m \in Makers : a[m] <= Rest(orders[m])
  BY <1>2, <1>3, AnswerOfTurn
<1>5. PICK s \in Nat : s = Supply(a) /\ s <= Wanted
  BY <1>2, <1>3, AnswersAddUp
<1>6. /\ orders' = [m \in Makers |-> IF a[m] = 0 THEN orders[m] ELSE UpdateFilled(orders[m], a[m])]
      /\ incoming' = UpdateFilled(incoming, s)
      /\ overbid' = (overbid \/ (algorithm = "Auction" /\ incoming.filled > 0))
      /\ algorithm' = algorithm
  BY <1>1, <1>3, <1>5
<1>7. /\ algorithm \in Algorithms /\ overbid \in BOOLEAN /\ incoming \in Order
      /\ orders \in [Makers -> Order]
  BY DEF MatchInv, MatchTypeOK
<1>8. ASSUME NEW m \in Makers
      PROVE  orders'[m] \in Order /\ orders'[m].filled <= orders'[m].quantity
  <2>1. orders[m] \in Order /\ orders[m].filled <= orders[m].quantity
    BY <1>7 DEF MatchInv, NoOverfill
  <2>2. CASE a[m] = 0
    BY <1>6, <2>1, <2>2
  <2>3. CASE a[m] # 0
    <3>1. PICK q \in Nat : q = a[m] /\ q <= Rest(orders[m])
      BY <1>4
    <3>2. orders'[m] = UpdateFilled(orders[m], q)
      BY <1>6, <2>3, <3>1
    <3>3. /\ UpdateFilled(orders[m], q) \in Order
          /\ UpdateFilled(orders[m], q).filled = orders[m].filled + q
          /\ UpdateFilled(orders[m], q).quantity = orders[m].quantity
          /\ orders[m].filled \in Nat /\ orders[m].quantity \in Nat /\ Rest(orders[m]) \in Nat
          /\ orders[m].filled + Rest(orders[m]) = orders[m].quantity
      BY <2>1, Filling
    <3> QED
      BY <3>1, <3>2, <3>3
  <2> QED
    BY <2>2, <2>3
<1>9. incoming' \in Order /\ (~overbid' => incoming'.filled <= incoming'.quantity)
  <2>1. /\ incoming' \in Order /\ incoming'.filled = incoming.filled + s
        /\ incoming'.quantity = incoming.quantity
        /\ incoming.filled \in Nat /\ incoming.quantity \in Nat /\ Rest(incoming) \in Nat
        /\ incoming.filled <= incoming.quantity =>
             incoming.filled + Rest(incoming) = incoming.quantity
    BY <1>6, <1>7, Filling
  <2>2. ASSUME ~overbid' PROVE incoming'.filled <= incoming'.quantity
    <3>1. ~overbid /\ (algorithm = "Auction" => incoming.filled = 0)
      <4>1. ~overbid /\ ~(algorithm = "Auction" /\ incoming.filled > 0)
        BY <1>6, <2>2, Zenon
      <4> QED
        BY <2>1, <4>1
    <3>2. incoming.filled <= incoming.quantity
      BY <3>1 DEF MatchInv, NoOverfill
    <3>3. Wanted = Rest(incoming)
      BY <2>1, <3>1, <3>2 DEF Wanted
    <3> QED
      BY <1>5, <2>1, <3>2, <3>3
  <2> QED
    BY <2>1, <2>2
<1>10. MatchTypeOK'
  <2>1. orders' \in [Makers -> Order]
    <3>1. orders' = [m \in Makers |-> orders'[m]]
      BY <1>6
    <3> QED
      BY <1>8, <3>1
  <2>2. overbid' \in BOOLEAN
    BY <1>6
  <2> QED
    BY <1>6, <1>7, <1>9, <2>1, <2>2 DEF MatchTypeOK
<1> QED
  BY <1>8, <1>9, <1>10 DEF MatchInv, NoOverfill

\* Under FIFO whoever is older than an order that is filled had all it wanted.
LEMMA OlderFilledFirst ==
  ASSUME MatchInv, MatchOrders
  PROVE  FifoByAge
<1> SUFFICES ASSUME matches'.by = "FIFO", NEW m \in Makers, NEW n \in Makers,
                    m < n, matches'.lots[n] > 0
             PROVE  orders'[m].status = "Cancelled" \/ Rest(orders'[m]) = 0
  BY DEF FifoByAge
<1>1. PICK list \in Turns(Resting) :
        LET got == EngineAnswer(list) IN
        /\ incoming # NoOrder
        /\ matches' = [by |-> algorithm, lots |-> got]
        /\ orders' = [k \in Makers |->
             IF got[k] = 0 THEN orders[k] ELSE UpdateFilled(orders[k], got[k])]
        /\ incoming' = UpdateFilled(incoming, Supply(got))
        /\ overbid' = (overbid \/ (algorithm = "Auction" /\ incoming.filled > 0))
        /\ UNCHANGED algorithm
  BY DEF MatchOrders
<1>2. list \in SetToSeqs(Resting)
  BY DEF Turns
<1>3. PICK a \in [Makers -> Nat] : a = EngineAnswer(list)
  BY <1>2, AnswerOfTurn
<1>4. /\ algorithm = "FIFO" /\ a[n] > 0
      /\ orders' = [k \in Makers |-> IF a[k] = 0 THEN orders[k] ELSE UpdateFilled(orders[k], a[k])]
  BY <1>1, <1>3
<1>5. orders[m] \in Order /\ orders[m].filled <= orders[m].quantity
  BY DEF MatchInv, MatchTypeOK, NoOverfill
<1>6. PICK len \in Nat : len = Len(list) /\ DOMAIN list = 1..len
  BY <1>2, ListOfResting
<1>7. CASE m \notin Resting
  <2>1. \A i \in 1..Len(list) : list[i] # m
    BY <1>2, <1>7, ListOfResting
  <2>2. a[m] = 0
    BY <1>2, <1>3, <2>1, AnswerOfTurn
  <2>3. orders'[m] = orders[m]
    BY <1>4, <2>2
  <2>4. Rest(orders[m]) \in Nat
    BY <1>5, Filling
  <2> QED
    BY <1>7, <2>3, <2>4 DEF Resting
<1>8. CASE m \in Resting
  <2>1. PICK i \in 1..len : list[i] = m
    BY <1>2, <1>6, <1>8, ListOfResting
  <2>2. PICK j \in 1..len : list[j] = n
    <3>1. ~ \A j \in 1..Len(list) : list[j] # n
      BY <1>2, <1>3, <1>4, AnswerOfTurn
    <3> QED
      BY <1>6, <3>1
  <2>3. i < j
    <3>1. m \in Int /\ n \in Int
      BY MatchingAssumption
    <3>2. ~(j < i)
      <4>1. j < i => list[j] < list[i]
        BY <1>4, <1>6 DEF Turns
      <4> QED
        BY <2>1, <2>2, <3>1, <4>1
    <3>3. i # j
      BY <2>1, <2>2, <3>1
    <3> QED
      BY <3>2, <3>3
  <2>4. PICK L : L = Left(list)
    OBVIOUS
  <2>5. L[j - 1] \in Nat /\ L[j - 1] <= L[i] /\ L[i] \in Nat /\ L[i - 1] \in Nat
    <3>1. j - 1 \in 0..len /\ i \in 0..(j - 1) /\ i \in 0..len /\ i - 1 \in 0..len
      BY <2>3
    <3> QED
      BY <1>2, <1>6, <2>4, <3>1, LeftBounds
  <2>6. L[j - 1] > 0
    <3>1. a[n] = Part(n, L[j - 1]) /\ n \in Resting
      BY <1>2, <1>3, <1>6, <2>2, <2>4, AnswerOfTurn, ListOfResting
    <3>2. a[n] <= L[j - 1]
      BY <2>5, <3>1, PartWithin
    <3> QED
      BY <1>4, <2>5, <3>2
  <2>7. Part(m, L[i - 1]) = AtMost(L[i - 1], Rest(orders[m]))
    <3>1. algorithm # "ProRata"
      BY <1>4
    <3> QED
      BY <1>8, <2>5, <3>1, PartWithin
  <2>8. L[i] = L[i - 1] - Part(m, L[i - 1])
    BY <1>2, <1>6, <2>1, <2>4, LeftBounds
  <2>9. PICK r \in Nat : r = Rest(orders[m]) /\ r > 0
    <3>1. Rest(orders[m]) \in Nat
      BY <1>5, Filling
    <3> QED
      BY <1>8, <3>1 DEF Resting
  <2>10. Part(m, L[i - 1]) = r
    BY <2>5, <2>6, <2>7, <2>8, <2>9 DEF AtMost
  <2>11. a[m] = r
    BY <1>2, <1>3, <1>6, <2>1, <2>4, <2>10, AnswerOfTurn
  <2>12. orders'[m] = UpdateFilled(orders[m], r)
    BY <1>4, <2>9, <2>11
  <2>13. /\ UpdateFilled(orders[m], r).filled = orders[m].filled + r
         /\ UpdateFilled(orders[m], r).quantity = orders[m].quantity
         /\ orders[m].filled + r = orders[m].quantity /\ orders[m].quantity \in Nat
    BY <1>5, <2>9, Filling
  <2>14. Rest(UpdateFilled(orders[m], r)) = 0
    BY <2>13 DEF Rest
  <2> QED
    BY <2>12, <2>14
<1> QED
  BY <1>7, <1>8

LEMMA MatchStep ==
  ASSUME MatchInv, [MatchNext]_matchVars
  PROVE  MatchInv' /\ FifoByAge
<1>1. /\ algorithm \in Algorithms /\ overbid \in BOOLEAN /\ incoming \in Order
      /\ orders \in [Makers -> Order]
      /\ \A m \in Makers : orders[m] \in Order /\ orders[m].filled <= orders[m].quantity
      /\ ~overbid => incoming.filled <= incoming.quantity
  BY DEF MatchInv, MatchTypeOK, NoOverfill
<1>2. matches' = matches => FifoByAge
  BY DEF FifoByAge
<1>3. ASSUME NEW b \in Algorithms, SwitchAlgorithm(b) PROVE MatchInv' /\ FifoByAge
  BY <1>1, <1>2, <1>3 DEF SwitchAlgorithm, MatchInv, MatchTypeOK, NoOverfill
<1>4. ASSUME NEW q \in Quantities, PlaceOrder(q) PROVE MatchInv' /\ FifoByAge
  <2>1. PICK m \in Makers :
          /\ orders' = [orders EXCEPT ![m] = NewOrder(q)]
          /\ UNCHANGED <<algorithm, incoming, matches, overbid>>
    BY <1>4 DEF PlaceOrder
  <2>2. PICK o \in Order : o = NewOrder(q) /\ o.filled <= o.quantity
    BY NewAndCancelled
  <2>3. orders' = [orders EXCEPT ![m] = o]
    BY <2>1, <2>2
  <2>4. orders' \in [Makers -> Order] /\ \A k \in Makers : orders'[k].filled <= orders'[k].quantity
    BY <1>1, <2>2, <2>3
  <2> QED
    BY <1>1, <1>2, <2>1, <2>4 DEF MatchInv, MatchTypeOK, NoOverfill
<1>5. ASSUME NEW q \in Quantities, Arrive(q) PROVE MatchInv' /\ FifoByAge
  <2>1. PICK o \in Order : o = NewOrder(q) /\ o.filled <= o.quantity
    BY NewAndCancelled
  <2> QED
    BY <1>1, <1>2, <1>5, <2>1 DEF Arrive, MatchInv, MatchTypeOK, NoOverfill
<1>6. ASSUME NEW m \in Makers, Cancel(m) PROVE MatchInv' /\ FifoByAge
  <2>1. PICK o \in Order : o = Cancelled(orders[m]) /\ o.filled <= o.quantity
    BY <1>1, NewAndCancelled
  <2>2. orders' = [orders EXCEPT ![m] = o] /\ UNCHANGED <<algorithm, incoming, matches, overbid>>
    BY <1>1, <1>6, <2>1 DEF Cancel
  <2>3. orders' \in [Makers -> Order] /\ \A k \in Makers : orders'[k].filled <= orders'[k].quantity
    BY <1>1, <2>1, <2>2
  <2> QED
    BY <1>1, <1>2, <2>2, <2>3 DEF MatchInv, MatchTypeOK, NoOverfill
<1>7. ASSUME MatchOrders PROVE MatchInv' /\ FifoByAge
  BY <1>7, MatchKeeps, OlderFilledFirst
<1>8. ASSUME UNCHANGED matchVars PROVE MatchInv' /\ FifoByAge
  BY <1>1, <1>2, <1>8 DEF matchVars, MatchInv, MatchTypeOK, NoOverfill
<1> QED
  BY <1>3, <1>4, <1>5, <1>6, <1>7, <1>8 DEF MatchNext

\* Whatever the algorithms and however many orders: no resting order is filled beyond
\* its quantity, an incoming one only by an auction held for an order filled in part,
\* and under FIFO a younger order only after the older ones (matching_engine.rs:40).
THEOREM MatchingIsSound == MatchSpec => MatchingSound
<1>1. MatchInv /\ [MatchNext]_matchVars => [NoOverfill' /\ FifoByAge]_matchVars
  BY MatchStep DEF MatchInv
<1>2. MatchInv /\ [MatchNext]_matchVars => MatchInv'
  BY MatchStep
<1> QED
  BY <1>1, <1>2, MatchBegins, PTL DEF MatchSpec, MatchingSound

-----------------------------------------------------------------------------
(* All parts together *)

\* What holds of the parts in every state of the server's data.
DataInv == ReplicaInv /\ HistoryInv /\ MatchInv /\ RateInv /\ IpInv

LEMMA DataHolds == DataInv => LimitersSound
<1> SUFFICES ASSUME DataInv PROVE LimitersSound
  OBVIOUS
<1>1. ReplicaTypeOK /\ HistoryTypeOK
  BY ReplicaTyped, HistoryTyped DEF DataInv
<1>2. MatchTypeOK /\ RateTypeOK /\ OrdersWithinRate
  BY RateInvHolds DEF DataInv, MatchInv
<1>3. IpTypeOK /\ FloodBlockServed
  BY DEF DataInv, IpInv
<1> QED
  BY <1>1, <1>2, <1>3 DEF LimitersSound, DataTyped

LEMMA DataBegins == Init => DataInv
BY ReplicaBegins, HistoryBegins, MatchBegins, RateBegins, IpBegins DEF Init, DataInv

\* What a part does leaves what holds of the others.
LEMMA DataStep ==
  ASSUME DataInv, [Next]_vars
  PROVE  DataInv'
<1>1. /\ [ReplicaNext]_replicaVars /\ [HistoryNext]_historyVars /\ [MatchNext]_matchVars
      /\ [RateNext]_rateVars /\ [IpNext]_ipVars
  BY DEF Next, vars
<1> QED
  BY <1>1, ReplicaStep, HistoryStep, MatchStep, RateStep, IpStep DEF DataInv

\* For every number of traders, addresses and orders, and every window, maximum and
\* threshold: no window holds more accepted orders of a trader than the maximum, and
\* a block for too many requests is served in full (hft_protection.rs:216,
\* rate_limiter.rs:397).
THEOREM LimitersAreSound == Spec => []LimitersSound
<1>1. DataInv /\ [Next]_vars => DataInv'
  BY DataStep
<1> QED
  BY <1>1, DataBegins, DataHolds, PTL DEF Spec

-----------------------------------------------------------------------------
(* Arithmetic of words *)

\* A remainder is within the word, and the only one of its kind.
LEMMA Remainder ==
  ASSUME NEW w \in Nat, w > 0, NEW x \in Int
  PROVE  /\ x % w \in 0..(w - 1) /\ x \div w \in Int
         /\ x = w * (x \div w) + (x % w)
OBVIOUS

\* A number is written in one way as a multiple of the word and a remainder.
LEMMA OneRemainder ==
  ASSUME NEW w \in Nat, w > 0, NEW x \in Int, NEW q \in Int, NEW r \in 0..(w - 1),
         x = w * q + r
  PROVE  x % w = r
BY SMTT(60)

\* Multiples of the word add up.
LEMMA Distributes ==
  ASSUME NEW w \in Int, NEW p \in Int, NEW q \in Int
  PROVE  w * p + w * q = w * (p + q) /\ w * p \in Int /\ w * q \in Int
OBVIOUS

\* It makes no difference whether a counter wraps before or after it is added to.
WrapsEarly(a, k) == ((a % Word) + k) % Word = (a + k) % Word

\* There is at least one value in a word.
LEMMA WordPositive == Word \in Nat /\ Word > 0
BY ConnectionAssumption, FS_CardinalityType

\* Word-sized counters: wrapping first changes nothing.
LEMMA WrapEarly == ASSUME NEW a \in Int, NEW k \in Int PROVE WrapsEarly(a, k)
<1> DEFINE r == a % Word
           q == a \div Word
           t == (r + k) % Word
           p == (r + k) \div Word
<1>1. q \in Int /\ r \in Int /\ a = Word * q + r
  BY WordPositive, Remainder
<1>2. r + k \in Int
  BY <1>1
<1> HIDE DEF r, q
<1>3. p \in Int /\ t \in 0..(Word - 1) /\ r + k = Word * p + t
  BY <1>2, WordPositive, Remainder
<1> HIDE DEF p, t
<1>4. a + k = Word * (q + p) + t
  BY <1>1, <1>3, WordPositive, Distributes
<1>5. a + k \in Int /\ q + p \in Int
  BY <1>1, <1>3
<1>6. (a + k) % Word = t
  BY <1>3, <1>4, <1>5, WordPositive, OneRemainder
<1> QED
  BY <1>6 DEF r, t, WrapsEarly

-----------------------------------------------------------------------------
(* Calls in a step *)

\* A call that enters a step adds one to the calls in it, one that leaves it takes
\* one off, and one that moves between others changes nothing.
Steps == {"none", "admitted", "inserted", "removed", "counted"}
Enters(f, i, v) == f[i] # v => InStep([f EXCEPT ![i] = v], v) = InStep(f, v) + 1
Leaves(f, i, v, step) ==
  f[i] = step /\ v # step => InStep([f EXCEPT ![i] = v], step) = InStep(f, step) - 1
Avoids(f, i, v, step) ==
  f[i] # step /\ v # step => InStep([f EXCEPT ![i] = v], step) = InStep(f, step)

\* The calls in a step are counted by a natural number.
LEMMA InStepType ==
  ASSUME NEW f, NEW step
  PROVE  InStep(f, step) \in Nat
<1> DEFINE S == { j \in Ids : f[j] = step }
<1>1. IsFiniteSet(S)
  BY ConnectionAssumption, FS_Subset, S \subseteq Ids
<1> QED
  BY <1>1, FS_CardinalityType DEF InStep

\* Entering a step (connection.rs:110, 137).
LEMMA Entered ==
  ASSUME NEW f \in [Ids -> Steps], NEW i \in Ids, NEW v \in Steps
  PROVE  Enters(f, i, v)
<1> SUFFICES ASSUME f[i] # v
             PROVE  InStep([f EXCEPT ![i] = v], v) = InStep(f, v) + 1
  BY DEF Enters
<1> DEFINE S == { j \in Ids : f[j] = v }
<1>1. { j \in Ids : [f EXCEPT ![i] = v][j] = v } = S \cup {i} /\ i \notin S
  OBVIOUS
<1>2. IsFiniteSet(S)
  BY ConnectionAssumption, FS_Subset, S \subseteq Ids
<1>3. Cardinality(S \cup {i}) = Cardinality(S) + 1
  BY <1>1, <1>2, FS_AddElement
<1> QED
  BY <1>1, <1>3 DEF InStep

\* Leaving a step, or never being in it.
LEMMA LeftOrAvoided ==
  ASSUME NEW f \in [Ids -> Steps], NEW i \in Ids, NEW v \in Steps, NEW step \in Steps
  PROVE  Leaves(f, i, v, step) /\ Avoids(f, i, v, step)
<1> DEFINE S == { j \in Ids : f[j] = step }
           T == { j \in Ids : [f EXCEPT ![i] = v][j] = step }
<1>1. ASSUME f[i] = step, v # step
      PROVE  InStep([f EXCEPT ![i] = v], step) = InStep(f, step) - 1
  <2>1. T = S \ {i} /\ i \in S
    BY <1>1
  <2>2. IsFiniteSet(S)
    BY ConnectionAssumption, FS_Subset, S \subseteq Ids
  <2>3. Cardinality(S \ {i}) = Cardinality(S) - 1
    BY <2>1, <2>2, FS_RemoveElement
  <2> QED
    BY <2>1, <2>3 DEF InStep
<1>2. ASSUME f[i] # step, v # step
      PROVE  InStep([f EXCEPT ![i] = v], step) = InStep(f, step)
  <2>1. T = S
    BY <1>2
  <2> QED
    BY <2>1 DEF InStep
<1> QED
  BY <1>1, <1>2 DEF Leaves, Avoids

-----------------------------------------------------------------------------
(* The refinement *)

\* A connection is in the map only between its insertion and its removal.
LinksSound ==
  /\ entry \in [Ids -> {"none", "admitted", "inserted", "counted"}]
  /\ exit \in [Ids -> {"none", "removed", "counted"}]
  /\ conns \subseteq Ids
  /\ active \in Int /\ total \in Int
  /\ \A i \in Ids :
       /\ entry[i] \in {"none", "admitted"} => i \notin conns /\ exit[i] = "none"
       /\ i \in conns => exit[i] = "none"

Seen == { i \in Ids : entry[i] \in {"inserted", "counted"} }
Level == (active + InStep(entry, "inserted") - InStep(exit, "removed")) % Word
Arrivals == (total + InStep(entry, "inserted")) % Word

\* The new manager has no connection.
LEMMA LinksInit == ConnInit => LinksSound
BY DEF ConnInit, LinksSound

\* No step puts a connection in the map before its insertion or after its removal.
LEMMA LinksStep == LinksSound /\ [ConnNext]_connVars => LinksSound'
<1> SUFFICES ASSUME LinksSound, [ConnNext]_connVars PROVE LinksSound'
  OBVIOUS
<1> USE DEF LinksSound
<1>1. ASSUME NEW i \in Ids, AddConnection(i) PROVE LinksSound'
  BY <1>1 DEF AddConnection
<1>2. ASSUME NEW i \in Ids, Insert(i) PROVE LinksSound'
  BY <1>2 DEF Insert
<1>4. ASSUME NEW i \in Ids, CountAdded(i) PROVE LinksSound'
  <2>1. (total + 1) % Word \in Int /\ (active + 1) % Word \in Int
    BY WordPositive, Remainder
  <2> QED
    BY <1>4, <2>1 DEF CountAdded
<1>5. ASSUME NEW i \in Ids, CountRemoved(i) PROVE LinksSound'
  <2>1. (active - 1) % Word \in Int
    BY WordPositive, Remainder
  <2> QED
    BY <1>5, <2>1 DEF CountRemoved
<1>6. ASSUME NEW i \in Ids, TakeOut(i) PROVE LinksSound'
  BY <1>6 DEF TakeOut
<1>7. ASSUME NEW i \in Ids, Touch(i) PROVE LinksSound'
  BY <1>7 DEF Touch
<1>8. CASE Sweep \/ SweepOn \/ Passes \/ UNCHANGED connVars
  BY <1>8 DEF Sweep, SweepOn, Passes, connVars
<1>9. SweepRemove => \E i \in Ids : TakeOut(i)
  BY DEF SweepRemove, TakeOut
<1> QED
  BY <1>1, <1>2, <1>4, <1>5, <1>6, <1>7, <1>8, <1>9
  DEF ConnNext, GoOn, Sweeping, RemoveConnection

\* Each step of the manager is one of the gauge, or none: the insertion is the
\* arrival and the removal from the map is the departure.
LEMMA GaugeStep == LinksSound /\ [ConnNext]_connVars => [Counted!Next]_(Counted!vars)
<1> SUFFICES ASSUME LinksSound, [ConnNext]_connVars
             PROVE  Counted!Next \/ UNCHANGED <<conns, Seen, Level, Arrivals>>
  BY DEF Counted!vars, Seen, Level, Arrivals
<1>0. InStep(entry, "inserted") \in Nat /\ InStep(exit, "removed") \in Nat
  BY InStepType
<1>1. /\ InStep(entry, "inserted") \in Int /\ InStep(exit, "removed") \in Int
      /\ active \in Int /\ total \in Int
  BY <1>0 DEF LinksSound
<1>2. entry \in [Ids -> Steps] /\ exit \in [Ids -> Steps]
  BY DEF LinksSound, Steps
<1>3. ASSUME NEW i \in Ids, Touch(i) PROVE UNCHANGED <<conns, Seen, Level, Arrivals>>
  BY <1>3 DEF Touch, Seen, Level, Arrivals
<1>4. ASSUME NEW i \in Ids, AddConnection(i)
      PROVE  UNCHANGED <<conns, Seen, Level, Arrivals>>
  <2>1. entry' = [entry EXCEPT ![i] = "admitted"] /\ entry[i] = "none"
        /\ UNCHANGED <<exit, conns, active, total>>
    BY <1>4 DEF AddConnection
  <2>2. Seen' = Seen
    BY <2>1 DEF Seen, LinksSound
  <2>3. Avoids(entry, i, "admitted", "inserted")
    BY <1>2, LeftOrAvoided DEF Steps
  <2>4. InStep(entry', "inserted") = InStep(entry, "inserted")
    BY <2>1, <2>3 DEF Avoids
  <2> QED
    BY <2>1, <2>2, <2>4 DEF Level, Arrivals
<1>5. ASSUME NEW i \in Ids, Insert(i) PROVE Counted!Arrive(i)
  <2>1. entry' = [entry EXCEPT ![i] = "inserted"] /\ entry[i] = "admitted"
        /\ conns' = conns \cup {i} /\ UNCHANGED <<exit, active, total>>
    BY <1>5 DEF Insert
  <2>2. i \notin Seen /\ Seen' = Seen \cup {i}
    BY <2>1 DEF Seen, LinksSound
  <2>3. Enters(entry, i, "inserted")
    BY <1>2, Entered DEF Steps
  <2>4. InStep(entry', "inserted") = InStep(entry, "inserted") + 1
    BY <2>1, <2>3 DEF Enters
  <2>5. Level' = (Level + 1) % Word
    <3>1. WrapsEarly(active + InStep(entry, "inserted") - InStep(exit, "removed"), 1)
      BY <1>1, WrapEarly
    <3>2. active + (InStep(entry, "inserted") + 1) - InStep(exit, "removed")
            = (active + InStep(entry, "inserted") - InStep(exit, "removed")) + 1
      BY <1>1
    <3> QED
      BY <2>1, <2>4, <3>1, <3>2 DEF Level, WrapsEarly
  <2>6. Arrivals' = (Arrivals + 1) % Word
    <3>1. WrapsEarly(total + InStep(entry, "inserted"), 1)
      BY <1>1, WrapEarly
    <3>2. total + (InStep(entry, "inserted") + 1) = (total + InStep(entry, "inserted")) + 1
      BY <1>1
    <3> QED
      BY <2>1, <2>4, <3>1, <3>2 DEF Arrivals, WrapsEarly
  <2> QED
    BY <2>1, <2>2, <2>5, <2>6 DEF Counted!Arrive, Seen, Level, Arrivals
<1>6. ASSUME NEW i \in Ids, CountAdded(i) PROVE UNCHANGED <<conns, Seen, Level, Arrivals>>
  <2>1. entry' = [entry EXCEPT ![i] = "counted"] /\ entry[i] = "inserted"
        /\ UNCHANGED <<exit, conns>>
        /\ active' = (active + 1) % Word /\ total' = (total + 1) % Word
    BY <1>6 DEF CountAdded
  <2>2. Seen' = Seen
    BY <2>1 DEF Seen, LinksSound
  <2>3. Leaves(entry, i, "counted", "inserted")
    BY <1>2, LeftOrAvoided DEF Steps
  <2>4. InStep(entry', "inserted") = InStep(entry, "inserted") - 1
    BY <2>1, <2>3 DEF Leaves
  <2>5. (active + 1) % Word \in Int /\ (total + 1) % Word \in Int
    BY <1>1, WordPositive, Remainder
  <2>6. Level' = Level
    <3>1. WrapsEarly(active + 1, InStep(entry, "inserted") - 1 - InStep(exit, "removed"))
      BY <1>1, WrapEarly
    <3>2. ((active + 1) % Word) + (InStep(entry, "inserted") - 1) - InStep(exit, "removed")
            = ((active + 1) % Word) + (InStep(entry, "inserted") - 1 - InStep(exit, "removed"))
      BY <1>1, <2>5
    <3>3. (active + 1) + (InStep(entry, "inserted") - 1 - InStep(exit, "removed"))
            = active + InStep(entry, "inserted") - InStep(exit, "removed")
      BY <1>1
    <3> QED
      BY <2>1, <2>4, <3>1, <3>2, <3>3 DEF Level, WrapsEarly
  <2>7. Arrivals' = Arrivals
    <3>1. WrapsEarly(total + 1, InStep(entry, "inserted") - 1)
      BY <1>1, WrapEarly
    <3>2. (total + 1) + (InStep(entry, "inserted") - 1) = total + InStep(entry, "inserted")
      BY <1>1
    <3> QED
      BY <2>1, <2>4, <3>1, <3>2 DEF Arrivals, WrapsEarly
  <2> QED
    BY <2>1, <2>2, <2>6, <2>7
<1>7. ASSUME NEW i \in Ids, TakeOut(i) PROVE Counted!Depart(i)
  <2>1. i \in conns /\ conns' = conns \ {i} /\ exit' = [exit EXCEPT ![i] = "removed"]
        /\ exit[i] = "none" /\ UNCHANGED <<entry, active, total>>
    BY <1>7 DEF TakeOut, LinksSound
  <2>2. Enters(exit, i, "removed")
    BY <1>2, Entered DEF Steps
  <2>3. InStep(exit', "removed") = InStep(exit, "removed") + 1
    BY <2>1, <2>2 DEF Enters
  <2>4. Level' = (Level - 1) % Word
    <3>1. WrapsEarly(active + InStep(entry, "inserted") - InStep(exit, "removed"), -1)
      BY <1>1, WrapEarly
    <3>2. active + InStep(entry, "inserted") - (InStep(exit, "removed") + 1)
            = (active + InStep(entry, "inserted") - InStep(exit, "removed")) + (-1)
      BY <1>1
    <3>3. Level \in Int
      BY <1>1, WordPositive, Remainder DEF Level
    <3>4. Level - 1 = Level + (-1)
      BY <3>3
    <3> QED
      BY <2>1, <2>3, <3>1, <3>2, <3>4 DEF Level, WrapsEarly
  <2>5. UNCHANGED <<Seen, Arrivals>>
    BY <2>1 DEF Seen, Arrivals
  <2> QED
    BY <2>1, <2>4, <2>5 DEF Counted!Depart, Seen, Level, Arrivals
<1>8. ASSUME NEW i \in Ids, CountRemoved(i) PROVE UNCHANGED <<conns, Seen, Level, Arrivals>>
  <2>1. exit' = [exit EXCEPT ![i] = "counted"] /\ exit[i] = "removed"
        /\ UNCHANGED <<entry, conns, total>> /\ active' = (active - 1) % Word
    BY <1>8 DEF CountRemoved
  <2>2. Leaves(exit, i, "counted", "removed")
    BY <1>2, LeftOrAvoided DEF Steps
  <2>3. InStep(exit', "removed") = InStep(exit, "removed") - 1
    BY <2>1, <2>2 DEF Leaves
  <2>4. (active - 1) % Word \in Int
    BY <1>1, WordPositive, Remainder
  <2>5. WrapsEarly(active - 1, InStep(entry, "inserted") - (InStep(exit, "removed") - 1))
    BY <1>1, WrapEarly
  <2>6. ((active - 1) % Word) + InStep(entry, "inserted") - (InStep(exit, "removed") - 1)
          = ((active - 1) % Word) + (InStep(entry, "inserted") - (InStep(exit, "removed") - 1))
    BY <1>1, <2>4
  <2>7. (active - 1) + (InStep(entry, "inserted") - (InStep(exit, "removed") - 1))
          = active + InStep(entry, "inserted") - InStep(exit, "removed")
    BY <1>1
  <2>8. Level' = Level
    BY <2>1, <2>3, <2>5, <2>6, <2>7 DEF Level, WrapsEarly
  <2> QED
    BY <2>1, <2>8 DEF Seen, Arrivals
<1>9. CASE Sweep \/ SweepOn \/ Passes \/ UNCHANGED connVars
  BY <1>9 DEF Sweep, SweepOn, Passes, connVars, Seen, Level, Arrivals
<1>10. SweepRemove => \E i \in Ids : TakeOut(i)
  BY DEF SweepRemove, TakeOut, LinksSound
<1> QED
  BY <1>3, <1>4, <1>5, <1>6, <1>7, <1>8, <1>9, <1>10
  DEF ConnNext, GoOn, Sweeping, RemoveConnection, Counted!Next

\* The counters of the manager move with its map: with the calls under way made up
\* for, it implements the gauge, in whatever order the calls of any number of
\* connections take their steps, and although the counters wrap (connection.rs:101-165).
THEOREM ManagerImplementsGauge == ConnSpec => GaugeImplemented
<1>1. ConnInit => Counted!Init
  <2> SUFFICES ASSUME ConnInit PROVE Counted!Init
    OBVIOUS
  <2>1. { i \in Ids : entry[i] \in {"inserted", "counted"} } = {}
    BY DEF ConnInit
  <2>2. InStep(entry, "inserted") = 0 /\ InStep(exit, "removed") = 0
    <3>1. { i \in Ids : entry[i] = "inserted" } = {} /\ { i \in Ids : exit[i] = "removed" } = {}
      BY DEF ConnInit
    <3> QED
      BY <3>1, FS_EmptySet DEF InStep
  <2>3. Word \in Nat /\ Word > 0
    BY ConnectionAssumption, FS_CardinalityType
  <2>4. 0 % Word = 0
    BY <2>3
  <2> QED
    BY <2>1, <2>2, <2>4 DEF ConnInit, Counted!Init
<1>2. ConnSpec => ConnInit /\ [][ConnNext]_connVars
  BY DEF ConnSpec
<1>3. QED
  BY <1>1, <1>2, LinksInit, LinksStep, GaugeStep, PTL DEF GaugeImplemented, Counted!Spec

-----------------------------------------------------------------------------
(* The sessions.  A step of a connection's task or of the broadcast is a     *)
(* step of the feed, or the feed does not see it.                            *)

\* What is in a list after its end grows, or its head is taken off.
LEMMA ListMembers ==
  ASSUME NEW S, NEW s \in Seq(S)
  PROVE  /\ \A e \in S : Append(s, e) \in Seq(S) /\ ToSet(Append(s, e)) = ToSet(s) \cup {e}
         /\ s # <<>> => /\ Head(s) \in S /\ Tail(s) \in Seq(S)
                        /\ ToSet(s) = ToSet(Tail(s)) \cup {Head(s)}
         /\ ToSet(s) \subseteq S
<1>1. PICK n \in Nat : n = Len(s) /\ DOMAIN s = 1..n
  OBVIOUS
<1>2. ASSUME NEW e \in S
      PROVE  Append(s, e) \in Seq(S) /\ ToSet(Append(s, e)) = ToSet(s) \cup {e}
  <2>0. Append(s, e) \in Seq(S)
    OBVIOUS
  <2>1. PICK r \in Seq(S) : r = Append(s, e)
    BY <2>0
  <2>2. DOMAIN r = 1..(n + 1) /\ r[n + 1] = e /\ \A i \in 1..n : r[i] = s[i]
    BY <1>1, <2>1
  <2>3. ASSUME NEW x PROVE x \in ToSet(r) <=> x \in ToSet(s) \cup {e}
    <3>1. x \in ToSet(r) <=> \E i \in 1..(n + 1) : x = r[i]
      BY <2>2 DEF ToSet
    <3>2. x \in ToSet(s) <=> \E i \in 1..n : x = s[i]
      BY <1>1 DEF ToSet
    <3>3. \A i : i \in 1..(n + 1) <=> i \in 1..n \/ i = n + 1
      OBVIOUS
    <3> QED
      BY <2>2, <3>1, <3>2, <3>3, Zenon
  <2> QED
    BY <2>1, <2>3
<1>3. ASSUME s # <<>>
      PROVE  /\ Head(s) \in S /\ Tail(s) \in Seq(S)
             /\ ToSet(s) = ToSet(Tail(s)) \cup {Head(s)}
  <2>1. n > 0 /\ Head(s) = s[1] /\ s[1] \in S
    BY <1>1, <1>3
  <2>0. Tail(s) \in Seq(S)
    BY <1>3
  <2>2. PICK r \in Seq(S) : r = Tail(s)
    BY <2>0
  <2>3. DOMAIN r = 1..(n - 1) /\ \A i \in 1..(n - 1) : r[i] = s[i + 1]
    BY <1>1, <1>3, <2>1, <2>2
  <2>4. ASSUME NEW x PROVE x \in ToSet(s) <=> x \in ToSet(r) \cup {s[1]}
    <3>1. x \in ToSet(r) <=> \E i \in 1..(n - 1) : x = s[i + 1]
      BY <2>3 DEF ToSet
    <3>2. x \in ToSet(s) <=> \E i \in 1..n : x = s[i]
      BY <1>1 DEF ToSet
    <3>3. \A i \in 1..n : i = 1 \/ (i - 1 \in 1..(n - 1) /\ (i - 1) + 1 = i)
      OBVIOUS
    <3>4. 1 \in 1..n /\ \A i \in 1..(n - 1) : i + 1 \in 1..n
      BY <2>1
    <3> QED
      BY <3>1, <3>2, <3>3, <3>4
  <2> QED
    BY <2>1, <2>2, <2>4
<1>4. ToSet(s) \subseteq S
  BY <1>1 DEF ToSet
<1> QED
  BY <1>2, <1>3, <1>4

LEMMA EmptyList ==
  ToSet(<<>>) = {} /\ \A S : <<>> \in Seq(S)
BY DEF ToSet

\* The loop of the removal ends, and says what it is meant to.
LEMMA TakenOutDefined ==
  ASSUME NEW c, NEW list, Len(list) \in Nat
  PROVE  \E L : /\ L[0] = <<>> /\ TakenOut(c, list) = L[Len(list)]
                /\ \A i \in 1..Len(list) :
                     L[i] = IF list[i] = c THEN L[i - 1] ELSE Append(L[i - 1], list[i])
<1> DEFINE After(i, f) == IF list[i] = c THEN f ELSE Append(f, list[i])
           Settles(n) == \E f : f = [i \in 0..n |-> IF i = 0 THEN <<>> ELSE After(i, f[i - 1])]
           Bad == { n \in Nat : ~ Settles(n) }
<1> HIDE DEF After
<1>1. Settles(0)
  <2> DEFINE f == [i \in 0..0 |-> <<>>]
  <2>1. f = [i \in 0..0 |-> IF i = 0 THEN <<>> ELSE After(i, f[i - 1])]
    OBVIOUS
  <2> QED
    BY <2>1
<1>2. ASSUME NEW n \in Nat, Settles(n) PROVE Settles(n + 1)
  <2>1. PICK g : g = [i \in 0..n |-> IF i = 0 THEN <<>> ELSE After(i, g[i - 1])]
    BY <1>2
  <2> DEFINE last == After(n + 1, g[n])
             f == [i \in 0..(n + 1) |-> IF i = n + 1 THEN last ELSE g[i]]
  <2>2. g[0] = <<>> /\ \A i \in 1..n : g[i] = After(i, g[i - 1])
    BY <2>1
  <2>3. \A i \in 0..n : f[i] = g[i]
    OBVIOUS
  <2>4. f[n + 1] = last /\ f[n] = g[n]
    OBVIOUS
  <2>5. \A i \in 0..(n + 1) : f[i] = IF i = 0 THEN <<>> ELSE After(i, f[i - 1])
    <3> SUFFICES ASSUME NEW i \in 0..(n + 1)
                 PROVE  f[i] = IF i = 0 THEN <<>> ELSE After(i, f[i - 1])
      OBVIOUS
    <3>1. CASE i = 0
      BY <2>2, <2>3, <3>1
    <3>2. CASE i \in 1..n
      <4>1. i - 1 \in 0..n /\ i \in 0..n
        BY <3>2
      <4> HIDE DEF f
      <4> QED
        BY <2>2, <2>3, <3>2, <4>1
    <3>3. CASE i = n + 1
      <4>1. i - 1 = n /\ i # 0
        BY <3>3
      <4> HIDE DEF f
      <4> QED
        BY <2>4, <3>3, <4>1
    <3> QED
      BY <3>1, <3>2, <3>3
  <2>6. f = [i \in 0..(n + 1) |-> f[i]]
    OBVIOUS
  <2> HIDE DEF f
  <2>7. f = [i \in 0..(n + 1) |-> IF i = 0 THEN <<>> ELSE After(i, f[i - 1])]
    BY <2>5, <2>6
  <2> QED
    BY <2>7
<1>3. Settles(Len(list))
  <2> HIDE DEF Settles
  <2>1. \A n \in Nat : Settles(n)
    <3> SUFFICES ASSUME Bad # {} PROVE FALSE
      OBVIOUS
    <3>1. PICK n \in Bad : \A k \in Bad : n <= k
      <4>1. Bad \in SUBSET Nat
        OBVIOUS
      <4> HIDE DEF Bad
      <4> QED
        BY <4>1, LeastMember
    <3>2. n \in Nat /\ n # 0
      BY <1>1
    <3>3. n - 1 \in Nat /\ ~(n <= n - 1) /\ (n - 1) + 1 = n
      BY <3>2
    <3>4. n - 1 \notin Bad
      BY <3>1, <3>3
    <3>5. Settles(n - 1)
      BY <3>3, <3>4
    <3>6. Settles((n - 1) + 1)
      BY <1>2, <3>3, <3>5
    <3> QED
      BY <3>1, <3>3, <3>6
  <2> QED
    BY <2>1
<1> DEFINE L == CHOOSE f : f = [i \in 0..Len(list) |-> IF i = 0 THEN <<>>
                                  ELSE After(i, f[i - 1])]
<1>4. TakenOut(c, list) = L[Len(list)]
  BY DEF TakenOut, After
<1>5. L = [i \in 0..Len(list) |-> IF i = 0 THEN <<>> ELSE After(i, L[i - 1])]
  BY <1>3
<1> HIDE DEF L
<1>6. L[0] = <<>> /\ \A i \in 1..Len(list) : L[i] = After(i, L[i - 1])
  BY <1>5
<1> QED
  BY <1>4, <1>6 DEF After

\* What is left of a list are the others.
LEMMA TakenOutSet ==
  ASSUME NEW S, NEW list \in Seq(S), NEW c
  PROVE  TakenOut(c, list) \in Seq(S) /\ ToSet(TakenOut(c, list)) = ToSet(list) \ {c}
<1>1. PICK n \in Nat : n = Len(list) /\ DOMAIN list = 1..n
  OBVIOUS
<1>2. PICK L : /\ L[0] = <<>> /\ TakenOut(c, list) = L[n]
               /\ \A i \in 1..n : L[i] = IF list[i] = c THEN L[i - 1] ELSE Append(L[i - 1], list[i])
  BY <1>1, TakenOutDefined
<1> DEFINE Upto(i) == { list[j] : j \in 1..i }
           Good(i) == L[i] \in Seq(S) /\ ToSet(L[i]) = Upto(i) \ {c}
           Bad == { i \in 0..n : ~ Good(i) }
<1>3. Good(0)
  BY <1>2, EmptyList
<1>4. ASSUME NEW i \in 1..n, Good(i - 1) PROVE Good(i)
  <2>1. list[i] \in S /\ L[i - 1] \in Seq(S)
    BY <1>1, <1>4
  <2>2. L[i] = IF list[i] = c THEN L[i - 1] ELSE Append(L[i - 1], list[i])
    BY <1>2
  <2>3. Upto(i) = Upto(i - 1) \cup {list[i]}
    <3>1. \A j : j \in 1..i <=> j \in 1..(i - 1) \/ j = i
      OBVIOUS
    <3> QED
      BY <3>1
  <2>4. ToSet(Append(L[i - 1], list[i])) = ToSet(L[i - 1]) \cup {list[i]}
        /\ Append(L[i - 1], list[i]) \in Seq(S)
    BY <2>1, ListMembers
  <2> HIDE DEF Upto
  <2> QED
    BY <1>4, <2>1, <2>2, <2>3, <2>4
<1>5. Good(n)
  <2> SUFFICES ASSUME n \in Bad PROVE FALSE
    OBVIOUS
  <2>1. PICK m \in Bad : \A k \in Bad : m <= k
    <3>1. Bad \in SUBSET Nat
      OBVIOUS
    <3> HIDE DEF Bad
    <3> QED
      BY <3>1, LeastMember, SMTT(40)
  <2>2. m \in 0..n /\ ~ Good(m)
    OBVIOUS
  <2> HIDE DEF Good
  <2>3. m # 0
    BY <1>3, <2>2
  <2>4. m \in 1..n /\ m - 1 \in 0..n /\ ~(m <= m - 1)
    BY <2>2, <2>3
  <2>5. Good(m - 1)
    <3>1. m - 1 \notin Bad
      BY <2>1, <2>4
    <3> QED
      BY <2>4, <3>1
  <2> QED
    BY <1>4, <2>2, <2>4, <2>5
<1>6. Upto(n) = ToSet(list)
  BY <1>1 DEF ToSet
<1> QED
  BY <1>2, <1>5, <1>6
Registered(c, s) == c \in ToSet(subscribers[s])

\* The record of a connection, the broadcaster and where its task is.
TaskSound(c) ==
  /\ task[c].at \in {"new", "accepted"} =>
       subscriptions[c] = {} /\ \A s \in Symbols : ~Registered(c, s)
  /\ task[c].at \in {"reading", "registering", "withdrawing", "failed"} => c \in writers
  /\ task[c].at \in {"dropped", "ended"} => c \in gone
  /\ task[c].todo \subseteq task[c].asked
  /\ \A s \in Symbols :
       /\ task[c].at \in {"reading", "failed"} => (s \in subscriptions[c] <=> Registered(c, s))
       /\ task[c].at = "registering" =>
            (s \in subscriptions[c] <=> Registered(c, s) \/ s \in task[c].todo)
       /\ task[c].at = "withdrawing" /\ s \notin task[c].asked =>
            (s \in subscriptions[c] <=> Registered(c, s))
       /\ task[c].at = "withdrawing" /\ s \in task[c].asked \ task[c].todo => ~Registered(c, s)

\* To whom the broadcaster will send items of a symbol, and what he has: all of them, or
\* all but the one that is under way to him.
Due(c, s) == Registered(c, s) \/ (s = topic /\ c \in ToSet(left))
Caught(c, s) ==
  \/ known[c][s] = published[s]
  \/ s = topic /\ c \in ToSet(left) /\ known[c][s] + 1 = published[s]

DeliverySound ==
  \A c \in Clients, s \in Symbols : c \notin gone /\ Due(c, s) => c \in writers /\ Caught(c, s)

SessionInv ==
  /\ SessionTypeOK
  /\ \A c \in Clients : TaskSound(c)
  /\ DeliverySound

\* A step of the sessions is a step of the feed or leaves it as it is.
FeedStep == Abstract!Next \/ UNCHANGED Abstract!vars

LEMMA InvNext ==
  SessionInv' <=> SessionTypeOK' /\ (\A c \in Clients : TaskSound(c)') /\ DeliverySound'
BY DEF SessionInv

\* A task that nobody touches stays sound.
LEMMA TaskKept ==
  ASSUME NEW c \in Clients, TaskSound(c), UNCHANGED task[c], UNCHANGED subscriptions[c],
         c \in writers => c \in writers', c \in gone => c \in gone',
         \A s \in Symbols : Registered(c, s)' <=> Registered(c, s)
  PROVE  TaskSound(c)'
BY DEF TaskSound

TaskSteps == {"new", "accepted", "reading", "registering", "withdrawing", "failed", "dropped", "ended"}
Tasks == [Clients -> [at : TaskSteps, asked : SUBSET Symbols, todo : SUBSET Symbols]]

LEMMA StepNames ==
  /\ {"new", "accepted", "reading", "registering"} \subseteq TaskSteps
  /\ {"withdrawing", "failed", "dropped", "ended"} \subseteq TaskSteps
BY DEF TaskSteps

\* What a task is after it went on.
LEMMA TaskSet ==
  ASSUME SessionTypeOK, NEW c \in Clients, NEW at \in TaskSteps,
         NEW asked \in SUBSET Symbols, NEW todo \in SUBSET Symbols, Goto(c, at, asked, todo)
  PROVE  /\ task' \in Tasks
         /\ task'[c].at = at /\ task'[c].asked = asked /\ task'[c].todo = todo
         /\ \A d \in Clients \ {c} : task'[d] = task[d]
<1>1. task \in Tasks
  BY DEF SessionTypeOK, Tasks, TaskSteps
<1> QED
  BY <1>1 DEF Goto, Tasks

\* Types after a step that touches neither the broadcaster nor the sockets.
LEMMA OwnTypes ==
  ASSUME SessionTypeOK, task' \in Tasks, connections' \subseteq Clients,
         subscriptions' \in [Clients -> SUBSET Symbols],
         UNCHANGED <<gone, writers, subscribers, feed>>
  PROVE  SessionTypeOK'
<1>1. UNCHANGED <<gone, writers, subscribers, topic, left, published, known>>
  BY DEF feed
<1> QED
  BY <1>1 DEF SessionTypeOK, Tasks, TaskSteps

\* A step that leaves writers, subscribers and the broadcast alone is no step of the feed.
LEMMA Unseen ==
  ASSUME SessionInv, UNCHANGED <<gone, writers, subscribers, feed>>
  PROVE  DeliverySound' /\ FeedStep
<1>1. UNCHANGED <<gone, writers, subscribers, topic, left, published, known>>
  BY DEF feed
<1>2. DeliverySound'
  BY <1>1 DEF SessionInv, DeliverySound, Due, Caught, Registered
<1>3. UNCHANGED Listening
  BY <1>1 DEF Listening, Reaches
<1> QED
  BY <1>1, <1>2, <1>3 DEF FeedStep, Abstract!vars

\* What touches neither the broadcaster nor the sockets has only its own task to answer for.
LEMMA OwnTask ==
  ASSUME SessionInv, NEW c \in Clients, UNCHANGED <<gone, writers, subscribers, feed>>,
         SessionTypeOK', TaskSound(c)',
         \A d \in Clients \ {c} : task'[d] = task[d] /\ subscriptions'[d] = subscriptions[d]
  PROVE  SessionInv' /\ FeedStep
<1>1. DeliverySound' /\ FeedStep
  BY Unseen
<1>2. ASSUME NEW d \in Clients \ {c} PROVE TaskSound(d)'
  <2>1. TaskSound(d)
    BY DEF SessionInv
  <2>2. \A s \in Symbols : Registered(d, s)' <=> Registered(d, s)
    BY DEF Registered
  <2> QED
    BY <2>1, <2>2, TaskKept
<1> QED
  BY <1>1, <1>2, InvNext

LEMMA AcceptStep ==
  ASSUME SessionInv, NEW c \in Clients, Accept(c)
  PROVE  SessionInv' /\ FeedStep
<1>1. /\ task[c].at = "new" /\ connections' = connections \cup {c}
      /\ Goto(c, "accepted", {}, {})
      /\ UNCHANGED <<gone, subscriptions, writers, subscribers, feed>>
  BY DEF Accept, At
<1>2. SessionTypeOK /\ TaskSound(c)
  BY DEF SessionInv
<1>3. /\ task' \in Tasks
      /\ task'[c].at = "accepted" /\ task'[c].asked = {} /\ task'[c].todo = {}
      /\ \A d \in Clients \ {c} : task'[d] = task[d]
  <2>1. "accepted" \in TaskSteps /\ {} \in SUBSET Symbols
    BY StepNames
  <2> QED
    BY <1>1, <1>2, <2>1, TaskSet
<1>4. /\ connections' \subseteq Clients /\ subscriptions' \in [Clients -> SUBSET Symbols]
      /\ \A d \in Clients \ {c} : subscriptions'[d] = subscriptions[d]
  BY <1>1, <1>2 DEF SessionTypeOK
<1>5. SessionTypeOK'
  BY <1>1, <1>2, <1>3, <1>4, OwnTypes
<1>6. TaskSound(c)'
  BY <1>1, <1>2, <1>3 DEF TaskSound, Registered
<1> QED
  BY <1>1, <1>3, <1>4, <1>5, <1>6, OwnTask

LEMMA SubscribeStep ==
  ASSUME SessionInv, NEW c \in Clients, NEW symbols \in SymbolSets, Subscribe(c, symbols)
  PROVE  SessionInv' /\ FeedStep
<1> DEFINE at == IF symbols = {} THEN "reading" ELSE "registering"
<1>1. /\ task[c].at = "reading" /\ subscriptions' = [subscriptions EXCEPT ![c] = @ \cup symbols]
      /\ Goto(c, at, symbols, symbols)
      /\ UNCHANGED <<gone, connections, writers, subscribers, feed>>
  BY DEF Subscribe, At
<1>2. SessionTypeOK /\ TaskSound(c) /\ symbols \in SUBSET Symbols
  BY SessionsAssumption DEF SessionInv
<1>3. /\ task' \in Tasks
      /\ task'[c].at = at /\ task'[c].asked = symbols /\ task'[c].todo = symbols
      /\ \A d \in Clients \ {c} : task'[d] = task[d]
  <2>1. at \in TaskSteps /\ {} \in SUBSET Symbols
    BY StepNames
  <2> QED
    BY <1>1, <1>2, <2>1, TaskSet, SMTT(40)
<1>4. /\ connections' \subseteq Clients /\ subscriptions' \in [Clients -> SUBSET Symbols]
      /\ \A d \in Clients \ {c} : subscriptions'[d] = subscriptions[d]
      /\ subscriptions'[c] = subscriptions[c] \cup symbols
  BY <1>1, <1>2 DEF SessionTypeOK
<1>5. SessionTypeOK'
  BY <1>1, <1>2, <1>3, <1>4, OwnTypes
<1>6. TaskSound(c)'
  BY <1>1, <1>2, <1>3, <1>4 DEF TaskSound, Registered
<1> QED
  BY <1>1, <1>3, <1>4, <1>5, <1>6, OwnTask

LEMMA UnsubscribeStep ==
  ASSUME SessionInv, NEW c \in Clients, NEW symbols \in SymbolSets, Unsubscribe(c, symbols)
  PROVE  SessionInv' /\ FeedStep
<1>1. /\ task[c].at = "reading" /\ Goto(c, "withdrawing", symbols, symbols)
      /\ UNCHANGED <<gone, connections, subscriptions, writers, subscribers, feed>>
  BY DEF Unsubscribe, At, maps
<1>2. SessionTypeOK /\ TaskSound(c) /\ symbols \in SUBSET Symbols
  BY SessionsAssumption DEF SessionInv
<1>3. /\ task' \in Tasks
      /\ task'[c].at = "withdrawing" /\ task'[c].asked = symbols /\ task'[c].todo = symbols
      /\ \A d \in Clients \ {c} : task'[d] = task[d]
  <2>1. "withdrawing" \in TaskSteps /\ {} \in SUBSET Symbols
    BY StepNames
  <2> QED
    BY <1>1, <1>2, <2>1, TaskSet
<1>4. /\ connections' \subseteq Clients /\ subscriptions' \in [Clients -> SUBSET Symbols]
      /\ \A d \in Clients \ {c} : subscriptions'[d] = subscriptions[d]
  BY <1>1, <1>2 DEF SessionTypeOK
<1>5. SessionTypeOK'
  BY <1>1, <1>2, <1>3, <1>4, OwnTypes
<1>6. TaskSound(c)'
  BY <1>1, <1>2, <1>3 DEF TaskSound, Registered
<1> QED
  BY <1>1, <1>3, <1>4, <1>5, <1>6, OwnTask

LEMMA WithdrawnStep ==
  ASSUME SessionInv, NEW c \in Clients, Withdrawn(c)
  PROVE  SessionInv' /\ FeedStep
<1>1. /\ task[c].at = "withdrawing" /\ task[c].todo = {} /\ Goto(c, "reading", {}, {})
      /\ subscriptions' = [subscriptions EXCEPT ![c] = @ \ task[c].asked]
      /\ UNCHANGED <<gone, connections, writers, subscribers, feed>>
  BY DEF Withdrawn, At
<1>2. SessionTypeOK /\ TaskSound(c)
  BY DEF SessionInv
<1>3. /\ task' \in Tasks
      /\ task'[c].at = "reading" /\ task'[c].asked = {} /\ task'[c].todo = {}
      /\ \A d \in Clients \ {c} : task'[d] = task[d]
  <2>1. "reading" \in TaskSteps /\ {} \in SUBSET Symbols
    BY StepNames
  <2> QED
    BY <1>1, <1>2, <2>1, TaskSet
<1>4. /\ connections' \subseteq Clients /\ subscriptions' \in [Clients -> SUBSET Symbols]
      /\ \A d \in Clients \ {c} : subscriptions'[d] = subscriptions[d]
      /\ subscriptions'[c] = subscriptions[c] \ task[c].asked
  BY <1>1, <1>2 DEF SessionTypeOK
<1>5. SessionTypeOK'
  BY <1>1, <1>2, <1>3, <1>4, OwnTypes
<1>6. TaskSound(c)'
  BY <1>1, <1>2, <1>3, <1>4 DEF TaskSound, Registered
<1> QED
  BY <1>1, <1>3, <1>4, <1>5, <1>6, OwnTask

LEMMA FailStep ==
  ASSUME SessionInv, NEW c \in Clients, Fail(c)
  PROVE  SessionInv' /\ FeedStep
<1>1. /\ task[c].at = "reading" /\ Goto(c, "failed", {}, {})
      /\ UNCHANGED <<gone, connections, subscriptions, writers, subscribers, feed>>
  BY DEF Fail, At, maps
<1>2. SessionTypeOK /\ TaskSound(c)
  BY DEF SessionInv
<1>3. /\ task' \in Tasks
      /\ task'[c].at = "failed" /\ task'[c].asked = {} /\ task'[c].todo = {}
      /\ \A d \in Clients \ {c} : task'[d] = task[d]
  <2>1. "failed" \in TaskSteps /\ {} \in SUBSET Symbols
    BY StepNames
  <2> QED
    BY <1>1, <1>2, <2>1, TaskSet
<1>4. /\ connections' \subseteq Clients /\ subscriptions' \in [Clients -> SUBSET Symbols]
      /\ \A d \in Clients \ {c} : subscriptions'[d] = subscriptions[d]
  BY <1>1, <1>2 DEF SessionTypeOK
<1>5. SessionTypeOK'
  BY <1>1, <1>2, <1>3, <1>4, OwnTypes
<1>6. TaskSound(c)'
  BY <1>1, <1>2, <1>3 DEF TaskSound, Registered
<1> QED
  BY <1>1, <1>3, <1>4, <1>5, <1>6, OwnTask

LEMMA DropStep ==
  ASSUME SessionInv, NEW c \in Clients, Drop(c)
  PROVE  SessionInv' /\ FeedStep
<1>1. /\ c \in gone /\ connections' = connections \ {c} /\ Goto(c, "dropped", {}, {})
      /\ UNCHANGED <<gone, subscriptions, writers, subscribers, feed>>
  BY DEF Drop
<1>2. SessionTypeOK /\ TaskSound(c)
  BY DEF SessionInv
<1>3. /\ task' \in Tasks
      /\ task'[c].at = "dropped" /\ task'[c].asked = {} /\ task'[c].todo = {}
      /\ \A d \in Clients \ {c} : task'[d] = task[d]
  <2>1. "dropped" \in TaskSteps /\ {} \in SUBSET Symbols
    BY StepNames
  <2> QED
    BY <1>1, <1>2, <2>1, TaskSet
<1>4. /\ connections' \subseteq Clients /\ subscriptions' \in [Clients -> SUBSET Symbols]
      /\ \A d \in Clients \ {c} : subscriptions'[d] = subscriptions[d]
  BY <1>1, <1>2 DEF SessionTypeOK
<1>5. SessionTypeOK'
  BY <1>1, <1>2, <1>3, <1>4, OwnTypes
<1>6. TaskSound(c)'
  BY <1>1, <1>2, <1>3 DEF TaskSound, Registered
<1> QED
  BY <1>1, <1>3, <1>4, <1>5, <1>6, OwnTask

\* Nobody is registered before the writer is there.
LEMMA StoreWriterStep ==
  ASSUME SessionInv, NEW c \in Clients, StoreWriter(c)
  PROVE  SessionInv' /\ FeedStep
<1>1. /\ task[c].at = "accepted" /\ writers' = writers \cup {c}
      /\ Goto(c, "reading", {}, {})
      /\ UNCHANGED <<gone, connections, subscriptions, subscribers, topic, left, published, known>>
  BY DEF StoreWriter, At, feed
<1>2. SessionTypeOK /\ TaskSound(c)
  BY DEF SessionInv
<1>3. /\ task' \in Tasks
      /\ task'[c].at = "reading" /\ task'[c].asked = {} /\ task'[c].todo = {}
      /\ \A d \in Clients \ {c} : task'[d] = task[d]
  <2>1. "reading" \in TaskSteps /\ {} \in SUBSET Symbols
    BY StepNames
  <2> QED
    BY <1>1, <1>2, <2>1, TaskSet
<1>4. SessionTypeOK'
  BY <1>1, <1>2, <1>3 DEF SessionTypeOK, Tasks, TaskSteps
<1>5. TaskSound(c)'
  BY <1>1, <1>2, <1>3 DEF TaskSound, Registered
<1>6. ASSUME NEW d \in Clients \ {c} PROVE TaskSound(d)'
  BY <1>1, <1>3, TaskKept DEF SessionInv, Registered
<1>7. DeliverySound'
  BY <1>1 DEF SessionInv, DeliverySound, Due, Caught, Registered
<1>8. UNCHANGED Listening
  <2>1. \A s \in Symbols : c \notin ToSet(subscribers[s])
    BY <1>1, <1>2 DEF TaskSound, Registered
  <2>2. \A s \in Symbols : \A d : d \in ToSet(subscribers[s]) /\ Reaches(d)
                                   <=> d \in ToSet(subscribers[s]) /\ Reaches(d)'
    BY <1>1, <2>1 DEF Reaches
  <2> QED
    BY <1>1, <2>2 DEF Listening
<1>9. FeedStep
  BY <1>1, <1>8 DEF FeedStep, Abstract!vars
<1> QED
  BY <1>4, <1>5, <1>6, <1>7, <1>9, InvNext

\* Whoever loses his writer was gone already.
LEMMA DropWriterStep ==
  ASSUME SessionInv, NEW c \in Clients, DropWriter(c)
  PROVE  SessionInv' /\ FeedStep
<1>1. /\ task[c].at = "dropped" /\ writers' = writers \ {c}
      /\ Goto(c, "ended", {}, {})
      /\ UNCHANGED <<gone, connections, subscriptions, subscribers, topic, left, published, known>>
  BY DEF DropWriter, At, feed
<1>2. SessionTypeOK /\ TaskSound(c) /\ c \in gone
  BY <1>1 DEF SessionInv, TaskSound
<1>3. /\ task' \in Tasks
      /\ task'[c].at = "ended" /\ task'[c].asked = {} /\ task'[c].todo = {}
      /\ \A d \in Clients \ {c} : task'[d] = task[d]
  <2>1. "ended" \in TaskSteps /\ {} \in SUBSET Symbols
    BY StepNames
  <2> QED
    BY <1>1, <1>2, <2>1, TaskSet
<1>4. SessionTypeOK'
  BY <1>1, <1>2, <1>3 DEF SessionTypeOK, Tasks, TaskSteps
<1>5. TaskSound(c)'
  BY <1>1, <1>2, <1>3 DEF TaskSound, Registered
<1>6. ASSUME NEW d \in Clients \ {c} PROVE TaskSound(d)'
  BY <1>1, <1>3, TaskKept DEF SessionInv, Registered
<1>7. DeliverySound'
  BY <1>1, <1>2 DEF SessionInv, DeliverySound, Due, Caught, Registered
<1>8. UNCHANGED Listening
  <2>1. \A d : Reaches(d)' <=> Reaches(d)
    BY <1>1, <1>2 DEF Reaches
  <2> QED
    BY <1>1, <2>1 DEF Listening
<1>9. FeedStep
  BY <1>1, <1>8 DEF FeedStep, Abstract!vars
<1> QED
  BY <1>4, <1>5, <1>6, <1>7, <1>9, InvNext

\* Fewer listen than before, and only one has left.
LEMMA LeaveStep ==
  ASSUME NEW c \in Clients, UNCHANGED <<published, known>>, Listening' \in [Symbols -> SUBSET Clients],
         \A s \in Symbols : Listening'[s] = Listening[s] \/ Listening'[s] = Listening[s] \ {c}
  PROVE  FeedStep
BY DEF FeedStep, Abstract!Next, Abstract!Leave

\* Listeners are clients, before a step and after it.
LEMMA ListeningTyped ==
  ASSUME SessionTypeOK
  PROVE  Listening \in [Symbols -> SUBSET Clients]
<1>1. \A s \in Symbols : ToSet(subscribers[s]) \subseteq Clients
  BY ListMembers DEF SessionTypeOK
<1> QED
  BY <1>1 DEF Listening

LEMMA ListeningTypedNext ==
  ASSUME SessionTypeOK'
  PROVE  Listening' \in [Symbols -> SUBSET Clients]
<1>1. \A s \in Symbols : ToSet(subscribers'[s]) \subseteq Clients
  BY ListMembers DEF SessionTypeOK
<1> QED
  BY <1>1 DEF Listening

\* Whoever hangs up stops listening to all symbols at once.
LEMMA HangUpStep ==
  ASSUME SessionInv, NEW c \in Clients, HangUp(c)
  PROVE  SessionInv' /\ FeedStep
<1>1. /\ gone' = gone \cup {c}
      /\ UNCHANGED <<task, connections, subscriptions, writers, subscribers, topic, left,
                     published, known>>
  BY DEF HangUp, maps, feed
<1>2. SessionTypeOK'
  BY <1>1 DEF SessionInv, SessionTypeOK
<1>3. ASSUME NEW d \in Clients PROVE TaskSound(d)'
  BY <1>1, TaskKept DEF SessionInv, Registered
<1>4. DeliverySound'
  BY <1>1 DEF SessionInv, DeliverySound, Due, Caught, Registered
<1>5. \A s \in Symbols : Listening'[s] = Listening[s] \ {c}
  BY <1>1 DEF Listening, Reaches
<1> QED
  BY <1>1, <1>2, <1>3, <1>4, <1>5, InvNext, ListeningTypedNext, LeaveStep

\* One symbol given up.
LEMMA WithdrawStep ==
  ASSUME SessionInv, NEW c \in Clients, NEW s \in Symbols, Withdraw(c, s)
  PROVE  SessionInv' /\ FeedStep
<1>1. /\ task[c].at = "withdrawing" /\ s \in task[c].todo
      /\ subscribers' = [subscribers EXCEPT ![s] = TakenOut(c, @)]
      /\ Goto(c, "withdrawing", task[c].asked, task[c].todo \ {s})
      /\ UNCHANGED <<gone, connections, subscriptions, writers, topic, left, published, known>>
  BY DEF Withdraw, At, feed
<1>2. SessionTypeOK /\ TaskSound(c)
  BY DEF SessionInv
<1>3. /\ task' \in Tasks
      /\ task'[c].at = "withdrawing" /\ task'[c].asked = task[c].asked
      /\ task'[c].todo = task[c].todo \ {s}
      /\ \A d \in Clients \ {c} : task'[d] = task[d]
  <2>1. "withdrawing" \in TaskSteps /\ task[c].asked \in SUBSET Symbols
        /\ task[c].todo \ {s} \in SUBSET Symbols
    BY <1>2, StepNames DEF SessionTypeOK
  <2>2. PICK asked \in SUBSET Symbols, todo \in SUBSET Symbols :
          asked = task[c].asked /\ todo = task[c].todo \ {s}
    BY <2>1
  <2>3. Goto(c, "withdrawing", asked, todo)
    BY <1>1, <2>2
  <2>4. /\ task' \in Tasks
        /\ task'[c].at = "withdrawing" /\ task'[c].asked = asked /\ task'[c].todo = todo
        /\ \A d \in Clients \ {c} : task'[d] = task[d]
    BY <1>2, <2>1, <2>3, TaskSet
  <2> QED
    BY <2>2, <2>4
<1>4. /\ subscribers' \in [Symbols -> Seq(Clients)]
      /\ ToSet(subscribers'[s]) = ToSet(subscribers[s]) \ {c}
      /\ \A r \in Symbols \ {s} : subscribers'[r] = subscribers[r]
  <2>1. subscribers \in [Symbols -> Seq(Clients)]
    BY <1>2 DEF SessionTypeOK
  <2>2. TakenOut(c, subscribers[s]) \in Seq(Clients)
        /\ ToSet(TakenOut(c, subscribers[s])) = ToSet(subscribers[s]) \ {c}
    BY <2>1, TakenOutSet
  <2> QED
    BY <1>1, <2>1, <2>2
<1>5. \A d \in Clients, r \in Symbols : Registered(d, r)' <=> Registered(d, r) /\ ~(d = c /\ r = s)
  BY <1>4 DEF Registered
<1>6. SessionTypeOK'
  BY <1>1, <1>2, <1>3, <1>4 DEF SessionTypeOK, Tasks, TaskSteps
<1>7. TaskSound(c)'
  BY <1>1, <1>2, <1>3, <1>5 DEF TaskSound
<1>8. ASSUME NEW d \in Clients \ {c} PROVE TaskSound(d)'
  BY <1>1, <1>3, <1>5, TaskKept DEF SessionInv
<1>9. DeliverySound'
  <2>1. \A d \in Clients, r \in Symbols : Due(d, r)' => Due(d, r)
    BY <1>1, <1>5 DEF Due
  <2>2. \A d \in Clients, r \in Symbols : Caught(d, r)' <=> Caught(d, r)
    BY <1>1 DEF Caught
  <2> QED
    BY <1>1, <2>1, <2>2 DEF SessionInv, DeliverySound
<1>10. \A r \in Symbols : Listening'[r] = Listening[r] \/ Listening'[r] = Listening[r] \ {c}
  BY <1>1, <1>4 DEF Listening, Reaches
<1> QED
  BY <1>1, <1>6, <1>7, <1>8, <1>9, <1>10, InvNext, ListeningTypedNext, LeaveStep

\* One symbol registered: the client joins, unless he is gone or listens already.
LEMMA RegisterStep ==
  ASSUME SessionInv, NEW c \in Clients, NEW s \in Symbols, Register(c, s)
  PROVE  SessionInv' /\ FeedStep
<1> DEFINE at == IF task[c].todo = {s} THEN "reading" ELSE "registering"
           fresh == c \notin gone /\ ~Registered(c, s)
<1>1. /\ task[c].at = "registering" /\ s \in task[c].todo
      /\ subscribers' = [subscribers EXCEPT ![s] = Append(@, c)]
      /\ known' = [known EXCEPT ![c][s] = IF fresh THEN published[s] ELSE @]
      /\ Goto(c, at, task[c].asked, task[c].todo \ {s})
      /\ UNCHANGED <<gone, connections, subscriptions, writers, topic, left, published>>
  BY DEF Register, At, Registered
<1>2. SessionTypeOK /\ TaskSound(c)
  BY DEF SessionInv
<1>3. /\ task' \in Tasks
      /\ task'[c].at = at /\ task'[c].asked = task[c].asked
      /\ task'[c].todo = task[c].todo \ {s}
      /\ \A d \in Clients \ {c} : task'[d] = task[d]
  <2>1. at \in TaskSteps /\ task[c].asked \in SUBSET Symbols /\ task[c].todo \ {s} \in SUBSET Symbols
    BY <1>2, StepNames DEF SessionTypeOK
  <2>2. PICK asked \in SUBSET Symbols, todo \in SUBSET Symbols :
          asked = task[c].asked /\ todo = task[c].todo \ {s}
    BY <2>1
  <2>3. Goto(c, at, asked, todo)
    BY <1>1, <2>2
  <2> HIDE DEF at
  <2>4. /\ task' \in Tasks
        /\ task'[c].at = at /\ task'[c].asked = asked /\ task'[c].todo = todo
        /\ \A d \in Clients \ {c} : task'[d] = task[d]
    BY <1>2, <2>1, <2>3, TaskSet
  <2> QED
    BY <2>2, <2>4
<1>4. /\ subscribers' \in [Symbols -> Seq(Clients)]
      /\ ToSet(subscribers'[s]) = ToSet(subscribers[s]) \cup {c}
      /\ \A r \in Symbols \ {s} : subscribers'[r] = subscribers[r]
  <2>1. subscribers \in [Symbols -> Seq(Clients)]
    BY <1>2 DEF SessionTypeOK
  <2>2. Append(subscribers[s], c) \in Seq(Clients)
        /\ ToSet(Append(subscribers[s], c)) = ToSet(subscribers[s]) \cup {c}
    BY <2>1, ListMembers
  <2> QED
    BY <1>1, <2>1, <2>2
<1>5. \A d \in Clients, r \in Symbols : Registered(d, r)' <=> Registered(d, r) \/ (d = c /\ r = s)
  BY <1>4 DEF Registered
<1>6. /\ known' \in [Clients -> [Symbols -> Nat]]
      /\ fresh => known'[c][s] = published[s]
      /\ ~fresh => known' = known
      /\ \A d \in Clients, r \in Symbols : ~(d = c /\ r = s) => known'[d][r] = known[d][r]
  <2>1. known \in [Clients -> [Symbols -> Nat]] /\ published[s] \in Nat
    BY <1>2 DEF SessionTypeOK
  <2> HIDE DEF fresh
  <2> QED
    BY <1>1, <2>1
<1>7. SessionTypeOK'
  BY <1>1, <1>2, <1>3, <1>4, <1>6 DEF SessionTypeOK, Tasks, TaskSteps
<1>8. TaskSound(c)'
  <2>1. task[c].todo = {s} <=> task[c].todo \ {s} = {}
    BY <1>1
  <2> QED
    BY <1>1, <1>2, <1>3, <1>5, <2>1 DEF TaskSound
<1>9. ASSUME NEW d \in Clients \ {c} PROVE TaskSound(d)'
  BY <1>1, <1>3, <1>5, TaskKept DEF SessionInv
<1>10. DeliverySound'
  <2>1. c \in writers
    BY <1>1, <1>2 DEF TaskSound
  <2>2. ASSUME NEW d \in Clients, NEW r \in Symbols, d \notin gone', Due(d, r)'
        PROVE  d \in writers' /\ Caught(d, r)'
    <3>1. CASE d = c /\ r = s /\ fresh
      BY <1>1, <1>6, <2>1, <3>1 DEF Caught
    <3>2. CASE ~(d = c /\ r = s /\ fresh)
      <4>1. known'[d][r] = known[d][r]
        BY <1>6, <3>2
      <4>2. d \notin gone /\ Due(d, r)
        BY <1>1, <1>5, <2>2, <3>2 DEF Due
      <4> QED
        BY <1>1, <4>1, <4>2 DEF SessionInv, DeliverySound, Caught
    <3> QED
      BY <3>1, <3>2
  <2> QED
    BY <2>2 DEF DeliverySound
<1>11. FeedStep
  <2>1. Listening \in [Symbols -> SUBSET Clients] /\ Listening' \in [Symbols -> SUBSET Clients]
    BY <1>2, <1>7, ListeningTyped, ListeningTypedNext
  <2>2. \A r \in Symbols \ {s} : Listening'[r] = Listening[r]
    BY <1>1, <1>4 DEF Listening, Reaches
  <2>3. CASE fresh
    <3>1. c \in writers /\ c \notin gone /\ c \notin ToSet(subscribers[s])
      BY <1>1, <1>2, <2>3 DEF TaskSound, Registered
    <3>2. c \notin Listening[s] /\ Listening'[s] = Listening[s] \cup {c}
      BY <1>1, <1>4, <3>1 DEF Listening, Reaches
    <3>3. Listening' = [Listening EXCEPT ![s] = @ \cup {c}]
      BY <2>1, <2>2, <3>2
    <3>4. known' = [known EXCEPT ![c][s] = published[s]]
      BY <1>1, <2>3
    <3>5. Abstract!Join(c, s)
      BY <1>1, <3>2, <3>3, <3>4 DEF Abstract!Join
    <3> QED
      BY <3>5 DEF FeedStep, Abstract!Next
  <2>4. CASE ~fresh
    <3>1. Listening'[s] = Listening[s]
      BY <1>1, <1>4, <2>4 DEF Listening, Reaches, Registered
    <3>2. Listening' = Listening
      BY <2>1, <2>2, <3>1
    <3> QED
      BY <1>1, <1>6, <2>4, <3>2 DEF FeedStep, Abstract!vars
  <2> QED
    BY <2>3, <2>4
<1> QED
  BY <1>7, <1>8, <1>9, <1>10, <1>11, InvNext

\* A new item waits for the last one to have reached all.
LEMMA BroadcastStep ==
  ASSUME SessionInv, NEW s \in Symbols, Broadcast(s)
  PROVE  SessionInv' /\ FeedStep
<1>1. /\ left = <<>> /\ topic' = s /\ left' = subscribers[s]
      /\ published' = [published EXCEPT ![s] = @ + 1]
      /\ UNCHANGED <<task, gone, connections, subscriptions, writers, subscribers, known>>
  BY DEF Broadcast, maps
<1>2. SessionTypeOK
  BY DEF SessionInv
<1>3. /\ published[s] \in Nat /\ published'[s] = published[s] + 1
      /\ published' \in [Symbols -> Nat]
      /\ \A r \in Symbols \ {s} : published'[r] = published[r]
  BY <1>1, <1>2 DEF SessionTypeOK
<1>4. SessionTypeOK'
  BY <1>1, <1>2, <1>3 DEF SessionTypeOK
<1>5. ASSUME NEW d \in Clients PROVE TaskSound(d)'
  BY <1>1, TaskKept DEF SessionInv, Registered
<1>6. \A d \in Clients, r \in Symbols :
        d \notin gone /\ Registered(d, r) => d \in writers /\ known[d][r] = published[r]
  <2>1. ToSet(left) = {}
    BY <1>1, EmptyList
  <2> QED
    BY <2>1 DEF SessionInv, DeliverySound, Due, Caught
<1>7. DeliverySound'
  <2>1. ASSUME NEW d \in Clients, NEW r \in Symbols, d \notin gone', Due(d, r)'
        PROVE  d \in writers' /\ Caught(d, r)'
    <3>1. Registered(d, r) /\ d \notin gone
      BY <1>1, <2>1 DEF Due, Registered
    <3>2. CASE r = s
      BY <1>1, <1>3, <1>6, <3>1, <3>2 DEF Caught, Registered
    <3>3. CASE r # s
      BY <1>1, <1>3, <1>6, <3>1, <3>3 DEF Caught
    <3> QED
      BY <3>2, <3>3
  <2> QED
    BY <2>1 DEF DeliverySound
<1>8. FeedStep
  <2>1. Listening' = Listening
    BY <1>1 DEF Listening, Reaches
  <2>2. \A d \in Listening[s] : known[d][s] = published[s]
    <3>1. ToSet(subscribers[s]) \subseteq Clients
      BY <1>2, ListMembers DEF SessionTypeOK
    <3> QED
      BY <1>6, <3>1 DEF Listening, Reaches, Registered
  <2>3. \A d \in Listening[s] : ~Abstract!Behind(d, s)
    BY <1>3, <2>2 DEF Abstract!Behind
  <2>4. Abstract!Publish(s)
    BY <1>1, <2>1, <2>3 DEF Abstract!Publish
  <2> QED
    BY <2>4 DEF FeedStep, Abstract!Next
<1> QED
  BY <1>4, <1>5, <1>7, <1>8, InvNext

\* One client of the list gets the item, if it is still behind and can be reached.
LEMMA SendStep ==
  ASSUME SessionInv, Send
  PROVE  SessionInv' /\ FeedStep
<1>1. PICK c : c = Head(left)
  OBVIOUS
<1>2. /\ left # <<>> /\ left' = Tail(left)
      /\ known' = IF Reaches(c) THEN [known EXCEPT ![c][topic] = published[topic]] ELSE known
      /\ UNCHANGED <<task, gone, connections, subscriptions, writers, subscribers, topic, published>>
  BY <1>1 DEF Send, Got, maps
<1>3. SessionTypeOK
  BY DEF SessionInv
<1>4. /\ c \in Clients /\ left' \in Seq(Clients) /\ ToSet(left) = ToSet(left') \cup {c}
      /\ topic \in Symbols /\ published[topic] \in Nat /\ known \in [Clients -> [Symbols -> Nat]]
  <2>1. left \in Seq(Clients)
    BY <1>3 DEF SessionTypeOK
  <2>2. topic \in Symbols /\ published[topic] \in Nat /\ known \in [Clients -> [Symbols -> Nat]]
    BY <1>3 DEF SessionTypeOK
  <2> QED
    BY <1>1, <1>2, <2>1, <2>2, ListMembers
<1>5. /\ known' \in [Clients -> [Symbols -> Nat]]
      /\ Reaches(c) => known'[c][topic] = published[topic]
      /\ \A d \in Clients, r \in Symbols : ~(d = c /\ r = topic) => known'[d][r] = known[d][r]
      /\ ~Reaches(c) => known' = known
  <2>1. CASE Reaches(c)
    BY <1>2, <1>4, <2>1
  <2>2. CASE ~Reaches(c)
    BY <1>2, <1>4, <2>2
  <2> QED
    BY <2>1, <2>2
<1>6. SessionTypeOK'
  BY <1>2, <1>3, <1>4, <1>5 DEF SessionTypeOK
<1>7. ASSUME NEW d \in Clients PROVE TaskSound(d)'
  BY <1>2, TaskKept DEF SessionInv, Registered
<1>8. c \notin gone => c \in writers /\ Caught(c, topic)
  BY <1>4 DEF SessionInv, DeliverySound, Due
<1>9. DeliverySound'
  <2>1. ASSUME NEW d \in Clients, NEW r \in Symbols, d \notin gone', Due(d, r)'
        PROVE  d \in writers' /\ Caught(d, r)'
    <3>1. Due(d, r) /\ d \notin gone
      BY <1>2, <1>4, <2>1 DEF Due, Registered
    <3>2. d \in writers /\ Caught(d, r)
      BY <3>1 DEF SessionInv, DeliverySound
    <3>3. CASE d = c /\ r = topic
      <4>1. Reaches(c)
        BY <3>1, <3>2, <3>3 DEF Reaches
      <4> QED
        BY <1>2, <1>5, <3>2, <3>3, <4>1 DEF Caught
    <3>4. CASE ~(d = c /\ r = topic)
      <4>1. known'[d][r] = known[d][r]
        BY <1>5, <3>4
      <4>2. r = topic /\ d \in ToSet(left) => d \in ToSet(left')
        BY <1>4, <3>4
      <4> QED
        BY <1>2, <3>2, <4>1, <4>2 DEF Caught
    <3> QED
      BY <3>3, <3>4
  <2> QED
    BY <2>1 DEF DeliverySound
<1>10. FeedStep
  <2>1. Listening' = Listening
    BY <1>2 DEF Listening, Reaches
  <2>2. CASE known' = known
    BY <1>2, <2>1, <2>2 DEF FeedStep, Abstract!vars
  <2>3. CASE known' # known
    <3>1. Reaches(c)
      BY <1>2, <2>3
    <3>2. known' = [known EXCEPT ![c][topic] = published[topic]]
      BY <1>2, <3>1
    <3>3. known[c][topic] # published[topic]
      BY <1>4, <2>3, <3>2
    <3>4. known[c][topic] + 1 = published[topic]
      BY <1>8, <3>1, <3>3 DEF Reaches, Caught
    <3>5. known[c][topic] \in Nat
      BY <1>4
    <3>6. known[c][topic] < published[topic]
      BY <1>4, <3>4, <3>5
    <3>7. known' = [known EXCEPT ![c][topic] = @ + 1]
      BY <1>4, <3>2, <3>4
    <3>8. Abstract!Get(c, topic)
      BY <1>2, <2>1, <3>6, <3>7 DEF Abstract!Get, Abstract!Behind
    <3> QED
      BY <1>4, <3>8 DEF FeedStep, Abstract!Next
  <2> QED
    BY <2>2, <2>3
<1> QED
  BY <1>6, <1>7, <1>9, <1>10, InvNext

\* Nobody is connected at first.
LEMMA SessionInitial ==
  SessionInit => SessionInv /\ Abstract!Init
<1> SUFFICES ASSUME SessionInit PROVE SessionInv /\ Abstract!Init
  OBVIOUS
<1>1. /\ task = [c \in Clients |-> [at |-> "new", asked |-> {}, todo |-> {}]]
      /\ gone = {} /\ connections = {} /\ writers = {}
      /\ subscriptions = [c \in Clients |-> {}]
      /\ subscribers = [s \in Symbols |-> <<>>]
      /\ topic \in Symbols /\ left = <<>>
      /\ published = [s \in Symbols |-> 0]
      /\ known = [c \in Clients |-> [s \in Symbols |-> 0]]
  BY DEF SessionInit
<1>2. /\ \A S : <<>> \in Seq(S)
      /\ ToSet(left) = {} /\ \A s \in Symbols : ToSet(subscribers[s]) = {}
  BY <1>1, EmptyList
<1>3. SessionTypeOK
  <2>1. task \in Tasks
    BY <1>1, StepNames DEF Tasks
  <2> QED
    BY <1>1, <1>2, <2>1 DEF SessionTypeOK, Tasks, TaskSteps
<1>4. \A c \in Clients : TaskSound(c)
  BY <1>1, <1>2 DEF TaskSound, Registered
<1>5. DeliverySound
  BY <1>2 DEF DeliverySound, Due, Registered
<1>6. Listening = [s \in Symbols |-> {}]
  BY <1>1, <1>2 DEF Listening
<1> QED
  BY <1>1, <1>3, <1>4, <1>5, <1>6 DEF SessionInv, Abstract!Init

LEMMA SessionStep ==
  ASSUME SessionInv, [SessionNext]_sessionVars
  PROVE  SessionInv' /\ FeedStep
<1>1. ASSUME NEW c \in Clients, Handle(c) PROVE SessionInv' /\ FeedStep
  BY <1>1, StoreWriterStep, WithdrawnStep, DropStep, DropWriterStep, RegisterStep, WithdrawStep
     DEF Handle
<1>2. ASSUME NEW c \in Clients, Accept(c) \/ Fail(c) \/ HangUp(c) PROVE SessionInv' /\ FeedStep
  BY <1>2, AcceptStep, FailStep, HangUpStep
<1>3. ASSUME NEW c \in Clients, NEW asked \in SymbolSets, Subscribe(c, asked) \/ Unsubscribe(c, asked)
      PROVE  SessionInv' /\ FeedStep
  BY <1>3, SubscribeStep, UnsubscribeStep
<1>4. ASSUME NEW s \in Symbols, Broadcast(s) PROVE SessionInv' /\ FeedStep
  BY <1>4, BroadcastStep
<1>5. CASE Send
  BY <1>5, SendStep
<1>6. CASE UNCHANGED sessionVars
  <2>1. UNCHANGED <<task, gone, connections, subscriptions, writers, subscribers, topic, left,
                    published, known>>
    BY <1>6 DEF sessionVars
  <2>2. SessionTypeOK'
    BY <2>1 DEF SessionInv, SessionTypeOK
  <2>3. ASSUME NEW d \in Clients PROVE TaskSound(d)'
    BY <2>1, TaskKept DEF SessionInv, Registered
  <2>4. DeliverySound' /\ FeedStep
    BY <2>1, Unseen DEF feed
  <2> QED
    BY <2>2, <2>3, <2>4, InvNext
<1> QED
  BY <1>1, <1>2, <1>3, <1>4, <1>5, <1>6 DEF SessionNext

\* For any clients and symbols, and whatever their tasks do between two steps of a
\* broadcast: between two messages of a connection its record and the broadcaster agree
\* (websocket.rs:173-219).
THEOREM RegistriesStayInStep == SessionSpec => [](SessionTypeOK /\ RegistriesAgree)
<1>1. SessionInit => SessionInv
  BY SessionInitial
<1>2. SessionInv /\ [SessionNext]_sessionVars => SessionInv'
  BY SessionStep
<1>3. SessionInv => SessionTypeOK /\ RegistriesAgree
  BY DEF SessionInv, TaskSound, RegistriesAgree, Registered
<1>4. SessionSpec => SessionInit /\ [][SessionNext]_sessionVars
  BY DEF SessionSpec
<1> QED
  BY <1>1, <1>2, <1>3, <1>4, PTL

\* Every step of the sessions and of the broadcast is one of the feed or leaves it as it
\* is: a listener never misses an item, gets none twice, and an item waits until the last
\* has reached all (websocket.rs:221-252).
THEOREM SessionsFollowFeed == SessionSpec => Abstract!Init /\ [][Abstract!Next]_Abstract!vars
<1>1. SessionInit => SessionInv /\ Abstract!Init
  BY SessionInitial
<1>2. SessionInv /\ [SessionNext]_sessionVars => SessionInv'
  BY SessionStep
<1>3. SessionInv /\ [SessionNext]_sessionVars => [Abstract!Next]_Abstract!vars
  BY SessionStep DEF FeedStep
<1>4. SessionSpec => SessionInit /\ [][SessionNext]_sessionVars
  BY DEF SessionSpec
<1> QED
  BY <1>1, <1>2, <1>3, <1>4, PTL
=============================================================================
