---------------------------- MODULE MarketProofs ----------------------------
(* What the runs check of the market, for all constants: the books, the LP  *)
(* tokens, the leaderboard, the cache and the limits.                       *)
EXTENDS MCMarket, Ledger

\* The provers that a leaf which names none is given, and for how long.
USE SMTT(30), ZenonT(30)

\* Nobody twice, sorted, and no profit below the real one.
Distinct(top) == \A i, j \in 1..Len(top) : i < j => top[i].user # top[j].user
Sorted(top) == \A i, j \in 1..Len(top) : i < j => top[i].pnl >= top[j].pnl
NotUnderstated(top, pnl) == \A i \in 1..Len(top) : top[i].pnl >= pnl[top[i].user]

-----------------------------------------------------------------------------
(* The leaderboard *)

\* The first n entries of one list are those of another, in some order.
Rearranges(sorted, entries, n) ==
  \E at \in [1..n -> 1..n] :
    \A r \in 1..n : sorted[r] = entries[at[r]] /\ \A s \in 1..n : r # s => at[r] # at[s]

\* The sort is a permutation, and descending.
LEMMA SortTopTradersSorts ==
  ASSUME NEW entries \in Seq(TopEntry)
  PROVE  LET sorted == SortTopTraders(entries) IN
         /\ sorted \in Seq(TopEntry) /\ Len(sorted) = Len(entries) /\ Sorted(sorted)
         /\ Rearranges(sorted, entries, Len(entries))
<1>1. PICK n \in Nat : n = Len(entries) /\ DOMAIN entries = 1..n
  OBVIOUS
<1>2. \A i \in 1..n : entries[i] \in TopEntry
  BY <1>1
<1>3. \A i \in 1..n : entries[i].pnl \in Int
  BY <1>2 DEF TopEntry
<1> DEFINE Before(i, j) == \/ entries[i].pnl > entries[j].pnl
                           \/ entries[i].pnl = entries[j].pnl /\ i < j
           Ahead(i) == { j \in 1..n : Before(j, i) }
           rank == [i \in 1..n |-> 1 + Cardinality(Ahead(i))]
           at == [r \in 1..n |-> CHOOSE i \in 1..n : 1 + Cardinality(Ahead(i)) = r]
           sorted == [r \in 1..n |-> entries[at[r]]]
<1>4. SortTopTraders(entries) = sorted
  BY <1>1 DEF SortTopTraders
<1>5. \A i, j \in 1..n : Before(i, j) => ~Before(j, i)
  BY <1>3
<1>6. \A i, j \in 1..n : i # j => Before(i, j) \/ Before(j, i)
  BY <1>3
<1>7. \A i, j, k \in 1..n : Before(i, j) /\ Before(j, k) => Before(i, k)
  BY <1>3
<1>8. \A i, j \in 1..n : Before(i, j) => entries[i].pnl >= entries[j].pnl
  BY <1>3
<1> HIDE DEF Before
<1>9. IsFiniteSet(1..n) /\ Cardinality(1..n) = n
  BY FS_Interval, n \in Int, 1 \in Int, IF 1 > n THEN 0 = n ELSE n - 1 + 1 = n
<1>10. \A i \in 1..n : IsFiniteSet(Ahead(i)) /\ Cardinality(Ahead(i)) \in Nat
  <2> TAKE i \in 1..n
  <2>1. Ahead(i) \in SUBSET (1..n)
    OBVIOUS
  <2> HIDE DEF Ahead
  <2> QED
    BY <1>9, <2>1, FS_Subset, FS_CardinalityType
<1>11. ASSUME NEW i \in 1..n, NEW j \in 1..n, Before(i, j)
      PROVE  Cardinality(Ahead(i)) < Cardinality(Ahead(j))
  <2>1. i \notin Ahead(i) /\ Ahead(i) \cup {i} \in SUBSET Ahead(j)
    BY <1>5, <1>7, <1>11
  <2> HIDE DEF Ahead
  <2>2. Cardinality(Ahead(i) \cup {i}) = Cardinality(Ahead(i)) + 1
    BY <1>10, <2>1, FS_AddElement
  <2>3. Cardinality(Ahead(i) \cup {i}) <= Cardinality(Ahead(j))
    BY <1>10, <2>1, FS_Subset
  <2> QED
    BY <1>10, <2>2, <2>3
<1>12. ASSUME NEW i \in 1..n PROVE rank[i] \in 1..n
  <2>1. Ahead(i) \cup {i} \in SUBSET (1..n) /\ i \notin Ahead(i)
    BY <1>5
  <2> HIDE DEF Ahead
  <2>2. Cardinality(Ahead(i) \cup {i}) = Cardinality(Ahead(i)) + 1
    BY <1>10, <2>1, FS_AddElement
  <2>3. Cardinality(Ahead(i) \cup {i}) <= n
    BY <1>9, <2>1, FS_Subset
  <2> QED
    BY <1>10, <2>2, <2>3
<1>13. rank \in Injection(1..n, 1..n)
  <2>1. \A i, j \in 1..n : rank[i] = rank[j] => i = j
    <3> SUFFICES ASSUME NEW i \in 1..n, NEW j \in 1..n, i # j PROVE rank[i] # rank[j]
      OBVIOUS
    <3> HIDE DEF Ahead
    <3> QED
      BY <1>6, <1>10, <1>11
  <2>2. rank \in [1..n -> 1..n]
    BY <1>12
  <2> HIDE DEF rank
  <2> QED
    BY <2>1, <2>2 DEF Injection, IsInjective
<1>14. \A r \in 1..n : \E i \in 1..n : 1 + Cardinality(Ahead(i)) = r
  <2>1. rank \in Surjection(1..n, 1..n)
    <3> HIDE DEF rank
    <3> QED
      BY <1>9, <1>13, FS_Injection
  <2> HIDE DEF Ahead
  <2> QED
    BY <2>1 DEF Surjection
<1>15. \A r \in 1..n : at[r] \in 1..n /\ 1 + Cardinality(Ahead(at[r])) = r
  <2> HIDE DEF Ahead
  <2> QED
    BY <1>14
<1> HIDE DEF at, Ahead
<1>16. \A r, s \in 1..n : r # s => at[r] # at[s]
  BY <1>15
<1>17. at \in [1..n -> 1..n]
  BY <1>15 DEF at
<1>18. \A r, s \in 1..n : r < s => entries[at[r]].pnl >= entries[at[s]].pnl
  <2> SUFFICES ASSUME NEW r \in 1..n, NEW s \in 1..n, r < s
               PROVE  entries[at[r]].pnl >= entries[at[s]].pnl
    OBVIOUS
  <2>1. ~Before(at[s], at[r])
    BY <1>10, <1>11, <1>15, SMTT(40)
  <2>2. Before(at[r], at[s])
    BY <1>6, <1>15, <1>16, <2>1
  <2> QED
    BY <1>8, <1>15, <2>2
<1>19. \A r \in 1..n : sorted[r] = entries[at[r]] /\ sorted[r] \in TopEntry
  BY <1>2, <1>15
<1>20. sorted \in Seq(TopEntry) /\ Len(sorted) = n
  BY <1>19
<1>21. \A r, s \in 1..n : r < s => sorted[r].pnl >= sorted[s].pnl
  BY <1>18, <1>19
<1> HIDE DEF sorted
<1>22. Sorted(sorted)
  BY <1>20, <1>21 DEF Sorted
<1>23. \A r \in 1..n : sorted[r] = entries[at[r]] /\ \A s \in 1..n : r # s => at[r] # at[s]
  BY <1>16, <1>19
<1>24. Rearranges(sorted, entries, n)
  <2>1. \E p \in [1..n -> 1..n] :
          \A r \in 1..n : sorted[r] = entries[p[r]] /\ \A s \in 1..n : r # s => p[r] # p[s]
    <3> WITNESS at \in [1..n -> 1..n]
    <3> QED
      BY <1>23
  <2> QED
    BY <2>1 DEF Rearranges
<1>25. sorted \in Seq(TopEntry) /\ Len(sorted) = Len(entries) /\ Sorted(sorted)
  BY <1>1, <1>20, <1>22
<1> QED
  BY <1>1, <1>4, <1>24, <1>25

\* A profit that changed is put on the board, which then is in order again, whatever
\* the order it was in.
LEMMA UpdateTopTradersSound ==
  ASSUME NEW p \in Portfolios, NEW u \in Users, Distinct(p.top),
         \A i \in 1..Len(p.top) : p.top[i].user # u => p.top[i].pnl >= p.pnl[p.top[i].user]
  PROVE  \E top \in Seq(TopEntry) :
           /\ UpdateTopTraders(p, u) = [p EXCEPT !.top = top]
           /\ Distinct(top) /\ Sorted(top) /\ NotUnderstated(top, p.pnl)
<1> DEFINE entry == [ user |-> u, pnl |-> p.pnl[u] ]
           found == { i \in 1..Len(p.top) : p.top[i].user = u }
           entries == IF found # {} THEN [p.top EXCEPT ![CHOOSE i \in found : TRUE] = entry]
                      ELSE IF Len(p.top) < TopLimit THEN Append(p.top, entry)
                      ELSE IF p.pnl[u] > p.top[TopLimit].pnl
                           THEN [p.top EXCEPT ![TopLimit] = entry]
                      ELSE p.top
<1>1. p.top \in Seq(TopEntry) /\ p.pnl \in [Users -> Int]
  BY DEF Portfolios
<1>2. PICK n \in Nat : n = Len(p.top) /\ DOMAIN p.top = 1..n
  BY <1>1
<1>2a. \A i, j \in 1..n : i < j => p.top[i].user # p.top[j].user
  BY <1>2 DEF Distinct
<1>2b. \A i \in 1..n : p.top[i].user # u => p.top[i].pnl >= p.pnl[p.top[i].user]
  BY <1>2
<1>3. \A i \in 1..n : p.top[i] \in TopEntry
  BY <1>1, <1>2
<1>4. \A i \in 1..n : p.top[i].user \in Users /\ p.top[i].pnl \in Int
  BY <1>3 DEF TopEntry
<1>5. entry \in TopEntry /\ entry.user = u /\ entry.pnl = p.pnl[u]
  BY <1>1 DEF TopEntry
<1>5a. entry.pnl >= p.pnl[entry.user]
  BY <1>1, <1>5
<1> DEFINE Fine(e) == /\ e \in Seq(TopEntry) /\ Distinct(e) /\ NotUnderstated(e, p.pnl)
<1>6. Fine(entries)
  <2>1. CASE found # {}
    <3>1. PICK k : k = CHOOSE i \in found : TRUE
      OBVIOUS
    <3>2. k \in 1..n /\ p.top[k].user = u
      BY <1>2, <2>1, <3>1
    <3>3. entries = [p.top EXCEPT ![k] = entry]
      BY <2>1, <3>1
    <3> HIDE DEF entry, entries, found
    <3>4. entries \in Seq(TopEntry) /\ Len(entries) = n
          /\ \A i \in 1..n : entries[i] = IF i = k THEN entry ELSE p.top[i]
      BY <1>1, <1>2, <1>5, <3>2, <3>3
    <3>5. \A i \in 1..n : entries[i].user = p.top[i].user
      BY <1>5, <3>2, <3>4
    <3>6. Distinct(entries)
      <4> SUFFICES ASSUME NEW i \in 1..n, NEW j \in 1..n, i < j
                   PROVE  entries[i].user # entries[j].user
        BY <3>4 DEF Distinct
      <4>1. entries[i].user = p.top[i].user /\ entries[j].user = p.top[j].user
        BY <3>5
      <4> QED
        BY <1>2a, <4>1
    <3>7. \A i \in 1..n : i # k => p.top[i].user # u
      <4> SUFFICES ASSUME NEW i \in 1..n, i # k PROVE p.top[i].user # u
        OBVIOUS
      <4>1. i < k \/ k < i
        BY <3>2
      <4> QED
        BY <1>2a, <3>2, <4>1
    <3>8. NotUnderstated(entries, p.pnl)
      <4> SUFFICES ASSUME NEW i \in 1..n PROVE entries[i].pnl >= p.pnl[entries[i].user]
        BY <3>4 DEF NotUnderstated
      <4>1. CASE i = k
        <5>1. entries[i] = entry
          BY <3>4, <4>1
        <5> QED
          BY <1>5a, <5>1
      <4>2. CASE i # k
        <5>1. entries[i] = p.top[i]
          BY <3>4, <4>2
        <5>2. p.top[i].user # u
          BY <3>7, <4>2
        <5> QED
          BY <1>2b, <5>1, <5>2
      <4> QED
        BY <4>1, <4>2
    <3> QED
      BY <3>4, <3>6, <3>8
  <2>2. CASE found = {} /\ Len(p.top) < TopLimit
    <3>1. entries = Append(p.top, entry)
      BY <2>2
    <3>2. \A i \in 1..n : p.top[i].user # u
      BY <1>2, <2>2
    <3> HIDE DEF entry, entries, found
    <3>3. entries \in Seq(TopEntry) /\ Len(entries) = n + 1 /\ entries[n + 1] = entry
          /\ \A i \in 1..n : entries[i] = p.top[i]
      BY <1>1, <1>2, <1>5, <3>1
    <3>4. \A i \in 1..(n + 1) : i \in 1..n \/ i = n + 1
      OBVIOUS
    <3>5. Distinct(entries)
      <4> SUFFICES ASSUME NEW i \in 1..(n + 1), NEW j \in 1..(n + 1), i < j
                   PROVE  entries[i].user # entries[j].user
        BY <3>3 DEF Distinct
      <4>1. i \in 1..n
        OBVIOUS
      <4>2. entries[i] = p.top[i]
        BY <3>3, <4>1
      <4>3. CASE j = n + 1
        <5>1. entries[j].user = u
          BY <1>5, <3>3, <4>3
        <5>2. p.top[i].user # u
          BY <3>2, <4>1
        <5> QED
          BY <4>2, <5>1, <5>2
      <4>4. CASE j \in 1..n
        <5>1. entries[j] = p.top[j]
          BY <3>3, <4>4
        <5>2. p.top[i].user # p.top[j].user
          BY <1>2a, <4>1, <4>4
        <5> QED
          BY <4>2, <5>1, <5>2
      <4> QED
        BY <3>4, <4>3, <4>4
    <3>6. NotUnderstated(entries, p.pnl)
      <4> SUFFICES ASSUME NEW i \in 1..(n + 1) PROVE entries[i].pnl >= p.pnl[entries[i].user]
        BY <3>3 DEF NotUnderstated
      <4>1. CASE i = n + 1
        <5>1. entries[i] = entry
          BY <3>3, <4>1
        <5> QED
          BY <1>5a, <5>1
      <4>2. CASE i \in 1..n
        <5>1. entries[i] = p.top[i]
          BY <3>3, <4>2
        <5>2. p.top[i].user # u
          BY <3>2, <4>2
        <5> QED
          BY <1>2b, <4>2, <5>1, <5>2
      <4> QED
        BY <3>4, <4>1, <4>2
    <3> QED
      BY <3>3, <3>5, <3>6
  <2>3. CASE found = {} /\ ~(Len(p.top) < TopLimit)
    <3>1. \A i \in 1..n : p.top[i].user # u
      BY <1>2, <2>3
    <3>2. TopLimit \in 1..n
      BY <1>2, <2>3, PortfolioAssumption
    <3>3. entries = [p.top EXCEPT ![TopLimit] = entry] \/ entries = p.top
      BY <2>3
    <3> HIDE DEF entry, entries, found
    <3>4. PICK k \in 0..n : entries \in Seq(TopEntry) /\ Len(entries) = n
            /\ \A i \in 1..n : entries[i] = IF i = k THEN entry ELSE p.top[i]
      <4>1. CASE entries = [p.top EXCEPT ![TopLimit] = entry]
        BY <1>1, <1>2, <1>5, <3>2, <4>1, SMTT(40)
      <4>2. CASE entries = p.top
        <5>1. 0 \in 0..n /\ 0 \notin 1..n
          OBVIOUS
        <5> QED
          BY <1>1, <1>2, <4>2, <5>1
      <4> QED
        BY <3>3, <4>1, <4>2
    <3>5. Distinct(entries)
      <4> SUFFICES ASSUME NEW i \in 1..n, NEW j \in 1..n, i < j
                   PROVE  entries[i].user # entries[j].user
        BY <3>4 DEF Distinct
      <4>1. p.top[i].user # u /\ p.top[j].user # u /\ p.top[i].user # p.top[j].user
        BY <1>2a, <3>1
      <4>2. \A l \in {i, j} : entries[l].user = IF l = k THEN u ELSE p.top[l].user
        BY <1>5, <3>4
      <4>3. ~(i = k /\ j = k)
        OBVIOUS
      <4> QED
        BY <4>1, <4>2, <4>3
    <3>6. NotUnderstated(entries, p.pnl)
      <4> SUFFICES ASSUME NEW i \in 1..n PROVE entries[i].pnl >= p.pnl[entries[i].user]
        BY <3>4 DEF NotUnderstated
      <4>1. CASE i = k
        <5>1. entries[i] = entry
          BY <3>4, <4>1
        <5> QED
          BY <1>5a, <5>1
      <4>2. CASE i # k
        <5>1. entries[i] = p.top[i]
          BY <3>4, <4>2
        <5>2. p.top[i].user # u
          BY <3>1
        <5> QED
          BY <1>2b, <5>1, <5>2
      <4> QED
        BY <4>1, <4>2
    <3> QED
      BY <3>4, <3>5, <3>6
  <2> QED
    BY <2>1, <2>2, <2>3
<1>7. UpdateTopTraders(p, u) = [p EXCEPT !.top = SortTopTraders(entries)]
  BY DEF UpdateTopTraders
<1> HIDE DEF entries
<1>8. PICK sorted : sorted = SortTopTraders(entries)
  OBVIOUS
<1>9. PICK m \in Nat : m = Len(entries)
  BY <1>6
<1>10. /\ sorted \in Seq(TopEntry) /\ Len(sorted) = m /\ Sorted(sorted)
      /\ Rearranges(sorted, entries, m)
  BY <1>6, <1>8, <1>9, SortTopTradersSorts
<1>11. PICK at \in [1..m -> 1..m] :
         \A r \in 1..m : sorted[r] = entries[at[r]] /\ \A s \in 1..m : r # s => at[r] # at[s]
  BY <1>10 DEF Rearranges
<1>12. \A i, j \in 1..m : i # j => entries[i].user # entries[j].user
  BY <1>6, <1>9 DEF Distinct
<1>13. Distinct(sorted)
  <2> SUFFICES ASSUME NEW i \in 1..m, NEW j \in 1..m, i < j PROVE sorted[i].user # sorted[j].user
    BY <1>10 DEF Distinct
  <2>1. at[i] \in 1..m /\ at[j] \in 1..m /\ at[i] # at[j]
    BY <1>11
  <2> QED
    BY <1>11, <1>12, <2>1
<1>14. NotUnderstated(sorted, p.pnl)
  BY <1>6, <1>9, <1>10, <1>11 DEF NotUnderstated
<1> QED
  BY <1>7, <1>8, <1>10, <1>13, <1>14
-----------------------------------------------------------------------------
(* Sums *)

\* The sum of a function is its supply, in whatever order it is added up.
LEMMA SumIsSupply ==
  ASSUME NEW S, IsFiniteSet(S), NEW f \in [S -> Nat]
  PROVE  SumFunction(f) = Supply(f)
<1> DEFINE first(s) == CHOOSE x \in s : TRUE
           part(s) == [h \in s |-> f[h]]
           Adds(g) == g = [s \in SUBSET S |-> IF s = {} THEN 0 ELSE f[first(s)] + g[s \ {first(s)}]]
           sums == [s \in SUBSET S |-> Supply(part(s))]
           iter == CHOOSE g : Adds(g)
<1>1. SumFunction(f) = iter[S]
  BY DEF SumFunction, SumFunctionOnSet, FoldFunctionOnSet, MapThenFoldSet
<1>2. \A s \in SUBSET S : IsFiniteSet(s) /\ Cardinality(s) \in Nat /\ part(s) \in [s -> Nat]
  BY FS_Subset, FS_CardinalityType
<1>3. ASSUME NEW s \in SUBSET S, s # {}
      PROVE  /\ first(s) \in s /\ s \ {first(s)} \in SUBSET S
             /\ Supply(part(s)) = f[first(s)] + Supply(part(s \ {first(s)}))
             /\ Cardinality(s \ {first(s)}) = Cardinality(s) - 1
  <2>1. PICK x \in s : x = first(s)
    BY <1>3
  <2>2. PICK rest \in SUBSET S : rest = s \ {x}
    OBVIOUS
  <2>3. x \notin rest /\ rest \cup {x} = s /\ f[x] \in Nat
    BY <2>1, <2>2
  <2>4. Supply([k \in rest \cup {x} |-> IF k = x THEN f[x] ELSE part(rest)[k]])
          = Supply(part(rest)) + f[x]
    <3>1. PICK g : g = part(rest)
      OBVIOUS
    <3>2. IsFiniteSet(rest) /\ g \in [rest -> Nat]
      BY <1>2, <3>1
    <3> HIDE DEF part
    <3>3. Supply([k \in rest \cup {x} |-> IF k = x THEN f[x] ELSE g[k]]) = Supply(g) + f[x]
      BY <2>3, <3>2, SupplyExtend
    <3> QED
      BY <3>1, <3>3
  <2>5. [k \in rest \cup {x} |-> IF k = x THEN f[x] ELSE part(rest)[k]] = part(s)
    BY <2>3
  <2>6. Supply(part(rest)) \in Nat
    <3> HIDE DEF part
    <3> QED
      BY <1>2, SupplyType
  <2>7. Cardinality(s \ {x}) = Cardinality(s) - 1
    BY <1>2, <2>1, FS_RemoveElement
  <2> HIDE DEF part, first
  <2>8. Supply(part(s)) = Supply(part(rest)) + f[x]
    BY <2>4, <2>5
  <2>9. Supply(part(s)) = f[x] + Supply(part(rest))
    BY <2>3, <2>6, <2>8
  <2> QED
    BY <2>1, <2>2, <2>7, <2>9
<1>4. Supply(part({})) = 0
  <2>1. part({}) = [h \in {} |-> 0]
    OBVIOUS
  <2> QED
    BY <2>1, SupplyZero
<1> HIDE DEF first, part
<1>5. Adds(sums)
  <2>1. \A s \in SUBSET S :
          sums[s] = IF s = {} THEN 0 ELSE f[first(s)] + sums[s \ {first(s)}]
    BY <1>3, <1>4
  <2>2. sums = [s \in SUBSET S |-> sums[s]]
    OBVIOUS
  <2> HIDE DEF sums
  <2> QED
    BY <2>1, <2>2
<1>6. Adds(iter)
  <2> HIDE DEF sums, Adds
  <2> QED
    BY <1>5
<1> HIDE DEF iter
<1>7. \A s \in SUBSET S :
        iter[s] = IF s = {} THEN 0 ELSE f[first(s)] + iter[s \ {first(s)}]
  BY <1>6
<1> DEFINE Bad == { Cardinality(s) : s \in { t \in SUBSET S : iter[t] # Supply(part(t)) } }
<1>8. Bad = {}
  <2> SUFFICES ASSUME Bad # {} PROVE FALSE
    OBVIOUS
  <2>1. Bad \in SUBSET Nat
    BY <1>2
  <2>2. PICK m \in Bad : \A k \in Bad : m <= k
    <3> HIDE DEF Bad
    <3> QED
      BY <2>1, LeastMember
  <2>3. PICK s \in SUBSET S : m = Cardinality(s) /\ iter[s] # Supply(part(s))
    OBVIOUS
  <2>4. s # {}
    BY <1>4, <1>7, <2>3
  <2>5. iter[s \ {first(s)}] # Supply(part(s \ {first(s)}))
    BY <1>3, <1>7, <2>3, <2>4
  <2>6. Cardinality(s \ {first(s)}) \in Bad
    BY <1>3, <2>4, <2>5
  <2>7. m <= Cardinality(s) - 1
    <3> HIDE DEF Bad
    <3> QED
      BY <1>3, <2>2, <2>4, <2>6
  <2> QED
    BY <1>2, <2>3, <2>7
<1>9. iter[S] = Supply(part(S))
  BY <1>8
<1>10. part(S) = f
  BY DEF part
<1> QED
  BY <1>1, <1>9, <1>10

-----------------------------------------------------------------------------
(* Portfolios: what each operator does to the sums and to the leaderboard   *)

Held(p) == [u \in Users |-> p.balances[u]["XLM"] + p.balances[u]["USDCSIM"]]
Tokens(p) == [u \in Users |-> p.positions[u].tokens]

\* What every operator keeps.
Settled(p) ==
  /\ p \in Portfolios
  /\ p.lpTokens = Supply(Tokens(p))
  /\ Distinct(p.top) /\ Sorted(p.top) /\ NotUnderstated(p.top, p.pnl)

SameLp(p, q) == q.positions = p.positions /\ q.lpTokens = p.lpTokens

\* Both sums of a portfolio are supplies.
LEMMA PortfolioSums ==
  ASSUME NEW p \in Portfolios
  PROVE  /\ Held(p) \in [Users -> Nat] /\ Tokens(p) \in [Users -> Nat]
         /\ Supply(Held(p)) \in Nat /\ Supply(Tokens(p)) \in Nat
         /\ GrandTotal(p) = Supply(Held(p)) + p.pool["XLM"] + p.pool["USDCSIM"] + p.fees + p.lpFees
         /\ SumFunction(Tokens(p)) = Supply(Tokens(p))
         /\ GrandTotal(p) \in Nat
<1>1. IsFiniteSet(Users)
  BY PortfolioAssumption
<1>2. Held(p) \in [Users -> Nat]
  BY SMTT(40) DEF Portfolios, Held, Assets
<1>3. Tokens(p) \in [Users -> Nat]
  BY DEF Portfolios, Tokens, LPPosition
<1>4. Supply(Held(p)) \in Nat /\ Supply(Tokens(p)) \in Nat
  BY <1>1, <1>2, <1>3, SupplyType
<1>5. SumFunction(Held(p)) = Supply(Held(p)) /\ SumFunction(Tokens(p)) = Supply(Tokens(p))
  BY <1>1, <1>2, <1>3, SumIsSupply
<1>6. GrandTotal(p) = Supply(Held(p)) + p.pool["XLM"] + p.pool["USDCSIM"] + p.fees + p.lpFees
  BY <1>5 DEF GrandTotal, Held
<1>7. p.pool["XLM"] \in Nat /\ p.pool["USDCSIM"] \in Nat /\ p.fees \in Nat /\ p.lpFees \in Nat
  BY DEF Portfolios, Assets
<1>8. GrandTotal(p) \in Nat
  BY <1>4, <1>6, <1>7
<1> QED
  BY <1>2, <1>3, <1>4, <1>5, <1>6, <1>8

\* A balance that changes moves the total as much.
LEMMA BalanceChanged ==
  ASSUME NEW p \in Portfolios, NEW q \in Portfolios, NEW u \in Users, NEW a \in Assets, NEW x \in Nat,
         q.balances = [p.balances EXCEPT ![u][a] = x]
  PROVE  Supply(Held(q)) + p.balances[u][a] = Supply(Held(p)) + x
<1>1. IsFiniteSet(Users)
  BY PortfolioAssumption
<1>2. Held(p) \in [Users -> Nat] /\ Held(q) \in [Users -> Nat]
      /\ Supply(Held(p)) \in Nat /\ Supply(Held(q)) \in Nat
  BY PortfolioSums
<1>3. p.balances \in [Users -> [Assets -> Nat]] /\ q.balances \in [Users -> [Assets -> Nat]]
  BY DEF Portfolios
<1>4. /\ \A v \in Users : v # u => q.balances[v] = p.balances[v]
      /\ q.balances[u][a] = x /\ \A b \in Assets : b # a => q.balances[u][b] = p.balances[u][b]
  BY <1>3
<1>5. Held(q) = [Held(p) EXCEPT ![u] = Held(q)[u]]
  BY <1>4 DEF Held
<1>6. Supply(Held(q)) + Held(p)[u] = Supply(Held(p)) + Held(q)[u]
  BY <1>1, <1>2, <1>5, SupplyReplaced
<1>7. Held(q)[u] + p.balances[u][a] = Held(p)[u] + x
  BY <1>3, <1>4 DEF Held, Assets
<1>8. Held(p)[u] \in Nat /\ Held(q)[u] \in Nat /\ p.balances[u][a] \in Nat
  BY <1>2, <1>3
<1> QED
  BY <1>2, <1>6, <1>7, <1>8

\* Money in.
LEMMA CreditSound ==
  ASSUME NEW p, Settled(p), NEW u \in Users, NEW a \in Assets, NEW n \in Nat
  PROVE  LET q == Credit(p, a, u, n) IN
         /\ Settled(q) /\ GrandTotal(q) = GrandTotal(p) + n /\ SameLp(p, q)
         /\ q.pnl = p.pnl /\ q.trades = p.trades /\ q.volume = p.volume /\ q.pool = p.pool
<1> DEFINE q == Credit(p, a, u, n)
<1>1. p \in Portfolios
  BY DEF Settled
<1>2. q = [p EXCEPT !.balances = [p.balances EXCEPT ![u][a] = p.balances[u][a] + n]]
  BY <1>1 DEF Credit, Portfolios
<1>3. p.balances[u][a] \in Nat /\ p.balances[u][a] + n \in Nat
  BY <1>1, SMTT(40) DEF Portfolios
<1>4. /\ q.balances = [p.balances EXCEPT ![u][a] = p.balances[u][a] + n]
      /\ q.pnl = p.pnl /\ q.trades = p.trades /\ q.volume = p.volume /\ q.pool = p.pool
      /\ q.positions = p.positions /\ q.lpTokens = p.lpTokens /\ q.fees = p.fees
      /\ q.lpFees = p.lpFees /\ q.top = p.top
  BY <1>1, <1>2 DEF Portfolios
<1>5. q \in Portfolios
  <2>1. [p.balances EXCEPT ![u][a] = p.balances[u][a] + n] \in [Users -> [Assets -> Nat]]
    BY <1>1, <1>3 DEF Portfolios
  <2> QED
    BY <1>1, <1>2, <2>1, ZenonT(60) DEF Portfolios
<1> HIDE DEF q
<1>6. Settled(q)
  BY <1>4, <1>5 DEF Settled, Tokens
<1>7. Supply(Held(q)) + p.balances[u][a] = Supply(Held(p)) + (p.balances[u][a] + n)
  BY <1>1, <1>3, <1>4, <1>5, BalanceChanged
<1>8. p.pool["XLM"] \in Nat /\ p.pool["USDCSIM"] \in Nat /\ p.fees \in Nat /\ p.lpFees \in Nat
  BY <1>1 DEF Portfolios, Assets
<1>9. GrandTotal(q) = GrandTotal(p) + n
  BY <1>1, <1>3, <1>4, <1>5, <1>7, <1>8, PortfolioSums, SMTT(40)
<1> QED
  BY <1>4, <1>6, <1>9 DEF q, SameLp

\* Money out.
LEMMA DebitSound ==
  ASSUME NEW p, Settled(p), NEW u \in Users, NEW a \in Assets, NEW n \in Nat, p.balances[u][a] >= n
  PROVE  LET q == Debit(p, a, u, n) IN
         /\ Settled(q) /\ GrandTotal(q) = GrandTotal(p) - n /\ SameLp(p, q)
         /\ \A b \in Assets : b # a => q.balances[u][b] = p.balances[u][b]
         /\ q.trades = p.trades /\ q.volume = p.volume /\ q.pool = p.pool
<1> DEFINE q == Debit(p, a, u, n)
           x == p.balances[u][a] - n
<1>1. p \in Portfolios
  BY DEF Settled
<1>2. q = [p EXCEPT !.balances = [p.balances EXCEPT ![u][a] = x],
                    !.pnl = [p.pnl EXCEPT ![u] = p.pnl[u] - n]]
  BY <1>1 DEF Debit, Portfolios
<1>3. p.balances[u][a] \in Nat /\ x \in Nat /\ p.pnl \in [Users -> Int]
  BY <1>1, SMTT(40) DEF Portfolios
<1>4. /\ q.balances = [p.balances EXCEPT ![u][a] = x] /\ q.pnl = [p.pnl EXCEPT ![u] = p.pnl[u] - n]
      /\ q.trades = p.trades /\ q.volume = p.volume /\ q.pool = p.pool
      /\ q.positions = p.positions /\ q.lpTokens = p.lpTokens /\ q.fees = p.fees
      /\ q.lpFees = p.lpFees /\ q.top = p.top
  BY <1>1, <1>2 DEF Portfolios
<1>5. q \in Portfolios
  <2>1. [p.balances EXCEPT ![u][a] = x] \in [Users -> [Assets -> Nat]]
        /\ [p.pnl EXCEPT ![u] = p.pnl[u] - n] \in [Users -> Int]
    BY <1>1, <1>3, SMTT(40) DEF Portfolios
  <2> HIDE DEF x
  <2> QED
    BY <1>1, <1>2, <2>1, ZenonT(60) DEF Portfolios
<1>6. NotUnderstated(q.top, q.pnl)
  <2>1. \A v \in Users : q.pnl[v] <= p.pnl[v] /\ q.pnl[v] \in Int /\ p.pnl[v] \in Int
    BY <1>3, <1>4
  <2>2. \A i \in 1..Len(p.top) : p.top[i] \in TopEntry
    BY <1>1, SMTT(40) DEF Portfolios
  <2>3. \A i \in 1..Len(p.top) : p.top[i].user \in Users /\ p.top[i].pnl \in Int
    BY <2>2 DEF TopEntry
  <2> HIDE DEF q
  <2> QED
    BY <1>4, <2>1, <2>3, SMTT(40) DEF NotUnderstated, Settled
<1> HIDE DEF q
<1>7. Settled(q)
  BY <1>4, <1>5, <1>6 DEF Settled, Tokens
<1> HIDE DEF x
<1>8. Supply(Held(q)) + p.balances[u][a] = Supply(Held(p)) + x
  BY <1>1, <1>3, <1>4, <1>5, BalanceChanged
<1>9. p.pool["XLM"] \in Nat /\ p.pool["USDCSIM"] \in Nat /\ p.fees \in Nat /\ p.lpFees \in Nat
  BY <1>1 DEF Portfolios, Assets
<1>10. GrandTotal(q) = GrandTotal(p) - n
  BY <1>1, <1>3, <1>4, <1>5, <1>8, <1>9, PortfolioSums, SMTT(40) DEF x
<1>11. \A b \in Assets : b # a => q.balances[u][b] = p.balances[u][b]
  BY <1>1, <1>4 DEF Portfolios
<1> QED
  BY <1>4, <1>7, <1>10, <1>11 DEF q, SameLp

\* Minting: money in, on the profit counter and on the leaderboard.
LEMMA MintSound ==
  ASSUME NEW p, Settled(p), NEW u \in Users, NEW a \in Assets, NEW n \in Nat
  PROVE  LET q == Mint(p, a, u, n) IN
         /\ Settled(q) /\ GrandTotal(q) = GrandTotal(p) + n /\ SameLp(p, q)
         /\ \A v \in Users : q.pnl[v] >= p.pnl[v]
         /\ q.trades = p.trades /\ q.volume = p.volume /\ q.pool = p.pool
<1> DEFINE c == [p EXCEPT !.balances[u][a] = @ + n, !.pnl[u] = @ + n]
<1>1. p \in Portfolios
  BY DEF Settled
<1>2. PICK y \in Nat : y = p.balances[u][a]
  BY <1>1, SMTT(40) DEF Portfolios
<1>3. PICK x \in Nat : x = y + n
  OBVIOUS
<1>4. c = [p EXCEPT !.balances = [p.balances EXCEPT ![u][a] = x],
                    !.pnl = [p.pnl EXCEPT ![u] = p.pnl[u] + n]]
  BY <1>2, <1>3, <1>1 DEF Portfolios
<1>5. p.pnl \in [Users -> Int]
  BY <1>1 DEF Portfolios
<1>6. /\ c.balances = [p.balances EXCEPT ![u][a] = x] /\ c.pnl = [p.pnl EXCEPT ![u] = p.pnl[u] + n]
      /\ c.trades = p.trades /\ c.volume = p.volume /\ c.pool = p.pool
      /\ c.positions = p.positions /\ c.lpTokens = p.lpTokens /\ c.fees = p.fees
      /\ c.lpFees = p.lpFees /\ c.top = p.top
  BY <1>1, <1>4 DEF Portfolios
<1>7. c \in Portfolios
  <2>1. [p.balances EXCEPT ![u][a] = x] \in [Users -> [Assets -> Nat]]
        /\ [p.pnl EXCEPT ![u] = p.pnl[u] + n] \in [Users -> Int]
    BY <1>1, <1>5, SMTT(40) DEF Portfolios
  <2> QED
    BY <1>1, <1>4, <2>1 DEF Portfolios
<1>8. \A i \in 1..Len(c.top) : c.top[i].user # u => c.top[i].pnl >= c.pnl[c.top[i].user]
  <2>1. \A v \in Users : v # u => c.pnl[v] = p.pnl[v]
    BY <1>5, <1>6
  <2>2. \A i \in 1..Len(p.top) : p.top[i] \in TopEntry
    BY <1>1, SMTT(40) DEF Portfolios
  <2>3. \A i \in 1..Len(p.top) : p.top[i].user \in Users
    BY <2>2 DEF TopEntry
  <2> HIDE DEF c
  <2> QED
    BY <1>6, <2>1, <2>3 DEF NotUnderstated, Settled
<1> HIDE DEF c
<1>9. Distinct(c.top)
  BY <1>6 DEF Settled
<1>10. PICK q : /\ q = Mint(p, a, u, n) /\ q \in Portfolios
               /\ q.balances = c.balances /\ q.pnl = c.pnl
               /\ q.trades = c.trades /\ q.volume = c.volume /\ q.pool = c.pool
               /\ q.positions = c.positions /\ q.lpTokens = c.lpTokens /\ q.fees = c.fees
               /\ q.lpFees = c.lpFees
               /\ Distinct(q.top) /\ Sorted(q.top) /\ NotUnderstated(q.top, c.pnl)
  <2>1. PICK top \in Seq(TopEntry) :
          /\ UpdateTopTraders(c, u) = [c EXCEPT !.top = top]
          /\ Distinct(top) /\ Sorted(top) /\ NotUnderstated(top, c.pnl)
    BY <1>7, <1>8, <1>9, UpdateTopTradersSound
  <2>2. PICK q : q = [c EXCEPT !.top = top] /\ q = Mint(p, a, u, n)
    BY <2>1 DEF Mint, c
  <2>3. q \in Portfolios /\ q.top = top /\ q.balances = c.balances /\ q.pnl = c.pnl
        /\ q.trades = c.trades /\ q.volume = c.volume /\ q.pool = c.pool
        /\ q.positions = c.positions /\ q.lpTokens = c.lpTokens /\ q.fees = c.fees
        /\ q.lpFees = c.lpFees
    BY <1>7, <2>2 DEF Portfolios
  <2> QED
    BY <2>1, <2>2, <2>3
<1>11. Settled(q)
  BY <1>6, <1>10 DEF Settled, Tokens
<1>12. q.balances = [p.balances EXCEPT ![u][a] = x]
  BY <1>6, <1>10
<1>13. Supply(Held(q)) + p.balances[u][a] = Supply(Held(p)) + x
  BY <1>1, <1>5, <1>10, <1>12, BalanceChanged
<1>14. p.pool["XLM"] \in Nat /\ p.pool["USDCSIM"] \in Nat /\ p.fees \in Nat /\ p.lpFees \in Nat
  BY <1>1 DEF Portfolios, Assets
<1>15. q.pool = p.pool /\ q.fees = p.fees /\ q.lpFees = p.lpFees
  BY <1>6, <1>10
<1>16. /\ GrandTotal(p) = Supply(Held(p)) + p.pool["XLM"] + p.pool["USDCSIM"] + p.fees + p.lpFees
      /\ GrandTotal(q) = Supply(Held(q)) + p.pool["XLM"] + p.pool["USDCSIM"] + p.fees + p.lpFees
      /\ Supply(Held(p)) \in Nat /\ Supply(Held(q)) \in Nat
  BY <1>1, <1>10, <1>15, PortfolioSums
<1>17. GrandTotal(q) = GrandTotal(p) + n
  BY <1>13, <1>14, <1>2, <1>3, <1>16
<1>18. \A v \in Users : q.pnl[v] >= p.pnl[v]
  BY <1>5, <1>6, <1>10
<1> QED
  BY <1>6, <1>10, <1>11, <1>17, <1>18 DEF SameLp

\* What leaves balances, profits, leaderboard and LP tokens alone.
LEMMA UnmovedSound ==
  ASSUME NEW p, Settled(p), NEW q \in Portfolios,
         q.balances = p.balances, q.pnl = p.pnl, q.top = p.top,
         q.positions = p.positions, q.lpTokens = p.lpTokens
  PROVE  /\ Settled(q) /\ SameLp(p, q)
         /\ GrandTotal(q) = GrandTotal(p) + (q.pool["XLM"] - p.pool["XLM"])
              + (q.pool["USDCSIM"] - p.pool["USDCSIM"]) + (q.fees - p.fees) + (q.lpFees - p.lpFees)
         /\ p.pool \in [Assets -> Nat] /\ p.fees \in Nat /\ p.lpFees \in Nat /\ GrandTotal(p) \in Nat
<1>1. p \in Portfolios
  BY DEF Settled
<1>2. Held(q) = Held(p) /\ Tokens(q) = Tokens(p)
  BY DEF Held, Tokens
<1>3. Settled(q)
  BY <1>2 DEF Settled
<1>4. /\ p.pool["XLM"] \in Nat /\ p.pool["USDCSIM"] \in Nat /\ p.fees \in Nat /\ p.lpFees \in Nat
      /\ q.pool["XLM"] \in Nat /\ q.pool["USDCSIM"] \in Nat /\ q.fees \in Nat /\ q.lpFees \in Nat
      /\ p.pool \in [Assets -> Nat]
  BY <1>1 DEF Portfolios, Assets
<1>5. /\ Supply(Held(p)) \in Nat
      /\ GrandTotal(p) = Supply(Held(p)) + p.pool["XLM"] + p.pool["USDCSIM"] + p.fees + p.lpFees
      /\ GrandTotal(q) = Supply(Held(p)) + q.pool["XLM"] + q.pool["USDCSIM"] + q.fees + q.lpFees
      /\ GrandTotal(p) \in Nat
  BY <1>1, <1>2, PortfolioSums
<1> QED
  BY <1>3, <1>4, <1>5 DEF SameLp

\* The statistics of a trade.
LEMMA StatsSound ==
  ASSUME NEW p, Settled(p), NEW u \in Users, NEW n \in Nat
  PROVE  LET q == UpdateStatsOnTrade(p, u, n) IN
         /\ Settled(q) /\ GrandTotal(q) = GrandTotal(p) /\ SameLp(p, q)
         /\ q.volume = p.volume + n
         /\ q.balances = p.balances /\ q.trades = p.trades /\ q.pool = p.pool
<1>1. p \in Portfolios
  BY DEF Settled
<1>2. PICK q : q = UpdateStatsOnTrade(p, u, n)
  OBVIOUS
<1>3. PICK users \in Nat, active \in SUBSET Users :
        q = [p EXCEPT !.volume = p.volume + n, !.totalUsers = users, !.active = active]
  <2>1. p.totalUsers \in Nat /\ p.totalUsers + 1 \in Nat
        /\ p.active \in SUBSET Users /\ p.active \cup {u} \in SUBSET Users
    BY <1>1 DEF Portfolios
  <2>2. CASE p.trades[u] = 0
    BY <1>1, <1>2, <2>1, <2>2 DEF UpdateStatsOnTrade, Portfolios
  <2>3. CASE p.trades[u] # 0
    BY <1>1, <1>2, <2>1, <2>3 DEF UpdateStatsOnTrade, Portfolios
  <2> QED
    BY <2>2, <2>3
<1>4. p.volume + n \in Nat
  BY <1>1, SMTT(40) DEF Portfolios
<1>5. /\ q \in Portfolios /\ q.volume = p.volume + n
      /\ q.balances = p.balances /\ q.trades = p.trades /\ q.pool = p.pool /\ q.pnl = p.pnl
      /\ q.top = p.top /\ q.positions = p.positions /\ q.lpTokens = p.lpTokens
      /\ q.fees = p.fees /\ q.lpFees = p.lpFees
  BY <1>1, <1>3, <1>4 DEF Portfolios
<1>6. p.pool["XLM"] \in Nat /\ p.pool["USDCSIM"] \in Nat /\ p.fees \in Nat /\ p.lpFees \in Nat
  BY <1>1 DEF Portfolios, Assets
<1> QED
  BY <1>2, <1>5, <1>6, UnmovedSound

\* One more trade on record.
LEMMA RecordTradeSound ==
  ASSUME NEW p, Settled(p), NEW u \in Users
  PROVE  LET q == RecordTrade(p, u) IN
         /\ Settled(q) /\ GrandTotal(q) = GrandTotal(p) /\ SameLp(p, q)
         /\ q.volume = p.volume /\ q.pool = p.pool
         /\ \A v \in Users : q.trades[v] >= p.trades[v]
<1>1. p \in Portfolios
  BY DEF Settled
<1>2. PICK q : q = RecordTrade(p, u)
  OBVIOUS
<1>3. p.trades \in [Users -> Nat] /\ [p.trades EXCEPT ![u] = p.trades[u] + 1] \in [Users -> Nat]
      /\ p.badges \in [Users -> SUBSET Badges]
      /\ [p.badges EXCEPT ![u] = p.badges[u] \cup {"FirstTrade"}] \in [Users -> SUBSET Badges]
  BY <1>1, SMTT(40) DEF Portfolios, Badges
<1>4. \/ q = [p EXCEPT !.trades = [p.trades EXCEPT ![u] = p.trades[u] + 1]]
      \/ q = [p EXCEPT !.trades = [p.trades EXCEPT ![u] = p.trades[u] + 1],
                       !.badges = [p.badges EXCEPT ![u] = p.badges[u] \cup {"FirstTrade"}]]
  BY <1>1, <1>2 DEF RecordTrade, AwardBadge, Portfolios
<1>5. /\ q \in Portfolios /\ q.trades = [p.trades EXCEPT ![u] = p.trades[u] + 1]
      /\ q.volume = p.volume
      /\ q.balances = p.balances /\ q.pool = p.pool /\ q.pnl = p.pnl
      /\ q.top = p.top /\ q.positions = p.positions /\ q.lpTokens = p.lpTokens
      /\ q.fees = p.fees /\ q.lpFees = p.lpFees
  BY <1>1, <1>3, <1>4, ZenonT(60) DEF Portfolios
<1>6. p.pool["XLM"] \in Nat /\ p.pool["USDCSIM"] \in Nat /\ p.fees \in Nat /\ p.lpFees \in Nat
  BY <1>1 DEF Portfolios, Assets
<1>7. \A v \in Users : q.trades[v] >= p.trades[v]
  BY <1>3, <1>5
<1>8. Settled(q) /\ GrandTotal(q) = GrandTotal(p) /\ SameLp(p, q)
  BY <1>5, <1>6, UnmovedSound
<1> QED
  BY <1>2, <1>5, <1>7, <1>8

\* Fees of both kinds go to counters.
LEMMA FeesCounted ==
  ASSUME NEW p, Settled(p), NEW n \in Nat
  PROVE  /\ LET q == CollectFee(p, n) IN
            /\ Settled(q) /\ GrandTotal(q) = GrandTotal(p) + n /\ SameLp(p, q)
            /\ q.volume = p.volume /\ q.pool = p.pool /\ q.trades = p.trades
            /\ q.balances = p.balances
         /\ LET q == AddLpFees(p, n) IN
            /\ Settled(q) /\ GrandTotal(q) = GrandTotal(p) + n /\ SameLp(p, q)
            /\ q.volume = p.volume /\ q.pool = p.pool /\ q.trades = p.trades
<1>1. p \in Portfolios
  BY DEF Settled
<1>2. p.pool["XLM"] \in Nat /\ p.pool["USDCSIM"] \in Nat /\ p.fees \in Nat /\ p.lpFees \in Nat
      /\ GrandTotal(p) \in Nat
  BY <1>1, PortfolioSums DEF Portfolios, Assets
<1>3. PICK q : q = CollectFee(p, n) /\ q = [p EXCEPT !.fees = p.fees + n]
  BY <1>1 DEF CollectFee, Portfolios
<1>4. PICK r : r = AddLpFees(p, n) /\ r = [p EXCEPT !.lpFees = p.lpFees + n]
  BY <1>1 DEF AddLpFees, Portfolios
<1>5. p.fees + n \in Nat /\ p.lpFees + n \in Nat
  BY <1>2
<1>6. /\ q \in Portfolios /\ q.fees = p.fees + n /\ q.lpFees = p.lpFees
      /\ q.volume = p.volume /\ q.trades = p.trades
      /\ q.balances = p.balances /\ q.pool = p.pool /\ q.pnl = p.pnl
      /\ q.top = p.top /\ q.positions = p.positions /\ q.lpTokens = p.lpTokens
  BY <1>1, <1>3, <1>5, ZenonT(60) DEF Portfolios
<1>7. /\ r \in Portfolios /\ r.fees = p.fees /\ r.lpFees = p.lpFees + n
      /\ r.volume = p.volume /\ r.trades = p.trades
      /\ r.balances = p.balances /\ r.pool = p.pool /\ r.pnl = p.pnl
      /\ r.top = p.top /\ r.positions = p.positions /\ r.lpTokens = p.lpTokens
  BY <1>1, <1>4, <1>5, ZenonT(60) DEF Portfolios
<1>8. Settled(q) /\ GrandTotal(q) = GrandTotal(p) + n /\ SameLp(p, q)
  BY <1>2, <1>6, UnmovedSound
<1>9. Settled(r) /\ GrandTotal(r) = GrandTotal(p) + n /\ SameLp(p, r)
  BY <1>2, <1>7, UnmovedSound
<1> QED
  BY <1>3, <1>4, <1>6, <1>7, <1>8, <1>9

\* The pool.
LEMMA SetLiquiditySound ==
  ASSUME NEW p, Settled(p), NEW a \in Assets, NEW x \in Nat
  PROVE  LET q == SetLiquidity(p, a, x) IN
         /\ Settled(q) /\ GrandTotal(q) = GrandTotal(p) + (x - p.pool[a]) /\ SameLp(p, q)
         /\ \A b \in Assets : b # a => q.pool[b] = p.pool[b]
         /\ q.volume = p.volume /\ q.trades = p.trades /\ q.pnl = p.pnl
<1>1. p \in Portfolios
  BY DEF Settled
<1>2. PICK pool : pool = [p.pool EXCEPT ![a] = x]
  OBVIOUS
<1>3. PICK q : q = SetLiquidity(p, a, x) /\ q = [p EXCEPT !.pool = pool]
  BY <1>1, <1>2 DEF SetLiquidity, Portfolios
<1>4. pool \in [Assets -> Nat] /\ p.pool \in [Assets -> Nat]
  BY <1>1, <1>2 DEF Portfolios
<1>5. /\ q \in Portfolios /\ q.pool = pool
      /\ q.volume = p.volume /\ q.trades = p.trades
      /\ q.balances = p.balances /\ q.pnl = p.pnl
      /\ q.top = p.top /\ q.positions = p.positions /\ q.lpTokens = p.lpTokens
      /\ q.fees = p.fees /\ q.lpFees = p.lpFees
  BY <1>1, <1>3, <1>4, ZenonT(60) DEF Portfolios
<1>6. /\ p.pool["XLM"] \in Nat /\ p.pool["USDCSIM"] \in Nat
      /\ p.pool[a] \in Nat /\ p.fees \in Nat /\ p.lpFees \in Nat
  BY <1>1, <1>4 DEF Portfolios, Assets
<1>7. (pool["XLM"] - p.pool["XLM"]) + (pool["USDCSIM"] - p.pool["USDCSIM"]) = x - p.pool[a]
  BY <1>2, <1>4, <1>6 DEF Assets
<1>8. /\ Settled(q) /\ SameLp(p, q) /\ GrandTotal(p) \in Nat
      /\ GrandTotal(q) = GrandTotal(p) + (pool["XLM"] - p.pool["XLM"])
           + (pool["USDCSIM"] - p.pool["USDCSIM"]) + (p.fees - p.fees) + (p.lpFees - p.lpFees)
  BY <1>5, UnmovedSound
<1>9. pool["XLM"] \in Nat /\ pool["USDCSIM"] \in Nat
  BY <1>4 DEF Assets
<1>10. GrandTotal(q) = GrandTotal(p) + (x - p.pool[a])
  BY <1>6, <1>7, <1>8, <1>9
<1>11. \A b \in Assets : b # a => q.pool[b] = p.pool[b]
  BY <1>2, <1>4, <1>5
<1> QED
  BY <1>3, <1>5, <1>8, <1>10, <1>11

LEMMA AddPoolLiquiditySound ==
  ASSUME NEW p, Settled(p), NEW x \in Nat, NEW y \in Nat
  PROVE  LET q == AddPoolLiquidity(p, x, y) IN
         /\ Settled(q) /\ GrandTotal(q) = GrandTotal(p) + x + y /\ SameLp(p, q)
         /\ q.pool["XLM"] = p.pool["XLM"] + x /\ q.pool["USDCSIM"] = p.pool["USDCSIM"] + y
         /\ q.volume = p.volume /\ q.trades = p.trades
<1>1. p \in Portfolios
  BY DEF Settled
<1>2. PICK pool : pool = [p.pool EXCEPT !["XLM"] = p.pool["XLM"] + x,
                                        !["USDCSIM"] = p.pool["USDCSIM"] + y]
  OBVIOUS
<1>3. p.pool \in [Assets -> Nat] /\ p.pool["XLM"] \in Nat /\ p.pool["USDCSIM"] \in Nat
      /\ p.fees \in Nat /\ p.lpFees \in Nat
  BY <1>1 DEF Portfolios, Assets
<1>4. PICK q : q = AddPoolLiquidity(p, x, y) /\ q = [p EXCEPT !.pool = pool]
  BY <1>1, <1>2, <1>3 DEF AddPoolLiquidity, Portfolios, Assets
<1>5. pool \in [Assets -> Nat]
      /\ pool["XLM"] = p.pool["XLM"] + x /\ pool["USDCSIM"] = p.pool["USDCSIM"] + y
  BY <1>2, <1>3 DEF Assets
<1>6. /\ q \in Portfolios /\ q.pool = pool
      /\ q.volume = p.volume /\ q.trades = p.trades
      /\ q.balances = p.balances /\ q.pnl = p.pnl
      /\ q.top = p.top /\ q.positions = p.positions /\ q.lpTokens = p.lpTokens
      /\ q.fees = p.fees /\ q.lpFees = p.lpFees
  BY <1>1, <1>4, <1>5, ZenonT(60) DEF Portfolios
<1>7. /\ Settled(q) /\ SameLp(p, q) /\ GrandTotal(p) \in Nat
      /\ GrandTotal(q) = GrandTotal(p) + (pool["XLM"] - p.pool["XLM"])
           + (pool["USDCSIM"] - p.pool["USDCSIM"]) + (p.fees - p.fees) + (p.lpFees - p.lpFees)
  BY <1>6, UnmovedSound
<1>8. GrandTotal(q) = GrandTotal(p) + x + y
  BY <1>3, <1>5, <1>7
<1> QED
  BY <1>4, <1>5, <1>6, <1>7, <1>8

\* Counters and badges.
LEMMA CountersSound ==
  ASSUME NEW p, Settled(p), NEW u \in Users, NEW q,
         q \in {IncFailedOrder(p), RecordLpDeposit(p, u), CheckAndAwardBadges(p, u)}
  PROVE  /\ Settled(q) /\ GrandTotal(q) = GrandTotal(p) /\ SameLp(p, q)
         /\ q.volume = p.volume /\ q.trades = p.trades /\ q.pool = p.pool
<1>1. p \in Portfolios
  BY DEF Settled
<1>2. \/ \E n \in Nat : q = [p EXCEPT !.failed = n]
      \/ \E d \in [Users -> Nat] : q = [p EXCEPT !.lpDeposits = d]
      \/ \E b \in [Users -> SUBSET Badges] : q = [p EXCEPT !.badges = b]
  <2>1. CASE q = IncFailedOrder(p)
    <3>1. p.failed + 1 \in Nat /\ q = [p EXCEPT !.failed = p.failed + 1]
      BY <1>1, <2>1 DEF IncFailedOrder, Portfolios
    <3> QED
      BY <3>1
  <2>2. CASE q = RecordLpDeposit(p, u)
    <3>1. [p.lpDeposits EXCEPT ![u] = p.lpDeposits[u] + 1] \in [Users -> Nat]
          /\ q = [p EXCEPT !.lpDeposits = [p.lpDeposits EXCEPT ![u] = p.lpDeposits[u] + 1]]
      BY <1>1, <2>2 DEF RecordLpDeposit, Portfolios
    <3> QED
      BY <3>1
  <2>3. CASE q = CheckAndAwardBadges(p, u)
    <3> DEFINE more == (IF p.trades[u] >= BadgeTrades THEN {"Trader"} ELSE {})
                         \cup (IF p.lpDeposits[u] >= 1 THEN {"LiquidityProvider"} ELSE {})
               b == [p.badges EXCEPT ![u] = p.badges[u] \cup more]
    <3>1. more \in SUBSET Badges
      BY DEF Badges
    <3>2. p.badges \in [Users -> SUBSET Badges]
      BY <1>1 DEF Portfolios
    <3>3. q = [p EXCEPT !.badges[u] = p.badges[u] \cup more]
      BY <1>1, <2>3, ZenonT(60) DEF CheckAndAwardBadges, Portfolios
    <3> HIDE DEF more
    <3>4. b \in [Users -> SUBSET Badges]
      BY <3>1, <3>2
    <3>5. q = [p EXCEPT !.badges = b]
      BY <1>1, <3>3 DEF Portfolios
    <3> QED
      BY <3>4, <3>5
  <2> QED
    BY <2>1, <2>2, <2>3
<1>3. /\ q \in Portfolios
      /\ q.volume = p.volume /\ q.trades = p.trades /\ q.pool = p.pool
      /\ q.balances = p.balances /\ q.pnl = p.pnl
      /\ q.top = p.top /\ q.positions = p.positions /\ q.lpTokens = p.lpTokens
      /\ q.fees = p.fees /\ q.lpFees = p.lpFees
  BY <1>1, <1>2, ZenonT(60) DEF Portfolios
<1>4. p.pool["XLM"] \in Nat /\ p.pool["USDCSIM"] \in Nat /\ p.fees \in Nat /\ p.lpFees \in Nat
  BY <1>1 DEF Portfolios, Assets
<1> QED
  BY <1>3, <1>4, UnmovedSound

\* What a position has deposited counts for nothing else.
LEMMA DepositedSound ==
  ASSUME NEW p, Settled(p), NEW u \in Users, NEW d \in [Assets -> Int]
  PROVE  LET q == [p EXCEPT !.positions[u].deposited = d] IN
         /\ Settled(q) /\ GrandTotal(q) = GrandTotal(p) /\ q.lpTokens = p.lpTokens
         /\ q.volume = p.volume /\ q.trades = p.trades /\ q.pool = p.pool
         /\ \A v \in Users : q.positions[v].tokens = p.positions[v].tokens
<1>1. p \in Portfolios
  BY DEF Settled
<1>2. PICK pos : pos = [p.positions EXCEPT ![u].deposited = d]
  OBVIOUS
<1>3. p.positions \in [Users -> LPPosition]
  BY <1>1 DEF Portfolios
<1>4. pos \in [Users -> LPPosition] /\ \A v \in Users : pos[v].tokens = p.positions[v].tokens
  BY <1>2, <1>3 DEF LPPosition
<1>5. PICK q : q = [p EXCEPT !.positions[u].deposited = d] /\ q = [p EXCEPT !.positions = pos]
  BY <1>1, <1>2 DEF Portfolios
<1>6. /\ q \in Portfolios /\ q.positions = pos
      /\ q.volume = p.volume /\ q.trades = p.trades /\ q.pool = p.pool
      /\ q.balances = p.balances /\ q.pnl = p.pnl
      /\ q.top = p.top /\ q.lpTokens = p.lpTokens
      /\ q.fees = p.fees /\ q.lpFees = p.lpFees
  BY <1>1, <1>4, <1>5, ZenonT(60) DEF Portfolios
<1>7. Tokens(q) = Tokens(p) /\ Held(q) = Held(p)
  BY <1>4, <1>6 DEF Tokens, Held
<1>8. Settled(q)
  BY <1>6, <1>7 DEF Settled
<1>9. GrandTotal(q) = GrandTotal(p)
  BY <1>1, <1>6, <1>7, PortfolioSums
<1> QED
  BY <1>4, <1>5, <1>6, <1>8, <1>9

\* A position that gains or loses tokens: the total beside it follows.
LEMMA AddLpTokensSound ==
  ASSUME NEW p, Settled(p), NEW u \in Users, NEW n \in Int, p.positions[u].tokens + n \in Nat
  PROVE  LET q == AddLpTokens(p, u, n) IN
         /\ Settled(q) /\ GrandTotal(q) = GrandTotal(p) /\ q.lpTokens = p.lpTokens + n
         /\ q.volume = p.volume /\ q.trades = p.trades /\ q.pool = p.pool
         /\ q.positions[u].tokens = p.positions[u].tokens + n
         /\ \A v \in Users : v # u => q.positions[v].tokens = p.positions[v].tokens
<1>1. p \in Portfolios
  BY DEF Settled
<1>2. PICK m \in Nat : m = p.positions[u].tokens + n
  OBVIOUS
<1>3. PICK pos : pos = [p.positions EXCEPT ![u].tokens = m]
  OBVIOUS
<1>4. p.positions \in [Users -> LPPosition] /\ p.lpTokens \in Nat
  BY <1>1 DEF Portfolios
<1>5. pos \in [Users -> LPPosition] /\ pos[u].tokens = m
      /\ \A v \in Users : v # u => pos[v].tokens = p.positions[v].tokens
  BY <1>3, <1>4 DEF LPPosition
<1>6. PICK q : q = AddLpTokens(p, u, n)
               /\ q = [p EXCEPT !.positions = pos, !.lpTokens = p.lpTokens + n]
  BY <1>1, <1>2, <1>3, <1>4 DEF AddLpTokens, Portfolios
<1> DEFINE tokens == [v \in Users |-> pos[v].tokens]
<1>7. Tokens(p) \in [Users -> Nat] /\ Supply(Tokens(p)) \in Nat /\ p.lpTokens = Supply(Tokens(p))
      /\ IsFiniteSet(Users)
  BY <1>1, PortfolioSums, PortfolioAssumption DEF Settled
<1>8. tokens \in [Users -> Nat] /\ tokens[u] = m /\ Tokens(p)[u] + n = m
      /\ tokens = [Tokens(p) EXCEPT ![u] = tokens[u]]
  <2>1. tokens \in [Users -> Nat]
    BY <1>5 DEF LPPosition
  <2>2. \A v \in Users : tokens[v] = IF v = u THEN tokens[u] ELSE Tokens(p)[v]
    BY <1>5 DEF Tokens
  <2>3. tokens[u] = m /\ Tokens(p)[u] + n = m
    BY <1>2, <1>5 DEF Tokens
  <2> HIDE DEF tokens
  <2> QED
    BY <1>7, <2>1, <2>2, <2>3
<1> HIDE DEF tokens
<1>9. Supply(tokens) + Tokens(p)[u] = Supply(Tokens(p)) + tokens[u] /\ Supply(tokens) \in Nat
  BY <1>7, <1>8, SupplyReplaced
<1>10. Supply(tokens) = p.lpTokens + n /\ p.lpTokens + n \in Nat
  <2>1. Tokens(p)[u] \in Nat
    BY <1>7
  <2> QED
    BY <1>7, <1>8, <1>9, <2>1
<1>11. /\ q \in Portfolios /\ q.positions = pos /\ q.lpTokens = p.lpTokens + n
       /\ q.volume = p.volume /\ q.trades = p.trades /\ q.pool = p.pool
       /\ q.balances = p.balances /\ q.pnl = p.pnl
       /\ q.top = p.top
       /\ q.fees = p.fees /\ q.lpFees = p.lpFees
  BY <1>1, <1>5, <1>6, <1>10, ZenonT(60) DEF Portfolios
<1>12. Tokens(q) = tokens /\ Held(q) = Held(p)
  BY <1>11 DEF Tokens, Held, tokens
<1>13. Settled(q)
  BY <1>10, <1>11, <1>12 DEF Settled
<1>14. GrandTotal(q) = GrandTotal(p)
  BY <1>1, <1>11, <1>12, PortfolioSums
<1> QED
  BY <1>2, <1>5, <1>6, <1>11, <1>13, <1>14

-----------------------------------------------------------------------------
(* Amounts of a swap *)

\* A quotient, multiplied again, is no more than what was divided.
LEMMA Quotient ==
  ASSUME NEW x \in Nat, NEW d \in Nat \ {0}
  PROVE  x \div d \in Nat /\ (x \div d) * d <= x /\ x < (x \div d) * d + d
OBVIOUS

\* Products of natural numbers keep their order; a common factor cancels.
LEMMA Products ==
  ASSUME NEW a \in Nat, NEW b \in Nat, NEW c \in Nat
  PROVE  /\ a * c \in Nat /\ b * c \in Nat
         /\ a <= b => a * c <= b * c
         /\ c > 0 /\ a * c <= b * c => a <= b
OBVIOUS

\* A part of an amount, in basis points, is a natural number no larger than it.
LEMMA PartOf ==
  ASSUME NEW x \in Nat, NEW k \in Nat, k <= Bps
  PROVE  (x * k) \div Bps \in Nat /\ (x * k) \div Bps <= x
<1>1. Bps \in Nat \ {0}
  BY TradingAssumption
<1>2. k * x = x * k /\ Bps * x = x * Bps /\ x * k \in Nat /\ x * Bps \in Nat
  BY <1>1
<1>3. x * k <= x * Bps
  BY <1>1, <1>2, Products
<1>4. PICK f \in Nat : f = (x * k) \div Bps /\ f * Bps <= x * k
  BY <1>1, <1>2, Quotient
<1>5. f * Bps \in Nat /\ f * Bps <= x * Bps
  BY <1>1, <1>2, <1>3, <1>4
<1>6. f <= x
  BY <1>1, <1>4, <1>5, Products
<1> QED
  BY <1>4, <1>6

\* The fee for the liquidity providers.
LEMMA LpFeeBounds ==
  ASSUME NEW n \in Nat
  PROVE  LpFee(n) \in Nat /\ PoolGain(n) \in Nat
<1>1. LpFeeBps \in Nat /\ LpFeeBps <= Bps
  BY TradingAssumption
<1>2. LpFee(n) \in Nat /\ LpFee(n) <= n
  BY <1>1, PartOf DEF LpFee
<1> QED
  BY <1>2 DEF PoolGain

\* The product formula pays no more than the reserve.
LEMMA ProductBounds ==
  ASSUME NEW r \in Nat, NEW s \in Nat \ {0}, NEW x \in Nat
  PROVE  (r * x) \div (s + x) \in Nat /\ (r * x) \div (s + x) <= r
<1>1. PICK d \in Nat \ {0} : d = s + x
  OBVIOUS
<1>2. x * r = r * x /\ d * r = r * d /\ r * x \in Nat /\ r * d \in Nat /\ x <= d
  BY <1>1
<1>3. r * x <= r * d
  BY <1>2, Products
<1>4. PICK f \in Nat : f = (r * x) \div d /\ f * d <= r * x
  BY <1>1, <1>2, Quotient
<1>5. f * d \in Nat /\ f * d <= r * d
  BY <1>2, <1>3, <1>4
<1>6. f <= r
  BY <1>1, <1>4, <1>5, Products
<1> QED
  BY <1>1, <1>4, <1>6

\* What a swap pays out, and that the pool has it.
LEMMA SwapOutputBounds ==
  ASSUME NEW p \in Portfolios, NEW from \in Assets, NEW to \in Assets, NEW n \in Nat, NEW price \in Nat
  PROVE  LET out == SwapOutput(p, from, to, n, price) IN
         out \in Nat /\ (HasReserves(p) => out <= p.pool[to])
<1>1. Bps \in Nat \ {0} /\ Precision \in Nat \ {0} /\ Bps - LpFeeBps \in Nat /\ Bps - LpFeeBps <= Bps
  BY TradingAssumption
<1>2. p.pool[from] \in Nat /\ p.pool[to] \in Nat
  BY DEF Portfolios
<1>3. PICK m \in Nat : m = (n * (Bps - LpFeeBps)) \div Bps
  BY <1>1, PartOf
<1>4. CASE HasReserves(p)
  <2>1. p.pool[from] \in Nat \ {0}
    BY <1>2, <1>4 DEF HasReserves
  <2>2. Product(p, from, to, m) \in Nat /\ Product(p, from, to, m) <= p.pool[to]
    BY <1>2, <2>1, ProductBounds DEF Product
  <2> QED
    BY <1>3, <1>4, <2>2 DEF SwapOutput
<1>5. CASE ~HasReserves(p)
  <2>1. n * price \in Nat
    OBVIOUS
  <2>2. (n * price) \div Precision \in Nat
    BY <1>1, <2>1, Quotient
  <2> QED
    BY <1>5, <2>2 DEF SwapOutput
<1> QED
  BY <1>4, <1>5

\* A swap: the books grow by what the oracle's price draws, and the volume by
\* the amount.
LEMMA PerformSwapSound ==
  ASSUME NEW p, Settled(p), NEW u \in Users, NEW from \in Assets, NEW to \in Assets, from # to,
         NEW n \in Nat, NEW out \in Nat, HasReserves(p) => out <= p.pool[to],
         CanDebit(p, from, u, n), CanDebit(TransferAsset(p, from, to, u, n), from, u, n)
  PROVE  LET q == PerformSwap(p, from, to, u, n, out) IN
         /\ Settled(q) /\ GrandTotal(q) = GrandTotal(p) + Drawn(p, n, out) /\ SameLp(p, q)
         /\ q.volume = p.volume + n /\ q.trades = p.trades
<1>1. PICK a : a = Debit(p, from, u, n)
  OBVIOUS
<1>2. /\ Settled(a) /\ GrandTotal(a) = GrandTotal(p) - n /\ SameLp(p, a)
      /\ a.trades = p.trades /\ a.volume = p.volume /\ a.pool = p.pool
  <2>1. p.balances[u][from] >= n
    BY DEF CanDebit
  <2> QED
    BY <1>1, <2>1, DebitSound
<1>3. PICK b : b = Credit(a, to, u, n)
  OBVIOUS
<1>4. /\ Settled(b) /\ GrandTotal(b) = GrandTotal(a) + n /\ SameLp(a, b)
      /\ b.trades = a.trades /\ b.volume = a.volume /\ b.pool = a.pool
  BY <1>2, <1>3, CreditSound
<1>5. PICK c : c = UpdateStatsOnTrade(b, u, n)
  OBVIOUS
<1>6. /\ Settled(c) /\ GrandTotal(c) = GrandTotal(b) /\ SameLp(b, c)
      /\ c.trades = b.trades /\ c.volume = b.volume + n /\ c.pool = b.pool
  BY <1>4, <1>5, StatsSound
<1>7. c = TransferAsset(p, from, to, u, n)
  BY <1>1, <1>3, <1>5 DEF TransferAsset
<1>8. PICK d : d = Debit(c, from, u, n)
  OBVIOUS
<1>9. /\ Settled(d) /\ GrandTotal(d) = GrandTotal(c) - n /\ SameLp(c, d)
      /\ d.trades = c.trades /\ d.volume = c.volume /\ d.pool = c.pool
  <2>1. c.balances[u][from] >= n
    BY <1>7 DEF CanDebit
  <2> QED
    BY <1>6, <1>8, <2>1, DebitSound
<1>10. PICK e : e = Credit(d, to, u, out)
  OBVIOUS
<1>11. /\ Settled(e) /\ GrandTotal(e) = GrandTotal(d) + out /\ SameLp(d, e)
       /\ e.trades = d.trades /\ e.volume = d.volume /\ e.pool = d.pool
  BY <1>9, <1>10, CreditSound
<1>12. /\ p.pool \in [Assets -> Nat] /\ p.volume \in Nat
       /\ GrandTotal(p) \in Nat /\ LpFee(n) \in Nat /\ PoolGain(n) \in Nat
       /\ PoolGain(n) = n - LpFee(n)
  BY PortfolioSums, LpFeeBounds DEF Settled, Portfolios, PoolGain
<1>13. e.pool = p.pool /\ e.trades = p.trades /\ e.volume = p.volume + n /\ SameLp(p, e)
       /\ HasReserves(e) = HasReserves(p)
  BY <1>2, <1>4, <1>6, <1>9, <1>11, <1>12 DEF SameLp, HasReserves
<1>14. GrandTotal(e) = GrandTotal(p) - n + out
  <2>1. GrandTotal(a) \in Nat /\ GrandTotal(b) \in Nat /\ GrandTotal(c) \in Nat /\ GrandTotal(d) \in Nat
    BY <1>2, <1>4, <1>6, <1>9, PortfolioSums DEF Settled
  <2> QED
    BY <1>2, <1>4, <1>6, <1>9, <1>11, <1>12, <2>1
<1>15. PICK f : f = PoolSwapped(e, from, to, n, out)
  OBVIOUS
<1>16. /\ Settled(f) /\ SameLp(e, f) /\ f.volume = e.volume /\ f.trades = e.trades
       /\ GrandTotal(f) + LpFee(n) = GrandTotal(p) + Drawn(p, n, out)
  <2>1. CASE HasReserves(p)
    <3>1. PICK x \in Nat : x = e.pool[from] + PoolGain(n)
      BY <1>12, <1>13
    <3>2. PICK y \in Nat : y = e.pool[to] - out
      BY <1>12, <1>13, <2>1
    <3>3. PICK g : g = SetLiquidity(e, from, x)
      OBVIOUS
    <3>4. /\ Settled(g) /\ GrandTotal(g) = GrandTotal(e) + (x - e.pool[from]) /\ SameLp(e, g)
          /\ \A k \in Assets : k # from => g.pool[k] = e.pool[k]
          /\ g.volume = e.volume /\ g.trades = e.trades
      BY <1>11, <3>3, SetLiquiditySound, ZenonT(60)
    <3>5. g.pool[to] = e.pool[to]
      BY <1>12, <1>13, <3>4
    <3>6. f = SetLiquidity(g, to, y)
      BY <1>13, <1>15, <2>1, <3>1, <3>2, <3>3 DEF PoolSwapped
    <3>7. /\ Settled(f) /\ GrandTotal(f) = GrandTotal(g) + (y - g.pool[to]) /\ SameLp(g, f)
          /\ f.volume = g.volume /\ f.trades = g.trades
      BY <3>4, <3>6, SetLiquiditySound, ZenonT(60)
    <3>8. GrandTotal(f) + LpFee(n) = GrandTotal(p)
      <4>1. GrandTotal(e) \in Nat /\ GrandTotal(g) \in Nat /\ e.pool[from] \in Nat /\ e.pool[to] \in Nat
        BY <1>11, <1>12, <1>13, <3>4, PortfolioSums DEF Settled
      <4> QED
        BY <1>12, <1>14, <3>1, <3>2, <3>4, <3>5, <3>7, <4>1
    <3>9. Drawn(p, n, out) = 0
      BY <2>1 DEF Drawn
    <3> QED
      BY <1>12, <3>4, <3>7, <3>8, <3>9 DEF SameLp
  <2>2. CASE ~HasReserves(p)
    <3>1. f = e
      BY <1>13, <1>15, <2>2 DEF PoolSwapped
    <3>2. Drawn(p, n, out) = out - n + LpFee(n)
      BY <2>2 DEF Drawn
    <3> QED
      BY <1>11, <1>12, <1>14, <3>1, <3>2 DEF SameLp
  <2> QED
    BY <2>1, <2>2
<1>17. PICK q : q = AddLpFees(f, LpFee(n))
  OBVIOUS
<1>18. /\ Settled(q) /\ GrandTotal(q) = GrandTotal(f) + LpFee(n) /\ SameLp(f, q)
       /\ q.volume = f.volume /\ q.trades = f.trades
  BY <1>12, <1>16, <1>17, FeesCounted
<1>19. q = PerformSwap(p, from, to, u, n, out)
  BY <1>7, <1>8, <1>10, <1>15, <1>17 DEF PerformSwap
<1> QED
  BY <1>13, <1>16, <1>18, <1>19 DEF SameLp

\* The tier fee and the check of a swap leave the portfolio settled.
LEMMA ChargedSound ==
  ASSUME NEW p, Settled(p), NEW u \in Users, NEW a \in Assets, NEW fee \in Nat,
         fee > 0 => CanDebit(p, a, u, fee)
  PROVE  LET q == IF fee > 0 THEN CollectFee(Debit(p, a, u, fee), fee) ELSE p IN
         /\ Settled(q) /\ GrandTotal(q) = GrandTotal(p) /\ SameLp(p, q)
         /\ q.volume = p.volume /\ q.trades = p.trades
<1>1. CASE fee > 0
  <2>1. PICK d : d = Debit(p, a, u, fee)
    OBVIOUS
  <2>2. /\ Settled(d) /\ GrandTotal(d) = GrandTotal(p) - fee /\ SameLp(p, d)
        /\ d.volume = p.volume /\ d.trades = p.trades
    <3>1. p.balances[u][a] >= fee
      BY <1>1 DEF CanDebit
    <3> QED
      BY <2>1, <3>1, DebitSound
  <2>3. PICK q : q = CollectFee(d, fee)
    OBVIOUS
  <2>4. /\ Settled(q) /\ GrandTotal(q) = GrandTotal(d) + fee /\ SameLp(d, q)
        /\ q.volume = d.volume /\ q.trades = d.trades
    BY <2>2, <2>3, FeesCounted
  <2>5. GrandTotal(p) \in Nat
    BY PortfolioSums DEF Settled
  <2>6. GrandTotal(q) = GrandTotal(p)
    BY <2>2, <2>4, <2>5
  <2> QED
    BY <1>1, <2>1, <2>2, <2>3, <2>4, <2>6 DEF SameLp
<1>2. CASE ~(fee > 0)
  BY <1>2 DEF SameLp
<1> QED
  BY <1>1, <1>2

-----------------------------------------------------------------------------
(* Recursive functions on an interval *)

\* What holds at zero and is kept from one number to the next holds up to the last.
LEMMA StepByStep ==
  ASSUME NEW X, NEW n \in Nat, NEW f, f[0] \in X, \A i \in 1..n : f[i - 1] \in X => f[i] \in X
  PROVE  \A i \in 0..n : f[i] \in X
<1> DEFINE Bad == { i \in 0..n : f[i] \notin X }
<1> SUFFICES ASSUME Bad # {} PROVE FALSE
  OBVIOUS
<1>1. PICK m \in Bad : \A k \in Bad : m <= k
  <2>1. Bad \in SUBSET Nat
    OBVIOUS
  <2> HIDE DEF Bad
  <2> QED
    BY <2>1, LeastMember
<1>2. m \in 0..n /\ f[m] \notin X /\ m # 0
  OBVIOUS
<1>3. m \in 1..n /\ m - 1 \in 0..n /\ ~(m <= m - 1)
  BY <1>2
<1>4. f[m - 1] \in X
  BY <1>1, <1>3
<1> QED
  BY <1>2, <1>3, <1>4

\* Each step stays in X; the function that takes them one by one.
Steps(X, n, step) == \A i \in 1..n : \A x \in X : step[i][x] \in X
Follows(f, X, n, base, step) ==
  f \in [0..n -> X] /\ f[0] = base /\ \A i \in 1..n : f[i] = step[i][f[i - 1]]

\* A function defined by its value at zero and by each step from the one before.
LEMMA StepsDefine ==
  ASSUME NEW X, NEW n \in Nat, NEW base \in X, NEW step,
         Steps(X, n, step)
  PROVE  \E f : Follows(f, X, n, base, step)
<1> DEFINE Upto(m, f) == /\ f \in [0..m -> X] /\ f[0] = base
                         /\ \A i \in 1..m : f[i] = step[i][f[i - 1]]
           Bad == { m \in 0..n : ~ \E f : Upto(m, f) }
<1>1. \E f : Upto(0, f)
  <2> DEFINE f == [i \in 0..0 |-> base]
  <2>1. Upto(0, f)
    OBVIOUS
  <2> QED
    BY <2>1
<1>2. ASSUME NEW m \in 0..n, m + 1 \in 0..n, NEW g, Upto(m, g)
      PROVE  \E f : Upto(m + 1, f)
  <2>1. g[m] \in X /\ m + 1 \in 1..n
    BY <1>2
  <2>2. PICK last \in X : last = step[m + 1][g[m]]
    BY <2>1 DEF Steps
  <2> DEFINE f == [i \in 0..(m + 1) |-> IF i = m + 1 THEN last ELSE g[i]]
  <2>3. f \in [0..(m + 1) -> X] /\ f[0] = base
    BY <1>2
  <2>4. \A i \in 1..(m + 1) : f[i] = step[i][f[i - 1]]
    <3> TAKE i \in 1..(m + 1)
    <3>1. CASE i = m + 1
      <4>1. f[i] = last /\ f[i - 1] = g[m]
        BY <3>1
      <4> HIDE DEF f
      <4> QED
        BY <2>2, <3>1, <4>1
    <3>2. CASE i # m + 1
      <4>1. i \in 1..m /\ f[i] = g[i] /\ f[i - 1] = g[i - 1]
        BY <3>2
      <4> HIDE DEF f
      <4> QED
        BY <1>2, <4>1
    <3> QED
      BY <3>1, <3>2
  <2> HIDE DEF f
  <2> QED
    BY <2>3, <2>4
<1> HIDE DEF Upto
<1>3. \E f : Upto(n, f)
  <2> SUFFICES ASSUME Bad # {} PROVE FALSE
    OBVIOUS
  <2>1. PICK m \in Bad : \A k \in Bad : m <= k
    <3>1. Bad \in SUBSET Nat
      OBVIOUS
    <3> HIDE DEF Bad
    <3> QED
      BY <3>1, LeastMember
  <2>2. m \in 0..n /\ m # 0
    BY <1>1
  <2>3. m - 1 \in 0..n /\ ~(m <= m - 1) /\ (m - 1) + 1 = m
    BY <2>2
  <2>4. m - 1 \notin Bad
    BY <2>1, <2>3
  <2>5. PICK g : Upto(m - 1, g)
    BY <2>3, <2>4
  <2>6. \E f : Upto((m - 1) + 1, f)
    BY <1>2, <2>2, <2>3, <2>5
  <2> QED
    BY <2>3, <2>6
<1> QED
  BY <1>3 DEF Upto, Follows

\* The square root is a natural number.
LEMMA NewtonType ==
  ASSUME NEW n \in Nat \ {0}
  PROVE  Newton(n) \in Nat
<1> DEFINE Guesses == Nat \ {0}
           X == [Guesses -> [Nat -> Guesses]]
           Better(guess) == (guess + n \div guess) \div 2
           Round(r, h) == [guess \in Guesses |-> [last \in Nat |->
             IF r = 0 \/ guess = last THEN guess
             ELSE IF Better(guess) = 0 THEN 1 ELSE h[Better(guess)][guess]]]
           Solves(f) == f = [r \in 0..100 |-> Round(r, f[r - 1])]
           Rounds == CHOOSE f : Solves(f)
           base == [guess \in Guesses |-> [last \in Nat |-> guess]]
           step == [r \in 1..100 |-> [h \in X |-> Round(r, h)]]
<1>1. \A guess \in Guesses : Better(guess) \in Nat
  <2> TAKE guess \in Guesses
  <2>1. n \div guess \in Nat
    BY Quotient
  <2>2. guess + n \div guess \in Nat
    BY <2>1
  <2> QED
    BY <2>2, Quotient
<1> HIDE DEF Better
<1>2. \A h : Round(0, h) = base
  OBVIOUS
<1>3. base \in X
  OBVIOUS
<1>4. ASSUME NEW r \in Int, NEW h \in X PROVE Round(r, h) \in X
  <2>1. \A guess \in Guesses, last \in Nat :
          (IF r = 0 \/ guess = last THEN guess
           ELSE IF Better(guess) = 0 THEN 1 ELSE h[Better(guess)][guess]) \in Guesses
    <3> TAKE guess \in Guesses, last \in Nat
    <3>1. Better(guess) # 0 => h[Better(guess)] \in [Nat -> Guesses]
      BY <1>1, <1>4
    <3>2. Better(guess) # 0 => h[Better(guess)][guess] \in Guesses
      BY <3>1
    <3> QED
      BY <3>2
  <2> QED
    BY <2>1
<1> HIDE DEF Round, base, X
<1>5. \E f : Solves(f)
  <2>1. step \in [1..100 -> [X -> X]]
    BY <1>4
  <2>2. \A r \in 1..100 : \A h \in X : step[r][h] = Round(r, h)
    <3> TAKE r \in 1..100
    <3>1. step[r] = [h \in X |-> Round(r, h)]
      BY ZenonT(60)
    <3> QED
      BY <3>1, Zenon
  <2> HIDE DEF step
  <2>3. PICK f \in [0..100 -> X] : f[0] = base /\ \A r \in 1..100 : f[r] = step[r][f[r - 1]]
    <3>1. PICK m \in Nat : m = 100
      OBVIOUS
    <3>2. Steps(X, m, step)
      BY <2>1, <3>1 DEF Steps
    <3>3. PICK f : Follows(f, X, m, base, step)
      BY <1>3, <3>2, StepsDefine
    <3> QED
      BY <3>1, <3>3 DEF Follows
  <2>4. \A r \in 0..100 : f[r] = Round(r, f[r - 1])
    <3> TAKE r \in 0..100
    <3>1. CASE r = 0
      BY <1>2, <2>3, <3>1, SMTT(40)
    <3>2. CASE r # 0
      <4>1. r \in 1..100 /\ f[r - 1] \in X
        BY <3>2
      <4> QED
        BY <2>2, <2>3, <4>1
    <3> QED
      BY <3>1, <3>2
  <2>5. Solves(f)
    BY <2>3, <2>4
  <2> QED
    BY <2>5
<1>6. Rounds = [r \in 0..100 |-> Round(r, Rounds[r - 1])]
  BY <1>5, ZenonT(60)
<1>7. Newton(n) = Rounds[100][n][0]
  BY DEF Newton, Round, Better
<1> HIDE DEF Rounds
<1>8. \A r \in 0..100 : Rounds[r] \in X
  <2>1. Rounds[0] \in X
    BY <1>2, <1>3, <1>6
  <2>2. \A r \in 1..100 : Rounds[r - 1] \in X => Rounds[r] \in X
    BY <1>4, <1>6
  <2> QED
    BY <2>1, <2>2, StepByStep
<1>9. Rounds[100] \in X
  BY <1>8
<1>10. Rounds[100][n][0] \in Guesses
  BY <1>9, ZenonT(60) DEF X
<1> QED
  BY <1>7, <1>10

-----------------------------------------------------------------------------
(* Liquidity *)

\* Minting no more tokens than the part deposited keeps the reserve per token.
LEMMA DepositKeepsValue ==
  ASSUME NEW r \in Nat \ {0}, NEW t \in Nat, NEW x \in Nat, NEW k \in Nat, k <= (x * t) \div r
  PROVE  r * (t + k) <= (r + x) * t
<1>1. x * t \in Nat
  OBVIOUS
<1>2. PICK f \in Nat : f = (x * t) \div r /\ f * r <= x * t
  BY <1>1, Quotient
<1>3. k * r <= f * r /\ k * r \in Nat /\ f * r \in Nat
  BY <1>2, Products
<1>4. r * (t + k) = r * t + k * r /\ (r + x) * t = r * t + x * t /\ r * t \in Nat
  OBVIOUS
<1> QED
  BY <1>1, <1>2, <1>3, <1>4

\* Paying out the part of the tokens burnt keeps the reserve per token.
LEMMA BurnKeepsValue ==
  ASSUME NEW r \in Nat, NEW t \in Nat \ {0}, NEW n \in Nat, n <= t
  PROVE  LET out == (n * r) \div t IN
         out \in Nat /\ out <= r /\ r * (t - n) <= (r - out) * t
<1>1. n * r \in Nat /\ t * r \in Nat /\ r * t = t * r /\ t - n \in Nat
  OBVIOUS
<1>2. PICK f \in Nat : f = (n * r) \div t /\ f * t <= n * r
  BY <1>1, Quotient
<1>3. n * r <= t * r /\ f * t \in Nat
  BY <1>2, Products
<1>4. f <= r
  <2>1. f * t <= r * t
    BY <1>1, <1>2, <1>3
  <2> QED
    BY <1>2, <2>1, Products
<1>5. r * (t - n) = r * t - n * r /\ (r - f) * t = r * t - f * t
  BY <1>1, <1>2
<1>6. r * (t - n) <= (r - f) * t
  BY <1>1, <1>2, <1>3, <1>5
<1> QED
  BY <1>2, <1>4, <1>6

\* The tokens minted for a deposit do not lower what the pool holds per token.
LEMMA LpTokensMintedSound ==
  ASSUME NEW p \in Portfolios, NEW x \in Nat \ {0}, NEW y \in Nat \ {0}
  PROVE  LET k == LpTokensMinted(p, x, y) IN
         /\ k \in Nat
         /\ p.lpTokens > 0 /\ k > 0 =>
              /\ p.pool["XLM"] * (p.lpTokens + k) <= (p.pool["XLM"] + x) * p.lpTokens
              /\ p.pool["USDCSIM"] * (p.lpTokens + k) <= (p.pool["USDCSIM"] + y) * p.lpTokens
<1>1. p.lpTokens \in Nat /\ p.pool["XLM"] \in Nat /\ p.pool["USDCSIM"] \in Nat
  BY DEF Portfolios, Assets
<1>2. CASE p.lpTokens = 0
  <2>1. x * y \in Nat \ {0}
    OBVIOUS
  <2>2. Newton(x * y) \in Nat
    BY <2>1, NewtonType
  <2> QED
    BY <1>2, <2>2 DEF LpTokensMinted
<1>3. CASE p.lpTokens # 0
  <2> DEFINE Part(amount, reserve) == IF reserve > 0 THEN (amount * p.lpTokens) \div reserve ELSE 0
  <2>1. \A amount \in Nat, reserve \in Nat : Part(amount, reserve) \in Nat
    <3> TAKE amount \in Nat, reserve \in Nat
    <3>1. amount * p.lpTokens \in Nat
      BY <1>1
    <3> QED
      BY <3>1, Quotient
  <2>2. PICK i \in Nat, j \in Nat : i = Part(x, p.pool["XLM"]) /\ j = Part(y, p.pool["USDCSIM"])
    BY <1>1, <2>1
  <2>3. PICK k \in Nat : k = IF i < j THEN i ELSE j
    OBVIOUS
  <2>4. LpTokensMinted(p, x, y) = k
    BY <1>3, <2>2, <2>3 DEF LpTokensMinted
  <2>5. k <= i /\ k <= j
    BY <2>3
  <2>6. ASSUME k > 0
        PROVE  /\ p.pool["XLM"] \in Nat \ {0} /\ i = (x * p.lpTokens) \div p.pool["XLM"]
               /\ p.pool["USDCSIM"] \in Nat \ {0} /\ j = (y * p.lpTokens) \div p.pool["USDCSIM"]
    BY <1>1, <2>2, <2>5, <2>6
  <2> HIDE DEF Part
  <2>7. ASSUME k > 0
        PROVE  /\ p.pool["XLM"] * (p.lpTokens + k) <= (p.pool["XLM"] + x) * p.lpTokens
               /\ p.pool["USDCSIM"] * (p.lpTokens + k) <= (p.pool["USDCSIM"] + y) * p.lpTokens
    BY <1>1, <2>5, <2>6, <2>7, DepositKeepsValue
  <2> QED
    BY <2>4, <2>7
<1> QED
  BY <1>2, <1>3, SMTT(40)

\* A deposit, but for the tokens minted for it.
Pooled(p, u, x, y) ==
  [AddPoolLiquidity(Debit(Debit(p, "XLM", u, x), "USDCSIM", u, y), x, y) EXCEPT
     !.positions[u].deposited["XLM"] = @ + x, !.positions[u].deposited["USDCSIM"] = @ + y]

\* The books stay, the pool grows.
LEMMA PooledSound ==
  ASSUME NEW p, Settled(p), NEW u \in Users, NEW x \in Nat, NEW y \in Nat,
         CanDebit(p, "XLM", u, x), CanDebit(p, "USDCSIM", u, y)
  PROVE  LET q == Pooled(p, u, x, y) IN
         /\ Settled(q) /\ GrandTotal(q) = GrandTotal(p) /\ q.lpTokens = p.lpTokens
         /\ q.volume = p.volume /\ q.trades = p.trades
         /\ q.pool["XLM"] = p.pool["XLM"] + x /\ q.pool["USDCSIM"] = p.pool["USDCSIM"] + y
         /\ \A v \in Users : q.positions[v].tokens = p.positions[v].tokens
<1>1. "XLM" \in Assets /\ "USDCSIM" \in Assets /\ "XLM" # "USDCSIM"
  BY DEF Assets
<1>2. PICK a : a = Debit(p, "XLM", u, x)
  OBVIOUS
<1>3. p.balances[u]["XLM"] >= x
  BY DEF CanDebit
<1>4. /\ Settled(a) /\ GrandTotal(a) = GrandTotal(p) - x /\ SameLp(p, a)
      /\ \A b \in Assets : b # "XLM" => a.balances[u][b] = p.balances[u][b]
      /\ a.trades = p.trades /\ a.volume = p.volume /\ a.pool = p.pool
  BY <1>1, <1>2, <1>3, DebitSound
<1>5. a.balances[u]["USDCSIM"] >= y
  BY <1>1, <1>4 DEF CanDebit
<1>6. PICK b : b = Debit(a, "USDCSIM", u, y)
  OBVIOUS
<1>7. /\ Settled(b) /\ GrandTotal(b) = GrandTotal(a) - y /\ SameLp(a, b)
      /\ b.trades = a.trades /\ b.volume = a.volume /\ b.pool = a.pool
  BY <1>1, <1>4, <1>5, <1>6, DebitSound
<1>8. PICK c : c = AddPoolLiquidity(b, x, y)
  OBVIOUS
<1>9. /\ Settled(c) /\ GrandTotal(c) = GrandTotal(b) + x + y /\ SameLp(b, c)
      /\ c.pool["XLM"] = b.pool["XLM"] + x /\ c.pool["USDCSIM"] = b.pool["USDCSIM"] + y
      /\ c.volume = b.volume /\ c.trades = b.trades
  BY <1>7, <1>8, AddPoolLiquiditySound, SMTT(40)
<1>10. c.positions \in [Users -> LPPosition]
  BY <1>9 DEF Settled, Portfolios
<1>11. c.positions[u].deposited \in [Assets -> Int]
  BY <1>10 DEF LPPosition
<1>12. PICK d : d = [c.positions[u].deposited EXCEPT !["XLM"] = @ + x, !["USDCSIM"] = @ + y]
  OBVIOUS
<1>13. d \in [Assets -> Int]
  BY <1>1, <1>11, <1>12
<1>14. PICK q : q = [c EXCEPT !.positions[u].deposited = d]
  OBVIOUS
<1>15. /\ Settled(q) /\ GrandTotal(q) = GrandTotal(c) /\ q.lpTokens = c.lpTokens
       /\ q.volume = c.volume /\ q.trades = c.trades /\ q.pool = c.pool
       /\ \A v \in Users : q.positions[v].tokens = c.positions[v].tokens
  BY <1>9, <1>13, <1>14, DepositedSound
<1>16. q = Pooled(p, u, x, y)
  <2>1. q = [c EXCEPT !.positions[u].deposited["XLM"] = @ + x, !.positions[u].deposited["USDCSIM"] = @ + y]
    <3>1. c \in Portfolios
      BY <1>9 DEF Settled
    <3> QED
      BY <1>1, <1>10, <1>11, <1>12, <1>14, <3>1, ZenonT(60) DEF Portfolios, LPPosition
  <2> QED
    BY <1>2, <1>6, <1>8, <2>1 DEF Pooled
<1>17. GrandTotal(q) = GrandTotal(p)
  <2>1. GrandTotal(p) \in Nat /\ GrandTotal(a) \in Nat /\ GrandTotal(b) \in Nat
    BY <1>4, <1>7, PortfolioSums DEF Settled
  <2> QED
    BY <1>4, <1>7, <1>9, <1>15, <2>1
<1>18. /\ q.lpTokens = p.lpTokens /\ q.volume = p.volume /\ q.trades = p.trades
       /\ q.pool["XLM"] = p.pool["XLM"] + x /\ q.pool["USDCSIM"] = p.pool["USDCSIM"] + y
       /\ \A v \in Users : q.positions[v].tokens = p.positions[v].tokens
  BY <1>4, <1>7, <1>9, <1>15, SMTT(40) DEF SameLp
<1> QED
  BY <1>15, <1>16, <1>17, <1>18

\* The parts a withdrawal pays out, of a pool and all the tokens beside it.
Drained(p, n) == [a \in Assets |-> p.pool[a] - (n * p.pool[a]) \div p.lpTokens]

\* A withdrawal, before its tokens are burnt: what leaves the pool is minted.
LEMMA DrainedSound ==
  ASSUME NEW p, Settled(p), NEW u \in Users, NEW n \in Nat, 0 < n, n <= p.positions[u].tokens
  PROVE  LET Part(a) == (n * p.pool[a]) \div p.lpTokens
             q == Mint(Mint([p EXCEPT !.pool = Drained(p, n)], "XLM", u, Part("XLM")),
                       "USDCSIM", u, Part("USDCSIM")) IN
         /\ Settled(q) /\ GrandTotal(q) = GrandTotal(p) /\ SameLp(p, q)
         /\ q.volume = p.volume /\ q.trades = p.trades /\ q.pool = Drained(p, n)
         /\ p.lpTokens - n \in Nat
         /\ \A a \in Assets : p.pool[a] * (p.lpTokens - n) <= q.pool[a] * p.lpTokens
<1>1. "XLM" \in Assets /\ "USDCSIM" \in Assets /\ "XLM" # "USDCSIM"
      /\ \A a \in Assets : a = "XLM" \/ a = "USDCSIM"
  BY DEF Assets
<1>2. /\ p \in Portfolios /\ p.pool \in [Assets -> Nat] /\ p.lpTokens \in Nat
      /\ p.fees \in Nat /\ p.lpFees \in Nat
  BY DEF Settled, Portfolios
<1>3. n <= p.lpTokens /\ p.lpTokens \in Nat \ {0} /\ p.lpTokens - n \in Nat
  <2>1. Tokens(p) \in [Users -> Nat] /\ Tokens(p)[u] = p.positions[u].tokens /\ IsFiniteSet(Users)
    BY <1>2, PortfolioSums, PortfolioAssumption DEF Tokens
  <2>2. Tokens(p)[u] <= Supply(Tokens(p)) /\ Tokens(p)[u] \in Nat
    BY <2>1, BalanceAtMostSupply
  <2> QED
    BY <1>2, <2>1, <2>2 DEF Settled
<1>4. \A a \in Assets : /\ (n * p.pool[a]) \div p.lpTokens \in Nat
                        /\ (n * p.pool[a]) \div p.lpTokens <= p.pool[a]
                        /\ p.pool[a] * (p.lpTokens - n)
                             <= (p.pool[a] - (n * p.pool[a]) \div p.lpTokens) * p.lpTokens
  BY <1>2, <1>3, BurnKeepsValue
<1>5. PICK x \in Nat, y \in Nat : x = (n * p.pool["XLM"]) \div p.lpTokens
                                  /\ y = (n * p.pool["USDCSIM"]) \div p.lpTokens
  BY <1>1, <1>4
<1>6. PICK pool : pool = Drained(p, n)
  OBVIOUS
<1>7. /\ pool \in [Assets -> Nat]
      /\ pool["XLM"] = p.pool["XLM"] - x /\ pool["USDCSIM"] = p.pool["USDCSIM"] - y
      /\ \A a \in Assets : p.pool[a] * (p.lpTokens - n) <= pool[a] * p.lpTokens
  <2>1. \A a \in Assets : pool[a] = p.pool[a] - (n * p.pool[a]) \div p.lpTokens
    BY <1>6 DEF Drained
  <2>2. \A a \in Assets : p.pool[a] - (n * p.pool[a]) \div p.lpTokens \in Nat
    <3> TAKE a \in Assets
    <3>1. PICK k \in Nat : k = (n * p.pool[a]) \div p.lpTokens /\ k <= p.pool[a]
      BY <1>4
    <3> QED
      BY <1>2, <3>1
  <2>3. pool \in [Assets -> Nat]
    BY <1>6, <2>2 DEF Drained
  <2> QED
    BY <1>1, <1>4, <1>5, <2>1, <2>3
<1>8. PICK a : a = [p EXCEPT !.pool = pool]
  OBVIOUS
<1>9. /\ a \in Portfolios /\ a.pool = pool
      /\ a.volume = p.volume /\ a.trades = p.trades
      /\ a.balances = p.balances /\ a.pnl = p.pnl
      /\ a.top = p.top /\ a.positions = p.positions /\ a.lpTokens = p.lpTokens
      /\ a.fees = p.fees /\ a.lpFees = p.lpFees
  BY <1>2, <1>7, <1>8 DEF Portfolios
<1>10. /\ Settled(a) /\ SameLp(p, a) /\ GrandTotal(p) \in Nat
       /\ GrandTotal(a) = GrandTotal(p) + (pool["XLM"] - p.pool["XLM"])
            + (pool["USDCSIM"] - p.pool["USDCSIM"]) + (p.fees - p.fees) + (p.lpFees - p.lpFees)
  BY <1>9, UnmovedSound
<1>11. PICK b : b = Mint(a, "XLM", u, x)
  OBVIOUS
<1>12. /\ Settled(b) /\ GrandTotal(b) = GrandTotal(a) + x /\ SameLp(a, b)
       /\ b.trades = a.trades /\ b.volume = a.volume /\ b.pool = a.pool
  BY <1>1, <1>10, <1>11, MintSound, ZenonT(60)
<1>13. PICK q : q = Mint(b, "USDCSIM", u, y)
  OBVIOUS
<1>14. /\ Settled(q) /\ GrandTotal(q) = GrandTotal(b) + y /\ SameLp(b, q)
       /\ q.trades = b.trades /\ q.volume = b.volume /\ q.pool = b.pool
  BY <1>1, <1>12, <1>13, MintSound, SMTT(40)
<1>15. GrandTotal(q) = GrandTotal(p)
  <2>1. p.pool["XLM"] \in Nat /\ p.pool["USDCSIM"] \in Nat
    BY <1>1, <1>2
  <2>2. /\ pool["XLM"] - p.pool["XLM"] = -x /\ pool["USDCSIM"] - p.pool["USDCSIM"] = -y
        /\ p.fees - p.fees = 0 /\ p.lpFees - p.lpFees = 0
    BY <1>2, <1>7, <2>1
  <2>3. GrandTotal(a) = GrandTotal(p) - x - y
    BY <1>10, <2>2
  <2> QED
    BY <1>10, <1>12, <1>14, <2>3
<1>16. q = Mint(Mint([p EXCEPT !.pool = Drained(p, n)], "XLM", u, (n * p.pool["XLM"]) \div p.lpTokens),
                "USDCSIM", u, (n * p.pool["USDCSIM"]) \div p.lpTokens)
  BY <1>5, <1>6, <1>8, <1>11, <1>13
<1>17. SameLp(p, q) /\ q.volume = p.volume /\ q.trades = p.trades /\ q.pool = Drained(p, n)
  BY <1>6, <1>9, <1>10, <1>12, <1>14 DEF SameLp
<1> QED
  BY <1>3, <1>6, <1>7, <1>14, <1>15, <1>16, <1>17

-----------------------------------------------------------------------------
(* Batches *)

Accumulators ==
  [ folio : Portfolios, emergency : Emergency, executed : Nat, drawn : Int,
    failed : BOOLEAN, panicked : BOOLEAN ]

\* What the operations of a batch keep, that began with portfolio p and volume e.
Kept(p, e, acc) ==
  /\ Settled(acc.folio) /\ SameLp(p, acc.folio)
  /\ GrandTotal(acc.folio) = GrandTotal(p) + acc.drawn
  /\ \A u \in Users : acc.folio.trades[u] >= p.trades[u]
  /\ acc.folio.volume >= p.volume
  /\ acc.emergency.volume = e.volume + (acc.folio.volume - p.volume)
  /\ acc.emergency.threshold = e.threshold
  /\ acc.folio.volume > p.volume =>
       (acc.emergency.volume * Bps) \div NormalVolume <= e.threshold

InBatch(p, e) == { acc \in Accumulators : Kept(p, e, acc) }

\* An operation that trades nothing.
LEMMA AppliedKept ==
  ASSUME NEW p \in Portfolios, NEW e \in Emergency, NEW acc \in InBatch(p, e),
         NEW q, Settled(q), NEW d \in Int, GrandTotal(q) = GrandTotal(acc.folio) + d,
         SameLp(acc.folio, q), q.volume = acc.folio.volume, q.trades = acc.folio.trades
  PROVE  Applied(acc, q, d) \in InBatch(p, e)
<1>1. acc \in Accumulators /\ Kept(p, e, acc) /\ q \in Portfolios
  BY DEF InBatch, Settled
<1>2. /\ acc.folio \in Portfolios /\ acc.emergency \in Emergency /\ acc.executed \in Nat
      /\ acc.drawn \in Int /\ acc.failed \in BOOLEAN /\ acc.panicked \in BOOLEAN
  BY <1>1 DEF Accumulators
<1>3. PICK n \in Nat : n = acc.executed + 1
  BY <1>2
<1>4. PICK s \in Int : s = acc.drawn + d
  BY <1>2
<1>5. PICK r : r = Applied(acc, q, d) /\ r = [acc EXCEPT !.folio = q, !.drawn = s, !.executed = n]
  BY <1>1, <1>3, <1>4 DEF Applied, Accumulators
<1>6. r \in Accumulators /\ r.folio = q /\ r.emergency = acc.emergency /\ r.drawn = s
  BY <1>1, <1>5 DEF Accumulators
<1>7. GrandTotal(r.folio) = GrandTotal(p) + r.drawn
  <2>1. GrandTotal(p) \in Nat
    BY PortfolioSums
  <2>2. GrandTotal(acc.folio) = GrandTotal(p) + acc.drawn
    BY <1>1 DEF Kept
  <2> QED
    BY <1>2, <1>4, <1>6, <2>1, <2>2
<1>8. Kept(p, e, r)
  BY <1>1, <1>6, <1>7 DEF Kept, SameLp
<1> QED
  BY <1>5, <1>6, <1>8 DEF InBatch

\* The flags are all that a failure sets.
LEMMA FlagKept ==
  ASSUME NEW p, NEW e, NEW acc \in InBatch(p, e),
         NEW r, r = [acc EXCEPT !.failed = TRUE] \/ r = [acc EXCEPT !.panicked = TRUE]
  PROVE  r \in InBatch(p, e)
<1>1. acc \in Accumulators /\ Kept(p, e, acc)
  BY DEF InBatch
<1>2. r \in Accumulators /\ r.folio = acc.folio /\ r.emergency = acc.emergency /\ r.drawn = acc.drawn
  BY <1>1 DEF Accumulators
<1>3. Kept(p, e, r)
  BY <1>1, <1>2 DEF Kept
<1> QED
  BY <1>2, <1>3 DEF InBatch

\* A swap accepted is a swap the volume of the ledger allows, and is recorded.
LEMMA TradedKept ==
  ASSUME NEW p \in Portfolios, NEW e \in Emergency, NEW acc \in InBatch(p, e),
         NEW n \in Nat, ~WouldTrip(acc.emergency, n),
         NEW q, Settled(q), NEW d \in Int, GrandTotal(q) = GrandTotal(acc.folio) + d,
         SameLp(acc.folio, q), q.volume = acc.folio.volume + n,
         \A u \in Users : q.trades[u] >= acc.folio.trades[u]
  PROVE  [Applied(acc, q, d) EXCEPT !.emergency = RecordVolume(@, n)] \in InBatch(p, e)
<1>1. acc \in Accumulators /\ Kept(p, e, acc) /\ q \in Portfolios
  BY DEF InBatch, Settled
<1>2. /\ acc.folio \in Portfolios /\ acc.emergency \in Emergency /\ acc.executed \in Nat
      /\ acc.drawn \in Int /\ acc.failed \in BOOLEAN /\ acc.panicked \in BOOLEAN
  BY <1>1 DEF Accumulators
<1>3. PICK k \in Nat : k = acc.executed + 1
  BY <1>2
<1>4. PICK s \in Int : s = acc.drawn + d
  BY <1>2
<1>5. PICK v \in Nat : v = acc.emergency.volume + n
  BY <1>2 DEF Emergency
<1>6. PICK f : f = RecordVolume(acc.emergency, n) /\ f = [acc.emergency EXCEPT !.volume = v]
  BY <1>2, <1>5 DEF RecordVolume, Emergency
<1>7. f \in Emergency /\ f.volume = v /\ f.threshold = acc.emergency.threshold
  BY <1>2, <1>6 DEF Emergency
<1>8. PICK r : /\ r = [Applied(acc, q, d) EXCEPT !.emergency = RecordVolume(@, n)]
               /\ r = [acc EXCEPT !.folio = q, !.drawn = s, !.executed = k, !.emergency = f]
  BY <1>1, <1>3, <1>4, <1>6 DEF Applied, Accumulators
<1>9. r \in Accumulators /\ r.folio = q /\ r.emergency = f /\ r.drawn = s
  BY <1>1, <1>7, <1>8 DEF Accumulators
<1>10. GrandTotal(r.folio) = GrandTotal(p) + r.drawn
  <2>1. GrandTotal(p) \in Nat
    BY PortfolioSums
  <2>2. GrandTotal(acc.folio) = GrandTotal(p) + acc.drawn
    BY <1>1 DEF Kept
  <2> QED
    BY <1>2, <1>4, <1>9, <2>1, <2>2
<1>11. \A u \in Users : r.folio.trades[u] >= p.trades[u]
  <2> TAKE u \in Users
  <2>1. p.trades[u] \in Nat /\ acc.folio.trades[u] \in Nat /\ q.trades[u] \in Nat
    BY <1>1, <1>2 DEF Portfolios
  <2>2. acc.folio.trades[u] >= p.trades[u]
    BY <1>1 DEF Kept
  <2> QED
    BY <1>9, <2>1, <2>2
<1>12. /\ r.folio.volume >= p.volume
       /\ r.emergency.volume = e.volume + (r.folio.volume - p.volume)
       /\ r.emergency.threshold = e.threshold
  <2>1. /\ acc.folio.volume >= p.volume
        /\ acc.emergency.volume = e.volume + (acc.folio.volume - p.volume)
        /\ acc.emergency.threshold = e.threshold
    BY <1>1 DEF Kept
  <2>2. p.volume \in Nat /\ acc.folio.volume \in Nat /\ e.volume \in Nat
    BY <1>2 DEF Portfolios, Emergency
  <2> QED
    BY <1>5, <1>7, <1>9, <2>1, <2>2
<1>13. (r.emergency.volume * Bps) \div NormalVolume <= e.threshold
  <2>1. v * Bps \in Nat /\ NormalVolume \in Nat \ {0}
    BY TradingAssumption
  <2>2. PICK z \in Nat : z = (v * Bps) \div NormalVolume
    BY <2>1, Quotient
  <2>3. e.threshold \in Nat /\ acc.emergency.threshold = e.threshold
    BY <1>1 DEF Kept, Emergency
  <2>4. ~(z > e.threshold)
    BY <1>5, <2>2, <2>3 DEF WouldTrip
  <2> QED
    BY <1>7, <1>9, <2>2, <2>3, <2>4
<1>14. Settled(r.folio) /\ SameLp(p, r.folio)
  BY <1>1, <1>9 DEF Kept, SameLp
<1>15. Kept(p, e, r)
  BY <1>10, <1>11, <1>12, <1>13, <1>14 DEF Kept
<1> QED
  BY <1>8, <1>9, <1>15 DEF InBatch

LEMMA BatchSwapKept ==
  ASSUME NEW p \in Portfolios, NEW e \in Emergency, NEW acc \in InBatch(p, e),
         NEW op \in BatchOperations, NEW price \in Nat
  PROVE  BatchSwap(acc, op, price) \in InBatch(p, e)
<1>1. Settled(acc.folio) /\ acc.folio \in Portfolios
  BY DEF InBatch, Kept, Settled
<1>2. PICK f : f = acc.folio
  OBVIOUS
<1>3. PICK u \in Users, from \in Assets, to \in Assets, n \in Nat :
        f = acc.folio /\ u = op.user /\ from = op.from /\ to = op.to /\ n = op.amount
  <2>1. op.user \in Users /\ op.from \in Assets /\ op.to \in Assets /\ op.amount \in Nat
    BY DEF BatchOperations
  <2> QED
    BY <1>2, <2>1
<1>4. PICK out : out = SwapOutput(f, from, to, n, price)
  OBVIOUS
<1>5. out \in Nat /\ (HasReserves(f) => out <= f.pool[to])
  BY <1>1, <1>3, <1>4, SwapOutputBounds
<1>6. CASE f.balances[u][from] < n
  <2>1. BatchSwap(acc, op, price) = [acc EXCEPT !.failed = TRUE]
    BY <1>3, <1>6 DEF BatchSwap
  <2> QED
    BY <2>1, FlagKept
<1>7. CASE /\ ~(f.balances[u][from] < n)
           /\ ~SwapAccepted(f, acc.emergency, from, to, u, n, price)
  <2>1. BatchSwap(acc, op, price) = [acc EXCEPT !.panicked = TRUE]
    BY <1>3, <1>7 DEF BatchSwap
  <2> QED
    BY <2>1, FlagKept
<1>8. CASE /\ ~(f.balances[u][from] < n)
           /\ SwapAccepted(f, acc.emergency, from, to, u, n, price)
  <2>1. /\ from # to /\ ~WouldTrip(acc.emergency, n)
        /\ CanDebit(f, from, u, n) /\ CanDebit(TransferAsset(f, from, to, u, n), from, u, n)
    BY <1>8 DEF SwapAccepted
  <2>2. PICK g : g = PerformSwap(f, from, to, u, n, out)
    OBVIOUS
  <2>3. PICK d : d = Drawn(f, n, out)
    OBVIOUS
  <2>4. d \in Int
    BY <1>5, <2>3, LpFeeBounds DEF Drawn
  <2>5. /\ Settled(g) /\ GrandTotal(g) = GrandTotal(f) + d /\ SameLp(f, g)
        /\ g.volume = f.volume + n /\ g.trades = f.trades
    BY <1>1, <1>3, <1>5, <2>1, <2>2, <2>3, PerformSwapSound
  <2>6. PICK q : q = RecordTrade(g, u)
    OBVIOUS
  <2>7. /\ Settled(q) /\ GrandTotal(q) = GrandTotal(g) /\ SameLp(g, q) /\ q.volume = g.volume
        /\ \A v \in Users : q.trades[v] >= g.trades[v]
    BY <2>5, <2>6, RecordTradeSound
  <2>8. /\ GrandTotal(q) = GrandTotal(f) + d /\ SameLp(f, q) /\ q.volume = f.volume + n
        /\ \A v \in Users : q.trades[v] >= f.trades[v]
    BY <2>5, <2>7 DEF SameLp
  <2>9. [Applied(acc, q, d) EXCEPT !.emergency = RecordVolume(@, n)] \in InBatch(p, e)
    BY <1>3, <2>1, <2>4, <2>7, <2>8, TradedKept
  <2>10. BatchSwap(acc, op, price) = [Applied(acc, q, d) EXCEPT !.emergency = RecordVolume(@, n)]
    BY <1>3, <1>4, <1>8, <2>2, <2>3, <2>6 DEF BatchSwap
  <2> QED
    BY <2>9, <2>10
<1> QED
  BY <1>6, <1>7, <1>8

\* Every operation keeps what a batch keeps.
LEMMA BatchOperationKept ==
  ASSUME NEW p \in Portfolios, NEW e \in Emergency, NEW acc \in InBatch(p, e),
         NEW op \in BatchOperations, NEW price \in Nat
  PROVE  BatchOperation(acc, op, price) \in InBatch(p, e)
<1>1. Settled(acc.folio) /\ acc.folio \in Portfolios
  BY DEF InBatch, Kept, Settled
<1>2. PICK f : f = acc.folio
  OBVIOUS
<1>3. PICK u \in Users, from \in Assets, n \in Nat :
        f = acc.folio /\ u = op.user /\ from = op.from /\ n = op.amount
  <2>1. op.user \in Users /\ op.from \in Assets /\ op.amount \in Nat
    BY DEF BatchOperations
  <2> QED
    BY <1>2, <2>1
<1>4. /\ Settled(f) /\ GrandTotal(f) \in Nat
      /\ "XLM" \in Assets /\ "USDCSIM" \in Assets /\ 2 * n \in Int
  BY <1>1, <1>3, PortfolioSums DEF Assets
<1> DEFINE funded == f.balances[u]["XLM"] >= n /\ f.balances[u]["USDCSIM"] >= n
<1>5. CASE op.kind = "Swap"
  <2>1. BatchOperation(acc, op, price) = BatchSwap(acc, op, price)
    BY <1>5 DEF BatchOperation
  <2> QED
    BY <2>1, BatchSwapKept
<1>6. CASE op.kind = "AddLiquidity" /\ funded
  <2>1. PICK g : g = AddPoolLiquidity(f, n, n)
    OBVIOUS
  <2>2. /\ Settled(g) /\ GrandTotal(g) = GrandTotal(f) + n + n /\ SameLp(f, g)
        /\ g.volume = f.volume /\ g.trades = f.trades
    BY <1>1, <1>3, <2>1, AddPoolLiquiditySound, SMTT(40)
  <2>3. PICK q : q = RecordLpDeposit(g, u)
    OBVIOUS
  <2>4. /\ Settled(q) /\ GrandTotal(q) = GrandTotal(g) /\ SameLp(g, q)
        /\ q.volume = g.volume /\ q.trades = g.trades
    BY <2>2, <2>3, CountersSound
  <2>5. /\ GrandTotal(q) = GrandTotal(f) + 2 * n /\ SameLp(f, q)
        /\ q.volume = f.volume /\ q.trades = f.trades
    BY <1>4, <2>2, <2>4 DEF SameLp
  <2>6. BatchOperation(acc, op, price) = Applied(acc, q, 2 * n)
    BY <1>3, <1>6, <2>1, <2>3 DEF BatchOperation
  <2> QED
    BY <1>3, <1>4, <2>4, <2>5, <2>6, AppliedKept
<1>7. CASE op.kind = "AddLiquidity" /\ ~funded
  <2>1. BatchOperation(acc, op, price) = [acc EXCEPT !.failed = TRUE]
    BY <1>3, <1>7 DEF BatchOperation
  <2> QED
    BY <2>1, FlagKept
<1>8. CASE op.kind = "RemoveLiquidity"
  <2>1. PICK g : g = Mint(f, "XLM", u, n)
    OBVIOUS
  <2>2. /\ Settled(g) /\ GrandTotal(g) = GrandTotal(f) + n /\ SameLp(f, g)
        /\ g.volume = f.volume /\ g.trades = f.trades
    BY <1>4, <2>1, MintSound, ZenonT(60)
  <2>3. PICK q : q = Mint(g, "USDCSIM", u, n)
    OBVIOUS
  <2>4. /\ Settled(q) /\ GrandTotal(q) = GrandTotal(g) + n /\ SameLp(g, q)
        /\ q.volume = g.volume /\ q.trades = g.trades
    BY <1>4, <2>2, <2>3, MintSound, ZenonT(60)
  <2>5. /\ GrandTotal(q) = GrandTotal(f) + 2 * n /\ SameLp(f, q)
        /\ q.volume = f.volume /\ q.trades = f.trades
    BY <1>4, <2>2, <2>4 DEF SameLp
  <2>6. BatchOperation(acc, op, price) = Applied(acc, q, 2 * n)
    BY <1>3, <1>8, <2>1, <2>3 DEF BatchOperation
  <2> QED
    BY <1>3, <1>4, <2>4, <2>5, <2>6, AppliedKept
<1>9. CASE op.kind = "MintToken"
  <2>1. PICK q : q = Mint(f, from, u, n)
    OBVIOUS
  <2>2. /\ Settled(q) /\ GrandTotal(q) = GrandTotal(f) + n /\ SameLp(f, q)
        /\ q.volume = f.volume /\ q.trades = f.trades
    BY <1>1, <1>3, <2>1, MintSound
  <2>3. BatchOperation(acc, op, price) = Applied(acc, q, n)
    BY <1>3, <1>9, <2>1 DEF BatchOperation
  <2> QED
    BY <1>3, <2>2, <2>3, AppliedKept
<1>10. op.kind \in {"Swap", "AddLiquidity", "RemoveLiquidity", "MintToken"}
  BY DEF BatchOperations
<1> QED
  BY <1>5, <1>6, <1>7, <1>8, <1>9, <1>10

\* A batch run to its end keeps what each of its operations keeps.
LEMMA RunBatchKept ==
  ASSUME Settled(folio), emergency \in Emergency,
         NEW ops \in Seq(BatchOperations), NEW price \in Nat, NEW atomic \in BOOLEAN
  PROVE  RunBatch(ops, price, atomic) \in InBatch(folio, emergency)
<1>1. PICK n \in Nat : n = Len(ops) /\ \A i \in 1..n : ops[i] \in BatchOperations
  OBVIOUS
<1>2. PICK p \in Portfolios, e \in Emergency : p = folio /\ e = emergency
  BY DEF Settled
<1> DEFINE X == InBatch(p, e)
           Step(acc, op) == IF acc.panicked \/ (atomic /\ acc.failed) THEN acc
                            ELSE BatchOperation(acc, op, price)
           Solves(f) == f = [i \in 0..n |-> IF i = 0 THEN Begun ELSE Step(f[i - 1], ops[i])]
           after == CHOOSE f : Solves(f)
           step == [i \in 1..n |-> [acc \in X |-> Step(acc, ops[i])]]
<1>3. Begun \in X
  <2>1. /\ Begun.folio = p /\ Begun.emergency = e /\ Begun.drawn = 0 /\ Begun \in Accumulators
    BY <1>2 DEF Begun, Accumulators
  <2>2. GrandTotal(p) \in Nat /\ p.volume \in Nat /\ e.volume \in Nat /\ Settled(p)
        /\ \A u \in Users : p.trades[u] \in Nat
    BY <1>2, PortfolioSums DEF Portfolios, Emergency
  <2>3. Kept(p, e, Begun)
    BY <2>1, <2>2 DEF Kept, SameLp
  <2> QED
    BY <2>1, <2>3 DEF InBatch
<1>4. ASSUME NEW i \in 1..n, NEW acc \in X PROVE Step(acc, ops[i]) \in X
  BY <1>1, <1>4, BatchOperationKept
<1> HIDE DEF Step, X
<1>5. \E f : Solves(f)
  <2>1. Steps(X, n, step)
    BY <1>4 DEF Steps
  <2>2. \A i \in 1..n : \A acc \in X : step[i][acc] = Step(acc, ops[i])
    OBVIOUS
  <2> HIDE DEF step
  <2>3. PICK f : Follows(f, X, n, Begun, step)
    BY <1>3, <2>1, StepsDefine
  <2>4. f \in [0..n -> X] /\ f[0] = Begun /\ \A i \in 1..n : f[i] = step[i][f[i - 1]]
    BY <2>3 DEF Follows
  <2>5. \A i \in 0..n : f[i] = IF i = 0 THEN Begun ELSE Step(f[i - 1], ops[i])
    <3> TAKE i \in 0..n
    <3>1. CASE i = 0
      BY <2>4, <3>1
    <3>2. CASE i # 0
      <4>1. i \in 1..n /\ f[i - 1] \in X
        BY <2>4, <3>2
      <4> QED
        BY <2>2, <2>4, <3>2, <4>1
    <3> QED
      BY <3>1, <3>2
  <2>6. Solves(f)
    BY <2>4, <2>5
  <2> QED
    BY <2>6
<1>6. after = [i \in 0..n |-> IF i = 0 THEN Begun ELSE Step(after[i - 1], ops[i])]
  BY <1>5
<1>7. RunBatch(ops, price, atomic) = after[n]
  BY <1>1 DEF RunBatch, Step
<1> HIDE DEF after
<1>8. after[0] \in X /\ \A i \in 1..n : after[i - 1] \in X => after[i] \in X
  BY <1>3, <1>4, <1>6
<1>9. \A i \in 0..n : after[i] \in X
  BY <1>8, StepByStep
<1> QED
  BY <1>2, <1>7, <1>9 DEF X

-----------------------------------------------------------------------------
(* How the market opens *)

LEMMA NewPortfolioSound ==
  Settled(NewPortfolio) /\ NewPortfolio.volume = 0
<1>1. PICK zero : zero = [ deposited |-> [a \in Assets |-> 0], tokens |-> 0 ]
  OBVIOUS
<1>2. zero \in LPPosition /\ zero.tokens = 0
  BY <1>1 DEF LPPosition
<1>3. PICK q : q = NewPortfolio
  OBVIOUS
<1>4. q =
        [ balances |-> [u \in Users |-> [a \in Assets |-> 0]],
          trades |-> [u \in Users |-> 0], pnl |-> [u \in Users |-> 0],
          badges |-> [u \in Users |-> {}], failed |-> 0,
          totalUsers |-> 0, active |-> {}, volume |-> 0, top |-> <<>>,
          pool |-> [a \in Assets |-> 0], fees |-> 0, lpDeposits |-> [u \in Users |-> 0],
          positions |-> [u \in Users |-> zero], lpTokens |-> 0, lpFees |-> 0 ]
  BY <1>1, <1>3 DEF NewPortfolio
<1>5. /\ q \in Portfolios /\ q.top = <<>> /\ q.positions = [u \in Users |-> zero]
      /\ q.lpTokens = 0 /\ q.volume = 0
  <2>1. <<>> \in Seq(TopEntry)
    OBVIOUS
  <2> QED
    BY <1>2, <1>4, <2>1 DEF Portfolios
<1>6. Tokens(q) = [u \in Users |-> 0]
  BY <1>2, <1>5 DEF Tokens
<1>7. q.lpTokens = Supply(Tokens(q))
  BY <1>5, <1>6, SupplyZero
<1>8. Distinct(q.top) /\ Sorted(q.top) /\ NotUnderstated(q.top, q.pnl)
  <2>1. Len(q.top) = 0
    BY <1>5
  <2> QED
    BY <2>1 DEF Distinct, Sorted, NotUnderstated
<1> QED
  BY <1>3, <1>5, <1>7, <1>8 DEF Settled

\* The market opens settled, with nothing traded.
LEMMA OpeningSound ==
  Settled(Opening) /\ Opening.volume = 0
<1> DEFINE users == SetToSeq(Users)
           X == { p \in Portfolios : Settled(p) /\ p.volume = 0 }
           Solves(f, n) == f = [i \in 0..n |-> IF i = 0 THEN NewPortfolio
                                               ELSE Funded(f[i - 1], users[i])]
<1>1. PICK n \in Nat : n = Len(users) /\ \A i \in 1..n : users[i] \in Users
  <2>1. PICK c \in Nat : c = Cardinality(Users) /\ ExistsBijection(1..c, Users)
    BY PortfolioAssumption, FS_CardinalityType
  <2>2. \E f \in [1..c -> Users] : IsInjective(f)
    BY <2>1 DEF ExistsBijection, Bijection, Injection
  <2>3. users \in [1..c -> Users]
    BY <2>1, <2>2 DEF SetToSeq
  <2> HIDE DEF users
  <2>4. users \in Seq(Users) /\ Len(users) = c
    BY <2>3
  <2> QED
    BY <2>3, <2>4
<1> DEFINE minted == CHOOSE f : Solves(f, n)
           step == [i \in 1..n |-> [p \in X |-> Funded(p, users[i])]]
<1>2. NewPortfolio \in X
  BY NewPortfolioSound DEF Settled
<1>3. ASSUME NEW i \in 1..n, NEW p \in X PROVE Funded(p, users[i]) \in X
  <2>1. PICK u \in Users : u = users[i]
    BY <1>1
  <2>2. Settled(p) /\ p.volume = 0 /\ Funds \in Nat /\ "XLM" \in Assets /\ "USDCSIM" \in Assets
    BY MarketAssumption DEF Assets
  <2>3. PICK g : g = Mint(p, "XLM", u, Funds)
    OBVIOUS
  <2>4. Settled(g) /\ g.volume = 0
    BY <2>2, <2>3, MintSound
  <2>5. PICK q : q = Mint(g, "USDCSIM", u, Funds)
    OBVIOUS
  <2>6. Settled(q) /\ q.volume = 0
    BY <2>2, <2>4, <2>5, MintSound
  <2>7. q = Funded(p, users[i])
    BY <2>1, <2>3, <2>5 DEF Funded
  <2> QED
    BY <2>6, <2>7 DEF Settled
<1> HIDE DEF X
<1>4. \E f : Solves(f, n)
  <2>1. Steps(X, n, step)
    BY <1>3 DEF Steps
  <2>2. \A i \in 1..n : \A p \in X : step[i][p] = Funded(p, users[i])
    OBVIOUS
  <2> HIDE DEF step, users
  <2>3. PICK f : Follows(f, X, n, NewPortfolio, step)
    BY <1>2, <2>1, StepsDefine
  <2>4. f \in [0..n -> X] /\ f[0] = NewPortfolio /\ \A i \in 1..n : f[i] = step[i][f[i - 1]]
    BY <2>3 DEF Follows
  <2>5. \A i \in 0..n : f[i] = IF i = 0 THEN NewPortfolio ELSE Funded(f[i - 1], users[i])
    <3> TAKE i \in 0..n
    <3>1. CASE i = 0
      BY <2>4, <3>1
    <3>2. CASE i # 0
      <4>1. i \in 1..n /\ f[i - 1] \in X
        BY <2>4, <3>2
      <4> QED
        BY <2>2, <2>4, <3>2, <4>1
    <3> QED
      BY <3>1, <3>2
  <2>6. Solves(f, n)
    BY <2>4, <2>5
  <2> QED
    BY <2>6
<1>5. minted = [i \in 0..n |-> IF i = 0 THEN NewPortfolio ELSE Funded(minted[i - 1], users[i])]
  BY <1>4
<1>6. Opening = AddPoolLiquidity(minted[n], Seed, Seed)
  BY <1>1 DEF Opening
<1> HIDE DEF minted, users
<1>7. minted[0] \in X /\ \A i \in 1..n : minted[i - 1] \in X => minted[i] \in X
  BY <1>2, <1>3, <1>5
<1>8. minted[n] \in X
  BY <1>7, StepByStep
<1>9. PICK p : p = minted[n] /\ Settled(p) /\ p.volume = 0
  BY <1>8 DEF X
<1>10. Seed \in Nat
  BY MarketAssumption
<1>11. LET q == AddPoolLiquidity(p, Seed, Seed) IN Settled(q) /\ q.volume = 0
  BY <1>9, <1>10, AddPoolLiquiditySound
<1> QED
  BY <1>6, <1>9, <1>11

-----------------------------------------------------------------------------
(* The inductive invariant, by the parts of the state *)

FolioInv == Settled(folio) /\ GrandTotal(folio) = issued

\* The switches have counted all that was traded since the ledger opened.
VolumeInv ==
  /\ emergency \in Emergency /\ opened \in Nat
  /\ opened <= folio.volume /\ folio.volume - opened <= emergency.volume

CacheInv ==
  /\ cache \in [Users -> [cachedAt : Int, trades : Nat, pnl : Int]]
  /\ topCache \in [cachedAt : Int, traders : Seq(TopEntry)]
  /\ CacheHonest

\* The counter of the current day is what its user did, and nothing is counted ahead.
LimitsInv ==
  /\ now \in Times /\ hourly \in CachedWindowBoundary /\ daily \in CachedWindowBoundary
  /\ swapCount \in [Users -> [Times -> Nat]] /\ lpCount \in [Users -> [Times -> Nat]]
  /\ lpToday \in [Users -> Nat]
  /\ IsValid(daily, now) => daily = Window(now, Day)
  /\ \A u \in Users : /\ lpCount[u][Window(now, Day).start] = lpToday[u]
                      /\ \A t \in Times : t > now => lpCount[u][t] = 0

RestInv ==
  /\ ttl \in Nat /\ lastClaim \in [Users -> [Assets -> Nat]]
  /\ calls \in Nat /\ swapsThisHour \in [Users -> Nat]

MarketInv == FolioInv /\ VolumeInv /\ CacheInv /\ LimitsInv /\ RestInv

\* What a step may not do, property by property.
KeepsValue ==
  folio.lpTokens > 0 /\ folio'.lpTokens # folio.lpTokens =>
    \A a \in Assets : folio.pool[a] * folio'.lpTokens <= folio'.pool[a] * folio.lpTokens
KeepsCap ==
  folio'.volume > folio.volume =>
    ((folio'.volume - opened) * Bps) \div NormalVolume <= emergency.threshold
KeepsDaily ==
  \A u \in Users : folio'.positions[u].tokens > folio.positions[u].tokens =>
    LET limit == LpOpsPerDay[GetUserTier(folio, u)] IN limit = Unlimited \/ lpToday[u] < limit

\* The invariant implies what the run checks.
LEMMA MarketInvSound ==
  MarketInv => PortfolioSound /\ CacheHonest
<1> SUFFICES ASSUME MarketInv PROVE PortfolioSound /\ CacheHonest
  OBVIOUS
<1>1. Settled(folio) /\ folio \in Portfolios /\ GrandTotal(folio) = issued
  BY DEF MarketInv, FolioInv, Settled
<1>2. GrandTotal(folio) \in Nat /\ SumFunction(Tokens(folio)) = Supply(Tokens(folio))
  BY <1>1, PortfolioSums
<1>3. TypeOK
  BY <1>1, <1>2 DEF MarketInv, VolumeInv, CacheInv, LimitsInv, RestInv, TypeOK
<1>4. LpTokensAccounted
  BY <1>1, <1>2 DEF LpTokensAccounted, Settled, Tokens
<1>5. LeaderboardSound
  BY <1>1 DEF LeaderboardSound, Settled, Distinct, Sorted, NotUnderstated
<1>6. BooksBalance
  BY <1>1 DEF BooksBalance
<1> QED
  BY <1>3, <1>4, <1>5, <1>6 DEF PortfolioSound, MarketInv, CacheInv

-----------------------------------------------------------------------------
(* Windows of the rate limit *)

LEMMA WindowBounds ==
  ASSUME NEW t \in Nat, NEW d \in Nat \ {0}
  PROVE  LET w == Window(t, d) IN
         w.start \in Nat /\ w.start <= t /\ w.expires = w.start + d /\ t < w.expires
<1>1. PICK k \in Nat : k = t \div d /\ k * d <= t /\ t < k * d + d
  BY Quotient
<1>2. k * d \in Nat
  OBVIOUS
<1> QED
  BY <1>1, <1>2 DEF Window

\* The window of the next second is the same, or starts then.
LEMMA WindowNext ==
  ASSUME NEW t \in Nat, NEW d \in Nat \ {0}
  PROVE  IF (t + 1) % d = 0
         THEN Window(t + 1, d).start = t + 1 /\ Window(t, d).expires = t + 1
         ELSE Window(t + 1, d) = Window(t, d)
<1>1. PICK k \in Nat : k = t \div d /\ k * d <= t /\ t < k * d + d
  BY Quotient
<1>2. PICK j \in Nat : j = (t + 1) \div d /\ j * d <= t + 1 /\ t + 1 < j * d + d
  <2>1. t + 1 \in Nat
    OBVIOUS
  <2> QED
    BY <2>1, Quotient
<1>3. (t + 1) % d = (t + 1) - j * d
  BY <1>2
<1>4. k * d \in Nat /\ j * d \in Nat /\ (k + 1) * d = k * d + d /\ (j + 1) * d = j * d + d
  OBVIOUS
<1>5. k <= j
  <2> SUFFICES ASSUME j + 1 <= k PROVE FALSE
    BY <1>1, <1>2
  <2>1. (j + 1) * d <= k * d
    BY Products
  <2> QED
    BY <1>1, <1>2, <1>4, <2>1
<1>6. CASE t + 1 = j * d
  <2>1. k < j
    <3> SUFFICES ASSUME k = j PROVE FALSE
      BY <1>5
    <3> QED
      BY <1>1, <1>6
  <2>2. (k + 1) * d <= j * d
    BY <2>1, Products
  <2>3. k * d + d = t + 1
    BY <1>1, <1>4, <1>6, <2>2
  <2>4. (t + 1) % d = 0
    BY <1>3, <1>6
  <2> QED
    BY <1>1, <1>2, <1>6, <2>3, <2>4 DEF Window
<1>7. CASE t + 1 # j * d
  <2>1. j * d <= t
    BY <1>2, <1>4, <1>7
  <2>2. j <= k
    <3> SUFFICES ASSUME k + 1 <= j PROVE FALSE
      BY <1>1, <1>2
    <3>1. (k + 1) * d <= j * d
      BY Products
    <3> QED
      BY <1>1, <1>4, <2>1, <3>1
  <2>3. j = k
    BY <1>5, <2>2
  <2>4. (t + 1) % d # 0
    BY <1>3, <1>4, <1>7
  <2> QED
    BY <1>1, <1>2, <2>3, <2>4 DEF Window
<1> QED
  BY <1>6, <1>7

-----------------------------------------------------------------------------
(* Steps *)

Moves == KeepsValue /\ KeepsCap /\ KeepsDaily

\* A step that trades nothing and moves no LP token.
LEMMA HarmlessStep ==
  ASSUME MarketInv, Settled(folio'), GrandTotal(folio') = issued', SameLp(folio, folio'),
         folio'.volume = folio.volume, opened' = opened,
         emergency' \in Emergency, emergency'.volume = emergency.volume
  PROVE  FolioInv' /\ VolumeInv' /\ Moves
<1>1. folio \in Portfolios /\ folio' \in Portfolios /\ VolumeInv
  BY DEF MarketInv, FolioInv, Settled
<1>2. /\ folio.volume \in Nat /\ folio.lpTokens \in Nat
      /\ \A u \in Users : folio.positions[u].tokens \in Nat
  BY <1>1 DEF Portfolios, LPPosition
<1>3. FolioInv'
  BY DEF FolioInv, Settled, Tokens, Distinct, Sorted, NotUnderstated, GrandTotal
<1>4. VolumeInv'
  BY <1>1 DEF VolumeInv
<1>5. KeepsValue
  BY DEF KeepsValue, SameLp
<1>6. KeepsCap
  BY <1>2 DEF KeepsCap
<1>7. KeepsDaily
  BY <1>2 DEF KeepsDaily, SameLp
<1> QED
  BY <1>3, <1>4, <1>5, <1>6, <1>7 DEF Moves

\* The cache after a save, and after a step that changes no portfolio it holds.
LEMMA SavedCache ==
  ASSUME CacheInv, NEW p, Saved(p)
  PROVE  CacheInv'
<1>1. cache' = [u \in Users |-> NoEntry] /\ topCache' = NoTop
  BY DEF Saved, InvalidateQueryCache
<1>2. NoEntry \in [cachedAt : Int, trades : Nat, pnl : Int]
      /\ NoTop \in [cachedAt : Int, traders : Seq(TopEntry)]
  BY DEF NoEntry, NoTop
<1>3. CacheHonest'
  BY <1>1 DEF CacheHonest
<1> QED
  BY <1>1, <1>2, <1>3 DEF CacheInv

LEMMA SameCache ==
  ASSUME CacheInv, folio \in Portfolios, folio' \in Portfolios, UNCHANGED <<cache, topCache>>,
         \A u \in Users : folio'.trades[u] = folio.trades[u] /\ folio'.pnl[u] >= folio.pnl[u]
  PROVE  CacheInv'
<1>1. \A u \in Users : /\ folio.pnl[u] \in Int /\ folio'.pnl[u] \in Int
                       /\ cache[u] \in [cachedAt : Int, trades : Nat, pnl : Int]
  BY DEF CacheInv, Portfolios
<1>2. \A u \in Users : cache[u].pnl \in Int
  BY <1>1
<1>3. CacheHonest'
  BY <1>1, <1>2, SMTT(40) DEF CacheHonest, CacheInv
<1> QED
  BY <1>3 DEF CacheInv

LEMMA SameLimits ==
  ASSUME LimitsInv, UNCHANGED <<now, daily, lpCount, lpToday>>,
         hourly' \in CachedWindowBoundary, swapCount' \in [Users -> [Times -> Nat]]
  PROVE  LimitsInv'
BY DEF LimitsInv

\* The window of the hour is one the counters have.
LEMMA WindowsTyped ==
  ASSUME LimitsInv
  PROVE  /\ HourNow \in CachedWindowBoundary /\ DayNow = Window(now, Day)
         /\ DayNow \in CachedWindowBoundary
<1>1. now \in Nat /\ now \in Times /\ LastSecond \in Nat /\ Hour \in Nat \ {0} /\ Day \in Nat \ {0}
  BY RateLimitAssumption DEF LimitsInv, Times
<1>2. \A d \in Nat \ {0} : Window(now, d) \in CachedWindowBoundary
  <2> TAKE d \in Nat \ {0}
  <2>1. PICK s \in Nat, x \in Nat : Window(now, d) = [start |-> s, expires |-> x] /\ s <= now
    <3>1. PICK s : s = (now \div d) * d
      OBVIOUS
    <3>2. Window(now, d) = [start |-> s, expires |-> s + d]
      BY <3>1 DEF Window
    <3>3. s \in Nat /\ s <= now
      BY <1>1, <3>2, WindowBounds
    <3> QED
      BY <3>2, <3>3
  <2>2. s \in Times
    BY <1>1, <2>1 DEF Times
  <2> QED
    BY <2>1, <2>2 DEF CachedWindowBoundary
<1>3. HourNow \in CachedWindowBoundary
  BY <1>1, <1>2 DEF HourNow, Cached, LimitsInv
<1>4. DayNow = Window(now, Day)
  BY DEF DayNow, Cached, LimitsInv
<1> QED
  BY <1>1, <1>2, <1>3, <1>4

LEMMA TierType ==
  ASSUME NEW p, NEW u
  PROVE  GetUserTier(p, u) \in UserTiers
BY DEF GetUserTier, CalculateUserTier, UserTiers

\* The fee of a tier is a natural number.
LEMMA EffectiveFeeType ==
  ASSUME NEW tier \in UserTiers
  PROVE  EffectiveFeeBps(tier) \in Nat
<1>1. BaseFeeBps[tier] \in Nat /\ DiscountBps[tier] \in Nat
  BY MarketAssumption
<1> QED
  BY <1>1 DEF EffectiveFeeBps

\* The market opens within its invariant.
LEMMA InitSound ==
  Init => MarketInv
<1> SUFFICES ASSUME Init PROVE MarketInv
  OBVIOUS
<1>1. PICK p : p = folio /\ Settled(p) /\ p.volume = 0 /\ p \in Portfolios
  BY OpeningSound DEF Init, Settled
<1>2. FolioInv
  BY <1>1 DEF FolioInv, Init
<1>3. VolumeInv
  <2>1. Bps \in Nat
    BY TradingAssumption
  <2>2. emergency \in Emergency /\ emergency.volume = 0 /\ opened = 0
    BY <2>1 DEF Init, Emergency
  <2> QED
    BY <1>1, <2>2 DEF VolumeInv
<1>4. CacheInv
  <2>1. NoEntry \in [cachedAt : Int, trades : Nat, pnl : Int]
        /\ NoTop \in [cachedAt : Int, traders : Seq(TopEntry)]
    BY DEF NoEntry, NoTop
  <2> QED
    BY <2>1 DEF Init, CacheInv, CacheHonest
<1>5. LimitsInv
  <2>1. /\ now = 0 /\ 0 \in Times /\ Clients = Users /\ Day \in Nat \ {0}
        /\ hourly = [ start |-> 0, expires |-> 0 ] /\ daily = [ start |-> 0, expires |-> 0 ]
        /\ swapCount = [u \in Users |-> [t \in Times |-> 0]]
        /\ lpCount = [u \in Users |-> [t \in Times |-> 0]]
        /\ lpToday = [u \in Users |-> 0]
    BY MarketAssumption, RateLimitAssumption DEF Init, RateLimitInit, Times
  <2>2. hourly \in CachedWindowBoundary /\ daily \in CachedWindowBoundary
    BY <2>1 DEF CachedWindowBoundary
  <2>3. ~IsValid(daily, now)
    BY <2>1 DEF IsValid
  <2>4. PICK s \in Nat : s = Window(now, Day).start /\ s <= now
    <3>1. now \in Nat
      BY <2>1
    <3> QED
      BY <2>1, <3>1, WindowBounds
  <2>5. s \in Times
    BY <2>1, <2>4
  <2> QED
    BY <2>1, <2>2, <2>3, <2>4, <2>5 DEF LimitsInv
<1>6. RestInv
  BY MarketAssumption DEF Init, RestInv
<1> QED
  BY <1>2, <1>3, <1>4, <1>5, <1>6 DEF MarketInv

\* A call that saves a portfolio that trades nothing.
LEMMA SavedStep ==
  ASSUME MarketInv, NEW q, Saved(q), Settled(q), GrandTotal(q) = issued', SameLp(folio, q),
         q.volume = folio.volume, Call, UNCHANGED <<emergency, ttl, lastClaim, history, now, limitVars>>
  PROVE  MarketInv' /\ Moves
<1>1. folio' = q
  BY DEF Saved
<1>2. /\ opened' = opened /\ emergency' = emergency /\ lpToday' = lpToday
      /\ swapsThisHour' = swapsThisHour /\ ttl' = ttl /\ lastClaim' = lastClaim /\ now' = now
      /\ hourly' = hourly /\ daily' = daily /\ swapCount' = swapCount /\ lpCount' = lpCount
      /\ calls' = calls + 1
  BY DEF history, limitVars, Call
<1>3. FolioInv' /\ VolumeInv' /\ Moves
  <2>1. emergency' \in Emergency
    BY <1>2 DEF MarketInv, VolumeInv
  <2> QED
    BY <1>1, <1>2, <2>1, HarmlessStep
<1>4. CacheInv'
  BY SavedCache DEF MarketInv
<1>5. LimitsInv'
  BY <1>2, SameLimits DEF MarketInv, LimitsInv
<1>6. RestInv'
  BY <1>2 DEF MarketInv, RestInv
<1> QED
  BY <1>3, <1>4, <1>5, <1>6 DEF MarketInv

LEMMA MintStep ==
  ASSUME MarketInv, NEW u \in Users, NEW a \in Assets, NEW x \in MintAmounts, MintEntry(u, a, x)
  PROVE  MarketInv' /\ Moves
<1>1. x \in Nat /\ Settled(folio) /\ GrandTotal(folio) = issued
  BY MarketAssumption DEF MarketInv, FolioInv
<1>2. PICK q : q = Mint(folio, a, u, x)
  OBVIOUS
<1>3. /\ Settled(q) /\ GrandTotal(q) = GrandTotal(folio) + x /\ SameLp(folio, q)
      /\ q.volume = folio.volume
  BY <1>1, <1>2, MintSound
<1> QED
  BY <1>1, <1>2, <1>3, SavedStep DEF MintEntry

LEMMA CountedStep ==
  ASSUME MarketInv, NEW u \in Users, FailedOrder(u) \/ RecordTradeEntry(u)
  PROVE  MarketInv' /\ Moves
<1>1. Settled(folio) /\ GrandTotal(folio) = issued
  BY DEF MarketInv, FolioInv
<1>2. CASE FailedOrder(u)
  <2>1. PICK q : q = IncFailedOrder(folio)
    OBVIOUS
  <2>2. /\ Settled(q) /\ GrandTotal(q) = GrandTotal(folio) /\ SameLp(folio, q)
        /\ q.volume = folio.volume
    BY <1>1, <2>1, CountersSound
  <2> QED
    BY <1>1, <1>2, <2>1, <2>2, SavedStep DEF FailedOrder
<1>3. CASE RecordTradeEntry(u)
  <2>1. PICK q : q = RecordTrade(folio, u)
    OBVIOUS
  <2>2. /\ Settled(q) /\ GrandTotal(q) = GrandTotal(folio) /\ SameLp(folio, q)
        /\ q.volume = folio.volume
    BY <1>1, <2>1, RecordTradeSound
  <2> QED
    BY <1>1, <1>3, <2>1, <2>2, SavedStep DEF RecordTradeEntry
<1> QED
  BY <1>2, <1>3

\* The faucet mints and leaves the cache alone: profits rise, and no trade is counted.
LEMMA FaucetStep ==
  ASSUME MarketInv, NEW u \in Users, NEW a \in Faucets, ClaimFaucet(u, a)
  PROVE  MarketInv' /\ Moves
<1>1. /\ Drip \in Nat /\ a \in Assets /\ Settled(folio) /\ folio \in Portfolios
      /\ GrandTotal(folio) = issued
  BY MarketAssumption DEF MarketInv, FolioInv, Settled
<1>2. PICK q : q = Mint(folio, a, u, Drip)
  OBVIOUS
<1>3. /\ Settled(q) /\ GrandTotal(q) = GrandTotal(folio) + Drip /\ SameLp(folio, q)
      /\ q.volume = folio.volume /\ q.trades = folio.trades
      /\ \A v \in Users : q.pnl[v] >= folio.pnl[v]
  BY <1>1, <1>2, MintSound
<1>4. /\ opened' = opened /\ emergency' = emergency /\ lpToday' = lpToday
      /\ swapsThisHour' = swapsThisHour /\ ttl' = ttl /\ now' = now
      /\ lastClaim' = [lastClaim EXCEPT ![u][a] = now]
      /\ hourly' = hourly /\ daily' = daily /\ swapCount' = swapCount /\ lpCount' = lpCount
      /\ calls' = calls + 1 /\ folio' = q /\ cache' = cache /\ topCache' = topCache
      /\ issued' = issued + Drip
  BY <1>2 DEF ClaimFaucet, SavedQuietly, history, limitVars, Call
<1>5. FolioInv' /\ VolumeInv' /\ Moves
  <2>1. emergency' \in Emergency
    BY <1>4 DEF MarketInv, VolumeInv
  <2> QED
    BY <1>1, <1>3, <1>4, <2>1, HarmlessStep
<1>6. CacheInv'
  <2>1. folio' \in Portfolios
    BY <1>3, <1>4 DEF Settled
  <2> QED
    BY <1>1, <1>3, <1>4, <2>1, SameCache DEF MarketInv
<1>7. LimitsInv'
  BY <1>4, SameLimits DEF MarketInv, LimitsInv
<1>8. RestInv'
  <2>1. now \in Nat
    BY DEF MarketInv, LimitsInv, Times
  <2> QED
    BY <1>1, <1>4, <2>1 DEF MarketInv, RestInv
<1> QED
  BY <1>5, <1>6, <1>7, <1>8 DEF MarketInv

LEMMA SetPoolStep ==
  ASSUME MarketInv, NEW a \in Assets, NEW x \in SeedAmounts, SetPoolLiquidity(a, x)
  PROVE  MarketInv' /\ Moves
<1>1. /\ x \in Nat /\ Settled(folio) /\ folio \in Portfolios /\ GrandTotal(folio) = issued
  BY MarketAssumption DEF MarketInv, FolioInv, Settled
<1>2. PICK q : q = SetLiquidity(folio, a, x)
  OBVIOUS
<1>3. /\ Settled(q) /\ GrandTotal(q) = GrandTotal(folio) + (x - folio.pool[a]) /\ SameLp(folio, q)
      /\ q.volume = folio.volume /\ q.trades = folio.trades /\ q.pnl = folio.pnl
  BY <1>1, <1>2, SetLiquiditySound
<1>4. /\ opened' = opened /\ emergency' = emergency /\ lpToday' = lpToday
      /\ swapsThisHour' = swapsThisHour /\ ttl' = ttl /\ now' = now /\ lastClaim' = lastClaim
      /\ hourly' = hourly /\ daily' = daily /\ swapCount' = swapCount /\ lpCount' = lpCount
      /\ calls' = calls + 1 /\ folio' = q /\ cache' = cache /\ topCache' = topCache
      /\ issued' = issued + x - folio.pool[a]
  BY <1>2 DEF SetPoolLiquidity, history, limitVars, Call
<1>5. FolioInv' /\ VolumeInv' /\ Moves
  <2>1. emergency' \in Emergency
    BY <1>4 DEF MarketInv, VolumeInv
  <2>2. GrandTotal(folio') = issued'
    <3>1. issued \in Nat /\ folio.pool[a] \in Nat
      BY <1>1, PortfolioSums DEF Portfolios
    <3> QED
      BY <1>1, <1>3, <1>4, <3>1
  <2> QED
    BY <1>1, <1>3, <1>4, <2>1, <2>2, HarmlessStep
<1>6. CacheInv'
  <2>1. folio' \in Portfolios
    BY <1>3, <1>4 DEF Settled
  <2>2. \A u \in Users : folio'.trades[u] = folio.trades[u] /\ folio'.pnl[u] >= folio.pnl[u]
    <3>1. \A u \in Users : folio.pnl[u] \in Int
      BY <1>1 DEF Portfolios
    <3> QED
      BY <1>3, <1>4, <3>1
  <2> QED
    BY <1>1, <1>4, <2>1, <2>2, SameCache DEF MarketInv
<1>7. LimitsInv'
  BY <1>4, SameLimits DEF MarketInv, LimitsInv
<1>8. RestInv'
  BY <1>4 DEF MarketInv, RestInv
<1> QED
  BY <1>5, <1>6, <1>7, <1>8 DEF MarketInv

\* The larger the volume, the larger its share of the normal one.
LEMMA QuotientMonotone ==
  ASSUME NEW x \in Nat, NEW y \in Nat, x <= y, NEW d \in Nat \ {0}
  PROVE  x \div d <= y \div d
<1>1. PICK i \in Nat : i = x \div d /\ i * d <= x /\ x < i * d + d
  BY Quotient
<1>2. PICK j \in Nat : j = y \div d /\ j * d <= y /\ y < j * d + d
  BY Quotient
<1>3. (j + 1) * d = j * d + d /\ j * d \in Nat /\ i * d \in Nat
  OBVIOUS
<1>4. i <= j
  <2> SUFFICES ASSUME j + 1 <= i PROVE FALSE
    BY <1>1, <1>2
  <2>1. (j + 1) * d <= i * d
    BY Products
  <2> QED
    BY <1>1, <1>2, <1>3, <2>1
<1> QED
  BY <1>1, <1>2, <1>4

\* Volume within the threshold, counted from when the ledger opened.
LEMMA WithinCap ==
  ASSUME NEW o \in Nat, NEW v \in Nat, o <= v, NEW w \in Nat, v - o <= w, NEW t \in Nat,
         (w * Bps) \div NormalVolume <= t
  PROVE  ((v - o) * Bps) \div NormalVolume <= t
<1>1. Bps \in Nat \ {0} /\ NormalVolume \in Nat \ {0}
  BY TradingAssumption
<1>2. PICK x \in Nat : x = v - o
  OBVIOUS
<1>3. x * Bps <= w * Bps /\ x * Bps \in Nat /\ w * Bps \in Nat
  BY <1>1, <1>2, Products
<1>4. (x * Bps) \div NormalVolume <= (w * Bps) \div NormalVolume
  BY <1>1, <1>3, QuotientMonotone
<1>5. (x * Bps) \div NormalVolume \in Nat /\ (w * Bps) \div NormalVolume \in Nat
  BY <1>1, <1>3, Quotient
<1> QED
  BY <1>2, <1>4, <1>5

\* A step that trades what the switches allow, and records it.
LEMMA TradedStep ==
  ASSUME MarketInv, Settled(folio'), NEW d \in Int, GrandTotal(folio') = GrandTotal(folio) + d,
         issued' = issued + d, SameLp(folio, folio'),
         NEW n \in Nat, folio'.volume = folio.volume + n, ~WouldTrip(emergency, n),
         emergency' = RecordVolume(emergency, n), opened' = opened
  PROVE  FolioInv' /\ VolumeInv' /\ Moves
<1>1. folio \in Portfolios /\ folio' \in Portfolios /\ VolumeInv /\ GrandTotal(folio) = issued
  BY DEF MarketInv, FolioInv, Settled
<1>2. /\ folio.volume \in Nat /\ opened \in Nat /\ opened <= folio.volume
      /\ \A u \in Users : folio.positions[u].tokens \in Nat
      /\ emergency.volume \in Nat /\ emergency.threshold \in Nat
      /\ folio.volume - opened <= emergency.volume
  BY <1>1 DEF Portfolios, LPPosition, VolumeInv, Emergency
<1>3. FolioInv'
  BY <1>1 DEF FolioInv, Settled, Tokens, Distinct, Sorted, NotUnderstated, GrandTotal
<1>4. PICK v \in Nat : v = emergency.volume + n
  BY <1>2
<1>5. emergency' = [emergency EXCEPT !.volume = v]
  BY <1>1, <1>4 DEF RecordVolume, VolumeInv, Emergency
<1>6. emergency' \in Emergency /\ emergency'.volume = v
  BY <1>1, <1>5 DEF VolumeInv, Emergency
<1>7. folio'.volume - opened <= v /\ folio'.volume \in Nat /\ opened <= folio'.volume
  BY <1>2, <1>4
<1>8. VolumeInv'
  BY <1>2, <1>6, <1>7 DEF VolumeInv
<1>9. KeepsCap
  <2>1. v * Bps \in Nat /\ NormalVolume \in Nat \ {0}
    BY TradingAssumption
  <2>2. PICK z \in Nat : z = (v * Bps) \div NormalVolume
    BY <2>1, Quotient
  <2>3. ~(z > emergency.threshold)
    BY <1>4, <2>2 DEF WouldTrip
  <2>4. (v * Bps) \div NormalVolume <= emergency.threshold
    BY <1>2, <2>2, <2>3
  <2>5. ((folio'.volume - opened) * Bps) \div NormalVolume <= emergency.threshold
    BY <1>2, <1>7, <2>4, WithinCap
  <2> QED
    BY <2>5 DEF KeepsCap
<1>10. KeepsValue
  BY DEF KeepsValue, SameLp
<1>11. KeepsDaily
  BY <1>2 DEF KeepsDaily, SameLp
<1> QED
  BY <1>3, <1>8, <1>9, <1>10, <1>11 DEF Moves

\* One swap and its record, of a portfolio that may have been charged a fee.
LEMMA SwappedSound ==
  ASSUME NEW p, Settled(p), NEW e \in Emergency, NEW u \in Users, NEW from \in Assets,
         NEW to \in Assets, NEW n \in Int, NEW price \in Nat,
         SwapAccepted(p, e, from, to, u, n, price)
  PROVE  LET out == SwapOutput(p, from, to, n, price)
             q == RecordTrade(PerformSwap(p, from, to, u, n, out), u) IN
         /\ n \in Nat /\ ~WouldTrip(e, n) /\ Drawn(p, n, out) \in Int
         /\ Settled(q) /\ GrandTotal(q) = GrandTotal(p) + Drawn(p, n, out) /\ SameLp(p, q)
         /\ q.volume = p.volume + n
<1>1. /\ n \in Nat /\ from # to /\ ~WouldTrip(e, n)
      /\ CanDebit(p, from, u, n) /\ CanDebit(TransferAsset(p, from, to, u, n), from, u, n)
  BY DEF SwapAccepted
<1>2. PICK out : out = SwapOutput(p, from, to, n, price)
  OBVIOUS
<1>3. out \in Nat /\ (HasReserves(p) => out <= p.pool[to])
  BY <1>1, <1>2, SwapOutputBounds DEF Settled
<1>4. PICK g : g = PerformSwap(p, from, to, u, n, out)
  OBVIOUS
<1>5. PICK d : d = Drawn(p, n, out)
  OBVIOUS
<1>6. d \in Int
  BY <1>1, <1>3, <1>5, LpFeeBounds DEF Drawn
<1>7. /\ Settled(g) /\ GrandTotal(g) = GrandTotal(p) + d /\ SameLp(p, g)
      /\ g.volume = p.volume + n /\ g.trades = p.trades
  BY <1>1, <1>3, <1>4, <1>5, PerformSwapSound
<1>8. PICK q : q = RecordTrade(g, u)
  OBVIOUS
<1>9. /\ Settled(q) /\ GrandTotal(q) = GrandTotal(g) /\ SameLp(g, q) /\ q.volume = g.volume
  BY <1>7, <1>8, RecordTradeSound
<1>10. GrandTotal(q) = GrandTotal(p) + d /\ SameLp(p, q) /\ q.volume = p.volume + n
  BY <1>7, <1>9 DEF SameLp
<1> QED
  BY <1>1, <1>2, <1>4, <1>5, <1>6, <1>8, <1>9, <1>10

LEMMA SafeSwapStep ==
  ASSUME MarketInv, NEW u \in Users, NEW from \in Assets, NEW to \in Assets,
         NEW x \in SwapAmounts, NEW price \in Prices, SafeSwap(u, from, to, x, price)
  PROVE  MarketInv' /\ Moves
<1>1. /\ x \in Nat /\ price \in Nat /\ x \in Int /\ Settled(folio) /\ folio \in Portfolios
      /\ emergency \in Emergency /\ GrandTotal(folio) = issued
  BY MarketAssumption DEF MarketInv, FolioInv, VolumeInv, Settled
<1>2. PICK out, q, d : /\ out = SwapOutput(folio, from, to, x, price)
                       /\ q = RecordTrade(PerformSwap(folio, from, to, u, x, out), u)
                       /\ d = Drawn(folio, x, out)
  OBVIOUS
<1>3. SwapAccepted(folio, emergency, from, to, u, x, price)
  BY DEF SafeSwap
<1>4. /\ ~WouldTrip(emergency, x) /\ d \in Int
      /\ Settled(q) /\ GrandTotal(q) = GrandTotal(folio) + d /\ SameLp(folio, q)
      /\ q.volume = folio.volume + x
  BY <1>1, <1>2, <1>3, SwappedSound
<1>5. /\ Saved(q) /\ folio' = q /\ emergency' = RecordVolume(emergency, x) /\ issued' = issued + d
      /\ swapsThisHour' = [swapsThisHour EXCEPT ![u] = @ + 1]
      /\ opened' = opened /\ lpToday' = lpToday /\ ttl' = ttl /\ now' = now /\ lastClaim' = lastClaim
      /\ hourly' = hourly /\ daily' = daily /\ swapCount' = swapCount /\ lpCount' = lpCount
      /\ calls' = calls + 1
  BY <1>2 DEF SafeSwap, Saved, limitVars, Call
<1>6. FolioInv' /\ VolumeInv' /\ Moves
  BY <1>1, <1>4, <1>5, TradedStep
<1>7. CacheInv'
  BY <1>5, SavedCache DEF MarketInv
<1>8. LimitsInv'
  BY <1>5, SameLimits DEF MarketInv, LimitsInv
<1>9. RestInv'
  BY <1>5 DEF MarketInv, RestInv
<1> QED
  BY <1>6, <1>7, <1>8, <1>9 DEF MarketInv

LEMMA SwapStep ==
  ASSUME MarketInv, NEW u \in Users, NEW from \in Assets, NEW to \in Assets,
         NEW x \in SwapAmounts, NEW price \in Prices, Swap(u, from, to, x, price)
  PROVE  MarketInv' /\ Moves
<1>1. /\ x \in Nat /\ price \in Nat /\ Settled(folio) /\ folio \in Portfolios
      /\ emergency \in Emergency /\ GrandTotal(folio) = issued
  BY MarketAssumption DEF MarketInv, FolioInv, VolumeInv, Settled
<1>2. PICK tier : tier = GetUserTier(folio, u) /\ tier \in UserTiers
  BY TierType
<1>3. PICK fee \in Nat : fee = (x * EffectiveFeeBps(tier)) \div Bps
  <2>1. Bps \in Nat \ {0} /\ x * EffectiveFeeBps(tier) \in Nat
    BY <1>1, <1>2, TradingAssumption, EffectiveFeeType
  <2> QED
    BY <2>1, Quotient
<1>4. PICK left \in Int : left = x - fee
  BY <1>1
<1>5. PICK charged : charged = IF fee > 0 THEN CollectFee(Debit(folio, from, u, fee), fee) ELSE folio
  OBVIOUS
<1>6. PICK out, q, d : /\ out = SwapOutput(charged, from, to, left, price)
                       /\ q = RecordTrade(PerformSwap(charged, from, to, u, left, out), u)
                       /\ d = Drawn(charged, left, out)
  BY SMTT(40)
<1>7. /\ fee > 0 => CanDebit(folio, from, u, fee)
      /\ SwapAccepted(charged, emergency, from, to, u, left, price)
      /\ Saved(q) /\ emergency' = RecordVolume(emergency, left) /\ issued' = issued + d
      /\ HourlyLookedUp(tier) /\ Call
      /\ swapsThisHour' = [swapsThisHour EXCEPT ![u] = @ + 1]
      /\ opened' = opened /\ lpToday' = lpToday /\ ttl' = ttl /\ now' = now /\ lastClaim' = lastClaim
      /\ daily' = daily /\ swapCount' = swapCount /\ lpCount' = lpCount
  BY <1>2, <1>3, <1>4, <1>5, <1>6 DEF Swap
<1>8. /\ Settled(charged) /\ GrandTotal(charged) = GrandTotal(folio) /\ SameLp(folio, charged)
      /\ charged.volume = folio.volume
  BY <1>1, <1>5, <1>7, ChargedSound
<1>9. /\ left \in Nat /\ ~WouldTrip(emergency, left) /\ d \in Int
      /\ Settled(q) /\ GrandTotal(q) = GrandTotal(charged) + d /\ SameLp(charged, q)
      /\ q.volume = charged.volume + left
  BY <1>1, <1>6, <1>7, <1>8, SwappedSound
<1>10. /\ GrandTotal(q) = GrandTotal(folio) + d /\ SameLp(folio, q) /\ q.volume = folio.volume + left
       /\ folio' = q /\ calls' = calls + 1
  BY <1>7, <1>8, <1>9 DEF SameLp, Saved, Call
<1>11. FolioInv' /\ VolumeInv' /\ Moves
  BY <1>1, <1>7, <1>9, <1>10, TradedStep
<1>12. CacheInv'
  BY <1>7, SavedCache DEF MarketInv
<1>13. LimitsInv'
  <2>1. LimitsInv /\ HourNow \in CachedWindowBoundary
    BY WindowsTyped DEF MarketInv
  <2>2. hourly' \in CachedWindowBoundary
    BY <1>7, <2>1 DEF HourlyLookedUp, LimitsInv
  <2> QED
    BY <1>7, <2>1, <2>2, SameLimits DEF LimitsInv
<1>14. RestInv'
  BY <1>7, <1>10 DEF MarketInv, RestInv
<1> QED
  BY <1>11, <1>12, <1>13, <1>14 DEF MarketInv

\* An operation on LP tokens is counted in the window of its day.
LEMMA LpOpCounted ==
  ASSUME LimitsInv, NEW u \in Users, RecordLpOp(u), lpToday' = [lpToday EXCEPT ![u] = @ + 1],
         UNCHANGED <<now, hourly, swapCount>>
  PROVE  LimitsInv'
<1>1. PICK w : w = Window(now, Day)
  OBVIOUS
<1>2. w = DayNow /\ w \in CachedWindowBoundary
  BY <1>1, WindowsTyped
<1>3. PICK s \in Times : s = w.start
  BY <1>2 DEF CachedWindowBoundary
<1>4. s <= now /\ now \in Nat
  <2>1. now \in Nat /\ Day \in Nat \ {0}
    BY RateLimitAssumption DEF LimitsInv, Times
  <2> QED
    BY <1>1, <1>3, <2>1, WindowBounds
<1>5. /\ lpCount \in [Users -> [Times -> Nat]] /\ lpToday \in [Users -> Nat]
      /\ lpCount' = [lpCount EXCEPT ![u][s] = @ + 1] /\ daily' = w
      /\ \A v \in Users : lpCount[v][s] = lpToday[v] /\ \A t \in Times : t > now => lpCount[v][t] = 0
  BY <1>1, <1>2, <1>3 DEF LimitsInv, RecordLpOp
<1>6. lpCount' \in [Users -> [Times -> Nat]] /\ lpToday' \in [Users -> Nat]
  BY <1>5
<1>7. \A v \in Users : lpCount'[v][s] = lpToday'[v]
  BY <1>5
<1>8. \A v \in Users : \A t \in Times : t > now => lpCount'[v][t] = 0
  <2> TAKE v \in Users
  <2> TAKE t \in Times
  <2>1. t \in Int /\ (t > now => t # s)
    BY <1>4 DEF Times
  <2> QED
    BY <1>5, <2>1
<1>9. Window(now', Day) = w
  BY <1>1
<1> QED
  BY <1>2, <1>3, <1>5, <1>6, <1>7, <1>8, <1>9 DEF LimitsInv

LEMMA AddLiquidityStep ==
  ASSUME MarketInv, NEW u \in Users, NEW x \in DepositAmounts, NEW y \in DepositAmounts,
         AddLiquidity(u, x, y)
  PROVE  MarketInv' /\ Moves
<1>1. /\ x \in Nat /\ y \in Nat /\ Settled(folio) /\ folio \in Portfolios
      /\ GrandTotal(folio) = issued /\ LimitsInv /\ VolumeInv
  BY MarketAssumption DEF MarketInv, FolioInv, Settled
<1>2. PICK k : k = LpTokensMinted(folio, x, y)
  OBVIOUS
<1>3. PICK a : a = Pooled(folio, u, x, y)
  OBVIOUS
<1>4. PICK b : b = AddLpTokens(a, u, k)
  OBVIOUS
<1>5. PICK c : c = RecordLpDeposit(b, u)
  OBVIOUS
<1>6. PICK q : q = CheckAndAwardBadges(c, u)
  BY SMTT(40)
<1>7. /\ WithinLpLimit(u, GetUserTier(folio, u))
      /\ CanDebit(folio, "XLM", u, x) /\ CanDebit(folio, "USDCSIM", u, y) /\ k > 0
      /\ Saved(q) /\ RecordLpOp(u) /\ lpToday' = [lpToday EXCEPT ![u] = @ + 1]
      /\ emergency' = emergency /\ ttl' = ttl /\ lastClaim' = lastClaim /\ issued' = issued
      /\ opened' = opened /\ swapsThisHour' = swapsThisHour /\ now' = now /\ hourly' = hourly
      /\ swapCount' = swapCount /\ Call
  BY <1>2, <1>3, <1>4, <1>5, <1>6, ZenonT(60) DEF AddLiquidity, Pooled
<1>8. /\ k \in Nat
      /\ folio.lpTokens > 0 /\ k > 0 =>
              /\ folio.pool["XLM"] * (folio.lpTokens + k) <= (folio.pool["XLM"] + x) * folio.lpTokens
              /\ folio.pool["USDCSIM"] * (folio.lpTokens + k) <= (folio.pool["USDCSIM"] + y) * folio.lpTokens
  <2>1. x \in Nat \ {0} /\ y \in Nat \ {0}
    BY <1>1, <1>7 DEF CanDebit
  <2> QED
    BY <1>1, <1>2, <2>1, LpTokensMintedSound
<1>9. /\ Settled(a) /\ GrandTotal(a) = GrandTotal(folio) /\ a.lpTokens = folio.lpTokens
      /\ a.volume = folio.volume /\ a.trades = folio.trades
      /\ a.pool["XLM"] = folio.pool["XLM"] + x /\ a.pool["USDCSIM"] = folio.pool["USDCSIM"] + y
      /\ \A v \in Users : a.positions[v].tokens = folio.positions[v].tokens
  BY <1>1, <1>3, <1>7, PooledSound
<1>10. /\ Settled(b) /\ GrandTotal(b) = GrandTotal(a) /\ b.lpTokens = a.lpTokens + k
       /\ b.volume = a.volume /\ b.trades = a.trades /\ b.pool = a.pool
       /\ \A v \in Users : v # u => b.positions[v].tokens = a.positions[v].tokens
  <2>1. a.positions[u].tokens \in Nat
    BY <1>9 DEF Settled, Portfolios, LPPosition
  <2>2. a.positions[u].tokens + k \in Nat /\ k \in Int
    BY <1>8, <2>1
  <2> QED
    BY <1>4, <1>9, <2>2, AddLpTokensSound
<1>11. /\ Settled(c) /\ GrandTotal(c) = GrandTotal(b) /\ SameLp(b, c)
       /\ c.volume = b.volume /\ c.trades = b.trades /\ c.pool = b.pool
  BY <1>5, <1>10, CountersSound
<1>12. /\ Settled(q) /\ GrandTotal(q) = GrandTotal(c) /\ SameLp(c, q)
       /\ q.volume = c.volume /\ q.trades = c.trades /\ q.pool = c.pool
  BY <1>6, <1>11, CountersSound
<1>13. /\ folio' = q /\ GrandTotal(q) = GrandTotal(folio) /\ q.volume = folio.volume
       /\ q.lpTokens = folio.lpTokens + k
       /\ q.pool["XLM"] = folio.pool["XLM"] + x /\ q.pool["USDCSIM"] = folio.pool["USDCSIM"] + y
       /\ \A v \in Users : v # u => q.positions[v].tokens = folio.positions[v].tokens
  BY <1>7, <1>9, <1>10, <1>11, <1>12, SMTT(40) DEF SameLp, Saved
<1>14. FolioInv'
  BY <1>1, <1>7, <1>12, <1>13 DEF FolioInv, Settled, Tokens, Distinct, Sorted, NotUnderstated, GrandTotal
<1>15. VolumeInv'
  BY <1>1, <1>7, <1>13 DEF VolumeInv
<1>16. CacheInv'
  BY <1>7, SavedCache DEF MarketInv
<1>17. LimitsInv'
  BY <1>1, <1>7, LpOpCounted
<1>18. RestInv'
  BY <1>7 DEF MarketInv, RestInv, Call
<1>19. KeepsValue
  <2>1. \A a1 \in Assets : a1 = "XLM" \/ a1 = "USDCSIM"
    BY DEF Assets
  <2> QED
    BY <1>7, <1>8, <1>13, <2>1 DEF KeepsValue
<1>20. KeepsCap
  <2>1. folio.volume \in Nat
    BY <1>1 DEF Portfolios
  <2> QED
    BY <1>13, <2>1 DEF KeepsCap
<1>21. KeepsDaily
  <2> SUFFICES ASSUME NEW v \in Users, folio'.positions[v].tokens > folio.positions[v].tokens
               PROVE  LET limit == LpOpsPerDay[GetUserTier(folio, v)] IN
                      limit = Unlimited \/ lpToday[v] < limit
    BY DEF KeepsDaily
  <2>1. folio.positions[v].tokens \in Nat
    BY <1>1 DEF Portfolios, LPPosition
  <2>2. v = u
    BY <1>13, <2>1
  <2>3. lpCount[u][DayNow.start] = lpToday[u]
    BY <1>1, WindowsTyped DEF LimitsInv
  <2> QED
    BY <1>7, <2>2, <2>3 DEF WithinLpLimit
<1> QED
  BY <1>14, <1>15, <1>16, <1>17, <1>18, <1>19, <1>20, <1>21 DEF MarketInv, Moves

LEMMA RemoveLiquidityStep ==
  ASSUME MarketInv, NEW u \in Users, NEW n \in BurnAmounts, RemoveLiquidity(u, n)
  PROVE  MarketInv' /\ Moves
<1>1. /\ n \in Nat /\ Settled(folio) /\ folio \in Portfolios
      /\ GrandTotal(folio) = issued /\ LimitsInv /\ VolumeInv
  BY MarketAssumption DEF MarketInv, FolioInv, Settled
<1> DEFINE Part(a) == (n * folio.pool[a]) \div folio.lpTokens
<1>2. PICK a : a = Mint(Mint([folio EXCEPT !.pool = Drained(folio, n)], "XLM", u, Part("XLM")),
                        "USDCSIM", u, Part("USDCSIM"))
  OBVIOUS
<1>3. PICK d : d = [b \in Assets |-> a.positions[u].deposited[b] - Part(b)]
  OBVIOUS
<1>4. PICK c : c = [a EXCEPT !.positions[u].deposited = d]
  OBVIOUS
<1>5. PICK q : q = AddLpTokens(c, u, -n)
  OBVIOUS
<1>6. /\ 0 < n /\ n <= folio.positions[u].tokens
      /\ RecordLpOp(u) /\ lpToday' = [lpToday EXCEPT ![u] = @ + 1]
      /\ emergency' = emergency /\ ttl' = ttl /\ lastClaim' = lastClaim /\ issued' = issued
      /\ opened' = opened /\ swapsThisHour' = swapsThisHour /\ now' = now /\ hourly' = hourly
      /\ swapCount' = swapCount /\ Call
  BY ZenonT(60) DEF RemoveLiquidity
<1>7. /\ Settled(a) /\ GrandTotal(a) = GrandTotal(folio) /\ SameLp(folio, a)
      /\ a.volume = folio.volume /\ a.trades = folio.trades /\ a.pool = Drained(folio, n)
      /\ folio.lpTokens - n \in Nat
      /\ \A b \in Assets : folio.pool[b] * (folio.lpTokens - n) <= a.pool[b] * folio.lpTokens
  BY <1>1, <1>2, <1>6, DrainedSound
<1>8. /\ folio.pool \in [Assets -> Nat] /\ folio.lpTokens \in Nat \ {0}
      /\ folio.positions[u].tokens \in Nat
  BY <1>1, <1>6, <1>7, SMTT(40) DEF Portfolios, LPPosition
<1>9. d \in [Assets -> Int]
  <2>1. a.positions[u] \in LPPosition
    BY <1>7 DEF Settled, Portfolios
  <2>2. a.positions[u].deposited \in [Assets -> Int]
    BY <2>1 DEF LPPosition
  <2>3. \A b \in Assets : Part(b) \in Int
    <3> TAKE b \in Assets
    <3>1. n * folio.pool[b] \in Nat
      BY <1>1, <1>8
    <3> QED
      BY <1>8, <3>1, Quotient, SMTT(40)
  <2> HIDE DEF Part
  <2> QED
    BY <1>3, <2>2, <2>3
<1>10. Saved(q)
  <2>1. [folio EXCEPT !.pool = [b \in Assets |-> @[b] - Part(b)]]
          = [folio EXCEPT !.pool = Drained(folio, n)]
    BY <1>1 DEF Drained, Portfolios
  <2>2. a \in Portfolios
    BY <1>7 DEF Settled
  <2>3. [a EXCEPT !.positions[u].deposited = [b \in Assets |-> @[b] - Part(b)]] = c
    <3>1. a.positions[u] \in LPPosition /\ a.positions \in [Users -> LPPosition]
      BY <2>2 DEF Portfolios
    <3> HIDE DEF Part
    <3> QED
      BY <1>3, <1>4, <2>2, <3>1 DEF Portfolios, LPPosition
  <2> QED
    BY <1>2, <1>5, <2>1, <2>3, ZenonT(60) DEF RemoveLiquidity
<1> HIDE DEF Part
<1>11. /\ Settled(c) /\ GrandTotal(c) = GrandTotal(a) /\ c.lpTokens = a.lpTokens
       /\ c.volume = a.volume /\ c.trades = a.trades /\ c.pool = a.pool
       /\ \A v \in Users : c.positions[v].tokens = a.positions[v].tokens
  BY <1>4, <1>7, <1>9, DepositedSound
<1>12. c.positions[u].tokens = folio.positions[u].tokens
       /\ c.positions[u].tokens + (-n) \in Nat /\ -n \in Int
  BY <1>1, <1>6, <1>7, <1>8, <1>11 DEF SameLp
<1>13. /\ Settled(q) /\ GrandTotal(q) = GrandTotal(c) /\ q.lpTokens = c.lpTokens + (-n)
       /\ q.volume = c.volume /\ q.trades = c.trades /\ q.pool = c.pool
       /\ q.positions[u].tokens = c.positions[u].tokens + (-n)
       /\ \A v \in Users : v # u => q.positions[v].tokens = c.positions[v].tokens
  BY <1>5, <1>11, <1>12, AddLpTokensSound
<1>14. /\ folio' = q /\ GrandTotal(q) = GrandTotal(folio) /\ q.volume = folio.volume
       /\ q.pool = a.pool
       /\ \A v \in Users : v # u => q.positions[v].tokens = folio.positions[v].tokens
  BY <1>7, <1>10, <1>11, <1>13 DEF SameLp, Saved
<1>15. q.lpTokens = folio.lpTokens - n
  BY <1>1, <1>7, <1>8, <1>11, <1>13, SMTT(40) DEF SameLp
<1>16. FolioInv'
  BY <1>1, <1>6, <1>13, <1>14 DEF FolioInv, Settled, Tokens, Distinct, Sorted, NotUnderstated, GrandTotal
<1>17. VolumeInv'
  BY <1>1, <1>6, <1>14 DEF VolumeInv
<1>18. CacheInv'
  BY <1>10, SavedCache DEF MarketInv
<1>19. LimitsInv'
  BY <1>1, <1>6, LpOpCounted
<1>20. RestInv'
  BY <1>6 DEF MarketInv, RestInv, Call
<1>21. KeepsValue
  BY <1>7, <1>14, <1>15 DEF KeepsValue
<1>22. KeepsCap
  <2>1. folio.volume \in Nat
    BY <1>1 DEF Portfolios
  <2> QED
    BY <1>14, <2>1 DEF KeepsCap
<1>23. KeepsDaily
  <2>1. \A v \in Users : folio.positions[v].tokens \in Nat
    BY <1>1 DEF Portfolios, LPPosition
  <2>2. q.positions[u].tokens < folio.positions[u].tokens
    BY <1>1, <1>6, <1>8, <1>12, <1>13
  <2>3. \A v \in Users : ~(q.positions[v].tokens > folio.positions[v].tokens)
    <3> TAKE v \in Users
    <3>1. CASE v = u
      <4>1. q.positions[v].tokens \in Nat
        BY <1>13 DEF Settled, Portfolios, LPPosition
      <4> QED
        BY <2>1, <2>2, <3>1, <4>1
    <3>2. CASE v # u
      BY <1>14, <2>1, <3>2
    <3> QED
      BY <3>1, <3>2
  <2> QED
    BY <1>14, <2>3 DEF KeepsDaily
<1> QED
  BY <1>16, <1>17, <1>18, <1>19, <1>20, <1>21, <1>22, <1>23 DEF MarketInv, Moves

LEMMA BatchStep ==
  ASSUME MarketInv, NEW ops \in Batches, NEW price \in Prices, NEW atomic \in BOOLEAN,
         Batch(ops, price, atomic)
  PROVE  MarketInv' /\ Moves
<1>1. /\ price \in Nat /\ Settled(folio) /\ folio \in Portfolios /\ emergency \in Emergency
      /\ GrandTotal(folio) = issued /\ LimitsInv /\ VolumeInv /\ CacheInv /\ RestInv
  BY MarketAssumption DEF MarketInv, FolioInv, VolumeInv, Settled
<1>2. ops \in Seq(BatchOperations) /\ ops # <<>>
  BY MarketAssumption
<1>3. PICK u \in Users : u = ops[1].user
  <2>1. 1 \in 1..Len(ops)
    BY <1>2
  <2>2. ops[1] \in BatchOperations
    BY <1>2, <2>1
  <2>3. ops[1].user \in Users
    BY <2>2 DEF BatchOperations
  <2> QED
    BY <2>3
<1>4. PICK end : end = RunBatch(ops, price, atomic)
  OBVIOUS
<1>5. end \in InBatch(folio, emergency)
  BY <1>1, <1>2, <1>4, RunBatchKept
<1>6. PICK p, e : p = end.folio /\ e = end.emergency
  OBVIOUS
<1>7. /\ p \in Portfolios /\ e \in Emergency /\ end.executed \in Nat /\ end.drawn \in Int
      /\ Settled(p) /\ SameLp(folio, p)
      /\ GrandTotal(p) = GrandTotal(folio) + end.drawn
      /\ \A v \in Users : p.trades[v] >= folio.trades[v]
      /\ p.volume >= folio.volume
      /\ e.volume = emergency.volume + (p.volume - folio.volume)
      /\ p.volume > folio.volume =>
           (e.volume * Bps) \div NormalVolume <= emergency.threshold
  BY <1>5, <1>6 DEF InBatch, Kept, Accumulators
<1> DEFINE called == ops[1].kind # "MintToken"
           swaps == \E i \in 1..Len(ops) : ops[i].kind = "Swap"
           kept == ~(atomic /\ end.failed)
<1>8. PICK counted \in Nat : counted = IF called /\ swaps THEN end.executed ELSE 0
  BY <1>7
<1>9. /\ emergency' = e /\ Call
      /\ hourly' \in {HourNow, hourly}
      /\ ttl' = ttl /\ lastClaim' = lastClaim /\ lpToday' = lpToday /\ opened' = opened
      /\ now' = now /\ daily' = daily /\ lpCount' = lpCount
      /\ IF kept
         THEN /\ Saved(p) /\ issued' = issued + end.drawn
              /\ RecordSwaps(u, counted)
              /\ swapsThisHour' = [v \in Users |-> swapsThisHour[v] + p.trades[v] - folio.trades[v]]
         ELSE UNCHANGED <<books, swapCount, swapsThisHour>>
  <2>1. Batch(ops, price, atomic)
    OBVIOUS
  <2> QED
    BY <1>3, <1>4, <1>6, <1>8, <2>1 DEF Batch
<1>10. /\ folio.volume \in Nat /\ p.volume \in Nat /\ opened \in Nat /\ opened <= folio.volume
       /\ emergency.volume \in Nat /\ emergency.threshold \in Nat /\ e.volume \in Nat
       /\ folio.volume - opened <= emergency.volume
       /\ \A v \in Users : /\ folio.positions[v].tokens \in Nat /\ folio.trades[v] \in Nat
                           /\ p.trades[v] \in Nat
  BY <1>1, <1>7 DEF Portfolios, LPPosition, VolumeInv, Emergency
<1>11. hourly' \in CachedWindowBoundary
  <2>1. HourNow \in CachedWindowBoundary /\ hourly \in CachedWindowBoundary
    BY <1>1, WindowsTyped DEF LimitsInv
  <2> QED
    BY <1>9, <2>1
<1> HIDE DEF called, swaps, kept
<1>12. CASE kept
  <2>1. /\ Saved(p) /\ issued' = issued + end.drawn /\ RecordSwaps(u, counted) /\ folio' = p
        /\ swapsThisHour' = [v \in Users |-> swapsThisHour[v] + p.trades[v] - folio.trades[v]]
    BY <1>9, <1>12, SMTT(40) DEF Saved
  <2>2. FolioInv'
    BY <1>1, <1>7, <2>1
      DEF FolioInv, Settled, Tokens, Distinct, Sorted, NotUnderstated, GrandTotal
  <2>3. p.volume - opened <= e.volume /\ opened <= p.volume
    BY <1>7, <1>10
  <2>4. VolumeInv'
    BY <1>7, <1>9, <1>10, <2>1, <2>3 DEF VolumeInv
  <2>5. CacheInv'
    BY <1>1, <2>1, SavedCache
  <2>6. swapCount' \in [Users -> [Times -> Nat]]
    <3>1. PICK s \in Times : s = HourNow.start
      BY <1>1, WindowsTyped DEF CachedWindowBoundary
    <3>2. swapCount \in [Users -> [Times -> Nat]]
      BY <1>1 DEF LimitsInv
    <3> QED
      BY <2>1, <3>1, <3>2, SMTT(40) DEF RecordSwaps
  <2>7. LimitsInv'
    BY <1>1, <1>9, <1>11, <2>6, SameLimits
  <2>8. RestInv'
    <3>1. swapsThisHour \in [Users -> Nat] /\ calls' \in Nat
      BY <1>1, <1>9 DEF RestInv, Call
    <3>2. \A v \in Users : swapsThisHour[v] + p.trades[v] - folio.trades[v] \in Nat
      <4> TAKE v \in Users
      <4>1. swapsThisHour[v] \in Nat /\ p.trades[v] >= folio.trades[v]
        BY <1>7, <3>1
      <4> QED
        BY <1>10, <4>1
    <3> QED
      BY <1>1, <1>9, <2>1, <3>1, <3>2 DEF RestInv
  <2>9. KeepsCap
    <3> SUFFICES ASSUME p.volume > folio.volume
                 PROVE  ((p.volume - opened) * Bps) \div NormalVolume <= emergency.threshold
      BY <2>1 DEF KeepsCap
    <3>1. (e.volume * Bps) \div NormalVolume <= emergency.threshold
      BY <1>7
    <3> QED
      BY <1>10, <2>3, <3>1, WithinCap
  <2>10. KeepsValue /\ KeepsDaily
    BY <1>7, <1>10, <2>1 DEF KeepsValue, KeepsDaily, SameLp
  <2> QED
    BY <2>2, <2>4, <2>5, <2>7, <2>8, <2>9, <2>10 DEF MarketInv, Moves
<1>13. CASE ~kept
  <2>1. /\ folio' = folio /\ cache' = cache /\ topCache' = topCache /\ issued' = issued
        /\ swapCount' = swapCount /\ swapsThisHour' = swapsThisHour
    BY <1>9, <1>13 DEF books
  <2>2. FolioInv'
    BY <1>1, <2>1 DEF FolioInv, Settled, Tokens, Distinct, Sorted, NotUnderstated, GrandTotal
  <2>3. folio.volume - opened <= e.volume
    BY <1>7, <1>10
  <2>4. VolumeInv'
    BY <1>7, <1>9, <1>10, <2>1, <2>3 DEF VolumeInv
  <2>5. CacheInv'
    BY <1>1, <2>1 DEF CacheInv, CacheHonest
  <2>6. LimitsInv'
    BY <1>1, <1>9, <1>11, <2>1, SameLimits DEF LimitsInv
  <2>7. RestInv'
    BY <1>1, <1>9, <2>1 DEF RestInv, Call
  <2>8. KeepsCap /\ KeepsValue /\ KeepsDaily
    BY <1>10, <2>1 DEF KeepsCap, KeepsValue, KeepsDaily
  <2> QED
    BY <2>2, <2>4, <2>5, <2>6, <2>7, <2>8 DEF MarketInv, Moves
<1> QED
  BY <1>12, <1>13

\* A step that leaves the portfolio and the volume alone.
LEMMA FolioUnmoved ==
  ASSUME MarketInv, UNCHANGED <<folio, issued, opened>>,
         emergency' \in Emergency, emergency'.volume = emergency.volume
  PROVE  FolioInv' /\ VolumeInv' /\ Moves
<1>1. Settled(folio) /\ folio' = folio /\ GrandTotal(folio) = issued /\ folio \in Portfolios
      /\ folio.volume \in Nat /\ \A u \in Users : folio.positions[u].tokens \in Nat
  BY DEF MarketInv, FolioInv, Settled, Portfolios, LPPosition
<1>2. FolioInv'
  BY <1>1 DEF FolioInv, Settled, Tokens, Distinct, Sorted, NotUnderstated, GrandTotal
<1>3. VolumeInv'
  BY <1>1 DEF MarketInv, VolumeInv
<1>4. KeepsCap /\ KeepsValue /\ KeepsDaily
  BY <1>1 DEF KeepsCap, KeepsValue, KeepsDaily
<1> QED
  BY <1>2, <1>3, <1>4 DEF Moves

LEMMA QueryStep ==
  ASSUME MarketInv,
         \/ \E u \in Users : GetPortfolio(u)
         \/ GetTopTraders \/ ClearCache \/ \E t \in Ttls : SetCacheTtl(t)
  PROVE  MarketInv' /\ Moves
<1>1. /\ folio' = folio /\ issued' = issued /\ opened' = opened /\ emergency' = emergency
      /\ lastClaim' = lastClaim /\ lpToday' = lpToday /\ swapsThisHour' = swapsThisHour
      /\ now' = now /\ hourly' = hourly /\ daily' = daily /\ swapCount' = swapCount
      /\ lpCount' = lpCount /\ calls' = calls + 1
  BY DEF GetPortfolio, GetTopTraders, ClearCache, SetCacheTtl, books, history, limitVars, Call
<1>2. folio \in Portfolios /\ CacheInv /\ now \in Int
  BY DEF MarketInv, FolioInv, Settled, LimitsInv, Times
<1>3. FolioInv' /\ VolumeInv' /\ Moves
  <2>1. emergency' \in Emergency /\ emergency'.volume = emergency.volume
    BY <1>1 DEF MarketInv, VolumeInv
  <2> QED
    BY <1>1, <2>1, FolioUnmoved
<1>4. LimitsInv'
  BY <1>1, SameLimits DEF MarketInv, LimitsInv
<1>5. CacheInv' /\ ttl' \in Nat
  <2>1. CASE \E u \in Users : GetPortfolio(u)
    <3>1. PICK u \in Users : GetPortfolio(u)
      BY <2>1
    <3>2. PICK r : r = [ cachedAt |-> now, trades |-> folio.trades[u], pnl |-> folio.pnl[u] ]
      OBVIOUS
    <3>3. folio.trades[u] \in Nat /\ folio.pnl[u] \in Int
      BY <1>2 DEF Portfolios
    <3>4. r \in [cachedAt : Int, trades : Nat, pnl : Int]
          /\ r.trades = folio.trades[u] /\ r.pnl <= folio.pnl[u]
      BY <1>2, <3>2, <3>3
    <3>5. cache' = [cache EXCEPT ![u] = r] /\ topCache' = topCache /\ ttl' = ttl
      BY <3>1, <3>2 DEF GetPortfolio
    <3>6. CacheHonest'
      BY <1>1, <1>2, <3>4, <3>5, SMTT(40) DEF CacheInv, CacheHonest
    <3> QED
      BY <1>2, <3>4, <3>5, <3>6 DEF CacheInv, MarketInv, RestInv
  <2>2. CASE GetTopTraders
    <3>1. [ cachedAt |-> now, traders |-> folio.top ] \in [cachedAt : Int, traders : Seq(TopEntry)]
      BY <1>2 DEF Portfolios
    <3> QED
      BY <1>1, <1>2, <2>2, <3>1 DEF GetTopTraders, CacheInv, CacheHonest, MarketInv, RestInv
  <2>3. CASE ClearCache
    <3>1. Saved(folio) /\ ttl' = ttl
      BY <1>1, <2>3 DEF ClearCache, Saved
    <3> QED
      BY <1>2, <3>1, SavedCache DEF MarketInv, RestInv
  <2>4. CASE \E t \in Ttls : SetCacheTtl(t)
    <3>1. cache' = cache /\ topCache' = topCache /\ ttl' \in Nat
      BY <2>4, MarketAssumption DEF SetCacheTtl, books
    <3> QED
      BY <1>1, <1>2, <3>1 DEF CacheInv, CacheHonest
  <2> QED
    BY <2>1, <2>2, <2>3, <2>4
<1>6. RestInv'
  BY <1>1, <1>5 DEF MarketInv, RestInv
<1> QED
  BY <1>3, <1>4, <1>5, <1>6 DEF MarketInv

\* Any of the switches.
LEMMA SwitchedStep ==
  ASSUME MarketInv, NEW e \in Emergency, e.volume = emergency.volume, Switched(e)
  PROVE  MarketInv' /\ Moves
<1>1. /\ folio' = folio /\ issued' = issued /\ opened' = opened /\ emergency' = e
      /\ cache' = cache /\ topCache' = topCache /\ ttl' = ttl
      /\ lastClaim' = lastClaim /\ lpToday' = lpToday /\ swapsThisHour' = swapsThisHour
      /\ now' = now /\ hourly' = hourly /\ daily' = daily /\ swapCount' = swapCount
      /\ lpCount' = lpCount /\ calls' = calls + 1
  BY DEF Switched, books, history, limitVars, Call
<1>2. FolioInv' /\ VolumeInv' /\ Moves
  BY <1>1, FolioUnmoved
<1>3. CacheInv'
  BY <1>1 DEF MarketInv, CacheInv, CacheHonest
<1>4. LimitsInv'
  BY <1>1, SameLimits DEF MarketInv, LimitsInv
<1>5. RestInv'
  BY <1>1 DEF MarketInv, RestInv
<1> QED
  BY <1>2, <1>3, <1>4, <1>5 DEF MarketInv

LEMMA SwitchStep ==
  ASSUME MarketInv,
         \/ \E u \in Users : FreezeUser(u) \/ UnfreezeUser(u)
         \/ \E on \in BOOLEAN : SetPaused(on)
         \/ \E t \in Thresholds : SetThresholdBps(t)
         \/ \E s \in Slips : SetMaxSlippageBps(s)
  PROVE  MarketInv' /\ Moves
<1>1. emergency \in Emergency
  BY DEF MarketInv, VolumeInv
<1>2. PICK e : /\ Switched(e)
               /\ \/ \E on \in BOOLEAN : e = [emergency EXCEPT !.paused = on]
                  \/ \E s \in SUBSET Users : e = [emergency EXCEPT !.frozen = s]
                  \/ \E t \in Nat : e = [emergency EXCEPT !.threshold = t]
                  \/ \E s \in Nat : e = [emergency EXCEPT !.maxSlip = s]
  <2>1. emergency.frozen \in SUBSET Users
    BY <1>1 DEF Emergency
  <2>2. ASSUME NEW u \in Users, FreezeUser(u)
        PROVE  \E s \in SUBSET Users : Switched([emergency EXCEPT !.frozen = s])
    BY <1>1, <2>1, <2>2 DEF FreezeUser, Emergency
  <2>3. ASSUME NEW u \in Users, UnfreezeUser(u)
        PROVE  \E s \in SUBSET Users : Switched([emergency EXCEPT !.frozen = s])
    BY <1>1, <2>1, <2>3 DEF UnfreezeUser, Emergency
  <2>4. ASSUME NEW t \in Thresholds, SetThresholdBps(t)
        PROVE  \E s \in Nat : Switched([emergency EXCEPT !.threshold = s])
    BY <2>4, MarketAssumption DEF SetThresholdBps
  <2>5. ASSUME NEW t \in Slips, SetMaxSlippageBps(t)
        PROVE  \E s \in Nat : Switched([emergency EXCEPT !.maxSlip = s])
    BY <2>5, MarketAssumption DEF SetMaxSlippageBps
  <2>6. ASSUME NEW on \in BOOLEAN, SetPaused(on)
        PROVE  Switched([emergency EXCEPT !.paused = on])
    BY <2>6 DEF SetPaused
  <2> QED
    BY <2>2, <2>3, <2>4, <2>5, <2>6
<1>3. e \in Emergency /\ e.volume = emergency.volume
  BY <1>1, <1>2 DEF Emergency
<1> QED
  BY <1>2, <1>3, SwitchedStep

-----------------------------------------------------------------------------
(* Time *)

\* What a cleanup removes is not the current window, nor one ahead.
LEMMA CleanupStep ==
  ASSUME MarketInv, NEW u \in Users, Cleanup(u)
  PROVE  MarketInv' /\ Moves
<1>1. /\ folio' = folio /\ issued' = issued /\ opened' = opened /\ emergency' = emergency
      /\ cache' = cache /\ topCache' = topCache /\ ttl' = ttl
      /\ lastClaim' = lastClaim /\ lpToday' = lpToday /\ swapsThisHour' = swapsThisHour
      /\ now' = now /\ hourly' = hourly /\ daily' = daily /\ calls' = calls + 1
      /\ swapCount' = Cleaned(swapCount, u, Window(now, Hour), Hour)
      /\ lpCount' = Cleaned(lpCount, u, Window(now, Day), Day)
  BY DEF Cleanup, CleanupRateLimits, books, history, Call
<1>2. now \in Nat /\ Day \in Nat \ {0} /\ Hour \in Nat \ {0}
  BY RateLimitAssumption DEF MarketInv, LimitsInv, Times
<1>3. FolioInv' /\ VolumeInv' /\ Moves
  <2>1. emergency' \in Emergency /\ emergency'.volume = emergency.volume
    BY <1>1 DEF MarketInv, VolumeInv
  <2> QED
    BY <1>1, <2>1, FolioUnmoved
<1>4. CacheInv'
  BY <1>1 DEF MarketInv, CacheInv, CacheHonest
<1>5. swapCount' \in [Users -> [Times -> Nat]]
  BY <1>1 DEF MarketInv, LimitsInv, Cleaned
<1>6. PICK s \in Nat : s = Window(now, Day).start
  BY <1>2, WindowBounds
<1>7. /\ lpCount \in [Users -> [Times -> Nat]]
      /\ \A v \in Users : lpCount[v][s] = lpToday[v] /\ \A t \in Times : t > now => lpCount[v][t] = 0
  BY <1>6 DEF MarketInv, LimitsInv
<1>8. lpCount' = IF s >= Day THEN [lpCount EXCEPT ![u][s - Day] = 0] ELSE lpCount
  BY <1>1, <1>6 DEF Cleaned
<1>9. /\ lpCount' \in [Users -> [Times -> Nat]]
      /\ \A v \in Users : lpCount'[v][s] = lpToday[v] /\ \A t \in Times : t > now => lpCount'[v][t] = 0
  <2>1. s - Day # s
    BY <1>2, <1>6
  <2>2. s \in Times /\ (s >= Day => s - Day \in Times)
    <3>1. s <= now /\ LastSecond \in Nat /\ now <= LastSecond
      BY <1>2, <1>6, WindowBounds, RateLimitAssumption DEF MarketInv, LimitsInv, Times
    <3> QED
      BY <1>2, <1>6, <3>1 DEF Times
  <2> QED
    BY <1>7, <1>8, <2>1, <2>2
<1>10. LimitsInv'
  BY <1>1, <1>5, <1>6, <1>9 DEF MarketInv, LimitsInv
<1>11. RestInv'
  BY <1>1 DEF MarketInv, RestInv
<1> QED
  BY <1>3, <1>4, <1>10, <1>11 DEF MarketInv

\* A ledger opens with nothing traded, a day with nothing counted.
LEMMA TickStep ==
  ASSUME MarketInv, Tick
  PROVE  MarketInv' /\ Moves
<1>1. /\ folio' = folio /\ issued' = issued /\ cache' = cache /\ topCache' = topCache
      /\ ttl' = ttl /\ lastClaim' = lastClaim /\ calls' = calls
      /\ hourly' = hourly /\ daily' = daily /\ swapCount' = swapCount /\ lpCount' = lpCount
      /\ now < LastSecond /\ now' = now + 1 /\ opened' = folio.volume
      /\ emergency' = [emergency EXCEPT !.volume = 0]
      /\ lpToday' = IF (now + 1) % Day = 0 THEN [u \in Users |-> 0] ELSE lpToday
      /\ swapsThisHour' = IF (now + 1) % Hour = 0 THEN [u \in Users |-> 0] ELSE swapsThisHour
  BY DEF Tick, books, limitVars
<1>2. now \in Nat /\ now \in Times /\ LastSecond \in Nat /\ Day \in Nat \ {0}
  BY RateLimitAssumption DEF MarketInv, LimitsInv, Times
<1>3. Settled(folio) /\ GrandTotal(folio) = issued /\ folio \in Portfolios
      /\ folio.volume \in Nat /\ \A u \in Users : folio.positions[u].tokens \in Nat
  BY DEF MarketInv, FolioInv, Settled, Portfolios, LPPosition
<1>4. FolioInv'
  BY <1>1, <1>3 DEF FolioInv, Settled, Tokens, Distinct, Sorted, NotUnderstated, GrandTotal
<1>5. VolumeInv'
  <2>1. emergency' \in Emergency /\ emergency'.volume = 0
    BY <1>1 DEF MarketInv, VolumeInv, Emergency
  <2> QED
    BY <1>1, <1>3, <2>1 DEF VolumeInv
<1>6. Moves
  BY <1>1, <1>3 DEF Moves, KeepsCap, KeepsValue, KeepsDaily
<1>7. CacheInv'
  BY <1>1 DEF MarketInv, CacheInv, CacheHonest
<1>8. RestInv'
  BY <1>1 DEF MarketInv, RestInv
<1>9. LimitsInv'
  <2>1. /\ daily \in CachedWindowBoundary /\ lpCount \in [Users -> [Times -> Nat]]
        /\ lpToday \in [Users -> Nat] /\ (IsValid(daily, now) => daily = Window(now, Day))
        /\ \A u \in Users : /\ lpCount[u][Window(now, Day).start] = lpToday[u]
                            /\ \A t \in Times : t > now => lpCount[u][t] = 0
    BY DEF MarketInv, LimitsInv
  <2>2. now + 1 \in Times /\ \A t \in Times : t > now + 1 => t > now
    BY <1>1, <1>2 DEF Times
  <2>3. IsValid(daily, now + 1) => IsValid(daily, now)
    BY <1>2, <2>1 DEF IsValid, CachedWindowBoundary
  <2>4. CASE (now + 1) % Day = 0
    <3>1. Window(now + 1, Day).start = now + 1 /\ Window(now, Day).expires = now + 1
      BY <1>2, <2>4, WindowNext
    <3>2. ~IsValid(daily, now + 1)
      BY <1>2, <2>1, <2>3, <3>1 DEF IsValid
    <3>3. \A u \in Users : lpCount[u][now + 1] = 0
      BY <1>2, <2>1, <2>2
    <3>4. lpToday' = [u \in Users |-> 0]
      BY <1>1, <2>4
    <3> QED
      BY <1>1, <2>1, <2>2, <3>1, <3>2, <3>3, <3>4 DEF MarketInv, LimitsInv
  <2>5. CASE (now + 1) % Day # 0
    <3>1. Window(now + 1, Day) = Window(now, Day)
      BY <1>2, <2>5, WindowNext
    <3> QED
      BY <1>1, <2>1, <2>2, <2>3, <2>5, <3>1 DEF MarketInv, LimitsInv
  <2> QED
    BY <2>4, <2>5
<1> QED
  BY <1>4, <1>5, <1>6, <1>7, <1>8, <1>9 DEF MarketInv

-----------------------------------------------------------------------------
(* The theorems *)

\* Whatever a user calls.
LEMMA UserStep ==
  ASSUME MarketInv, NEW u \in Users, UserNext(u)
  PROVE  MarketInv' /\ Moves
<1>1. CASE \E a \in Faucets : ClaimFaucet(u, a)
  BY <1>1, FaucetStep
<1>2. CASE \E a \in Assets, x \in MintAmounts : MintEntry(u, a, x)
  BY <1>2, MintStep
<1>3. CASE \E from, to \in Assets, x \in SwapAmounts, price \in Prices :
             Swap(u, from, to, x, price) \/ SafeSwap(u, from, to, x, price)
  BY <1>3, SwapStep, SafeSwapStep
<1>4. CASE FailedOrder(u) \/ RecordTradeEntry(u)
  BY <1>4, CountedStep
<1>5. CASE GetPortfolio(u)
  BY <1>5, QueryStep
<1>6. CASE Cleanup(u)
  BY <1>6, CleanupStep
<1>7. CASE \E x, y \in DepositAmounts : AddLiquidity(u, x, y)
  BY <1>7, AddLiquidityStep
<1>8. CASE \E t \in BurnAmounts : RemoveLiquidity(u, t)
  BY <1>8, RemoveLiquidityStep
<1>9. CASE FreezeUser(u) \/ UnfreezeUser(u)
  BY <1>9, SwitchStep
<1> QED
  BY <1>1, <1>2, <1>3, <1>4, <1>5, <1>6, <1>7, <1>8, <1>9 DEF UserNext

\* Every step of the market keeps the invariant, and what a step may not do.
LEMMA NextStep ==
  ASSUME MarketInv, [Next]_vars
  PROVE  MarketInv' /\ [Moves]_vars
<1>1. CASE \E u \in Users : UserNext(u)
  BY <1>1, UserStep
<1>2. CASE \E ops \in Batches, price \in Prices, atomic \in BOOLEAN : Batch(ops, price, atomic)
  BY <1>2, BatchStep
<1>3. CASE \E a \in Assets, x \in SeedAmounts : SetPoolLiquidity(a, x)
  BY <1>3, SetPoolStep
<1>4. CASE GetTopTraders \/ ClearCache \/ \E t \in Ttls : SetCacheTtl(t)
  BY <1>4, QueryStep
<1>5. CASE \/ \E on \in BOOLEAN : SetPaused(on)
           \/ \E t \in Thresholds : SetThresholdBps(t)
           \/ \E s \in Slips : SetMaxSlippageBps(s)
  BY <1>5, SwitchStep
<1>6. CASE Tick
  BY <1>6, TickStep
<1>7. CASE UNCHANGED vars
  <2>1. /\ folio' = folio /\ issued' = issued /\ cache' = cache /\ topCache' = topCache
        /\ ttl' = ttl /\ lastClaim' = lastClaim /\ calls' = calls /\ hourly' = hourly
        /\ daily' = daily /\ swapCount' = swapCount /\ lpCount' = lpCount /\ now' = now
        /\ emergency' = emergency /\ opened' = opened /\ lpToday' = lpToday
        /\ swapsThisHour' = swapsThisHour
    BY <1>7 DEF vars, limitVars
  <2>2. FolioInv' /\ VolumeInv'
    BY <2>1, FolioUnmoved DEF MarketInv, VolumeInv
  <2>3. CacheInv' /\ LimitsInv' /\ RestInv'
    BY <2>1 DEF MarketInv, CacheInv, CacheHonest, LimitsInv, RestInv
  <2> QED
    BY <1>7, <2>2, <2>3 DEF MarketInv
<1> QED
  BY <1>1, <1>2, <1>3, <1>4, <1>5, <1>6, <1>7 DEF Next

\* The inductive invariant holds in every state of the market.
THEOREM MarketInvariant ==
  Spec => []MarketInv
<1>1. Init => MarketInv
  BY InitSound
<1>2. MarketInv /\ [Next]_vars => MarketInv'
  BY NextStep
<1> QED
  BY <1>1, <1>2, PTL DEF Spec

\* Whatever calls and batches come in whatever order, for any users, amounts, prices
\* and limits: users, pool and fee counters hold together what came in, the LP tokens
\* of the positions are the tokens in circulation, and the leaderboard is sound
\* (portfolio.rs, lib.rs, batch.rs).
THEOREM PortfolioStaysSound ==
  Spec => []PortfolioSound
<1>1. MarketInv => PortfolioSound
  BY MarketInvSound
<1> QED
  BY <1>1, MarketInvariant, PTL

\* No entry point leaves the query cache with a wrong number of trades or a profit
\* above the real one, whichever of them tell the cache (lib.rs, batch.rs, faucet.rs).
THEOREM CacheStaysHonest ==
  Spec => []CacheHonest
<1>1. MarketInv => CacheHonest
  BY MarketInvSound
<1> QED
  BY <1>1, MarketInvariant, PTL

\* Adding and removing liquidity never lowers what the pool holds per LP token,
\* whatever is deposited and however the amounts are rounded (lib.rs:1101, 1272).
THEOREM LpValueIsKept ==
  Spec => LpValueKept
<1>1. MarketInv /\ [Next]_vars => [KeepsValue]_vars
  BY NextStep DEF Moves
<1> QED
  BY <1>1, MarketInvariant, PTL DEF Spec, LpValueKept, KeepsValue

\* Neither the volume threshold of a ledger nor the daily number of deposits of a
\* tier is exceeded by any mix of calls and batches (trading.rs, rate_limit.rs:206).
THEOREM LimitsAreHeld ==
  Spec => LimitsHold
<1>1. MarketInv /\ [Next]_vars => [KeepsCap]_vars /\ [KeepsDaily]_vars
  BY NextStep DEF Moves
<1> QED
  BY <1>1, MarketInvariant, PTL
     DEF Spec, LimitsHold, VolumeCapped, LpOpsWithinLimit, KeepsCap, KeepsDaily
=============================================================================
