------------------------------- MODULE Ledger -------------------------------
(* Balances and their sum.  A ledger is a function from holders to natural  *)
(* amounts; its units are the pairs of a holder and the number of one of    *)
(* its tokens, so the sum of the balances is the number of units.  The      *)
(* lemmas are what the modules that keep balances need to know about it.    *)
(* Whoever counts also needs least numbers, which come last.                *)
EXTENDS Integers, FiniteSets, FiniteSetTheorems, TLAPS

\* The provers that a leaf which names none is given, and for how long.
USE SMTT(30), ZenonT(30)

Units(f) == UNION { {h} \X (1..f[h]) : h \in DOMAIN f }

\* The sum of f[h] over the holders h.
Supply(f) == Cardinality(Units(f))

-----------------------------------------------------------------------------
(* Proofs *)

\* The units of one holder are as many as its balance.
LEMMA HolderUnits ==
  ASSUME NEW h, NEW m \in Nat, NEW n \in Nat, m <= n
  PROVE  /\ IsFiniteSet({h} \X ((m+1)..n))
         /\ Cardinality({h} \X ((m+1)..n)) = n - m
<1>1. IsFiniteSet({h}) /\ Cardinality({h}) = 1
  BY FS_Singleton
<1>2. IsFiniteSet((m+1)..n) /\ Cardinality((m+1)..n) = n - m
  <2>1. m+1 \in Int /\ n \in Int
    OBVIOUS
  <2>2. /\ IsFiniteSet((m+1)..n)
        /\ Cardinality((m+1)..n) = IF m+1 > n THEN 0 ELSE n - (m+1) + 1
    BY <2>1, FS_Interval
  <2> QED
    BY <2>2
<1> QED
  BY <1>1, <1>2, FS_Product

\* A finite set of holders has finitely many units.
LEMMA UnitsFinite ==
  ASSUME NEW S, IsFiniteSet(S), NEW f \in [S -> Nat]
  PROVE  IsFiniteSet(Units(f))
<1> DEFINE part == [h \in S |-> {h} \X (1..f[h])]
           T == { {h} \X (1..f[h]) : h \in S }
<1>1. part \in Surjection(S, T)
  BY DEF Surjection
<1>2. IsFiniteSet(T)
  BY <1>1, FS_Surjection
<1>3. \A U \in T : IsFiniteSet(U)
  <2>1. ASSUME NEW h \in S PROVE IsFiniteSet({h} \X (1..f[h]))
    BY HolderUnits, f[h] \in Nat, 0 \in Nat, 0 <= f[h], 0 + 1 = 1
  <2> QED
    BY <2>1
<1> QED
  BY <1>2, <1>3, FS_UNION DEF Units

\* The supply is a natural number.
LEMMA SupplyType ==
  ASSUME NEW S, IsFiniteSet(S), NEW f \in [S -> Nat]
  PROVE  Supply(f) \in Nat
BY UnitsFinite, FS_CardinalityType DEF Supply

\* Crediting n tokens to a holder adds n to the supply.
LEMMA SupplyCredit ==
  ASSUME NEW S, IsFiniteSet(S), NEW f \in [S -> Nat], NEW h \in S, NEW n \in Nat
  PROVE  Supply([f EXCEPT ![h] = f[h] + n]) = Supply(f) + n
<1> DEFINE g == [f EXCEPT ![h] = f[h] + n]
           new == {h} \X ((f[h]+1)..(f[h]+n))
<1>1. f[h] \in Nat /\ f[h] + n \in Nat /\ g \in [S -> Nat]
  OBVIOUS
<1>2. IsFiniteSet(new) /\ Cardinality(new) = n
  BY <1>1, HolderUnits, f[h] <= f[h] + n, (f[h] + n) - f[h] = n
<1>3. Units(g) = Units(f) \cup new
  <2>1. ASSUME NEW u PROVE u \in Units(g) <=> u \in Units(f) \cup new
    <3>1. u \in Units(f) <=> \E k \in S : u \in {k} \X (1..f[k])
      BY DEF Units
    <3>2. u \in Units(g) <=> \E k \in S : u \in {k} \X (1..g[k])
      BY <1>1 DEF Units
    <3>3. {h} \X (1..g[h]) = ({h} \X (1..f[h])) \cup new
      BY <1>1
    <3>4. \A k \in S \ {h} : g[k] = f[k]
      OBVIOUS
    <3> QED
      BY <3>1, <3>2, <3>3, <3>4
  <2> QED
    BY <2>1
<1>4. Units(f) \cap new = {}
  <2> SUFFICES ASSUME NEW u \in Units(f), u \in new PROVE FALSE
    OBVIOUS
  <2>1. PICK k \in S : u \in {k} \X (1..f[k])
    BY DEF Units
  <2> QED
    BY <1>1, <2>1
<1>5. IsFiniteSet(Units(f)) /\ Cardinality(Units(f)) \in Nat
  BY UnitsFinite, FS_CardinalityType
<1>6. Cardinality(Units(f) \cap new) = 0
  BY <1>4, FS_EmptySet
<1> HIDE DEF new
<1>7. Cardinality(Units(f) \cup new) = Cardinality(Units(f)) + Cardinality(new)
        - Cardinality(Units(f) \cap new)
  BY <1>2, <1>5, FS_Union
<1> HIDE DEF g
<1>8. Cardinality(Units(g)) = Cardinality(Units(f)) + n
  BY <1>2, <1>3, <1>5, <1>6, <1>7
<1>9. Supply(g) = Supply(f) + n
  BY <1>8 DEF Supply
<1> QED
  BY <1>9 DEF g

\* Debiting n tokens takes n from the supply.
LEMMA SupplyDebit ==
  ASSUME NEW S, IsFiniteSet(S), NEW f \in [S -> Nat], NEW h \in S,
         NEW n \in Nat, n <= f[h]
  PROVE  Supply([f EXCEPT ![h] = f[h] - n]) = Supply(f) - n
<1> DEFINE g == [f EXCEPT ![h] = f[h] - n]
<1>1. f[h] - n \in Nat /\ g \in [S -> Nat] /\ g[h] = f[h] - n
  OBVIOUS
<1>2. [g EXCEPT ![h] = g[h] + n] = f
  <2> DEFINE e == [g EXCEPT ![h] = g[h] + n]
  <2>1. e \in [S -> Nat] /\ \A k \in S : e[k] = f[k]
    BY <1>1
  <2> QED
    BY <2>1, Zenon
<1> HIDE DEF g
<1>3. Supply([g EXCEPT ![h] = g[h] + n]) = Supply(g) + n
  BY <1>1, SupplyCredit, ZenonT(60)
<1>4. Supply(g) \in Nat /\ Supply(f) = Supply(g) + n
  BY <1>1, <1>2, <1>3, SupplyType
<1> QED
  BY <1>4 DEF g

\* No holder has more than the supply.
LEMMA BalanceAtMostSupply ==
  ASSUME NEW S, IsFiniteSet(S), NEW f \in [S -> Nat], NEW h \in S
  PROVE  f[h] <= Supply(f)
<1> DEFINE g == [f EXCEPT ![h] = f[h] - f[h]]
<1>1. g \in [S -> Nat] /\ f[h] \in Nat /\ f[h] <= f[h]
  OBVIOUS
<1>2. Supply(g) \in Nat /\ Supply(f) \in Nat
  BY <1>1, SupplyType
<1>3. Supply([f EXCEPT ![h] = f[h] - f[h]]) = Supply(f) - f[h]
  <2> DEFINE n == f[h]
  <2>1. n \in Nat /\ n <= f[h]
    BY <1>1
  <2> HIDE DEF n
  <2>2. Supply([f EXCEPT ![h] = f[h] - n]) = Supply(f) - n
    BY <2>1, SupplyDebit, ZenonT(60)
  <2> QED
    BY <2>2 DEF n
<1> QED
  BY <1>1, <1>2, <1>3

\* An empty ledger has no supply.
LEMMA SupplyZero ==
  ASSUME NEW S PROVE Supply([h \in S |-> 0]) = 0
<1>1. Units([h \in S |-> 0]) = {}
  BY DEF Units
<1> QED
  BY <1>1, FS_EmptySet DEF Supply

\* The larger the balances, the larger the supply.
LEMMA SupplyMonotone ==
  ASSUME NEW S, IsFiniteSet(S), NEW f \in [S -> Nat], NEW g \in [S -> Nat],
         \A h \in S : f[h] <= g[h]
  PROVE  Supply(f) <= Supply(g)
<1>1. Units(f) \subseteq Units(g)
  BY DEF Units
<1> QED
  BY <1>1, UnitsFinite, FS_Subset DEF Supply

\* The supply of two ledgers joined is the sum of theirs.
LEMMA SupplyOfSum ==
  ASSUME NEW S, IsFiniteSet(S), NEW f \in [S -> Nat], NEW g \in [S -> Nat]
  PROVE  Supply([h \in S |-> f[h] + g[h]]) = Supply(f) + Supply(g)
<1> DEFINE fg == [h \in S |-> f[h] + g[h]]
           Shifted(u) == <<u[1], f[u[1]] + u[2]>>
           new == { Shifted(u) : u \in Units(g) }
           shift == [u \in Units(g) |-> Shifted(u)]
<1>1. fg \in [S -> Nat]
  OBVIOUS
<1>2. IsFiniteSet(Units(f)) /\ IsFiniteSet(Units(g)) /\ IsFiniteSet(Units(fg))
  BY <1>1, UnitsFinite
<1>3. shift \in Bijection(Units(g), new)
  <2>1. shift \in Surjection(Units(g), new)
    BY DEF Surjection
  <2>2. ASSUME NEW u \in Units(g), NEW v \in Units(g), Shifted(u) = Shifted(v)
        PROVE  u = v
    <3>1. PICK h \in S, k \in S : u \in {h} \X (1..g[h]) /\ v \in {k} \X (1..g[k])
      BY DEF Units
    <3>2. PICK i \in 1..g[h], j \in 1..g[k] : u = <<h, i>> /\ v = <<k, j>>
      BY <3>1
    <3>3. h = k /\ f[h] + i = f[h] + j /\ f[h] \in Nat
      BY <2>2, <3>2
    <3> QED
      BY <3>2, <3>3
  <2>3. shift \in [Units(g) -> new]
    OBVIOUS
  <2>4. \A u, v \in Units(g) : shift[u] = shift[v] => u = v
    BY <2>2
  <2>5. shift \in Injection(Units(g), new)
    BY <2>3, <2>4 DEF Injection, IsInjective
  <2> QED
    BY <2>1, <2>5 DEF Bijection
<1>4. IsFiniteSet(new) /\ Cardinality(new) = Cardinality(Units(g))
  BY <1>2, <1>3, FS_Bijection DEF ExistsBijection
<1>5. Units(fg) = Units(f) \cup new
  <2>1. ASSUME NEW w \in Units(fg), w \notin Units(f) PROVE w \in new
    <3>1. PICK h \in S : w \in {h} \X (1..(f[h] + g[h]))
      BY <2>1 DEF Units
    <3>2. PICK k \in 1..(f[h] + g[h]) : w = <<h, k>>
      BY <3>1
    <3>3. f[h] \in Nat /\ g[h] \in Nat /\ <<h, k>> \notin {h} \X (1..f[h])
      BY <2>1, <3>2 DEF Units
    <3>4. k \in Nat /\ k > f[h] /\ k - f[h] \in 1..g[h] /\ f[h] + (k - f[h]) = k
      BY <3>3
    <3>5. <<h, k - f[h]>> \in Units(g)
      BY <3>4 DEF Units
    <3>6. Shifted(<<h, k - f[h]>>) = w
      BY <3>2, <3>4
    <3> QED
      BY <3>5, <3>6
  <2>2. ASSUME NEW w \in Units(f) PROVE w \in Units(fg)
    <3>1. PICK h \in S : w \in {h} \X (1..f[h])
      BY <2>2 DEF Units
    <3>2. f[h] \in Nat /\ g[h] \in Nat /\ w \in {h} \X (1..(f[h] + g[h]))
      BY <3>1
    <3> QED
      BY <1>1, <3>2 DEF Units
  <2>3. ASSUME NEW w \in new PROVE w \in Units(fg)
    <3>1. PICK u \in Units(g) : w = Shifted(u)
      BY <2>3
    <3>2. PICK h \in S : u \in {h} \X (1..g[h])
      BY DEF Units
    <3>3. PICK k \in 1..g[h] : u = <<h, k>>
      BY <3>2
    <3>4. f[h] \in Nat /\ g[h] \in Nat /\ f[h] + k \in 1..(f[h] + g[h])
      OBVIOUS
    <3>5. w = <<h, f[h] + k>>
      BY <3>1, <3>3
    <3> QED
      BY <1>1, <3>4, <3>5 DEF Units
  <2> QED
    BY <2>1, <2>2, <2>3
<1>6. Units(f) \cap new = {}
  <2> SUFFICES ASSUME NEW w \in Units(f), w \in new PROVE FALSE
    OBVIOUS
  <2>1. PICK h \in S : w \in {h} \X (1..f[h])
    BY DEF Units
  <2>2. PICK u \in Units(g) : w = Shifted(u)
    OBVIOUS
  <2>3. PICK i \in S : u \in {i} \X (1..g[i])
    BY DEF Units
  <2>4. PICK j \in 1..g[i] : u = <<i, j>>
    BY <2>3
  <2>5. w = <<i, f[i] + j>>
    BY <2>2, <2>4
  <2> QED
    BY <2>1, <2>5, f[i] \in Nat, g[i] \in Nat
<1> HIDE DEF new, fg
<1>7. /\ Cardinality(Units(f) \cup new)
           = Cardinality(Units(f)) + Cardinality(new) - Cardinality(Units(f) \cap new)
      /\ Cardinality(Units(f) \cap new) = 0
  BY <1>2, <1>4, <1>6, FS_Union, FS_EmptySet
<1>8. Cardinality(Units(f)) \in Nat /\ Cardinality(new) \in Nat
  BY <1>2, <1>4, FS_CardinalityType
<1>9. Supply(fg) = Supply(f) + Supply(g)
  BY <1>4, <1>5, <1>7, <1>8 DEF Supply
<1> QED
  BY <1>9 DEF fg

\* A holder added to a ledger adds its balance to the supply.
LEMMA SupplyExtend ==
  ASSUME NEW S, IsFiniteSet(S), NEW f \in [S -> Nat], NEW h, h \notin S, NEW n \in Nat
  PROVE  Supply([k \in S \cup {h} |-> IF k = h THEN n ELSE f[k]]) = Supply(f) + n
<1> DEFINE g == [k \in S \cup {h} |-> IF k = h THEN n ELSE f[k]]
           new == {h} \X (1..g[h])
<1>1. g \in [S \cup {h} -> Nat] /\ g[h] = n /\ \A k \in S : g[k] = f[k]
  OBVIOUS
<1> HIDE DEF g
<1>2. g[h] \in Nat /\ 0 \in Nat /\ 0 <= g[h] /\ 0 + 1 = 1 /\ g[h] - 0 = g[h]
  BY <1>1
<1>3. IsFiniteSet(new) /\ Cardinality(new) = g[h]
  <2>1. /\ IsFiniteSet({h} \X ((0+1)..g[h]))
        /\ Cardinality({h} \X ((0+1)..g[h])) = g[h] - 0
    BY ONLY <1>2, HolderUnits
  <2> QED
    BY <1>2, <2>1
<1>4. Units(g) = Units(f) \cup new
  <2>1. ASSUME NEW u PROVE u \in Units(g) <=> u \in Units(f) \cup new
    <3>1. u \in Units(f) <=> \E k \in S : u \in {k} \X (1..f[k])
      BY DEF Units
    <3>2. u \in Units(g) <=> \E k \in S \cup {h} : u \in {k} \X (1..g[k])
      BY <1>1 DEF Units
    <3> QED
      BY <1>1, <3>1, <3>2
  <2> QED
    BY <2>1
<1>5. Units(f) \cap new = {}
  <2> SUFFICES ASSUME NEW u \in Units(f), u \in new PROVE FALSE
    OBVIOUS
  <2>1. PICK k \in S : u \in {k} \X (1..f[k])
    BY DEF Units
  <2> QED
    BY <2>1
<1>6. IsFiniteSet(Units(f)) /\ Cardinality(Units(f)) \in Nat
  BY UnitsFinite, FS_CardinalityType
<1> HIDE DEF new
<1>7. /\ Cardinality(Units(f) \cup new)
           = Cardinality(Units(f)) + Cardinality(new) - Cardinality(Units(f) \cap new)
      /\ Cardinality(Units(f) \cap new) = 0
  BY <1>3, <1>5, <1>6, FS_Union, FS_EmptySet
<1>8. Supply(g) = Supply(f) + n
  BY <1>1, <1>2, <1>3, <1>4, <1>6, <1>7 DEF Supply
<1> QED
  BY <1>8 DEF g

\* The sum over a list to which an amount is added.
LEMMA SumAppended ==
  ASSUME NEW n \in Nat, NEW f \in [1..n -> Nat], NEW g \in [1..(n + 1) -> Nat],
         \A i \in 1..n : g[i] = f[i]
  PROVE  Supply(g) = Supply(f) + g[n + 1] /\ Supply(f) \in Nat
<1> DEFINE new == {n + 1} \X (1..g[n + 1])
<1>1. PICK m \in Nat : m = g[n + 1]
  OBVIOUS
<1>2. IsFiniteSet(new) /\ Cardinality(new) = m
  <2>1. 0 <= m /\ 0 + 1 = 1 /\ m - 0 = m
    OBVIOUS
  <2>2. /\ IsFiniteSet({n + 1} \X ((0+1)..m))
        /\ Cardinality({n + 1} \X ((0+1)..m)) = m - 0
    BY ONLY <2>1, HolderUnits, ZenonT(60)
  <2> QED
    BY <1>1, <2>1, <2>2
<1>3. Units(g) = Units(f) \cup new
  <2>1. ASSUME NEW u PROVE u \in Units(g) <=> u \in Units(f) \cup new
    <3>1. u \in Units(f) <=> \E i \in 1..n : u \in {i} \X (1..f[i])
      BY DEF Units
    <3>2. u \in Units(g) <=> \E i \in 1..(n + 1) : u \in {i} \X (1..g[i])
      BY DEF Units
    <3>3. \A i : i \in 1..(n + 1) <=> i \in 1..n \/ i = n + 1
      OBVIOUS
    <3> HIDE DEF new
    <3>4. u \in new <=> u \in {n + 1} \X (1..g[n + 1])
      BY DEF new
    <3> QED
      BY <3>1, <3>2, <3>3, <3>4
  <2> QED
    BY <2>1
<1>4. Units(f) \cap new = {}
  <2> SUFFICES ASSUME NEW u \in Units(f), u \in new PROVE FALSE
    OBVIOUS
  <2>1. PICK i \in 1..n : u \in {i} \X (1..f[i])
    BY DEF Units
  <2> QED
    BY <2>1
<1>5. IsFiniteSet(1..n) /\ IsFiniteSet(Units(f)) /\ Cardinality(Units(f)) \in Nat
  <2>1. IsFiniteSet(1..n)
    BY FS_Interval
  <2> QED
    BY <2>1, UnitsFinite, FS_CardinalityType
<1> HIDE DEF new
<1>6. /\ Cardinality(Units(f) \cup new)
           = Cardinality(Units(f)) + Cardinality(new) - Cardinality(Units(f) \cap new)
      /\ Cardinality(Units(f) \cap new) = 0
  BY <1>2, <1>4, <1>5, FS_Union, FS_EmptySet
<1> QED
  BY <1>1, <1>2, <1>3, <1>5, <1>6 DEF Supply

\* A balance that is replaced moves the supply by as much as it moves itself.
LEMMA SupplyReplaced ==
  ASSUME NEW S, IsFiniteSet(S), NEW f \in [S -> Nat], NEW h \in S,
         NEW g \in [S -> Nat], g = [f EXCEPT ![h] = g[h]]
  PROVE  Supply(g) + f[h] = Supply(f) + g[h] /\ Supply(g) \in Nat /\ Supply(f) \in Nat
<1> DEFINE rest == [k \in S \ {h} |-> f[k]]
           R == S \ {h}
<1>1. IsFiniteSet(R) /\ R \cup {h} = S /\ h \notin R /\ rest \in [R -> Nat] /\ f[h] \in Nat /\ g[h] \in Nat
  BY FS_Subset
<1>2. [k \in R \cup {h} |-> IF k = h THEN f[h] ELSE rest[k]] = f
  <2>1. [k \in R \cup {h} |-> IF k = h THEN f[h] ELSE rest[k]] = [k \in S |-> f[k]]
    BY <1>1
  <2> QED
    BY <2>1
<1>3. [k \in R \cup {h} |-> IF k = h THEN g[h] ELSE rest[k]] = g
  <2>1. [k \in R \cup {h} |-> IF k = h THEN g[h] ELSE rest[k]] = [k \in S |-> g[k]]
    BY <1>1
  <2> QED
    BY <2>1
<1>4. Supply(rest) \in Nat
  BY <1>1, SupplyType
<1> HIDE DEF rest, R
<1>5. Supply(f) = Supply(rest) + f[h]
  BY <1>1, <1>2, SupplyExtend
<1>6. Supply(g) = Supply(rest) + g[h]
  BY <1>1, <1>3, SupplyExtend, SMTT(40)
<1> QED
  BY <1>1, <1>4, <1>5, <1>6

\* Holders without balance do not count.
LEMMA SupplyRestricted ==
  ASSUME NEW S, NEW f \in [S -> Nat], NEW T \in SUBSET S, \A h \in S \ T : f[h] = 0
  PROVE  Supply([h \in T |-> f[h]]) = Supply(f)
<1> DEFINE g == [h \in T |-> f[h]]
<1>1. ASSUME NEW u PROVE u \in Units(g) <=> u \in Units(f)
  <2>1. u \in Units(f) <=> \E k \in S : u \in {k} \X (1..f[k])
    BY DEF Units
  <2>2. u \in Units(g) <=> \E k \in T : u \in {k} \X (1..f[k])
    BY DEF Units
  <2>3. \A k \in S \ T : 1..f[k] = {}
    OBVIOUS
  <2> QED
    BY <2>1, <2>2, <2>3
<1>2. Units(g) = Units(f)
  BY <1>1
<1> QED
  BY <1>2 DEF Supply

\* A number from 1 to m * n is one of m blocks of n and a place in it, in one way.
LEMMA BlockOf ==
  ASSUME NEW n \in Nat, n > 0, NEW m \in Nat, NEW k \in 1..(m * n)
  PROVE  \E j \in 1..m, r \in 1..n : k = (j - 1) * n + r
<1> DEFINE q == (k - 1) \div n
           p == (k - 1) % n
<1>1. m * n \in Nat /\ k \in Nat /\ k - 1 \in Nat
  OBVIOUS
<1>2. q \in Nat /\ p \in 0..(n - 1) /\ k - 1 = q * n + p
  BY <1>1
<1> HIDE DEF q, p
<1>3. q < m
  <2> SUFFICES ASSUME q >= m PROVE FALSE
    BY <1>2
  <2>1. q * n >= m * n
    BY <1>2
  <2>2. q * n \in Nat
    BY <1>2
  <2> QED
    BY <1>1, <1>2, <2>1, <2>2
<1>4. q + 1 \in 1..m /\ p + 1 \in 1..n /\ k = ((q + 1) - 1) * n + (p + 1)
  <2>1. q * n \in Nat /\ (q + 1) - 1 = q
    BY <1>2
  <2> QED
    BY <1>1, <1>2, <1>3, <2>1
<1> QED
  BY <1>4

\* The block and the place are determined by the number.
LEMMA OneBlock ==
  ASSUME NEW n \in Nat, NEW j \in Nat, NEW i \in Nat, NEW r \in 1..n, NEW s \in 1..n,
         (j - 1) * n + r = (i - 1) * n + s
  PROVE  j = i /\ r = s
<1>1. ASSUME NEW a \in Int, NEW b \in Int, NEW x \in 1..n, NEW y \in 1..n, a < b
      PROVE  a * n + x < b * n + y
  <2>1. (b - a) * n >= n
    <3>1. b - a \in Nat /\ b - a >= 1
      BY <1>1
    <3> QED
      BY <3>1
  <2>2. b * n = a * n + (b - a) * n /\ a * n \in Int /\ (b - a) * n \in Int
    OBVIOUS
  <2> QED
    BY <2>1, <2>2
<1>2. j - 1 \in Int /\ i - 1 \in Int
  OBVIOUS
<1>3. (j - 1) * n \in Int /\ (i - 1) * n \in Int
  BY <1>2
<1>4. ~(j - 1 < i - 1) /\ ~(i - 1 < j - 1)
  BY <1>1, <1>2, <1>3
<1>5. j = i
  BY <1>4
<1> QED
  BY <1>3, <1>5

\* Balances that are multiples of n have n times the supply.
LEMMA SupplyScaled ==
  ASSUME NEW S, IsFiniteSet(S), NEW f \in [S -> Nat], NEW n \in Nat
  PROVE  Supply([h \in S |-> f[h] * n]) = Supply(f) * n
<1> DEFINE g == [h \in S |-> f[h] * n]
           Place(w) == <<w[1][1], (w[1][2] - 1) * n + w[2]>>
           spread == [w \in Units(f) \X (1..n) |-> Place(w)]
<1>1. \A h \in S : f[h] \in Nat /\ f[h] * n \in Nat /\ g[h] = f[h] * n
  OBVIOUS
<1>2. g \in [S -> Nat]
  BY <1>1
<1>3. \A w \in Units(f) \X (1..n) : Place(w) \in Units(g)
  <2> SUFFICES ASSUME NEW u \in Units(f), NEW r \in 1..n
               PROVE  <<u[1], (u[2] - 1) * n + r>> \in Units(g)
    OBVIOUS
  <2>1. PICK h \in S : u \in {h} \X (1..f[h])
    BY DEF Units
  <2>2. u[1] = h /\ u[2] \in 1..f[h] /\ f[h] \in Nat
    BY <2>1
  <2>3. ASSUME NEW j \in 1..f[h] PROVE (j - 1) * n + r \in 1..(f[h] * n)
    <3>1. j - 1 \in Nat /\ j <= f[h] /\ f[h] \in Nat
      OBVIOUS
    <3>2. (j - 1) * n \in Nat /\ j * n = (j - 1) * n + n /\ f[h] * n \in Nat
      BY <3>1
    <3>3. j * n <= f[h] * n
      BY <3>1
    <3> QED
      BY <3>2, <3>3
  <2> QED
    BY <1>1, <1>2, <2>2, <2>3 DEF Units
<1>4. \A v \in Units(g) : \E w \in Units(f) \X (1..n) : spread[w] = v
  <2> SUFFICES ASSUME NEW v \in Units(g) PROVE \E w \in Units(f) \X (1..n) : spread[w] = v
    OBVIOUS
  <2>1. PICK h \in S : v \in {h} \X (1..(f[h] * n))
    BY <1>1, <1>2 DEF Units
  <2>2. PICK k \in 1..(f[h] * n) : v = <<h, k>>
    BY <2>1
  <2>3. f[h] \in Nat /\ n > 0
    BY <1>1, <2>2
  <2>4. PICK j \in 1..f[h], r \in 1..n : k = (j - 1) * n + r
    BY <2>3, BlockOf
  <2>5. <<h, j>> \in Units(f)
    BY DEF Units
  <2>6. <<<<h, j>>, r>> \in Units(f) \X (1..n) /\ spread[<<<<h, j>>, r>>] = v
    BY <2>2, <2>4, <2>5
  <2> QED
    BY <2>6
<1>5. \A w, x \in Units(f) \X (1..n) : spread[w] = spread[x] => w = x
  <2> SUFFICES ASSUME NEW u \in Units(f), NEW r \in 1..n, NEW v \in Units(f), NEW s \in 1..n,
                      Place(<<u, r>>) = Place(<<v, s>>)
               PROVE  u = v /\ r = s
    OBVIOUS
  <2>1. PICK h \in S : \E j \in 1..f[h] : u = <<h, j>>
    BY DEF Units
  <2>2. PICK k \in S : \E i \in 1..f[k] : v = <<k, i>>
    BY DEF Units
  <2>3. PICK j \in 1..f[h] : u = <<h, j>>
    BY <2>1
  <2>4. PICK i \in 1..f[k] : v = <<k, i>>
    BY <2>2
  <2>5. h = k /\ (j - 1) * n + r = (i - 1) * n + s
    BY <2>3, <2>4
  <2>6. j \in Nat /\ i \in Nat
    BY <1>1
  <2>7. j = i /\ r = s
    BY <2>5, <2>6, OneBlock
  <2> QED
    BY <2>3, <2>4, <2>5, <2>7
<1>6. spread \in Bijection(Units(f) \X (1..n), Units(g))
  <2> HIDE DEF Place
  <2>1. spread \in [Units(f) \X (1..n) -> Units(g)]
    BY <1>3
  <2> QED
    BY <1>4, <1>5, <2>1 DEF Bijection, Injection, Surjection, IsInjective
<1>7. IsFiniteSet(1..n) /\ Cardinality(1..n) = n
  <2>1. 1 \in Int /\ n \in Int
    OBVIOUS
  <2>2. IsFiniteSet(1..n) /\ Cardinality(1..n) = IF 1 > n THEN 0 ELSE n - 1 + 1
    BY <2>1, FS_Interval
  <2> QED
    BY <2>2
<1> HIDE DEF spread, g
<1>8. /\ IsFiniteSet(Units(f) \X (1..n))
      /\ Cardinality(Units(f) \X (1..n)) = Cardinality(Units(f)) * n
  BY <1>7, UnitsFinite, FS_Product
<1>9. Cardinality(Units(g)) = Cardinality(Units(f)) * n
  BY <1>6, <1>8, FS_Bijection DEF ExistsBijection
<1>10. Supply(g) = Supply(f) * n
  BY <1>9 DEF Supply
<1> QED
  BY <1>10 DEF g

\* The same balance for every holder.
LEMMA SupplyConstant ==
  ASSUME NEW S, IsFiniteSet(S), NEW n \in Nat
  PROVE  /\ Supply([h \in S |-> n]) = Cardinality(S) * n
         /\ [h \in S |-> n] \in [S -> Nat]
<1> DEFINE f == [h \in S |-> n]
<1>1. Units(f) = S \X (1..n)
  BY DEF Units
<1>2. IsFiniteSet(1..n) /\ Cardinality(1..n) = n
  <2>1. 1 \in Int /\ n \in Int
    OBVIOUS
  <2>2. IsFiniteSet(1..n) /\ Cardinality(1..n) = IF 1 > n THEN 0 ELSE n - 1 + 1
    BY <2>1, FS_Interval
  <2> QED
    BY <2>2
<1>3. Cardinality(S \X (1..n)) = Cardinality(S) * Cardinality(1..n)
  BY <1>2, FS_Product
<1> QED
  BY <1>1, <1>2, <1>3 DEF Supply

-----------------------------------------------------------------------------
(* The least number of a set *)

\* The numbers from 1 that are below a member of a set of them, if all are members.
LEMMA DownwardClosed ==
  ASSUME NEW n \in Nat, NEW G \in SUBSET (1..n),
         \A i \in G : \A j \in 1..n : j < i => j \in G
  PROVE  \E c \in 0..n : G = 1..c
<1>1. \A a \in Nat : IsFiniteSet(1..a) /\ Cardinality(1..a) = a
  <2> TAKE a \in Nat
  <2>1. 1 \in Int /\ a \in Int
    OBVIOUS
  <2>2. IsFiniteSet(1..a) /\ Cardinality(1..a) = IF 1 > a THEN 0 ELSE a - 1 + 1
    BY <2>1, FS_Interval
  <2> QED
    BY <2>2
<1>2. IsFiniteSet(G) /\ Cardinality(G) \in Nat /\ Cardinality(G) <= n
  <2>1. PICK T : T = 1..n
    OBVIOUS
  <2>2. IsFiniteSet(T) /\ Cardinality(T) = n /\ G \in SUBSET T
    BY <1>1, <2>1
  <2>3. IsFiniteSet(G) /\ Cardinality(G) <= Cardinality(T)
    BY <2>2, FS_Subset
  <2> QED
    BY <2>2, <2>3, FS_CardinalityType
<1>3. PICK c \in Nat : c = Cardinality(G)
  BY <1>2
<1>4. ASSUME NEW i \in G PROVE i <= c
  <2>1. PICK T : T = 1..i
    OBVIOUS
  <2>2. i \in Nat /\ T \in SUBSET G
    BY <2>1
  <2>3. Cardinality(T) <= Cardinality(G)
    BY <1>2, <2>2, FS_Subset
  <2> QED
    BY <1>1, <1>3, <2>1, <2>2, <2>3
<1>5. G = 1..c
  <2>1. PICK T : T = 1..c
    OBVIOUS
  <2>2. IsFiniteSet(T) /\ G \in SUBSET T /\ Cardinality(T) = Cardinality(G)
    BY <1>1, <1>3, <1>4, <2>1
  <2>3. T = G
    BY <2>2, FS_Subset
  <2> QED
    BY <2>1, <2>3
<1> QED
  BY <1>2, <1>3, <1>5

\* A set of natural numbers has a least member.
LEMMA LeastMember ==
  ASSUME NEW T \in SUBSET Nat, NEW x \in T
  PROVE  \E m \in T : \A y \in T : m <= y
<1> DEFINE G == { i \in 1..(x + 1) : \A y \in T : i <= y + 1 }
<1>1. x \in Nat /\ x + 1 \in Nat
  OBVIOUS
<1>2. G \in SUBSET (1..(x + 1)) /\ \A i \in G : \A j \in 1..(x + 1) : j < i => j \in G
  BY <1>1
<1>3. PICK c \in 0..(x + 1) : G = 1..c
  <2> HIDE DEF G
  <2> QED
    BY <1>1, <1>2, DownwardClosed
<1>4. c # 0
  <2>1. 1 \in G
    BY <1>1
  <2> HIDE DEF G
  <2> QED
    BY <1>3, <2>1
<1>5. \A y \in T : c <= y + 1
  <2>1. c \in G
    <3> HIDE DEF G
    <3> QED
      BY <1>3, <1>4
  <2> QED
    BY <2>1
<1>6. c - 1 \in T
  <2>1. CASE c = x + 1
    BY <2>1, <1>1
  <2>2. CASE c < x + 1
    <3>1. c + 1 \notin G
      <4> HIDE DEF G
      <4> QED
        BY <1>3
    <3>2. PICK y \in T : c + 1 > y + 1
      BY <1>1, <2>2, <3>1
    <3>3. y = c - 1
      BY <1>5, <3>2
    <3> QED
      BY <3>2, <3>3
  <2> QED
    BY <1>1, <1>3, <2>1, <2>2
<1> QED
  BY <1>5, <1>6
=============================================================================
