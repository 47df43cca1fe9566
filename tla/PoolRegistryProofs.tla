------------------------- MODULE PoolRegistryProofs -------------------------
(* Proofs about the pool registry, for any tokens, finite set of providers, *)
(* fee tiers, amounts and bounds.                                           *)
EXTENDS PoolRegistry

\* The provers that a leaf which names none is given, and for how long.
USE SMTT(30), ZenonT(30)

\* One pool in a legal state: typed, of two tokens, both reserves positive, and
\* some of the supply in nobody's hands.
GoodPool(p) ==
  /\ p \in LiquidityPool
  /\ p.a # p.b
  /\ p.ra > 0 /\ p.rb > 0
  /\ Supply(p.lp) < p.total

\* The inductive invariant: every registered pool is in a legal state.
IInv ==
  /\ pools \in Seq(LiquidityPool)
  /\ \A id \in DOMAIN pools : GoodPool(pools[id])
  /\ maxHops \in Nat

-----------------------------------------------------------------------------
(* Arithmetic *)

\* The quotient q = x \div d is the number with q * d <= x < (q+1) * d.
LEMMA DivBounds ==
  ASSUME NEW x \in Nat, NEW d \in Nat \ {0}
  PROVE  /\ x \div d \in Nat
         /\ (x \div d) * d <= x
         /\ x < (x \div d) * d + d
OBVIOUS

\* Products of naturals are naturals, and grow with their factors.
LEMMA MulMono ==
  ASSUME NEW a \in Nat, NEW b \in Nat, NEW c \in Nat, a <= b
  PROVE  a * c \in Nat /\ a * c <= b * c /\ c * a <= c * b
OBVIOUS

\* A common positive factor cancels.
LEMMA MulCancel ==
  ASSUME NEW a \in Nat, NEW b \in Nat, NEW c \in Nat \ {0}, a * c <= b * c
  PROVE  a <= b
OBVIOUS

\* The fee is at most the input, so what is left is a natural number.
LEMMA FeeBounds ==
  ASSUME NEW x \in Nat, NEW tier \in FeeTiers
  PROVE  /\ (x * tier) \div Bps \in Nat
         /\ x - (x * tier) \div Bps \in Nat
<1> USE PoolAssumption
<1> DEFINE f == (x * tier) \div Bps
<1>1. tier \in Nat /\ tier <= Bps /\ Bps \in Nat \ {0}
  OBVIOUS
<1>2. x * tier \in Nat /\ x * tier <= x * Bps
  BY <1>1, MulMono
<1>3. f \in Nat /\ f * Bps <= x * tier
  BY <1>1, <1>2, DivBounds
<1> HIDE DEF f
<1>4. f * Bps \in Nat /\ x * Bps \in Nat /\ f * Bps <= x * Bps
  BY <1>1, <1>2, <1>3
<1>5. f <= x
  BY <1>1, <1>3, <1>4, MulCancel
<1>6. f \in Nat /\ x - f \in Nat
  BY <1>3, <1>5
<1> QED
  BY <1>6 DEF f

\* A constant-product trade of m for the output leaves something behind and
\* does not lower the product of the reserves.
LEMMA TradeBounds ==
  ASSUME NEW ri \in Nat \ {0}, NEW ro \in Nat \ {0}, NEW m \in Nat
  PROVE  LET out == (ro * m) \div (ri + m)
         IN /\ out \in Nat
            /\ ro - out \in Nat \ {0}
            /\ (ri + m) * (ro - out) >= ri * ro
<1> DEFINE d == ri + m
           out == (ro * m) \div d
<1>1. d \in Nat \ {0} /\ ro * m \in Nat
  OBVIOUS
<1>2. out \in Nat /\ out * d <= ro * m
  BY <1>1, DivBounds
<1>3. ro * d = ro * ri + ro * m /\ ro * ri \in Nat \ {0} /\ ro * ri = ri * ro
  OBVIOUS
<1>4. d = ri + m
  OBVIOUS
<1> HIDE DEF out, d
<1>5. (ro - out) * d = ro * d - out * d /\ out * d \in Nat /\ ro * d \in Nat
  BY <1>1, <1>2
<1>6. (ro - out) * d >= ro * ri /\ out * d < ro * d
  BY <1>1, <1>2, <1>3, <1>5
<1>7. ~(ro <= out)
  <2> SUFFICES ASSUME ro <= out PROVE FALSE
    OBVIOUS
  <2>1. ro * d <= out * d
    BY <1>1, <1>2, MulMono
  <2> QED
    BY <1>5, <1>6, <2>1
<1>8. ro - out \in Nat \ {0}
  BY <1>2, <1>7
<1>9. d * (ro - out) = (ro - out) * d
  BY <1>1, <1>8
<1>10. d * (ro - out) >= ri * ro
  BY <1>1, <1>3, <1>6, <1>8, <1>9
<1> QED
  BY <1>2, <1>4, <1>8, <1>10 DEF out, d

\* A withdrawal of n of the t shares takes at most its part of a reserve r,
\* leaves something behind, and keeps the reserve per share.
LEMMA BurnBounds ==
  ASSUME NEW r \in Nat \ {0}, NEW t \in Nat, NEW n \in Nat, n < t
  PROVE  LET out == (n * r) \div t
         IN /\ out \in Nat
            /\ r - out \in Nat \ {0}
            /\ (r - out) * t >= r * (t - n)
<1> DEFINE out == (n * r) \div t
<1>1. t \in Nat \ {0} /\ n * r \in Nat /\ t - n \in Nat \ {0}
  OBVIOUS
<1>2. out \in Nat /\ out * t <= n * r
  BY <1>1, DivBounds
<1> HIDE DEF out
<1>3. /\ (r - out) * t = r * t - out * t
      /\ r * (t - n) = r * t - n * r
      /\ out * t \in Nat /\ r * t \in Nat
  BY <1>1, <1>2
<1>4. (r - out) * t >= r * (t - n)
  BY <1>1, <1>2, <1>3
<1>5. r * (t - n) \in Nat \ {0}
  BY <1>1
<1>6. ~(r <= out)
  <2> SUFFICES ASSUME r <= out PROVE FALSE
    OBVIOUS
  <2>1. r * t <= out * t
    BY <1>1, <1>2, MulMono
  <2> QED
    BY <1>3, <1>4, <1>5, <2>1
<1>7. r - out \in Nat \ {0}
  BY <1>2, <1>6
<1> QED
  BY <1>2, <1>4, <1>7 DEF out

\* A deposit of x that mints k <= x*t/r shares keeps the reserve per share.
LEMMA DepositBounds ==
  ASSUME NEW r \in Nat \ {0}, NEW t \in Nat, NEW x \in Nat, NEW k \in Nat,
         k <= (x * t) \div r
  PROVE  (r + x) * t >= r * (t + k)
<1> DEFINE q == (x * t) \div r
<1>1. x * t \in Nat
  OBVIOUS
<1>2. q \in Nat /\ q * r <= x * t
  BY <1>1, DivBounds
<1>3. k <= q
  OBVIOUS
<1> HIDE DEF q
<1>4. k * r <= q * r /\ k * r \in Nat /\ q * r \in Nat
  BY <1>2, <1>3, MulMono
<1>5. k * r <= x * t
  BY <1>1, <1>2, <1>4
<1>6. (r + x) * t = r * t + x * t /\ r * (t + k) = r * t + k * r
  OBVIOUS
<1> QED
  BY <1>1, <1>4, <1>5, <1>6
\* The output of a trade grows with what is left of the input.
LEMMA OutputMonotone ==
  ASSUME NEW ri \in Nat \ {0}, NEW ro \in Nat \ {0},
         NEW m \in Nat, NEW n \in Nat, m <= n
  PROVE  (ro * m) \div (ri + m) <= (ro * n) \div (ri + n)
<1> DEFINE o == (ro * m) \div (ri + m)
           q == (ro * n) \div (ri + n)
           d == ri + m
           e == ri + n
<1>1. d \in Nat \ {0} /\ e \in Nat \ {0} /\ ro * m \in Nat /\ ro * n \in Nat
  OBVIOUS
<1>2. o \in Nat /\ o * d <= ro * m
  BY <1>1, DivBounds
<1>3. q \in Nat /\ ro * n < q * e + e
  BY <1>1, DivBounds
<1>4. o <= ro
  <2>1. ro - (ro * m) \div (ri + m) \in Nat \ {0}
    BY TradeBounds
  <2> QED
    BY <1>2, <2>1
<1>5. PICK k \in Nat : n = m + k
  BY n = m + (n - m), n - m \in Nat
<1>6. e = d + k /\ ro * n = ro * m + ro * k
  BY <1>5
<1> HIDE DEF o, q, d, e
<1>7. o * e = o * d + o * k
  BY <1>1, <1>2, <1>5, <1>6
<1>8. o * k <= ro * k /\ o * k \in Nat /\ ro * k \in Nat
  BY <1>2, <1>4, <1>5, MulMono
<1>9. o * e <= ro * n
  BY <1>1, <1>2, <1>5, <1>6, <1>7, <1>8
<1>10. o * e < (q + 1) * e
  BY <1>1, <1>2, <1>3, <1>9
<1>11. o <= q
  <2> SUFFICES ASSUME q + 1 <= o PROVE FALSE
    BY <1>2, <1>3
  <2>1. (q + 1) * e <= o * e /\ (q + 1) * e \in Nat /\ o * e \in Nat
    BY <1>1, <1>2, <1>3, MulMono
  <2> QED
    BY <1>10, <2>1
<1> QED
  BY <1>11 DEF o, q

\* The route finder never leaves more of the input than the trade does.
LEMMA QuoteNetBelow ==
  ASSUME NEW x \in Nat, NEW tier \in FeeTiers
  PROVE  /\ (x * (Bps - tier)) \div Bps \in Nat
         /\ (x * (Bps - tier)) \div Bps <= x - (x * tier) \div Bps
<1> USE PoolAssumption
<1> DEFINE f == (x * tier) \div Bps
           q == (x * (Bps - tier)) \div Bps
<1>1. tier \in Nat /\ Bps - tier \in Nat /\ Bps \in Nat \ {0}
  OBVIOUS
<1>2. x * tier \in Nat /\ x * (Bps - tier) \in Nat
      /\ x * tier + x * (Bps - tier) = x * Bps
  BY <1>1
<1>3. f \in Nat /\ f * Bps <= x * tier /\ q \in Nat /\ q * Bps <= x * (Bps - tier)
  BY <1>1, <1>2, DivBounds
<1> HIDE DEF f, q
<1>4. (q + f) * Bps <= x * Bps
  BY <1>1, <1>2, <1>3
<1>5. q + f <= x
  BY <1>1, <1>3, <1>4, MulCancel
<1>6. q \in Nat /\ q <= x - f
  BY <1>3, <1>5
<1> QED
  BY <1>6 DEF f, q

\* Trading y, at most the output for m, back returns at most m.
LEMMA ReturnBound ==
  ASSUME NEW ri \in Nat \ {0}, NEW ro \in Nat \ {0}, NEW m \in Nat,
         NEW y \in Nat, y = (ro * m) \div (ri + m), NEW b \in Nat, b <= y
  PROVE  ((ri + m) * b) \div ((ro - y) + b) <= m
<1> DEFINE d == ri + m
           e == (ro - y) + b
           z == (d * b) \div e
<1>1. ro - y \in Nat \ {0} /\ d \in Nat \ {0} /\ ro * m \in Nat
  BY TradeBounds
<1>2. y * d <= ro * m
  BY <1>1, DivBounds
<1>3. e \in Nat \ {0} /\ d * b \in Nat
  BY <1>1
<1>4. z \in Nat /\ z * e <= d * b
  BY <1>3, DivBounds
<1>5. y * d = y * ri + y * m /\ m * (ro - y) = ro * m - y * m
      /\ y * ri \in Nat /\ y * m \in Nat
  OBVIOUS
<1>6. b * ri <= y * ri /\ b * ri \in Nat
  BY MulMono
<1>7. b * ri <= m * (ro - y)
  BY <1>1, <1>2, <1>5, <1>6
<1>8. d * b = b * ri + m * b /\ m * e = m * (ro - y) + m * b /\ m * b \in Nat
      /\ m * (ro - y) \in Nat
  BY <1>1
<1> HIDE DEF d, e, z
<1>9. z * e <= m * e
  BY <1>3, <1>4, <1>6, <1>7, <1>8
<1>10. z <= m
  BY <1>3, <1>4, <1>9, MulCancel
<1> QED
  BY <1>10 DEF d, e, z

-----------------------------------------------------------------------------
(* The square root *)

\* A function that goes from each argument to a smaller one, until there is none.
Descends(f, n, next) ==
  /\ f \in [1..n -> 1..n]
  /\ \A z \in 1..n : f[z] = IF next[z] < z THEN f[next[z]] ELSE z

LEMMA DescentDefines ==
  ASSUME NEW n \in Nat, NEW next, \A z \in 1..n : next[z] \in Nat \ {0}
  PROVE  \E f : Descends(f, n, next)
<1> DEFINE Upto(m, f) == /\ f \in [1..m -> 1..n]
                         /\ \A z \in 1..m : f[z] = IF next[z] < z THEN f[next[z]] ELSE z
           Bad == { m \in 0..n : ~ \E f : Upto(m, f) }
<1>1. \E f : Upto(0, f)
  <2> DEFINE f == [z \in 1..0 |-> z]
  <2>1. Upto(0, f)
    OBVIOUS
  <2> QED
    BY <2>1
<1>2. ASSUME NEW m \in 0..n, m + 1 \in 0..n, NEW g, Upto(m, g)
      PROVE  \E f : Upto(m + 1, f)
  <2>1. next[m + 1] \in Nat \ {0}
    BY <1>2
  <2>2. PICK last \in 1..n : last = IF next[m + 1] < m + 1 THEN g[next[m + 1]] ELSE m + 1
    <3>1. CASE next[m + 1] < m + 1
      <4>1. next[m + 1] \in 1..m
        BY <2>1, <3>1
      <4>2. g[next[m + 1]] \in 1..n
        BY <1>2, <4>1
      <4> QED
        BY <3>1, <4>2
    <3>2. CASE ~(next[m + 1] < m + 1)
      BY <1>2, <3>2
    <3> QED
      BY <3>1, <3>2
  <2> DEFINE f == [z \in 1..(m + 1) |-> IF z = m + 1 THEN last ELSE g[z]]
  <2>3. f \in [1..(m + 1) -> 1..n]
    BY <1>2
  <2>4. f[m + 1] = last /\ \A z \in 1..m : f[z] = g[z]
    OBVIOUS
  <2> HIDE DEF f
  <2>5. \A z \in 1..(m + 1) : f[z] = IF next[z] < z THEN f[next[z]] ELSE z
    <3> TAKE z \in 1..(m + 1)
    <3>1. next[z] < z => next[z] \in 1..m
      BY <1>2
    <3>2. CASE z = m + 1
      BY <2>2, <2>4, <3>1, <3>2
    <3>3. CASE z # m + 1
      <4>1. z \in 1..m
        BY <3>3
      <4> QED
        BY <1>2, <2>4, <3>1, <4>1
    <3> QED
      BY <3>2, <3>3
  <2> QED
    BY <2>3, <2>5
<1> HIDE DEF Upto
<1>3. \E f : Upto(n, f)
  <2> SUFFICES ASSUME Bad # {} PROVE FALSE
    OBVIOUS
  <2>1. PICK m \in Bad : \A k \in Bad : m <= k
    <3>1. Bad \in SUBSET Nat
      OBVIOUS
    <3> HIDE DEF Bad
    <3> QED
      BY <3>1, LeastMember
  <2>2. m \in 0..n /\ m # 0
    BY <1>1
  <2>3. m - 1 \in 0..n /\ ~(m <= m - 1) /\ (m - 1) + 1 = m
    BY <2>2
  <2>4. PICK g : Upto(m - 1, g)
    BY <2>1, <2>3
  <2>5. \E f : Upto((m - 1) + 1, f)
    BY <1>2, <2>2, <2>3, <2>4
  <2> QED
    BY <2>3, <2>5
<1> QED
  BY <1>3 DEF Upto, Descends

\* The mean of z and y / z, rounded down, is no less than the root, rounded down.
LEMMA MeanIsAbove ==
  ASSUME NEW y \in Nat, NEW z \in Nat \ {0}, NEW q \in Nat, y < q * z + z,
         NEW x \in Nat, q + z <= 2 * x + 1
  PROVE  y < (x + 1) * (x + 1)
<1>1. PICK s \in Nat : s = x + 1
  OBVIOUS
<1>2. PICK p \in Nat : p = q + 1
  OBVIOUS
<1>3. p * z = q * z + z /\ p * z \in Nat
  BY <1>2
<1>4. p + z <= 2 * s
  BY <1>1, <1>2
<1>5. (p + z) * (p + z) <= (2 * s) * (2 * s)
  <2>1. p + z \in Nat /\ 2 * s \in Nat
    OBVIOUS
  <2>2. (p + z) * (p + z) <= (2 * s) * (p + z) /\ (2 * s) * (p + z) <= (2 * s) * (2 * s)
    BY <1>4, <2>1, MulMono
  <2> QED
    BY <2>1, <2>2
<1>6. (p + z) * (p + z) = 4 * (p * z) + (p - z) * (p - z) /\ (p - z) * (p - z) >= 0
  OBVIOUS
<1>7. (2 * s) * (2 * s) = 4 * (s * s) /\ s * s \in Nat
  OBVIOUS
<1>8. p * z <= s * s
  BY <1>3, <1>5, <1>6, <1>7
<1> QED
  BY <1>1, <1>3, <1>7, <1>8

\* The square root is rounded down, for every number.
THEOREM SquareRoot ==
  ASSUME NEW y \in Nat
  PROVE  LET r == Isqrt(y) IN r \in Nat /\ r * r <= y /\ y < (r + 1) * (r + 1)
<1>1. CASE y < 4
  BY <1>1 DEF Isqrt
<1>2. CASE y >= 4
  <2> DEFINE first == y \div 2 + 1
             Better(z) == (y \div z + z) \div 2
             Solves(f) == f = [z \in 1..first |-> IF Better(z) < z THEN f[Better(z)] ELSE z]
             newton == CHOOSE f : Solves(f)
             next == [z \in 1..first |-> Better(z)]
  <2>1. PICK n \in Nat : n = first /\ n < y /\ y < (n + 1) * (n + 1)
    <3>1. PICK h \in Nat : h = y \div 2 /\ h * 2 <= y /\ y < h * 2 + 2
      BY DivBounds
    <3>2. (h + 1) + 1 \in Nat /\ 2 * ((h + 1) + 1) <= ((h + 1) + 1) * ((h + 1) + 1)
      BY MulMono
    <3>3. h + 1 < y /\ y < ((h + 1) + 1) * ((h + 1) + 1)
      BY <1>2, <3>1, <3>2
    <3> QED
      BY <3>1, <3>3
  <2> HIDE DEF first
  <2>2. ASSUME NEW z \in 1..n
        PROVE  /\ Better(z) \in Nat \ {0}
               /\ y < (Better(z) + 1) * (Better(z) + 1)
               /\ ~(Better(z) < z) => z * z <= y
    <3>1. z \in Nat \ {0} /\ z <= y
      BY <2>1
    <3>2. PICK q \in Nat : q = y \div z /\ q * z <= y /\ y < q * z + z
      BY <3>1, DivBounds
    <3>3. PICK x \in Nat : x = Better(z) /\ x * 2 <= q + z /\ q + z < x * 2 + 2
      <4>1. q + z \in Nat
        BY <3>1
      <4>2. PICK x \in Nat : x = (q + z) \div 2 /\ x * 2 <= q + z /\ q + z < x * 2 + 2
        BY <4>1, DivBounds
      <4> QED
        BY <3>2, <4>2
    <3>4. q # 0
      BY <3>1, <3>2
    <3>5. x # 0
      BY <3>1, <3>3, <3>4
    <3>6. y < (x + 1) * (x + 1)
      <4>1. q + z <= 2 * x + 1
        BY <3>1, <3>3
      <4> QED
        BY <3>1, <3>2, <4>1, MeanIsAbove
    <3>7. ~(x < z) => z * z <= y
      <4> SUFFICES ASSUME ~(x < z) PROVE z * z <= y
        OBVIOUS
      <4>1. z <= q
        BY <3>1, <3>3
      <4>2. z * z <= q * z /\ z * z \in Nat /\ q * z \in Nat
        BY <3>1, <4>1, MulMono
      <4> QED
        BY <3>2, <4>2
    <3> QED
      BY <3>3, <3>5, <3>6, <3>7
  <2> HIDE DEF Better
  <2>3. \E f : Solves(f)
    <3>1. \A z \in 1..n : next[z] = Better(z) /\ next[z] \in Nat \ {0}
      BY <2>1, <2>2
    <3> HIDE DEF next
    <3>2. PICK f : Descends(f, n, next)
      BY <3>1, DescentDefines
    <3>3. /\ f \in [1..n -> 1..n]
          /\ \A z \in 1..n : f[z] = IF Better(z) < z THEN f[Better(z)] ELSE z
      BY <3>1, <3>2 DEF Descends
    <3>4. Solves(f)
      BY <2>1, <3>3
    <3> QED
      BY <3>4
  <2>4. newton = [z \in 1..n |-> IF Better(z) < z THEN newton[Better(z)] ELSE z]
    BY <2>1, <2>3
  <2>5. Isqrt(y) = newton[n]
    BY <1>2, <2>1 DEF Isqrt, Better, first
  <2> HIDE DEF newton, Solves
  <2> DEFINE Root(r) == r \in Nat /\ r * r <= y /\ y < (r + 1) * (r + 1)
             Wrong == { z \in 1..n : y < (z + 1) * (z + 1) /\ ~Root(newton[z]) }
  <2>6. Wrong = {}
    <3> SUFFICES ASSUME Wrong # {} PROVE FALSE
      OBVIOUS
    <3>1. PICK z \in Wrong : \A k \in Wrong : z <= k
      <4>1. Wrong \in SUBSET Nat
        OBVIOUS
      <4> HIDE DEF Wrong
      <4> QED
        BY <4>1, LeastMember
    <3>2. z \in 1..n /\ y < (z + 1) * (z + 1) /\ ~Root(newton[z])
      BY <3>1
    <3> HIDE DEF Root
    <3>3. CASE Better(z) < z
      <4>1. Better(z) \in 1..n /\ y < (Better(z) + 1) * (Better(z) + 1) /\ newton[z] = newton[Better(z)]
        BY <2>2, <2>4, <3>2, <3>3
      <4>2. Better(z) \in Wrong
        BY <3>2, <4>1
      <4> QED
        BY <2>2, <3>1, <3>2, <3>3, <4>2
    <3>4. CASE ~(Better(z) < z)
      <4>1. newton[z] = z /\ z * z <= y
        BY <2>2, <2>4, <3>2, <3>4
      <4> QED
        BY <3>2, <4>1 DEF Root
    <3> QED
      BY <3>3, <3>4
  <2>7. Root(newton[n])
    <3>1. n \in 1..n
      BY <2>1 DEF first
    <3> HIDE DEF Root
    <3> QED
      BY <2>1, <2>6, <3>1
  <2> QED
    BY <2>5, <2>7
<1> QED
  BY <1>1, <1>2

-----------------------------------------------------------------------------
(* One pool, operation by operation *)

\* The fields of a legal pool.
LEMMA PoolFields ==
  ASSUME NEW p, GoodPool(p)
  PROVE  /\ p.ra \in Nat \ {0} /\ p.rb \in Nat \ {0} /\ p.total \in Nat \ {0}
         /\ p.fa \in Nat /\ p.fb \in Nat /\ p.tier \in FeeTiers
         /\ p.a \in Tokens /\ p.b \in Tokens
         /\ p.lp \in [Providers -> Nat] /\ Supply(p.lp) \in Nat
<1>1. p \in LiquidityPool
  BY DEF GoodPool
<1>2. p.lp \in [Providers -> Nat] /\ p.total \in Nat
  BY <1>1 DEF LiquidityPool
<1>3. Supply(p.lp) \in Nat
  BY <1>2, PoolAssumption, SupplyType
<1> QED
  BY <1>1, <1>3 DEF GoodPool, LiquidityPool

\* The integer share of a provider is always zero: no balance reaches the
\* supply, part of which nobody holds.  So claim_fees changes nothing.
LEMMA ClaimPaysNothing ==
  ASSUME NEW p, GoodPool(p), NEW h \in Providers
  PROVE  Claimed(p, h) = p
<1>1. p.lp \in [Providers -> Nat] /\ p.lp[h] \in Nat /\ p.total \in Nat \ {0}
      /\ p.fa \in Nat /\ p.fb \in Nat
  BY PoolFields
<1>2. p.lp[h] <= Supply(p.lp) /\ Supply(p.lp) \in Nat
  BY <1>1, PoolFields, PoolAssumption, BalanceAtMostSupply
<1>3. p.lp[h] < p.total
  BY <1>1, <1>2 DEF GoodPool
<1>4. p.lp[h] \div p.total = 0
  BY <1>1, <1>3
<1>5. p.fa - p.fa * ClaimShare(p, h) = p.fa /\ p.fb - p.fb * ClaimShare(p, h) = p.fb
  BY <1>1, <1>4 DEF ClaimShare
<1>6. p \in LiquidityPool
  BY DEF GoodPool
<1> QED
  BY <1>5, <1>6 DEF Claimed, LiquidityPool

\* Replacing a field of a pool by a value of its type leaves a typed pool.
LEMMA PoolField ==
  ASSUME NEW p \in LiquidityPool, NEW v \in Nat
  PROVE  /\ [p EXCEPT !.ra = v] \in LiquidityPool
         /\ [p EXCEPT !.rb = v] \in LiquidityPool
         /\ [p EXCEPT !.total = v] \in LiquidityPool
         /\ [p EXCEPT !.fa = v] \in LiquidityPool
         /\ [p EXCEPT !.fb = v] \in LiquidityPool
         /\ \A l \in [Providers -> Nat] : [p EXCEPT !.lp = l] \in LiquidityPool
         /\ \A t \in FeeTiers : [p EXCEPT !.tier = t] \in LiquidityPool
<1>1. [p EXCEPT !.ra = v] \in LiquidityPool
  BY DEF LiquidityPool
<1>2. [p EXCEPT !.rb = v] \in LiquidityPool
  BY DEF LiquidityPool
<1>3. [p EXCEPT !.total = v] \in LiquidityPool
  BY DEF LiquidityPool
<1>4. [p EXCEPT !.fa = v] \in LiquidityPool
  BY DEF LiquidityPool
<1>5. [p EXCEPT !.fb = v] \in LiquidityPool
  BY DEF LiquidityPool
<1>6. ASSUME NEW l \in [Providers -> Nat]
      PROVE  [p EXCEPT !.lp = l] \in LiquidityPool
  BY DEF LiquidityPool
<1>7. ASSUME NEW t \in FeeTiers PROVE [p EXCEPT !.tier = t] \in LiquidityPool
  BY DEF LiquidityPool
<1> QED
  BY <1>1, <1>2, <1>3, <1>4, <1>5, <1>6, <1>7

\* The same for the fields a deposit, a burn or a trade replaces together.
LEMMA PoolShareUpdate ==
  ASSUME NEW p \in LiquidityPool, NEW ra \in Nat, NEW rb \in Nat, NEW t \in Nat,
         NEW l \in [Providers -> Nat]
  PROVE  [p EXCEPT !.ra = ra, !.rb = rb, !.total = t, !.lp = l] \in LiquidityPool
<1> DEFINE p1 == [p EXCEPT !.ra = ra]
           p2 == [p1 EXCEPT !.rb = rb]
           p3 == [p2 EXCEPT !.total = t]
           p4 == [p3 EXCEPT !.lp = l]
<1>1. [p EXCEPT !.ra = ra, !.rb = rb, !.total = t, !.lp = l] = p4
  BY Zenon
<1>2. p1 \in LiquidityPool
  BY PoolField
<1> HIDE DEF p1
<1>3. p2 \in LiquidityPool
  BY <1>2, PoolField
<1> HIDE DEF p2
<1>4. p3 \in LiquidityPool
  BY <1>3, PoolField
<1> HIDE DEF p3
<1>5. p4 \in LiquidityPool
  BY <1>4, PoolField
<1> QED
  BY <1>1, <1>5

LEMMA PoolTradeOfA ==
  ASSUME NEW p \in LiquidityPool, NEW ra \in Nat, NEW rb \in Nat, NEW f \in Nat
  PROVE  [p EXCEPT !.ra = ra, !.rb = rb, !.fa = f] \in LiquidityPool
<1> DEFINE p1 == [p EXCEPT !.ra = ra]
           p2 == [p1 EXCEPT !.rb = rb]
<1>1. [p EXCEPT !.ra = ra, !.rb = rb, !.fa = f] = [p2 EXCEPT !.fa = f]
  BY Zenon
<1>2. p1 \in LiquidityPool
  BY PoolField
<1> HIDE DEF p1
<1>3. p2 \in LiquidityPool
  BY <1>2, PoolField
<1> HIDE DEF p2
<1> QED
  BY <1>1, <1>3, PoolField

LEMMA PoolTradeOfB ==
  ASSUME NEW p \in LiquidityPool, NEW ra \in Nat, NEW rb \in Nat, NEW f \in Nat
  PROVE  [p EXCEPT !.rb = rb, !.ra = ra, !.fb = f] \in LiquidityPool
<1> DEFINE p1 == [p EXCEPT !.rb = rb]
           p2 == [p1 EXCEPT !.ra = ra]
<1>1. [p EXCEPT !.rb = rb, !.ra = ra, !.fb = f] = [p2 EXCEPT !.fb = f]
  BY Zenon
<1>2. p1 \in LiquidityPool
  BY PoolField
<1> HIDE DEF p1
<1>3. p2 \in LiquidityPool
  BY <1>2, PoolField
<1> HIDE DEF p2
<1> QED
  BY <1>1, <1>3, PoolField

\* A deposit leaves a legal pool and does not dilute a share.
LEMMA DepositKeeps ==
  ASSUME NEW p, GoodPool(p), NEW h \in Providers, NEW x \in Nat, NEW y \in Nat,
         AcceptsDeposit(p, x, y)
  PROVE  GoodPool(Deposited(p, h, x, y)) /\ KeepsShareValue(p, Deposited(p, h, x, y))
<1> DEFINE k == Minted(p, x, y)
           q == Deposited(p, h, x, y)
<1>1. /\ p.ra \in Nat \ {0} /\ p.rb \in Nat \ {0} /\ p.total \in Nat \ {0}
      /\ p.lp \in [Providers -> Nat] /\ Supply(p.lp) \in Nat
      /\ p \in LiquidityPool /\ Supply(p.lp) < p.total
  BY PoolFields DEF GoodPool
<1>2. (x * p.total) \div p.ra \in Nat /\ (y * p.total) \div p.rb \in Nat
  <2>1. x * p.total \in Nat /\ y * p.total \in Nat
    BY <1>1
  <2> QED
    BY <1>1, <2>1, DivBounds
<1>3. k \in Nat /\ k <= (x * p.total) \div p.ra /\ k <= (y * p.total) \div p.rb
  BY <1>1, <1>2 DEF Minted, Lesser
<1> HIDE DEF k
<1>4. q = [p EXCEPT !.ra = @ + x, !.rb = @ + y, !.total = @ + k,
                    !.lp = [p.lp EXCEPT ![h] = p.lp[h] + k]]
  BY <1>1 DEF Deposited, k, LiquidityPool
<1>5. /\ q.ra = p.ra + x /\ q.rb = p.rb + y /\ q.total = p.total + k
      /\ q.lp = [p.lp EXCEPT ![h] = p.lp[h] + k]
      /\ q.a = p.a /\ q.b = p.b
  BY <1>1, <1>4 DEF LiquidityPool
<1>6. Supply(q.lp) = Supply(p.lp) + k
  BY <1>1, <1>3, <1>5, PoolAssumption, SupplyCredit
<1>7. q \in LiquidityPool
  <2> DEFINE ra == p.ra + x
             rb == p.rb + y
             t == p.total + k
             l == [p.lp EXCEPT ![h] = p.lp[h] + k]
  <2>1. l \in [Providers -> Nat]
    BY <1>1, <1>3
  <2>2. ra \in Nat /\ rb \in Nat /\ t \in Nat
    BY <1>1, <1>3
  <2>3. q = [p EXCEPT !.ra = ra, !.rb = rb, !.total = t, !.lp = l]
    BY <1>4, Zenon
  <2> HIDE DEF ra, rb, t, l, q
  <2> QED
    BY <1>1, <2>1, <2>2, <2>3, PoolShareUpdate
<1>8. GoodPool(q)
  BY <1>1, <1>3, <1>5, <1>6, <1>7 DEF GoodPool
<1>9. q.ra * p.total >= p.ra * q.total /\ q.rb * p.total >= p.rb * q.total
  BY <1>1, <1>3, <1>5, DepositBounds
<1> QED
  BY <1>8, <1>9 DEF KeepsShareValue

\* A withdrawal leaves a legal pool and does not dilute the remaining shares.
LEMMA BurnKeeps ==
  ASSUME NEW p, GoodPool(p), NEW h \in Providers, NEW n \in Nat, n <= p.lp[h]
  PROVE  GoodPool(Burned(p, h, n)) /\ KeepsShareValue(p, Burned(p, h, n))
<1> DEFINE q == Burned(p, h, n)
           oa == (n * p.ra) \div p.total
           ob == (n * p.rb) \div p.total
<1>1. /\ p.ra \in Nat \ {0} /\ p.rb \in Nat \ {0} /\ p.total \in Nat \ {0}
      /\ p.lp \in [Providers -> Nat] /\ Supply(p.lp) \in Nat
      /\ p \in LiquidityPool /\ Supply(p.lp) < p.total
  BY PoolFields DEF GoodPool
<1>2. n < p.total /\ p.lp[h] \in Nat
  BY <1>1, PoolAssumption, BalanceAtMostSupply
<1>3. /\ oa \in Nat /\ p.ra - oa \in Nat \ {0}
      /\ (p.ra - oa) * p.total >= p.ra * (p.total - n)
      /\ ob \in Nat /\ p.rb - ob \in Nat \ {0}
      /\ (p.rb - ob) * p.total >= p.rb * (p.total - n)
  BY <1>1, <1>2, BurnBounds
<1>4. q = [p EXCEPT !.ra = @ - oa, !.rb = @ - ob, !.total = @ - n,
                    !.lp = [p.lp EXCEPT ![h] = p.lp[h] - n]]
  BY <1>1 DEF Burned, LiquidityPool
<1> HIDE DEF oa, ob
<1>5. /\ q.ra = p.ra - oa /\ q.rb = p.rb - ob /\ q.total = p.total - n
      /\ q.lp = [p.lp EXCEPT ![h] = p.lp[h] - n]
      /\ q.a = p.a /\ q.b = p.b
  BY <1>1, <1>4 DEF LiquidityPool
<1>6. Supply(q.lp) = Supply(p.lp) - n
  BY <1>1, <1>5, PoolAssumption, SupplyDebit
<1>7. q \in LiquidityPool
  <2> DEFINE ra == p.ra - oa
             rb == p.rb - ob
             t == p.total - n
             l == [p.lp EXCEPT ![h] = p.lp[h] - n]
  <2>1. l \in [Providers -> Nat]
    BY <1>1, <1>2
  <2>2. ra \in Nat /\ rb \in Nat /\ t \in Nat
    BY <1>1, <1>2, <1>3
  <2>3. q = [p EXCEPT !.ra = ra, !.rb = rb, !.total = t, !.lp = l]
    BY <1>4, Zenon
  <2> HIDE DEF ra, rb, t, l, q
  <2> QED
    BY <1>1, <2>1, <2>2, <2>3, PoolShareUpdate
<1>8. GoodPool(q)
  BY <1>1, <1>3, <1>5, <1>6, <1>7 DEF GoodPool
<1> QED
  BY <1>3, <1>5, <1>8 DEF KeepsShareValue

\* What a trade of token t does to a legal pool p: m is what is left of the
\* input after the fee, out what is paid, q the pool after it.
Trade(p, t, m, out, q) ==
  /\ m \in Nat
  /\ out \in Nat
  /\ ReserveIn(p, t) \in Nat \ {0} /\ ReserveOut(p, t) \in Nat \ {0}
  /\ ReserveOut(p, t) - out \in Nat \ {0}
  /\ (ReserveIn(p, t) + m) * (ReserveOut(p, t) - out)
       >= ReserveIn(p, t) * ReserveOut(p, t)
  /\ q \in LiquidityPool /\ q.total = p.total /\ q.lp = p.lp
  /\ q.a = p.a /\ q.b = p.b /\ q.tier = p.tier
  /\ IF t = p.a THEN q.ra = p.ra + m /\ q.rb = p.rb - out
                ELSE q.rb = p.rb + m /\ q.ra = p.ra - out

LEMMA SwapFields ==
  ASSUME NEW p, GoodPool(p), NEW t \in {p.a, p.b}, NEW x \in Nat,
         NEW m, m = x - Fee(p, x), NEW out, out = SwapOutput(p, t, x),
         NEW q, q = Swapped(p, t, x)
  PROVE  Trade(p, t, m, out, q) /\ m <= x
<1>1. /\ p.ra \in Nat \ {0} /\ p.rb \in Nat \ {0} /\ p.total \in Nat \ {0}
      /\ p.fa \in Nat /\ p.fb \in Nat /\ p.tier \in FeeTiers
      /\ p \in LiquidityPool
  BY PoolFields DEF GoodPool
<1>2. Fee(p, x) \in Nat /\ m \in Nat /\ m <= x
  BY <1>1, FeeBounds DEF Fee
<1>3. ReserveIn(p, t) \in Nat \ {0} /\ ReserveOut(p, t) \in Nat \ {0}
  BY <1>1 DEF ReserveIn, ReserveOut
<1>4. out = (ReserveOut(p, t) * m) \div (ReserveIn(p, t) + m)
  BY DEF SwapOutput, Output
<1>5. /\ out \in Nat
      /\ ReserveOut(p, t) - out \in Nat \ {0}
      /\ (ReserveIn(p, t) + m) * (ReserveOut(p, t) - out)
           >= ReserveIn(p, t) * ReserveOut(p, t)
  <2>1. PICK ri \in Nat \ {0}, ro \in Nat \ {0} : ri = ReserveIn(p, t) /\ ro = ReserveOut(p, t)
    BY <1>3
  <2>2. out = (ro * m) \div (ri + m)
    BY <1>4, <2>1
  <2>3. out \in Nat /\ ro - out \in Nat \ {0} /\ (ri + m) * (ro - out) >= ri * ro
    BY <1>2, <2>1, <2>2, TradeBounds
  <2> QED
    BY <2>1, <2>3
<1>6. CASE t = p.a
  <2>1. q = [p EXCEPT !.ra = @ + m, !.rb = @ - out, !.fa = @ + Fee(p, x)]
    BY <1>6 DEF Swapped
  <2>2. p.rb - out \in Nat
    BY <1>5, <1>6 DEF ReserveOut
  <2>3. p.ra + m \in Nat /\ p.fa + Fee(p, x) \in Nat
    BY <1>1, <1>2
  <2>4. q \in LiquidityPool
    <3> DEFINE ra == p.ra + m
               rb == p.rb - out
               f == p.fa + Fee(p, x)
    <3>1. q = [p EXCEPT !.ra = ra, !.rb = rb, !.fa = f]
      BY <2>1, Zenon
    <3>2. ra \in Nat /\ rb \in Nat /\ f \in Nat
      BY <2>2, <2>3
    <3> HIDE DEF ra, rb, f
    <3>3. p \in LiquidityPool
      BY <1>1
    <3>4. [p EXCEPT !.ra = ra, !.rb = rb, !.fa = f] \in LiquidityPool
      BY <3>2, <3>3, PoolTradeOfA, Zenon
    <3> QED
      BY <3>1, <3>4, Zenon
  <2>5. /\ q.total = p.total /\ q.lp = p.lp
        /\ q.a = p.a /\ q.b = p.b /\ q.tier = p.tier
        /\ q.ra = p.ra + m /\ q.rb = p.rb - out
    BY <1>1, <2>1 DEF LiquidityPool
  <2> QED
    BY <1>2, <1>3, <1>5, <1>6, <2>4, <2>5 DEF Trade
<1>7. CASE t # p.a
  <2>1. q = [p EXCEPT !.rb = @ + m, !.ra = @ - out, !.fb = @ + Fee(p, x)]
    BY <1>7 DEF Swapped
  <2>2. p.ra - out \in Nat
    BY <1>5, <1>7 DEF ReserveOut
  <2>3. p.rb + m \in Nat /\ p.fb + Fee(p, x) \in Nat
    BY <1>1, <1>2
  <2>4. q \in LiquidityPool
    <3> DEFINE ra == p.ra - out
               rb == p.rb + m
               f == p.fb + Fee(p, x)
    <3>1. q = [p EXCEPT !.rb = rb, !.ra = ra, !.fb = f]
      BY <2>1, Zenon
    <3>2. ra \in Nat /\ rb \in Nat /\ f \in Nat
      BY <2>2, <2>3
    <3> HIDE DEF ra, rb, f
    <3>3. p \in LiquidityPool
      BY <1>1
    <3>4. [p EXCEPT !.rb = rb, !.ra = ra, !.fb = f] \in LiquidityPool
      BY <3>2, <3>3, PoolTradeOfB, Zenon
    <3> QED
      BY <3>1, <3>4, Zenon
  <2>5. /\ q.total = p.total /\ q.lp = p.lp
        /\ q.a = p.a /\ q.b = p.b /\ q.tier = p.tier
        /\ q.rb = p.rb + m /\ q.ra = p.ra - out
    BY <1>1, <2>1 DEF LiquidityPool
  <2> QED
    BY <1>2, <1>3, <1>5, <1>7, <2>4, <2>5 DEF Trade
<1> QED
  BY <1>6, <1>7

\* A trade leaves a legal pool and a product that is no smaller.
LEMMA SwapKeeps ==
  ASSUME NEW p, GoodPool(p), NEW t \in {p.a, p.b}, NEW x \in Nat
  PROVE  GoodPool(Swapped(p, t, x)) /\ KeepsShareValue(p, Swapped(p, t, x))
<1> DEFINE m == x - Fee(p, x)
           out == SwapOutput(p, t, x)
           q == Swapped(p, t, x)
<1>0. m = x - Fee(p, x) /\ out = SwapOutput(p, t, x) /\ q = Swapped(p, t, x)
  OBVIOUS
<1> HIDE DEF m, out, q
<1>1. Trade(p, t, m, out, q)
  BY <1>0, SwapFields
<1>2. p.ra \in Nat \ {0} /\ p.rb \in Nat \ {0}
  BY PoolFields
<1>3. q.ra \in Nat \ {0} /\ q.rb \in Nat \ {0}
  BY <1>1, <1>2 DEF Trade, ReserveOut
<1>4. q.ra * q.rb >= p.ra * p.rb
  <2>1. CASE t = p.a
    BY <1>1, <1>2, <2>1 DEF Trade, ReserveIn, ReserveOut
  <2>2. CASE t # p.a
    <3>1. q.rb * q.ra >= p.rb * p.ra
      BY <1>1, <1>2, <2>2 DEF Trade, ReserveIn, ReserveOut
    <3>2. q.rb * q.ra = q.ra * q.rb /\ p.rb * p.ra = p.ra * p.rb
      BY <1>2, <1>3
    <3> QED
      BY <3>1, <3>2
  <2> QED
    BY <2>1, <2>2
<1>5. GoodPool(q)
  BY <1>1, <1>3 DEF Trade, GoodPool
<1> QED
  BY <1>1, <1>4, <1>5 DEF KeepsShareValue, Trade, q

\* Nothing happening to a pool keeps the value of its shares.
LEMMA KeepsShareValueRefl ==
  ASSUME NEW p, GoodPool(p)
  PROVE  KeepsShareValue(p, p)
<1>1. p.ra * p.total \in Nat /\ p.rb * p.total \in Nat
  BY PoolFields
<1> QED
  BY <1>1 DEF KeepsShareValue

\* Withdrawn fees and a new tier touch neither reserves nor shares.
LEMMA SideFieldsKeep ==
  ASSUME NEW p, GoodPool(p), NEW q \in LiquidityPool,
         q.a = p.a, q.b = p.b, q.ra = p.ra, q.rb = p.rb,
         q.total = p.total, q.lp = p.lp
  PROVE  GoodPool(q) /\ KeepsShareValue(p, q)
<1>1. GoodPool(q)
  BY DEF GoodPool
<1>2. KeepsShareValue(p, p)
  BY KeepsShareValueRefl
<1> QED
  BY <1>1, <1>2 DEF KeepsShareValue

-----------------------------------------------------------------------------
(* The registry: what each step preserves *)

\* What every step of the registry keeps.
Kept ==
  /\ IInv'
  /\ \A id \in DOMAIN pools : KeepsShareValue(pools[id], pools'[id])

\* A step that replaces one pool by a legal pool of no less share value.
LEMMA PoolUpdate ==
  ASSUME IInv, NEW id \in DOMAIN pools, NEW q, GoodPool(q),
         KeepsShareValue(pools[id], q),
         pools' = [pools EXCEPT ![id] = q], maxHops' = maxHops
  PROVE  Kept
<1>1. q \in LiquidityPool
  BY DEF GoodPool
<1>2. pools' \in Seq(LiquidityPool) /\ DOMAIN pools' = DOMAIN pools
  BY <1>1 DEF IInv
<1>3. pools'[id] = q /\ \A i \in DOMAIN pools : i # id => pools'[i] = pools[i]
  BY DEF IInv
<1>4. \A i \in DOMAIN pools : GoodPool(pools'[i])
  BY <1>3 DEF IInv
<1>5. \A i \in DOMAIN pools : KeepsShareValue(pools[i], pools'[i])
  <2> SUFFICES ASSUME NEW i \in DOMAIN pools
               PROVE  KeepsShareValue(pools[i], pools'[i])
    OBVIOUS
  <2>1. CASE i = id
    BY <1>3, <2>1
  <2>2. CASE i # id
    BY <1>3, <2>2, KeepsShareValueRefl DEF IInv
  <2> QED
    BY <2>1, <2>2
<1> QED
  BY <1>2, <1>4, <1>5 DEF IInv, Kept

\* A step that leaves the pools alone.
LEMMA PoolsUnchanged ==
  ASSUME IInv, pools' = pools, maxHops' \in Nat
  PROVE  Kept
BY KeepsShareValueRefl DEF IInv, Kept

LEMMA RegisterKeeps ==
  ASSUME IInv, NEW t \in Tokens, NEW u \in Tokens,
         NEW x \in Amounts, NEW y \in Amounts, NEW tier \in FeeTiers,
         RegisterPool(t, u, x, y, tier)
  PROVE  Kept
<1> USE PoolAssumption
<1> DEFINE a == Lesser(t, u)
           b == Greater(t, u)
           p == [ a |-> a, b |-> b,
                  ra |-> IF t = a THEN x ELSE y, rb |-> IF t = a THEN y ELSE x,
                  total |-> Isqrt(x * y), tier |-> tier, fa |-> 0, fb |-> 0,
                  lp |-> [h \in Providers |-> 0] ]
<1>1. /\ t # u /\ x > 0 /\ y > 0
      /\ pools' = Append(pools, p) /\ maxHops' = maxHops
  BY DEF RegisterPool
<1>2. x \in Nat /\ y \in Nat /\ t \in Nat /\ u \in Nat
  OBVIOUS
<1>3. a \in Tokens /\ b \in Tokens /\ a # b
  BY <1>1, <1>2 DEF Lesser, Greater
<1> HIDE DEF a, b
<1>4. p.total \in Nat \ {0} /\ p.total = Isqrt(x * y)
  <2>1. PICK k \in Nat \ {0} : k = x * y
    BY <1>1, <1>2
  <2>2. PICK r \in Nat : r = Isqrt(k) /\ k < (r + 1) * (r + 1)
    BY SquareRoot
  <2>3. r # 0
    <3> SUFFICES ASSUME r = 0 PROVE FALSE
      OBVIOUS
    <3>1. (r + 1) * (r + 1) = 1 /\ 1 <= k
      OBVIOUS
    <3> QED
      BY <2>2, <3>1
  <2> QED
    BY <2>1, <2>2, <2>3
<1>5. [h \in Providers |-> 0] \in [Providers -> Nat]
  OBVIOUS
<1>6. p \in LiquidityPool
  BY <1>2, <1>3, <1>4, <1>5 DEF LiquidityPool
<1>7. Supply(p.lp) = 0
  BY SupplyZero
<1>8. p.ra > 0 /\ p.rb > 0 /\ p.a # p.b
  BY <1>1, <1>3
<1> HIDE DEF p
<1>9. GoodPool(p)
  BY <1>4, <1>6, <1>7, <1>8 DEF GoodPool
<1>10. /\ pools' \in Seq(LiquidityPool)
       /\ DOMAIN pools \subseteq DOMAIN pools'
       /\ \A i \in DOMAIN pools : pools'[i] = pools[i]
       /\ \A i \in DOMAIN pools' : i \in DOMAIN pools \/ pools'[i] = p
  BY <1>1, <1>6 DEF IInv
<1>11. \A i \in DOMAIN pools' : GoodPool(pools'[i])
  BY <1>9, <1>10 DEF IInv
<1>12. \A i \in DOMAIN pools : KeepsShareValue(pools[i], pools'[i])
  BY <1>10, KeepsShareValueRefl DEF IInv
<1> QED
  BY <1>1, <1>10, <1>11, <1>12 DEF IInv, Kept

LEMMA TreasuryKeeps ==
  ASSUME IInv, NEW id \in DOMAIN pools, WithdrawTreasuryFees(id)
  PROVE  Kept
<1> DEFINE p == pools[id]
           p1 == [p EXCEPT !.fa = 0]
           q == [p1 EXCEPT !.fb = 0]
<1>1. GoodPool(p) /\ p \in LiquidityPool
  BY DEF IInv, GoodPool
<1>2. pools' = [pools EXCEPT ![id] = q] /\ maxHops' = maxHops
  BY DEF WithdrawTreasuryFees
<1> HIDE DEF p
<1>3. p1 \in LiquidityPool /\ q \in LiquidityPool
  BY <1>1, PoolField
<1>4. /\ q.a = p.a /\ q.b = p.b /\ q.ra = p.ra /\ q.rb = p.rb
      /\ q.total = p.total /\ q.lp = p.lp
  BY <1>1 DEF LiquidityPool
<1> HIDE DEF p1, q
<1>5. GoodPool(q) /\ KeepsShareValue(p, q)
  BY <1>1, <1>3, <1>4, SideFieldsKeep
<1> QED
  BY <1>2, <1>5, PoolUpdate DEF p

LEMMA TierKeeps ==
  ASSUME IInv, NEW id \in DOMAIN pools, NEW tier \in FeeTiers,
         UpdateFeeTier(id, tier)
  PROVE  Kept
<1> DEFINE p == pools[id]
           q == [p EXCEPT !.tier = tier]
<1>1. GoodPool(p) /\ p \in LiquidityPool
  BY DEF IInv, GoodPool
<1>2. pools' = [pools EXCEPT ![id] = q] /\ maxHops' = maxHops
  BY DEF UpdateFeeTier
<1> HIDE DEF p
<1>3. q \in LiquidityPool
  BY <1>1, PoolField
<1>4. /\ q.a = p.a /\ q.b = p.b /\ q.ra = p.ra /\ q.rb = p.rb
      /\ q.total = p.total /\ q.lp = p.lp
  BY <1>1 DEF LiquidityPool
<1> HIDE DEF q
<1>5. GoodPool(q) /\ KeepsShareValue(p, q)
  BY <1>1, <1>3, <1>4, SideFieldsKeep
<1> QED
  BY <1>2, <1>5, PoolUpdate DEF p

\* Every action keeps the invariant and the value of every share.
LEMMA NextKeeps ==
  ASSUME IInv, Next PROVE Kept
<1> USE PoolAssumption
<1>1. ASSUME NEW t \in Tokens, NEW u \in Tokens, NEW x \in Amounts,
             NEW y \in Amounts, NEW tier \in FeeTiers,
             RegisterPool(t, u, x, y, tier)
      PROVE  Kept
  BY <1>1, RegisterKeeps
<1>2. ASSUME NEW id \in DOMAIN pools, NEW h \in Providers,
             NEW x \in Amounts, NEW y \in Amounts, AddLiquidity(id, h, x, y)
      PROVE  Kept
  <2>1. x \in Nat /\ y \in Nat /\ GoodPool(pools[id])
    BY DEF IInv
  <2>2. /\ AcceptsDeposit(pools[id], x, y) /\ maxHops' = maxHops
        /\ pools' = [pools EXCEPT ![id] = Deposited(pools[id], h, x, y)]
    BY <1>2 DEF AddLiquidity
  <2>3. /\ GoodPool(Deposited(pools[id], h, x, y))
        /\ KeepsShareValue(pools[id], Deposited(pools[id], h, x, y))
    BY <2>1, <2>2, DepositKeeps
  <2> QED
    BY <2>2, <2>3, PoolUpdate
<1>3. ASSUME NEW id \in DOMAIN pools, NEW h \in Providers, ClaimFees(id, h)
      PROVE  Kept
  <2>1. Claimed(pools[id], h) = pools[id]
    BY ClaimPaysNothing DEF IInv
  <2>2. pools' = [pools EXCEPT ![id] = pools[id]] /\ maxHops' = maxHops
    BY <1>3, <2>1 DEF ClaimFees
  <2>3. GoodPool(pools[id]) /\ KeepsShareValue(pools[id], pools[id])
    BY KeepsShareValueRefl DEF IInv
  <2> QED
    BY <2>2, <2>3, PoolUpdate
<1>4. ASSUME NEW id \in DOMAIN pools, NEW h \in Providers,
             NEW n \in 0..MaxReserve, RemoveLiquidity(id, h, n)
      PROVE  Kept
  <2>1. n \in Nat /\ GoodPool(pools[id])
    BY DEF IInv
  <2>2. Claimed(pools[id], h) = pools[id]
    BY <2>1, ClaimPaysNothing
  <2>3. /\ n <= pools[id].lp[h] /\ maxHops' = maxHops
        /\ pools' = [pools EXCEPT ![id] = Burned(pools[id], h, n)]
    BY <1>4, <2>2 DEF RemoveLiquidity
  <2>4. /\ GoodPool(Burned(pools[id], h, n))
        /\ KeepsShareValue(pools[id], Burned(pools[id], h, n))
    BY <2>1, <2>3, BurnKeeps
  <2> QED
    BY <2>3, <2>4, PoolUpdate
<1>5. ASSUME NEW id \in DOMAIN pools, NEW t \in Tokens,
             NEW x \in Amounts, NEW minOut \in Amounts, Swap(id, t, x, minOut)
      PROVE  Kept
  <2>1. x \in Nat /\ GoodPool(pools[id])
    BY DEF IInv
  <2>2. /\ t \in {pools[id].a, pools[id].b} /\ maxHops' = maxHops
        /\ pools' = [pools EXCEPT ![id] = Swapped(pools[id], t, x)]
    BY <1>5 DEF Swap
  <2>3. /\ GoodPool(Swapped(pools[id], t, x))
        /\ KeepsShareValue(pools[id], Swapped(pools[id], t, x))
    BY <2>1, <2>2, SwapKeeps
  <2> QED
    BY <2>2, <2>3, PoolUpdate
<1>6. ASSUME NEW id \in DOMAIN pools, WithdrawTreasuryFees(id)
      PROVE  Kept
  BY <1>6, TreasuryKeeps
<1>7. ASSUME NEW id \in DOMAIN pools, NEW tier \in FeeTiers,
             UpdateFeeTier(id, tier)
      PROVE  Kept
  BY <1>7, TierKeeps
<1>8. ASSUME NEW n \in HopLimits, SetMaxHops(n)
      PROVE  Kept
  BY <1>8, PoolsUnchanged DEF SetMaxHops
<1> QED
  BY <1>1, <1>2, <1>3, <1>4, <1>5, <1>6, <1>7, <1>8 DEF Next

LEMMA InitIInv == ASSUME Init PROVE IInv
BY DEF Init, IInv

LEMMA StutterIInv == ASSUME IInv, UNCHANGED vars PROVE IInv'
BY DEF IInv, vars

-----------------------------------------------------------------------------
(* The theorems *)

\* Every registered pool is in a legal state, always.
THEOREM Invariant == Spec => []IInv
<1>1. Init => IInv
  BY InitIInv
<1>2. IInv /\ [Next]_vars => IInv'
  BY NextKeeps, StutterIInv DEF Kept
<1> QED
  BY <1>1, <1>2, PTL DEF Spec

\* The variables keep their types: no reserve, supply, fee balance or LP balance
\* goes below zero.
THEOREM TypeCorrect == Spec => []TypeOK
<1>1. IInv => TypeOK
  BY DEF IInv, TypeOK
<1> QED
  BY <1>1, Invariant, PTL

\* The shares in the hands of providers never add up to the supply of a pool.
THEOREM SharesAreBacked == Spec => []SharesBacked
<1>1. IInv => SharesBacked
  BY DEF IInv, GoodPool, SharesBacked
<1> QED
  BY <1>1, Invariant, PTL

\* No sequence of trades, deposits and withdrawals empties a reserve.
THEOREM PoolsStaySolvent == Spec => []Solvent
<1>1. IInv => Solvent
  BY DEF IInv, GoodPool, Solvent
<1> QED
  BY <1>1, Invariant, PTL

\* No operation takes value from the shares it does not concern.
THEOREM ShareValueIsKept == Spec => ShareValueNeverFalls
<1>1. IInv /\ [Next]_vars
        => [\A id \in DOMAIN pools : KeepsShareValue(pools[id], pools'[id])]_pools
  BY NextKeeps DEF Kept, vars
<1> QED
  BY <1>1, Invariant, PTL DEF Spec, ShareValueNeverFalls

\* A pool whose supply is within the mean of its reserves stays so if its shares
\* are worth no less.
LEMMA MeanKept ==
  ASSUME NEW r \in Nat \ {0}, NEW s \in Nat \ {0}, NEW t \in Nat \ {0},
         NEW ra \in Nat, NEW sa \in Nat, NEW ta \in Nat,
         ra * t >= r * ta, sa * t >= s * ta, t * t <= r * s
  PROVE  ta * ta <= ra * sa
<1>1. /\ ra * t \in Nat /\ r * ta \in Nat /\ sa * t \in Nat /\ s * ta \in Nat
      /\ t * t \in Nat \ {0} /\ ta * ta \in Nat /\ ra * sa \in Nat /\ r * s \in Nat
  OBVIOUS
<1>2. (r * ta) * (s * ta) <= (ra * t) * (sa * t)
  <2>1. (r * ta) * (s * ta) \in Nat /\ (r * ta) * (s * ta) <= (ra * t) * (s * ta)
    BY <1>1, MulMono
  <2>2. (ra * t) * (s * ta) \in Nat /\ (ra * t) * (s * ta) <= (ra * t) * (sa * t)
    BY <1>1, MulMono
  <2>3. (ra * t) * (sa * t) \in Nat
    BY <1>1
  <2> QED
    BY <2>1, <2>2, <2>3
<1>3. (r * ta) * (s * ta) = (r * s) * (ta * ta) /\ (ra * t) * (sa * t) = (ra * sa) * (t * t)
  OBVIOUS
<1>4. (t * t) * (ta * ta) <= (r * s) * (ta * ta)
  BY <1>1, MulMono
<1>5. (ta * ta) * (t * t) <= (ra * sa) * (t * t)
  <2>1. /\ (ta * ta) * (t * t) = (t * t) * (ta * ta)
        /\ (t * t) * (ta * ta) \in Nat /\ (r * s) * (ta * ta) \in Nat
        /\ (ra * sa) * (t * t) \in Nat
    BY <1>1
  <2> QED
    BY <1>2, <1>3, <1>4, <2>1
<1> QED
  BY <1>1, <1>5, MulCancel

\* No pool has more shares than the mean of its reserves.
MeanInv == \A id \in DOMAIN pools :
  pools[id].total * pools[id].total <= pools[id].ra * pools[id].rb

\* A registration sets the supply to the mean; everything else keeps shares worth
\* no less.
LEMMA MeanStep ==
  ASSUME IInv, MeanInv, [Next]_vars
  PROVE  MeanInv'
<1>1. IInv' /\ \A id \in DOMAIN pools : KeepsShareValue(pools[id], pools'[id])
  <2>1. CASE Next
    BY <2>1, NextKeeps DEF Kept
  <2>2. CASE UNCHANGED vars
    BY <2>2, StutterIInv, KeepsShareValueRefl DEF vars, IInv
  <2> QED
    BY <2>1, <2>2
<1>2. \A id \in DOMAIN pools' : id \in DOMAIN pools \/
        pools'[id].total * pools'[id].total <= pools'[id].ra * pools'[id].rb
  <2>1. ASSUME NEW t \in Tokens, NEW u \in Tokens, NEW x \in Amounts, NEW y \in Amounts,
               NEW tier \in FeeTiers, RegisterPool(t, u, x, y, tier)
        PROVE  \A id \in DOMAIN pools' : id \in DOMAIN pools \/
                 pools'[id].total * pools'[id].total <= pools'[id].ra * pools'[id].rb
    <3>1. PICK p : /\ pools' = Append(pools, p) /\ p.total = Isqrt(x * y)
                   /\ \/ p.ra = x /\ p.rb = y
                      \/ p.ra = y /\ p.rb = x
      BY <2>1 DEF RegisterPool
    <3>2. x \in Nat /\ y \in Nat /\ x * y \in Nat /\ x * y = y * x
      BY PoolAssumption
    <3>3. p.total * p.total <= p.ra * p.rb
      BY <3>1, <3>2, SquareRoot
    <3>4. \A id \in DOMAIN pools' : id \in DOMAIN pools \/ pools'[id] = p
      BY <3>1 DEF IInv
    <3> QED
      BY <3>3, <3>4
  <2>2. CASE DOMAIN pools' = DOMAIN pools
    BY <2>2
  <2>3. \/ \E t, u \in Tokens, x, y \in Amounts, tier \in FeeTiers : RegisterPool(t, u, x, y, tier)
        \/ DOMAIN pools' = DOMAIN pools
    BY DEF Next, vars, AddLiquidity, ClaimFees, RemoveLiquidity, Swap, WithdrawTreasuryFees,
           UpdateFeeTier, SetMaxHops
  <2> QED
    BY <2>1, <2>2, <2>3
<1>3. ASSUME NEW id \in DOMAIN pools' PROVE pools'[id].total * pools'[id].total <= pools'[id].ra * pools'[id].rb
  <2>1. CASE id \in DOMAIN pools
    <3>1. PICK p : p = pools[id]
      OBVIOUS
    <3>2. PICK q : q = pools'[id]
      OBVIOUS
    <3>3. GoodPool(p) /\ GoodPool(q) /\ KeepsShareValue(p, q) /\ p.total * p.total <= p.ra * p.rb
      BY <1>1, <1>3, <2>1, <3>1, <3>2 DEF IInv, MeanInv
    <3>4. /\ p.ra \in Nat \ {0} /\ p.rb \in Nat \ {0} /\ p.total \in Nat \ {0}
          /\ q.ra \in Nat \ {0} /\ q.rb \in Nat \ {0} /\ q.total \in Nat \ {0}
      BY <3>3, PoolFields
    <3>5. q.total * q.total <= q.ra * q.rb
      <4>1. CASE q.ra * p.total >= p.ra * q.total /\ q.rb * p.total >= p.rb * q.total
        BY <3>3, <3>4, <4>1, MeanKept
      <4>2. CASE q.total = p.total /\ q.ra * q.rb >= p.ra * p.rb
        <5>1. p.total * p.total \in Nat /\ p.ra * p.rb \in Nat /\ q.ra * q.rb \in Nat
          BY <3>4
        <5> QED
          BY <3>3, <4>2, <5>1
      <4> QED
        BY <3>3, <4>1, <4>2 DEF KeepsShareValue
    <3> QED
      BY <3>2, <3>5
  <2> QED
    BY <1>2, <1>3, <2>1
<1> QED
  BY <1>3 DEF MeanInv

\* Whatever deposits, withdrawals and trades follow, the supply stays within the
\* geometric mean of the reserves, and the code's iteration returns its floor.
THEOREM SupplyStaysWithinMean == Spec => []SupplyWithinMean
<1>1. Init => MeanInv
  BY DEF Init, MeanInv
<1>2. IInv /\ MeanInv /\ [Next]_vars => MeanInv'
  BY MeanStep
<1>3. IInv /\ MeanInv => SupplyWithinMean
  <2> SUFFICES ASSUME IInv, MeanInv, NEW id \in DOMAIN pools
               PROVE  LET k == pools[id].ra * pools[id].rb
                          r == Isqrt(k)
                      IN pools[id].total <= r /\ r * r <= k /\ k < (r + 1) * (r + 1)
    BY DEF SupplyWithinMean
  <2>1. PICK p : p = pools[id]
    OBVIOUS
  <2>2. GoodPool(p) /\ p.total * p.total <= p.ra * p.rb
    BY <2>1 DEF IInv, MeanInv
  <2>3. p.ra \in Nat \ {0} /\ p.rb \in Nat \ {0} /\ p.total \in Nat \ {0}
    BY <2>2, PoolFields
  <2>4. PICK k \in Nat : k = p.ra * p.rb
    BY <2>3
  <2>5. PICK r \in Nat : r = Isqrt(k) /\ r * r <= k /\ k < (r + 1) * (r + 1)
    BY SquareRoot
  <2>6. p.total <= r
    <3> SUFFICES ASSUME r + 1 <= p.total PROVE FALSE
      BY <2>3
    <3>1. (r + 1) * (r + 1) <= p.total * (r + 1) /\ p.total * (r + 1) <= p.total * p.total
      BY <2>3, MulMono
    <3>2. /\ (r + 1) * (r + 1) \in Nat /\ p.total * (r + 1) \in Nat /\ p.total * p.total \in Nat
      BY <2>3
    <3> QED
      BY <2>2, <2>4, <2>5, <3>1, <3>2
  <2> QED
    BY <2>1, <2>4, <2>5, <2>6
<1> QED
  BY <1>1, <1>2, <1>3, Invariant, PTL DEF Spec

\* What is paid for x depends on what the fee leaves of it.
LEMMA OutputType ==
  ASSUME NEW p, GoodPool(p), NEW t \in {p.a, p.b}, NEW m \in Nat
  PROVE  Output(p, t, m) \in Nat
<1>1. ReserveIn(p, t) \in Nat \ {0} /\ ReserveOut(p, t) \in Nat \ {0}
  BY PoolFields DEF ReserveIn, ReserveOut
<1> QED
  BY <1>1, TradeBounds DEF Output

\* One pool: trading x of t for the other token and all of that back yields at
\* most x.
LEMMA RoundTrip ==
  ASSUME NEW p, GoodPool(p), NEW t \in {p.a, p.b}, NEW x \in Nat
  PROVE  SwapOutput(Swapped(p, t, x), Other(p, t), SwapOutput(p, t, x)) <= x
<1> DEFINE m == x - Fee(p, x)
           y == SwapOutput(p, t, x)
           q == Swapped(p, t, x)
           o == Other(p, t)
           n == y - Fee(q, y)
           ri == ReserveIn(p, t)
           ro == ReserveOut(p, t)
<1>1. m = x - Fee(p, x) /\ y = SwapOutput(p, t, x) /\ q = Swapped(p, t, x)
      /\ y = (ro * m) \div (ri + m)
  BY DEF SwapOutput, Output
<1>2. SwapOutput(q, o, y) = (ReserveOut(q, o) * n) \div (ReserveIn(q, o) + n)
  BY DEF SwapOutput, Output
<1>3. q.tier \in FeeTiers /\ Fee(q, y) = (y * q.tier) \div Bps
  <2>1. p.tier \in FeeTiers
    BY PoolFields
  <2>2. Trade(p, t, m, y, q)
    BY <1>1, SwapFields
  <2> QED
    BY <2>1, <2>2 DEF Trade, Fee
<1> HIDE DEF m, y, q
<1>4. Trade(p, t, m, y, q) /\ m <= x
  BY <1>1, SwapFields
<1>5. p.a # p.b /\ p.ra \in Nat /\ p.rb \in Nat
  BY PoolFields DEF GoodPool
<1>6. ReserveOut(q, o) = ri + m /\ ReserveIn(q, o) = ro - y
  BY <1>4, <1>5 DEF Trade, Other, ReserveIn, ReserveOut
<1>7. m \in Nat /\ y \in Nat /\ ri \in Nat \ {0} /\ ro \in Nat \ {0}
  BY <1>4 DEF Trade
<1> HIDE DEF ri, ro, o
<1>8. n \in Nat /\ n <= y
  <2>1. (y * q.tier) \div Bps \in Nat /\ y - (y * q.tier) \div Bps \in Nat
    BY <1>3, <1>7, FeeBounds
  <2> QED
    BY <1>3, <1>7, <2>1
<1> HIDE DEF n
<1>9. ((ri + m) * n) \div ((ro - y) + n) <= m
  BY <1>1, <1>7, <1>8, ReturnBound, ZenonT(60)
<1>10. SwapOutput(q, o, y) <= m
  BY <1>2, <1>6, <1>9
<1>11. SwapOutput(q, o, y) \in Nat
  <2>1. ri + m \in Nat /\ ro - y \in Nat \ {0}
    BY <1>4, <1>7 DEF Trade, ri, ro
  <2>2. (ri + m) * n \in Nat /\ (ro - y) + n \in Nat \ {0}
    BY <1>8, <2>1
  <2> QED
    BY <1>2, <1>6, <2>2, DivBounds
<1>12. SwapOutput(q, o, y) <= x
  BY <1>4, <1>7, <1>10, <1>11
<1> QED
  BY <1>12 DEF q, o, y

\* Trading there and back never pays more than was put in.
THEOREM NoProfitFromRoundTrips == Spec => []NoRoundTripProfit
<1>1. ASSUME IInv PROVE NoRoundTripProfit
  <2> SUFFICES ASSUME NEW id \in DOMAIN pools, NEW t \in Tokens,
                      NEW x \in Amounts, t \in {pools[id].a, pools[id].b}
               PROVE  SwapOutput(Swapped(pools[id], t, x), Other(pools[id], t),
                                 SwapOutput(pools[id], t, x)) <= x
    BY DEF NoRoundTripProfit
  <2>1. GoodPool(pools[id]) /\ x \in Nat
    BY <1>1, PoolAssumption DEF IInv
  <2> QED
    BY <2>1, RoundTrip
<1> QED
  BY <1>1, Invariant, PTL

LEMMA DivMono ==
  ASSUME NEW x \in Nat, NEW y \in Nat, NEW d \in Nat \ {0}, x <= y
  PROVE  x \div d <= y \div d
<1> DEFINE q == x \div d
           r == y \div d
<1>1. q \in Nat /\ r \in Nat /\ q * d <= x /\ y < r * d + d
  BY DivBounds
<1> HIDE DEF q, r
<1>2. q * d \in Nat /\ (r + 1) * d \in Nat /\ (r + 1) * d = r * d + d
  BY <1>1
<1>3. q * d < (r + 1) * d
  BY <1>1, <1>2
<1>4. q <= r
  <2> SUFFICES ASSUME r + 1 <= q PROVE FALSE
    BY <1>1
  <2>1. (r + 1) * d <= q * d
    BY <1>1, MulMono
  <2> QED
    BY <1>2, <1>3, <2>1
<1> QED
  BY <1>4 DEF q, r

LEMMA TierBounds ==
  ASSUME NEW tier \in FeeTiers PROVE Bps - tier \in Nat
BY PoolAssumption

\* One hop: a trade of at least the quoted input pays at least the quote.
LEMMA HopHonoured ==
  ASSUME NEW p, GoodPool(p), NEW t \in {p.a, p.b},
         NEW x \in Nat, NEW y \in Nat, x <= y
  PROVE  /\ QuotedOutput(p, t, x) \in Nat /\ SwapOutput(p, t, y) \in Nat
         /\ QuotedOutput(p, t, x) <= SwapOutput(p, t, y)
<1> USE PoolAssumption
<1> DEFINE k == Bps - p.tier
           qx == (x * k) \div Bps
           qy == (y * k) \div Bps
           n == y - (y * p.tier) \div Bps
<1>1. p.tier \in FeeTiers /\ k \in Nat /\ Bps \in Nat \ {0}
  <2>1. p.tier \in FeeTiers
    BY PoolFields
  <2> QED
    BY <2>1, TierBounds
<1>2. qx \in Nat /\ qy \in Nat /\ qy <= n
  BY <1>1, QuoteNetBelow
<1>3. n \in Nat
  BY <1>1, FeeBounds
<1>4. qx <= qy
  <2> HIDE DEF k
  <2>1. x * k \in Nat /\ y * k \in Nat /\ x * k <= y * k
    BY <1>1, MulMono
  <2> QED
    BY <1>1, <2>1, DivMono
<1>5. /\ QuotedOutput(p, t, x) = Output(p, t, qx)
      /\ SwapOutput(p, t, y) = Output(p, t, n)
  BY DEF QuotedOutput, SwapOutput, QuotedNet, Fee
<1> HIDE DEF qx, qy, n
<1>6. qx <= n
  BY <1>2, <1>3, <1>4
<1>7. ReserveIn(p, t) \in Nat \ {0} /\ ReserveOut(p, t) \in Nat \ {0}
  BY PoolFields DEF ReserveIn, ReserveOut
<1>8. Output(p, t, qx) <= Output(p, t, n)
  BY <1>2, <1>3, <1>6, <1>7, OutputMonotone DEF Output
<1>9. Output(p, t, qx) \in Nat /\ Output(p, t, n) \in Nat
  BY <1>2, <1>3, OutputType
<1> QED
  BY <1>5, <1>8, <1>9

\* Every route is honoured, whatever the pools: the quote of a route is at most
\* what trading along it pays.
LEMMA RoutesHonoured == ASSUME IInv PROVE RouteHonoured
<1> SUFFICES ASSUME NEW t \in Tokens, NEW u \in Tokens, NEW x \in Amounts,
                    NEW r \in BestRoutes(t, u, x)
             PROVE  RouteTraded(r, t, x) >= RouteQuote(r, t, x)
  BY DEF RouteHonoured
<1> DEFINE p == pools[r[1]]
           s == pools[r[2]]
           v == Other(p, t)
           quote == QuotedOutput(p, t, x)
           paid == SwapOutput(p, t, x)
<1>1. x \in Nat
  BY PoolAssumption
<1>2. (\E id \in Direct(t, u) : r = <<id>>) \/ r \in TwoHop(t, u)
  BY DEF BestRoutes
<1>3. CASE \E id \in Direct(t, u) : r = <<id>>
  <2>1. Len(r) = 1 /\ GoodPool(p) /\ t \in {p.a, p.b}
    BY <1>3 DEF Direct, PoolsOf, IInv
  <2>2. quote \in Nat /\ paid \in Nat /\ quote <= paid
    BY <1>1, <2>1, HopHonoured
  <2>3. RouteTraded(r, t, x) = paid /\ RouteQuote(r, t, x) = quote
    BY <2>1 DEF RouteTraded, RouteQuote
  <2> QED
    BY <2>2, <2>3
<1>4. CASE r \in TwoHop(t, u)
  <2>1. /\ Len(r) = 2 /\ GoodPool(p) /\ GoodPool(s)
        /\ t \in {p.a, p.b} /\ v \in {s.a, s.b}
    BY <1>4 DEF TwoHop, Direct, PoolsOf, IInv
  <2>2. quote \in Nat /\ paid \in Nat /\ quote <= paid
    <3> HIDE DEF p
    <3>1. x <= x
      BY <1>1
    <3> QED
      BY <1>1, <2>1, <3>1, HopHonoured
  <2>3. /\ RouteTraded(r, t, x) = SwapOutput(s, v, paid)
        /\ RouteQuote(r, t, x) = QuotedOutput(s, v, quote)
    BY <2>1 DEF RouteTraded, RouteQuote
  <2> HIDE DEF p, s, v, quote, paid
  <2>4. /\ QuotedOutput(s, v, quote) \in Nat /\ SwapOutput(s, v, paid) \in Nat
        /\ QuotedOutput(s, v, quote) <= SwapOutput(s, v, paid)
    BY <2>1, <2>2, HopHonoured
  <2> QED
    BY <2>3, <2>4
<1> QED
  BY <1>2, <1>3, <1>4

\* The expected_output of every route the finder returns is a promise a trade
\* in the same state keeps.
THEOREM RoutesAreHonoured == Spec => []RouteHonoured
BY RoutesHonoured, Invariant, PTL

=============================================================================
