---------------------------- MODULE ServicesProofs ----------------------------
(* Theorems about the contract's services that keep a storage of their own,  *)
(* in sections: farming, orders, staking, referrals, the price oracle,       *)
(* alerts, seasons, congestion fees and the volume breaker.  Each has an     *)
(* inductive invariant of its own, for the services share nothing.           *)
EXTENDS Staking, Orders, Farming, Referral, Seasons, Fees, Oracle, Alerts,
        VolumeBreaker, SequenceTheorems

\* The provers that a leaf which names none is given, and for how long.
USE SMTT(30), ZenonT(30)

-----------------------------------------------------------------------------
(* Farming.  The claims of all positions, before any rounding, stay within  *)
(* what the accumulator of rewards per share was moved by.                  *)

\* Before the rounding: what u was paid, has pending and would have settled with
\* the pool p, in units of which Scale make a token.
Claim(p, u) == (farmPaid[u] + position[u].pending) * Scale
                 + (p.acc - position[u].debt) * position[u].staked
Claims(p) == [u \in Farmers |-> Claim(p, u)]

\* What was emitted since the pool was last brought up to date.
Fresh == IF farmPool.total_staked > 0 THEN (farmNow - farmPool.last) * farmPool.rate ELSE 0

\* The strengthening: all claims together are within what the accumulator was
\* moved by, and that is what was emitted but for what is still to be accrued.
FarmSound ==
    /\ farmPool.last <= farmNow
    /\ \A u \in Farmers : position[u].debt <= farmPool.acc
    /\ farmPool.total_staked = Supply(StakedBy)
    /\ Supply(Claims(farmPool)) <= farmPool.distributed * Scale
    /\ emitted = farmPool.distributed + Fresh

FarmInv == FarmTypeOK /\ FarmSound

\* A quotient, multiplied again, is no more than what was divided.
LEMMA Quotient ==
  ASSUME NEW x \in Nat, NEW d \in Nat \ {0}
  PROVE  x \div d \in Nat /\ (x \div d) * d <= x
OBVIOUS

\* Products of natural numbers keep their order; a common factor cancels.
LEMMA Products ==
  ASSUME NEW a \in Nat, NEW b \in Nat, NEW c \in Nat
  PROVE  /\ a * c \in Nat /\ b * c \in Nat
         /\ a <= b => a * c <= b * c
         /\ c > 0 /\ a * c <= b * c => a <= b
OBVIOUS

\* The two ways a position is changed, written out.
LEMMA Positions ==
  ASSUME NEW r \in [staked : Nat, pending : Nat, debt : Nat], NEW x \in Nat, NEW y \in Nat
  PROVE  /\ [r EXCEPT !.pending = x, !.debt = y]
              = [staked |-> r.staked, pending |-> x, debt |-> y]
         /\ [r EXCEPT !.staked = x, !.pending = y]
              = [staked |-> x, pending |-> y, debt |-> r.debt]
<1> DEFINE settled == [r EXCEPT !.pending = x, !.debt = y]
           moved == [r EXCEPT !.staked = x, !.pending = y]
<1>1. /\ settled \in [staked : Nat, pending : Nat, debt : Nat]
      /\ settled.staked = r.staked /\ settled.pending = x /\ settled.debt = y
  OBVIOUS
<1>2. /\ moved \in [staked : Nat, pending : Nat, debt : Nat]
      /\ moved.staked = x /\ moved.pending = y /\ moved.debt = r.debt
  OBVIOUS
<1> HIDE DEF settled, moved
<1>3. \A z \in [staked : Nat, pending : Nat, debt : Nat] :
        z = [staked |-> z.staked, pending |-> z.pending, debt |-> z.debt]
  OBVIOUS
<1>4. /\ settled = [staked |-> r.staked, pending |-> x, debt |-> y]
      /\ moved = [staked |-> x, pending |-> y, debt |-> r.debt]
  BY <1>1, <1>2, <1>3
<1> QED
  BY <1>4 DEF settled, moved

\* Staking, claiming and looking are all of the second kind.
LEMMA PositionForms ==
  ASSUME NEW r \in [staked : Nat, pending : Nat, debt : Nat], NEW n \in Nat
  PROVE  /\ [r EXCEPT !.staked = n] = [r EXCEPT !.staked = n, !.pending = @ - 0]
         /\ [r EXCEPT !.pending = 0] = [r EXCEPT !.staked = r.staked, !.pending = @ - r.pending]
         /\ r = [r EXCEPT !.staked = r.staked, !.pending = @ - 0]
<1> DEFINE same == r.pending - 0
           none == r.pending - r.pending
<1>1. /\ r = [staked |-> r.staked, pending |-> r.pending, debt |-> r.debt]
      /\ r.staked \in Nat /\ r.pending \in Nat
      /\ same = r.pending /\ none = 0 /\ same \in Nat /\ none \in Nat
  OBVIOUS
<1> HIDE DEF same, none
<1>2. /\ [r EXCEPT !.staked = n, !.pending = same]
           = [staked |-> n, pending |-> same, debt |-> r.debt]
      /\ [r EXCEPT !.staked = r.staked, !.pending = none]
           = [staked |-> r.staked, pending |-> none, debt |-> r.debt]
      /\ [r EXCEPT !.staked = r.staked, !.pending = same]
           = [staked |-> r.staked, pending |-> same, debt |-> r.debt]
  BY <1>1, Positions, ZenonT(60)
<1>3. /\ [r EXCEPT !.staked = n] = [staked |-> n, pending |-> r.pending, debt |-> r.debt]
      /\ [r EXCEPT !.pending = 0] = [staked |-> r.staked, pending |-> 0, debt |-> r.debt]
  BY <1>1
<1>4. /\ [r EXCEPT !.staked = n] = [r EXCEPT !.staked = n, !.pending = same]
      /\ [r EXCEPT !.pending = 0] = [r EXCEPT !.staked = r.staked, !.pending = none]
      /\ r = [r EXCEPT !.staked = r.staked, !.pending = same]
  BY <1>1, <1>2, <1>3
<1> QED
  BY <1>4 DEF same, none

\* The claims on a pool that every position is behind of are natural numbers.
LEMMA ClaimTyped ==
  ASSUME FarmTypeOK, NEW p, p.acc \in Nat, \A u \in Farmers : position[u].debt <= p.acc
  PROVE  /\ \A u \in Farmers :
               /\ (farmPaid[u] + position[u].pending) * Scale \in Nat
               /\ (p.acc - position[u].debt) * position[u].staked \in Nat
               /\ Claim(p, u) \in Nat
         /\ Claims(p) \in [Farmers -> Nat]
<1>1. ASSUME NEW u \in Farmers
      PROVE  /\ (farmPaid[u] + position[u].pending) * Scale \in Nat
             /\ (p.acc - position[u].debt) * position[u].staked \in Nat
  <2>1. /\ farmPaid[u] + position[u].pending \in Nat /\ Scale \in Nat
        /\ p.acc - position[u].debt \in Nat /\ position[u].staked \in Nat
    BY FarmAssumption DEF FarmTypeOK
  <2> QED
    BY <2>1, Products
<1> QED
  BY <1>1 DEF Claim, Claims

\* Bringing the pool up to date: it has then distributed all that was emitted, and
\* the claims, which grow with the stakes, stay within it.
LEMMA AccruedSound ==
  ASSUME FarmInv
  PROVE  LET p == Accrued(farmPool)
         IN  /\ p = [total_staked |-> farmPool.total_staked, acc |-> p.acc,
                      rate |-> farmPool.rate, last |-> farmNow, distributed |-> emitted]
             /\ p.acc \in Nat /\ p.acc >= farmPool.acc
             /\ Supply(Claims(p)) <= emitted * Scale
<1> DEFINE p == Accrued(farmPool)
           fresh == (farmNow - farmPool.last) * farmPool.rate
           T == farmPool.total_staked
<1>1. /\ T \in Nat /\ farmPool.acc \in Nat /\ farmPool.rate \in Nat
      /\ farmNow - farmPool.last \in Nat /\ Scale \in Nat \ {0}
      /\ farmPool.distributed \in Nat /\ emitted \in Nat
  <2>1. farmPool.last \in Nat /\ farmNow \in Nat /\ farmPool.last <= farmNow
    BY FarmAssumption DEF FarmInv, FarmTypeOK, FarmSound
  <2>2. farmPool.rate \in Nat
    <3> DEFINE rate == farmPool.rate
    <3>1. rate \in Emissions \cup {0}
      BY DEF FarmInv, FarmTypeOK
    <3> HIDE DEF rate
    <3>2. rate \in Nat
      BY <3>1, FarmAssumption
    <3> QED
      BY <3>2 DEF rate
  <2>3. T \in Nat /\ farmPool.acc \in Nat /\ farmPool.distributed \in Nat /\ emitted \in Nat
    BY DEF FarmInv, FarmTypeOK
  <2> QED
    BY <2>1, <2>2, <2>3, FarmAssumption
<1>2. fresh \in Nat /\ (farmPool.rate = 0 => fresh = 0)
  BY <1>1, Products
<1>3. farmPool = [total_staked |-> T, acc |-> farmPool.acc, rate |-> farmPool.rate,
                  last |-> farmPool.last, distributed |-> farmPool.distributed]
  BY DEF FarmInv, FarmTypeOK
<1>4. CASE T = 0 \/ farmPool.rate = 0
  <2>1. emitted = farmPool.distributed
    BY <1>1, <1>2, <1>4 DEF FarmInv, FarmSound, Fresh
  <2>2. p = [farmPool EXCEPT !.last = farmNow]
    BY <1>4 DEF Accrued
  <2>3. p.acc = farmPool.acc
    BY <1>3, <2>2
  <2>4. Claims(p) = Claims(farmPool)
    BY <2>3 DEF Claims, Claim
  <2> QED
    BY <1>1, <1>3, <2>1, <2>2, <2>3, <2>4 DEF FarmInv, FarmSound
<1>5. CASE T > 0 /\ farmPool.rate # 0
  <2> DEFINE step == (fresh * Scale) \div T
             more == [u \in Farmers |-> StakedBy[u] * step]
             old == Claims(farmPool)
  <2>1. fresh * Scale \in Nat
    BY <1>1, <1>2, Products
  <2>2. step \in Nat /\ step * T <= fresh * Scale
    BY <1>1, <1>5, <2>1, Quotient
  <2>3. p = [farmPool EXCEPT !.acc = @ + step, !.last = farmNow, !.distributed = @ + fresh]
    BY <1>5 DEF Accrued
  <2>4. emitted = farmPool.distributed + fresh
    BY <1>1, <1>5 DEF FarmInv, FarmSound, Fresh
  <2> HIDE DEF fresh, step
  <2>5. p.acc = farmPool.acc + step
    BY <1>3, <2>3
  <2>6. p = [total_staked |-> T, acc |-> p.acc, rate |-> farmPool.rate,
             last |-> farmNow, distributed |-> emitted]
    BY <1>3, <2>3, <2>4
  <2> HIDE DEF p
  <2>7. /\ StakedBy \in [Farmers -> Nat] /\ more \in [Farmers -> Nat]
        /\ old \in [Farmers -> Nat]
    <3>1. StakedBy \in [Farmers -> Nat]
      BY DEF StakedBy, FarmInv, FarmTypeOK
    <3>2. more \in [Farmers -> Nat]
      BY <2>2, <3>1, Products
    <3> QED
      BY <1>1, <3>1, <3>2, ClaimTyped DEF FarmInv, FarmSound
  <2>8. Claims(p) = [u \in Farmers |-> old[u] + more[u]]
    <3> SUFFICES ASSUME NEW u \in Farmers PROVE Claim(p, u) = old[u] + more[u]
      BY DEF Claims
    <3> DEFINE s == position[u].staked
               d == position[u].debt
    <3>1. s \in Nat /\ d \in Nat /\ farmPaid[u] + position[u].pending \in Nat
      BY DEF FarmInv, FarmTypeOK
    <3>2. old[u] = (farmPaid[u] + position[u].pending) * Scale + (farmPool.acc - d) * s
      BY DEF Claims, Claim
    <3>3. more[u] = s * step
      BY DEF StakedBy
    <3>4. Claim(p, u) = (farmPaid[u] + position[u].pending) * Scale + (p.acc - d) * s
      BY DEF Claim
    <3> HIDE DEF s, d, more, old
    <3>5. (p.acc - d) * s = (farmPool.acc - d) * s + s * step
      <4>1. p.acc - d = (farmPool.acc - d) + step
        BY <1>1, <2>2, <2>5, <3>1
      <4>2. farmPool.acc - d \in Int
        BY <1>1, <3>1
      <4> HIDE DEF step
      <4>3. \A a, b, c \in Int : (a + b) * c = a * c + c * b
        OBVIOUS
      <4> QED
        BY <2>2, <3>1, <4>1, <4>2, <4>3
    <3>6. /\ (farmPaid[u] + position[u].pending) * Scale \in Int
          /\ (farmPool.acc - d) * s \in Int /\ s * step \in Int
      BY <1>1, <2>2, <3>1
    <3> QED
      BY <3>2, <3>3, <3>4, <3>5, <3>6
  <2>9. Supply(more) = T * step
    <3>1. Supply(more) = Supply(StakedBy) * step
      BY <2>2, <2>7, FarmAssumption, SupplyScaled
    <3> QED
      BY <3>1 DEF FarmInv, FarmSound
  <2> HIDE DEF more, old
  <2>10. Supply(Claims(p)) = Supply(old) + Supply(more)
    BY <2>7, <2>8, FarmAssumption, SupplyOfSum
  <2>11. Supply(old) <= farmPool.distributed * Scale
    BY DEF old, FarmInv, FarmSound
  <2>12. Claims(p) \in [Farmers -> Nat]
    BY <2>7, <2>8
  <2>13. Supply(Claims(p)) \in Nat /\ Supply(old) \in Nat /\ Supply(more) \in Nat
    BY <2>7, <2>12, FarmAssumption, SupplyType
  <2>14. Supply(Claims(p)) <= emitted * Scale
    <3>1. emitted * Scale = farmPool.distributed * Scale + fresh * Scale
      BY <1>1, <1>2, <2>4
    <3>2. T * step = step * T /\ step * T \in Nat /\ farmPool.distributed * Scale \in Nat
      BY <1>1, <2>2, Products
    <3> QED
      BY <2>1, <2>2, <2>9, <2>10, <2>11, <2>13, <3>1, <3>2
  <2> QED
    BY <1>1, <2>2, <2>5, <2>6, <2>14 DEF p
<1> QED
  BY <1>1, <1>4, <1>5

\* A position that is settled with the pool claims no more than before, whatever
\* part of it is paid out and whatever is then staked or taken back.
LEMMA SettledClaims ==
  ASSUME FarmInv, NEW p, p.acc \in Nat, p.acc >= farmPool.acc, NEW u \in Farmers
  PROVE  /\ Unsettled(p, u) \in Nat
         /\ Settled(p, u) = [staked |-> position[u].staked,
                            pending |-> position[u].pending + Unsettled(p, u), debt |-> p.acc]
         /\ (farmPaid[u] + (position[u].pending + Unsettled(p, u))) * Scale <= Claim(p, u)
<1> DEFINE s == position[u].staked
           behind == p.acc - position[u].debt
           q == (behind * s) \div Scale
           had == farmPaid[u] + position[u].pending
<1>1. /\ position[u] \in [staked : Nat, pending : Nat, debt : Nat] /\ farmPaid[u] \in Nat
      /\ s \in Nat /\ position[u].debt \in Nat /\ position[u].pending \in Nat
      /\ position[u].debt <= farmPool.acc /\ Scale \in Nat \ {0} /\ farmPool.acc \in Nat
  BY FarmAssumption DEF FarmInv, FarmTypeOK, FarmSound
<1>2. behind \in Nat /\ had \in Nat
  BY <1>1
<1> HIDE DEF behind
<1>3. behind * s \in Nat
  BY <1>1, <1>2, Products
<1>4. q \in Nat /\ q * Scale <= behind * s
  BY <1>1, <1>3, Quotient
<1> HIDE DEF q
<1>5. Unsettled(p, u) = q
  BY DEF Unsettled, q, behind
<1>6. Settled(p, u) = [staked |-> s, pending |-> position[u].pending + q, debt |-> p.acc]
  <2>1. Settled(p, u) = [position[u] EXCEPT !.pending = @ + q, !.debt = p.acc]
    BY <1>5 DEF Settled
  <2>2. position[u].pending + q \in Nat
    BY <1>1, <1>4
  <2> QED
    BY <1>1, <2>1, <2>2, Positions
<1>7. (farmPaid[u] + (position[u].pending + q)) * Scale <= Claim(p, u)
  <2>1. farmPaid[u] + (position[u].pending + q) = had + q
    BY <1>1, <1>4
  <2>2. Claim(p, u) = had * Scale + behind * s
    BY DEF Claim, behind
  <2> HIDE DEF had
  <2>3. (had + q) * Scale = had * Scale + q * Scale /\ had * Scale \in Nat /\ q * Scale \in Nat
    BY <1>1, <1>2, <1>4
  <2> QED
    BY <1>3, <1>4, <2>1, <2>2, <2>3
<1> QED
  BY <1>4, <1>5, <1>6, <1>7

\* The rewards are backed: what is owed, rounded down, is within the claims.
LEMMA ClaimsBackRewards == FarmInv => RewardsBacked
<1> SUFFICES ASSUME FarmInv PROVE RewardsBacked
  OBVIOUS
<1> DEFINE p == Accrued(farmPool)
           scaled == [u \in Farmers |-> AllOwed[u] * Scale]
<1>1. p.acc \in Nat /\ p.acc >= farmPool.acc /\ Supply(Claims(p)) <= emitted * Scale
  BY AccruedSound
<1>2. Scale \in Nat \ {0} /\ emitted \in Nat /\ IsFiniteSet(Farmers)
  BY FarmAssumption DEF FarmInv, FarmTypeOK
<1>3. \A u \in Farmers : position[u].debt <= p.acc
  BY <1>1, FarmAssumption DEF FarmInv, FarmTypeOK, FarmSound
<1>4. Claims(p) \in [Farmers -> Nat]
  BY <1>1, <1>3, ClaimTyped DEF FarmInv
<1>5. \A u \in Farmers : AllOwed[u] \in Nat /\ AllOwed[u] * Scale <= Claims(p)[u]
  <2> SUFFICES ASSUME NEW u \in Farmers
               PROVE  AllOwed[u] \in Nat /\ AllOwed[u] * Scale <= Claims(p)[u]
    OBVIOUS
  <2>1. /\ Unsettled(p, u) \in Nat
        /\ (farmPaid[u] + (position[u].pending + Unsettled(p, u))) * Scale <= Claim(p, u)
    BY <1>1, SettledClaims
  <2>2. farmPaid[u] \in Nat /\ position[u].pending \in Nat
    BY DEF FarmInv, FarmTypeOK
  <2>3. AllOwed[u] = farmPaid[u] + (position[u].pending + Unsettled(p, u))
    BY <2>1, <2>2 DEF AllOwed, Owed
  <2>4. Claims(p)[u] = Claim(p, u)
    BY DEF Claims
  <2> QED
    BY <2>1, <2>2, <2>3, <2>4
<1> HIDE DEF p
<1>6. AllOwed \in [Farmers -> Nat] /\ scaled \in [Farmers -> Nat]
  <2>1. AllOwed \in [Farmers -> Nat]
    BY <1>5 DEF AllOwed
  <2> QED
    BY <1>2, <2>1, Products
<1>7. Supply(scaled) <= Supply(Claims(p))
  BY <1>2, <1>4, <1>5, <1>6, SupplyMonotone
<1>8. Supply(scaled) = Supply(AllOwed) * Scale
  BY <1>2, <1>6, SupplyScaled
<1>9. Supply(scaled) \in Nat /\ Supply(AllOwed) \in Nat /\ Supply(Claims(p)) \in Nat
  BY <1>2, <1>4, <1>6, SupplyType
<1> HIDE DEF scaled
<1>10. Supply(AllOwed) * Scale <= emitted * Scale
  <2>1. emitted * Scale \in Nat
    BY <1>2, Products
  <2> QED
    BY <1>1, <1>7, <1>8, <1>9, <2>1
<1>11. Supply(AllOwed) <= emitted
  BY <1>2, <1>9, <1>10, Products
<1> QED
  BY <1>11 DEF RewardsBacked, FarmInv, FarmSound

\* What the handlers of one account have in common: the pool is brought up to
\* date, the position settled, and of it d paid and the stake set to n.
Handles(u, n, paid) ==
  /\ paid <= Settled(Accrued(farmPool), u).pending
  /\ farmPool' = [Accrued(farmPool) EXCEPT !.total_staked = Supply(StakedBy)']
  /\ position' = [position EXCEPT ![u] =
       [Settled(Accrued(farmPool), u) EXCEPT !.staked = n, !.pending = @ - paid]]
  /\ farmPaid' = [farmPaid EXCEPT ![u] = @ + paid]
  /\ emitted' = emitted /\ farmNow' = farmNow

\* A handler of one account keeps the invariant.
LEMMA Handled ==
  ASSUME FarmInv, NEW u \in Farmers, NEW n \in Nat, NEW paid \in Nat, Handles(u, n, paid)
  PROVE  FarmInv'
<1> DEFINE p == Accrued(farmPool)
           q == Unsettled(p, u)
           had == position[u].pending + q
           left == had - paid
<1>1. /\ p = [total_staked |-> farmPool.total_staked, acc |-> p.acc,
              rate |-> farmPool.rate, last |-> farmNow, distributed |-> emitted]
      /\ p.acc \in Nat /\ p.acc >= farmPool.acc
      /\ Supply(Claims(p)) <= emitted * Scale
  BY AccruedSound
<1>2. /\ q \in Nat
      /\ Settled(p, u) = [staked |-> position[u].staked,
                          pending |-> position[u].pending + q, debt |-> p.acc]
      /\ (farmPaid[u] + (position[u].pending + q)) * Scale <= Claim(p, u)
  BY <1>1, SettledClaims
<1>3. /\ IsFiniteSet(Farmers) /\ Scale \in Nat \ {0} /\ emitted \in Nat /\ farmNow \in 0..FarmEnd
      /\ farmPool.rate \in Emissions \cup {0} /\ farmPool.acc \in Nat /\ farmNow \in Nat
      /\ farmPool.rate \in Nat
      /\ position \in [Farmers -> [staked : Nat, pending : Nat, debt : Nat]]
      /\ farmPaid \in [Farmers -> Nat]
      /\ farmPaid' = [farmPaid EXCEPT ![u] = @ + paid] /\ emitted' = emitted /\ farmNow' = farmNow
  <2>1. /\ farmPaid' = [farmPaid EXCEPT ![u] = @ + paid]
        /\ emitted' = emitted /\ farmNow' = farmNow
    BY DEF Handles
  <2>2. farmPool.rate \in Nat
    <3> DEFINE rate == farmPool.rate
    <3>1. rate \in Emissions \cup {0}
      BY DEF FarmInv, FarmTypeOK
    <3> HIDE DEF rate
    <3>2. rate \in Nat
      BY <3>1, FarmAssumption
    <3> QED
      BY <3>2 DEF rate
  <2> QED
    BY <2>1, <2>2, FarmAssumption DEF FarmInv, FarmTypeOK
<1>4. \A v \in Farmers : position[v].debt <= p.acc
  BY <1>1, <1>3 DEF FarmInv, FarmSound
<1> HIDE DEF p, q
<1>5. had \in Nat /\ paid <= had
  <2>1. position[u].pending \in Nat
    BY <1>3
  <2>2. paid <= Settled(p, u).pending
    BY DEF p, Handles
  <2> QED
    BY <1>2, <2>1, <2>2
<1>6. position' = [position EXCEPT ![u] = [staked |-> n, pending |-> left, debt |-> p.acc]]
      /\ left \in Nat
  <2> DEFINE r == Settled(p, u)
  <2>1. position[u].staked \in Nat
    BY <1>3
  <2>2. r = [staked |-> position[u].staked, pending |-> had, debt |-> p.acc]
    BY <1>2
  <2>3. position' = [position EXCEPT ![u] = [r EXCEPT !.staked = n, !.pending = @ - paid]]
    BY DEF p, Handles
  <2> HIDE DEF r, had
  <2>4. left \in Nat
    BY <1>5
  <2>5. /\ r \in [staked : Nat, pending : Nat, debt : Nat] /\ r.debt = p.acc
        /\ r.pending = had
    BY <1>1, <1>5, <2>1, <2>2
  <2>6. position' = [position EXCEPT ![u] = [r EXCEPT !.staked = n, !.pending = left]]
    BY <2>3, <2>5
  <2> HIDE DEF left
  <2>7. [r EXCEPT !.staked = n, !.pending = left]
          = [staked |-> n, pending |-> left, debt |-> p.acc]
    <3>1. r \in [staked : Nat, pending : Nat, debt : Nat] /\ r.debt = p.acc
      BY <2>5
    <3>2. [r EXCEPT !.staked = n, !.pending = left]
            = [staked |-> n, pending |-> left, debt |-> r.debt]
      BY <2>4, <3>1, Positions
    <3> QED
      BY <3>1, <3>2
  <2> QED
    BY <2>4, <2>6, <2>7
<1> HIDE DEF left
<1>7. position' \in [Farmers -> [staked : Nat, pending : Nat, debt : Nat]]
  BY <1>1, <1>3, <1>6
<1>8. StakedBy' \in [Farmers -> Nat] /\ Supply(StakedBy)' \in Nat
  <2>1. StakedBy' = [v \in Farmers |-> position'[v].staked]
    BY DEF StakedBy
  <2>2. StakedBy' \in [Farmers -> Nat]
    BY <1>7, <2>1
  <2>3. Supply(StakedBy') \in Nat
    BY <1>3, <2>2, SupplyType
  <2> QED
    BY <2>2, <2>3
<1>9. farmPool' = [total_staked |-> Supply(StakedBy)', acc |-> p.acc,
                   rate |-> farmPool.rate, last |-> farmNow, distributed |-> emitted]
  <2>1. farmPool' = [p EXCEPT !.total_staked = Supply(StakedBy)']
    BY DEF p, Handles
  <2> QED
    BY <1>1, <2>1
<1>10. FarmTypeOK'
  <2>1. farmPool' \in [total_staked : Nat, acc : Nat, rate : Emissions \cup {0},
                       last : 0..FarmEnd, distributed : Nat]
    BY <1>1, <1>3, <1>8, <1>9
  <2>2. farmPaid' \in [Farmers -> Nat]
    BY <1>3
  <2> QED
    BY <1>3, <1>7, <2>1, <2>2 DEF FarmTypeOK
<1>11. \A v \in Farmers : position'[v].debt <= p.acc
  <2> SUFFICES ASSUME NEW v \in Farmers PROVE position'[v].debt <= p.acc
    OBVIOUS
  <2>1. CASE v = u
    BY <1>1, <1>3, <1>6, <2>1
  <2>2. CASE v # u
    BY <1>3, <1>4, <1>6, <2>2
  <2> QED
    BY <2>1, <2>2
<1>12. Fresh' = 0
  <2>1. farmPool'.last = farmNow' /\ farmPool'.rate = farmPool.rate
    BY <1>3, <1>9
  <2>2. (farmNow' - farmPool'.last) * farmPool'.rate = 0
    BY <1>3, <2>1
  <2> QED
    BY <2>2 DEF Fresh
<1>13. Supply(Claims(farmPool))' <= emitted * Scale
  <2> DEFINE before == Claims(p)
             after == Claims(farmPool)'
  <2>1. before \in [Farmers -> Nat]
    BY <1>1, <1>4, ClaimTyped DEF FarmInv
  <2>2. \A v \in Farmers : after[v] \in Nat /\ after[v] <= before[v]
    <3> SUFFICES ASSUME NEW v \in Farmers PROVE after[v] \in Nat /\ after[v] <= before[v]
      OBVIOUS
    <3>1. after[v] = (farmPaid'[v] + position'[v].pending) * Scale
                       + (p.acc - position'[v].debt) * position'[v].staked
      <4>1. farmPool'.acc = p.acc
        BY <1>9
      <4> QED
        BY <4>1, Zenon DEF Claims, Claim
    <3>2. before[v] = Claim(p, v)
      BY DEF Claims
    <3>3. before[v] \in Nat
      BY <2>1
    <3>4. CASE v = u
      <4>1. /\ farmPaid'[u] = farmPaid[u] + paid
            /\ position'[u].pending = left
            /\ position'[u].debt = p.acc /\ position'[u].staked = n
        BY <1>3, <1>6
      <4>2. farmPaid'[u] + position'[u].pending = farmPaid[u] + (position[u].pending + q)
        <5>1. farmPaid[u] \in Nat /\ position[u].pending \in Nat
          BY <1>3
        <5>2. left = (position[u].pending + q) - paid
          BY DEF left
        <5> QED
          BY <1>2, <4>1, <5>1, <5>2
      <4>3. (p.acc - position'[u].debt) * position'[u].staked = 0
        BY <1>1, <4>1
      <4>4. farmPaid[u] + (position[u].pending + q) \in Nat
        BY <1>2, <1>3
      <4>5. (farmPaid[u] + (position[u].pending + q)) * Scale \in Nat
        BY <1>3, <4>4, Products
      <4>6. after[u] = (farmPaid[u] + (position[u].pending + q)) * Scale + 0
        BY <3>1, <3>4, <4>2, <4>3, Zenon
      <4> QED
        BY <1>2, <3>2, <3>4, <4>5, <4>6
    <3>5. CASE v # u
      <4>1. farmPaid'[v] = farmPaid[v] /\ position'[v] = position[v]
        BY <1>3, <1>6, <3>5
      <4>2. after[v] = before[v]
        BY <3>1, <3>2, <4>1, Zenon DEF Claim
      <4> QED
        BY <3>3, <4>2
    <3> QED
      BY <3>4, <3>5
  <2>3. after = [v \in Farmers |-> after[v]]
    BY DEF Claims
  <2> HIDE DEF before, after
  <2>4. after \in [Farmers -> Nat]
    BY <2>2, <2>3
  <2>5. Supply(after) <= Supply(before)
    BY <1>3, <2>1, <2>2, <2>4, SupplyMonotone
  <2>6. Supply(after) \in Nat /\ Supply(before) \in Nat
    BY <1>3, <2>1, <2>4, SupplyType
  <2>7. emitted * Scale \in Nat
    BY <1>3, Products
  <2>8. Supply(after) <= emitted * Scale
    BY <1>1, <2>5, <2>6, <2>7 DEF before
  <2> QED
    BY <2>8 DEF after
<1>14. FarmSound'
  <2>1. farmPool'.last <= farmNow' /\ farmPool'.total_staked = Supply(StakedBy)'
    BY <1>3, <1>9
  <2>2. \A v \in Farmers : position'[v].debt <= farmPool'.acc
    BY <1>9, <1>11
  <2>3. Supply(Claims(farmPool))' <= farmPool'.distributed * Scale
    BY <1>9, <1>13
  <2>4. emitted' = farmPool'.distributed + Fresh'
    BY <1>3, <1>9, <1>12
  <2> QED
    BY <2>1, <2>2, <2>3, <2>4 DEF FarmSound
<1> QED
  BY <1>10, <1>14 DEF FarmInv

\* The rewards stay backed in every step.
LEMMA FarmStep == FarmInv /\ [FarmNext]_farmVars => FarmInv'
<1> SUFFICES ASSUME FarmInv, [FarmNext]_farmVars PROVE FarmInv'
  OBVIOUS
<1> DEFINE p == Accrued(farmPool)
<1>1. /\ p = [total_staked |-> farmPool.total_staked, acc |-> p.acc,
              rate |-> farmPool.rate, last |-> farmNow, distributed |-> emitted]
      /\ p.acc \in Nat /\ p.acc >= farmPool.acc
      /\ Supply(Claims(p)) <= emitted * Scale
  BY AccruedSound
<1>2. /\ position \in [Farmers -> [staked : Nat, pending : Nat, debt : Nat]]
      /\ farmPaid \in [Farmers -> Nat] /\ emitted \in Nat /\ farmNow \in Nat
      /\ farmNow \in 0..FarmEnd /\ StakedBy \in [Farmers -> Nat]
      /\ farmPool.total_staked = Supply(StakedBy) /\ farmPool.total_staked \in Nat
      /\ IsFiniteSet(Farmers)
  BY FarmAssumption DEF FarmInv, FarmTypeOK, FarmSound, StakedBy
<1>3. ASSUME NEW u \in Farmers
      PROVE  /\ Settled(p, u) \in [staked : Nat, pending : Nat, debt : Nat]
             /\ Settled(p, u).staked = position[u].staked
  <2>1. /\ Unsettled(p, u) \in Nat
        /\ Settled(p, u) = [staked |-> position[u].staked,
                            pending |-> position[u].pending + Unsettled(p, u), debt |-> p.acc]
    BY <1>1, SettledClaims
  <2>2. position[u].pending \in Nat /\ position[u].staked \in Nat
    BY <1>2
  <2>3. position[u].pending + Unsettled(p, u) \in Nat
    BY <2>1, <2>2
  <2> QED
    BY <1>1, <2>1, <2>2, <2>3
<1>4. ASSUME NEW u \in Farmers, NEW r,
             position' = [position EXCEPT ![u] = r]
      PROVE  StakedBy' = [StakedBy EXCEPT ![u] = r.staked]
  BY <1>2, <1>4 DEF StakedBy
<1>5. p.total_staked = farmPool.total_staked
  BY <1>1
<1>6. \A u \in Farmers : [farmPaid EXCEPT ![u] = @ + 0] = farmPaid
  BY <1>2
<1>7. ASSUME NEW u \in Farmers, NEW amount \in StakeAmounts, StakeLp(u, amount)
      PROVE  FarmInv'
  <2> DEFINE r == Settled(p, u)
             n == position[u].staked + amount
  <2>1. amount \in Nat /\ n \in Nat /\ StakedBy[u] = position[u].staked
    BY <1>2, FarmAssumption DEF StakedBy
  <2>2. r \in [staked : Nat, pending : Nat, debt : Nat] /\ r.staked = position[u].staked
    BY <1>3
  <2>3. /\ farmPool' = [p EXCEPT !.total_staked = p.total_staked + amount]
        /\ position' = [position EXCEPT ![u] = [r EXCEPT !.staked = r.staked + amount]]
        /\ farmPaid' = farmPaid /\ emitted' = emitted /\ farmNow' = farmNow
    BY <1>7 DEF StakeLp
  <2> HIDE DEF r
  <2>4. position' = [position EXCEPT ![u] = [r EXCEPT !.staked = n]]
    BY <2>2, <2>3
  <2> HIDE DEF n
  <2>5. [r EXCEPT !.staked = n].staked = n
    BY <2>1, <2>2
  <2>6. StakedBy' = [StakedBy EXCEPT ![u] = n]
    BY <1>4, <2>4, <2>5
  <2>7. StakedBy' = [StakedBy EXCEPT ![u] = StakedBy[u] + amount]
    BY <2>1, <2>6 DEF n
  <2>8. Supply(StakedBy') = farmPool.total_staked + amount
    <3>1. Supply([StakedBy EXCEPT ![u] = StakedBy[u] + amount]) = Supply(StakedBy) + amount
      <4>1. IsFiniteSet(Farmers) /\ StakedBy \in [Farmers -> Nat] /\ amount \in Nat
        BY <1>2, <2>1
      <4> DEFINE f == StakedBy
      <4> HIDE DEF f
      <4>2. Supply([f EXCEPT ![u] = f[u] + amount]) = Supply(f) + amount
        BY <4>1, SupplyCredit, ZenonT(60) DEF f
      <4> QED
        BY <4>2 DEF f
    <3> QED
      BY <1>2, <2>7, <3>1
  <2>9. 0 \in Nat /\ 0 <= r.pending
    BY <2>2
  <2>10. Handles(u, n, 0)
    <3>1. farmPool' = [p EXCEPT !.total_staked = Supply(StakedBy)']
      BY <1>5, <2>3, <2>8
    <3>2. position' = [position EXCEPT ![u] = [r EXCEPT !.staked = n, !.pending = @ - 0]]
      BY <2>1, <2>2, <2>4, PositionForms
    <3> QED
      BY <1>6, <2>3, <2>9, <3>1, <3>2 DEF Handles, r
  <2> QED
    BY <2>1, <2>9, <2>10, Handled
<1>8. ASSUME NEW u \in Farmers, NEW amount \in StakeAmounts, UnstakeLp(u, amount)
      PROVE  FarmInv'
  <2> DEFINE r == Settled(p, u)
             n == position[u].staked - amount
  <2>1. /\ amount \in Nat /\ n \in Nat /\ StakedBy[u] = position[u].staked
        /\ amount <= StakedBy[u]
    <3>1. amount <= position[u].staked
      BY <1>2, <1>8, FarmAssumption DEF UnstakeLp
    <3>2. amount \in Nat /\ position[u].staked \in Nat
      BY <1>2, FarmAssumption
    <3> QED
      BY <3>1, <3>2 DEF StakedBy
  <2>2. r \in [staked : Nat, pending : Nat, debt : Nat] /\ r.staked = position[u].staked
    BY <1>3
  <2>3. /\ farmPool' = [p EXCEPT !.total_staked = p.total_staked - amount]
        /\ position' = [position EXCEPT ![u] = [r EXCEPT !.staked = r.staked - amount]]
        /\ farmPaid' = farmPaid /\ emitted' = emitted /\ farmNow' = farmNow
    BY <1>8 DEF UnstakeLp
  <2> HIDE DEF r
  <2>4. position' = [position EXCEPT ![u] = [r EXCEPT !.staked = n]]
    BY <2>2, <2>3
  <2> HIDE DEF n
  <2>5. [r EXCEPT !.staked = n].staked = n
    BY <2>1, <2>2
  <2>6. StakedBy' = [StakedBy EXCEPT ![u] = n]
    BY <1>4, <2>4, <2>5
  <2>7. StakedBy' = [StakedBy EXCEPT ![u] = StakedBy[u] - amount]
    BY <2>1, <2>6 DEF n
  <2>8. Supply(StakedBy') = farmPool.total_staked - amount
    <3>1. Supply([StakedBy EXCEPT ![u] = StakedBy[u] - amount]) = Supply(StakedBy) - amount
      <4>1. IsFiniteSet(Farmers) /\ StakedBy \in [Farmers -> Nat] /\ amount \in Nat /\ amount <= StakedBy[u]
        BY <1>2, <2>1
      <4> DEFINE f == StakedBy
      <4> HIDE DEF f
      <4>2. Supply([f EXCEPT ![u] = f[u] - amount]) = Supply(f) - amount
        BY <4>1, SupplyDebit, ZenonT(60) DEF f
      <4> QED
        BY <4>2 DEF f
    <3> QED
      BY <1>2, <2>7, <3>1
  <2>9. 0 \in Nat /\ 0 <= r.pending
    BY <2>2
  <2>10. Handles(u, n, 0)
    <3>1. farmPool' = [p EXCEPT !.total_staked = Supply(StakedBy)']
      BY <1>5, <2>3, <2>8
    <3>2. position' = [position EXCEPT ![u] = [r EXCEPT !.staked = n, !.pending = @ - 0]]
      BY <2>1, <2>2, <2>4, PositionForms
    <3> QED
      BY <1>6, <2>3, <2>9, <3>1, <3>2 DEF Handles, r
  <2> QED
    BY <2>1, <2>9, <2>10, Handled
<1>9. ASSUME NEW u \in Farmers, ClaimFarmRewards(u) \/ GetPendingFarmRewards(u)
      PROVE  FarmInv'
  <2> DEFINE r == Settled(p, u)
  <2>1. r \in [staked : Nat, pending : Nat, debt : Nat] /\ r.staked = position[u].staked
    BY <1>3
  <2>2. /\ farmPool' = p /\ emitted' = emitted /\ farmNow' = farmNow
        /\ \/ /\ position' = [position EXCEPT ![u] = [r EXCEPT !.pending = 0]]
              /\ farmPaid' = [farmPaid EXCEPT ![u] = @ + r.pending]
           \/ position' = [position EXCEPT ![u] = r] /\ farmPaid' = farmPaid
    BY <1>9 DEF ClaimFarmRewards, GetPendingFarmRewards
  <2> HIDE DEF r
  <2>3. [r EXCEPT !.pending = 0].staked = r.staked
    BY <2>1
  <2>4. StakedBy' = [StakedBy EXCEPT ![u] = r.staked]
    <3>1. CASE position' = [position EXCEPT ![u] = r]
      BY <1>4, <3>1
    <3>2. CASE position' = [position EXCEPT ![u] = [r EXCEPT !.pending = 0]]
      BY <1>4, <2>3, <3>2
    <3> QED
      BY <2>2, <3>1, <3>2
  <2>5. StakedBy' = StakedBy
    BY <1>2, <2>1, <2>4 DEF StakedBy
  <2>6. farmPool' = [p EXCEPT !.total_staked = Supply(StakedBy)']
    <3>1. Supply(StakedBy)' = p.total_staked
      BY <1>2, <1>5, <2>5
    <3> HIDE DEF p
    <3>2. [p EXCEPT !.total_staked = p.total_staked] = p
      BY <1>1
    <3> QED
      BY <2>2, <3>1, <3>2
  <2>7. Handles(u, r.staked, r.pending) \/ Handles(u, r.staked, 0)
    <3>1. 0 \in Nat /\ 0 <= r.pending /\ r.pending <= r.pending
      BY <2>1
    <3>2. CASE /\ position' = [position EXCEPT ![u] = [r EXCEPT !.pending = 0]]
               /\ farmPaid' = [farmPaid EXCEPT ![u] = @ + r.pending]
      <4>1. position' = [position EXCEPT ![u] =
                          [r EXCEPT !.staked = r.staked, !.pending = @ - r.pending]]
        BY <2>1, <3>1, <3>2, PositionForms
      <4> QED
        BY <2>2, <2>6, <3>1, <3>2, <4>1 DEF Handles, r
    <3>3. CASE position' = [position EXCEPT ![u] = r] /\ farmPaid' = farmPaid
      <4>1. position' = [position EXCEPT ![u] =
                          [r EXCEPT !.staked = r.staked, !.pending = @ - 0]]
        BY <2>1, <3>1, <3>3, PositionForms
      <4> QED
        BY <1>6, <2>2, <2>6, <3>1, <3>3, <4>1 DEF Handles, r
    <3> QED
      BY <2>2, <3>2, <3>3
  <2>8. r.staked \in Nat /\ r.pending \in Nat /\ 0 \in Nat
    BY <2>1
  <2> QED
    BY <2>7, <2>8, Handled
<1>10. ASSUME NEW rate \in Emissions, SetFarmEmissionRate(rate) PROVE FarmInv'
  <2>1. /\ farmPool' = [p EXCEPT !.rate = rate]
        /\ position' = position /\ farmPaid' = farmPaid
        /\ emitted' = emitted /\ farmNow' = farmNow
    BY <1>10 DEF SetFarmEmissionRate
  <2> HIDE DEF p
  <2>2. farmPool' = [total_staked |-> farmPool.total_staked, acc |-> p.acc,
                     rate |-> rate, last |-> farmNow, distributed |-> emitted]
    BY <1>1, <2>1
  <2>3. rate \in Nat /\ rate \in Emissions \cup {0}
    BY FarmAssumption
  <2>4. farmPool' \in [total_staked : Nat, acc : Nat, rate : Emissions \cup {0},
                       last : 0..FarmEnd, distributed : Nat]
    BY <1>1, <1>2, <2>2, <2>3
  <2>5. FarmTypeOK'
    BY <1>2, <2>1, <2>4 DEF FarmTypeOK
  <2>6. \A u \in Farmers : position[u].debt <= p.acc
    BY <1>1, <1>2 DEF FarmInv, FarmTypeOK, FarmSound
  <2>7. farmPool'.acc = p.acc /\ farmPool'.last = farmNow /\ farmPool'.rate = rate
        /\ farmPool'.distributed = emitted /\ farmPool'.total_staked = farmPool.total_staked
    BY <2>2
  <2>8. Claims(farmPool)' = Claims(p)
    <3>1. Claims(farmPool)' =
            [u \in Farmers |-> (farmPaid'[u] + position'[u].pending) * Scale
                              + (p.acc - position'[u].debt) * position'[u].staked]
      <4>1. farmPool'.acc = p.acc
        BY <2>7
      <4> QED
        BY <4>1, Zenon DEF Claims, Claim
    <3>2. farmPaid' = farmPaid /\ position' = position
      BY <2>1
    <3> QED
      BY <3>1, <3>2, Zenon DEF Claims, Claim
  <2>9. StakedBy' = StakedBy
    BY <2>1 DEF StakedBy
  <2>10. Fresh' = 0
    <3>1. (farmNow' - farmPool'.last) * farmPool'.rate = 0
      BY <1>2, <2>1, <2>3, <2>7
    <3> QED
      BY <3>1 DEF Fresh
  <2>11. FarmSound'
    <3>1. farmPool'.last <= farmNow' /\ farmPool'.total_staked = Supply(StakedBy)'
      BY <1>2, <2>1, <2>7, <2>9
    <3>2. \A u \in Farmers : position'[u].debt <= farmPool'.acc
      BY <2>1, <2>6, <2>7
    <3>3. Supply(Claims(farmPool))' <= farmPool'.distributed * Scale
      BY <1>1, <2>7, <2>8
    <3>4. emitted' = farmPool'.distributed + Fresh'
      BY <1>2, <2>1, <2>7, <2>10
    <3> QED
      BY <3>1, <3>2, <3>3, <3>4 DEF FarmSound
  <2> QED
    BY <2>5, <2>11 DEF FarmInv
<1>11. ASSUME FarmTick PROVE FarmInv'
  <2>1. /\ farmNow < FarmEnd /\ farmNow' = farmNow + 1
        /\ emitted' = emitted + (IF farmPool.total_staked > 0 THEN farmPool.rate ELSE 0)
        /\ farmPool' = farmPool /\ position' = position /\ farmPaid' = farmPaid
    BY <1>11 DEF FarmTick
  <2> DEFINE rate == farmPool.rate
             last == farmPool.last
  <2>2. rate \in Emissions \cup {0}
    BY DEF FarmInv, FarmTypeOK
  <2>3. last \in Nat /\ last <= farmNow /\ farmPool.distributed \in Nat
    BY FarmAssumption DEF FarmInv, FarmTypeOK, FarmSound
  <2>4. Fresh = IF farmPool.total_staked > 0 THEN (farmNow - last) * rate ELSE 0
    BY DEF Fresh
  <2>5. Fresh' = IF farmPool.total_staked > 0 THEN ((farmNow + 1) - last) * rate ELSE 0
    <3>1. farmPool' = farmPool /\ farmNow' = farmNow + 1
      BY <2>1
    <3>2. Fresh' = IF farmPool'.total_staked > 0
                   THEN (farmNow' - farmPool'.last) * farmPool'.rate ELSE 0
      BY DEF Fresh
    <3>3. /\ farmPool'.total_staked = farmPool.total_staked
          /\ farmNow' - farmPool'.last = (farmNow + 1) - last /\ farmPool'.rate = rate
      BY <3>1
    <3> QED
      BY <3>2, <3>3
  <2> HIDE DEF rate, last
  <2>6. rate \in Nat
    BY <2>2, FarmAssumption
  <2>7. emitted' \in Nat /\ farmNow' \in 0..FarmEnd
    BY <1>2, <2>1, <2>6, FarmAssumption DEF rate
  <2>8. FarmTypeOK'
    BY <2>1, <2>7 DEF FarmInv, FarmTypeOK
  <2>9. emitted' = farmPool'.distributed + Fresh'
    <3>1. emitted = farmPool.distributed + Fresh
      BY DEF FarmInv, FarmSound
    <3>2. ((farmNow + 1) - last) * rate = (farmNow - last) * rate + rate
      BY <1>2, <2>3, <2>6
    <3>3. (farmNow - last) * rate \in Int
      BY <1>2, <2>3, <2>6
    <3>4. emitted' = emitted + (IF farmPool.total_staked > 0 THEN rate ELSE 0)
      BY <2>1 DEF rate
    <3> QED
      BY <2>1, <2>3, <2>4, <2>5, <2>6, <3>1, <3>2, <3>3, <3>4
  <2>10. Claims(farmPool)' = Claims(farmPool) /\ StakedBy' = StakedBy
    BY <2>1, Zenon DEF Claims, Claim, StakedBy
  <2>11. farmPool'.last <= farmNow'
    BY <1>2, <2>1, <2>3 DEF last
  <2>12. FarmSound'
    BY <2>1, <2>9, <2>10, <2>11 DEF FarmInv, FarmSound
  <2> QED
    BY <2>8, <2>12 DEF FarmInv
<1>12. ASSUME UNCHANGED farmVars PROVE FarmInv'
  BY <1>12 DEF farmVars, FarmInv, FarmTypeOK, FarmSound, Claims, Claim, StakedBy, Fresh
<1> QED
  BY <1>7, <1>8, <1>9, <1>10, <1>11, <1>12 DEF FarmNext

\* In the beginning nothing is staked, claimed or emitted.
LEMMA FarmBegins == FarmInit => FarmInv
<1> SUFFICES ASSUME FarmInit PROVE FarmInv
  OBVIOUS
<1>1. FarmTypeOK
  BY FarmAssumption DEF FarmInit, FarmTypeOK
<1>2. StakedBy = [u \in Farmers |-> 0] /\ Claims(farmPool) = [u \in Farmers |-> 0]
  <2>1. \A u \in Farmers : position[u].staked = 0 /\ Claim(farmPool, u) = 0
    BY FarmAssumption DEF FarmInit, Claim
  <2> QED
    BY <2>1 DEF StakedBy, Claims
<1>3. Supply(StakedBy) = 0 /\ Supply(Claims(farmPool)) = 0
  BY <1>2, SupplyZero
<1>4. FarmSound
  BY <1>3, FarmAssumption DEF FarmInit, FarmSound, Fresh
<1> QED
  BY <1>1, <1>4 DEF FarmInv

\* Whatever the accounts, amounts, rates and order of calls: what was paid and
\* could still be claimed stays within the emission (farming.rs:92-330).
THEOREM RewardsStayBacked == FarmSpec => []RewardsBacked
<1>1. FarmInit => FarmInv
  BY FarmBegins
<1>2. FarmInv /\ [FarmNext]_farmVars => FarmInv'
  BY FarmStep
<1>3. FarmInv => RewardsBacked
  BY ClaimsBackRewards
<1> QED
  BY <1>1, <1>2, <1>3, PTL DEF FarmSpec

-----------------------------------------------------------------------------
(* Orders.  What holds of one order at a time: a recurring order counts its *)
(* executions, and the next one is due when the intervals of all before it  *)
(* have passed.                                                             *)

OrderKept(o, time) ==
  /\ o \in Order
  /\ o.type = "Recurring" <=> o.interval # None
  /\ o.type = "Recurring" <=> o.remaining # None
  /\ o.type = "Recurring" <=> o.level = None
  /\ o.type = "Recurring" =>
       /\ o.interval \in Nat /\ o.occurrences \in Nat
       /\ o.remaining \in 0..o.occurrences
       /\ o.filled = Executions(o) * o.amount
       /\ o.filledAt # None <=> o.remaining = 0
       /\ o.status \in Open => o.remaining > 0
       /\ Executions(o) > 0 => o.created + Executions(o) * o.interval <= time
       /\ o.remaining > 0 =>
            o.nextRun \in Nat /\ o.nextRun >= o.created + (Executions(o) + 1) * o.interval
  /\ o.filledAt # None /\ o.expires # None => o.filledAt <= o.expires

OrderInv ==
  /\ orders \in Seq(Order) /\ orderNow \in Nat
  /\ \A id \in DOMAIN orders : OrderKept(orders[id], orderNow)

\* What a call may make of an order that is closed.
OrderFinal(o, p) ==
  o.status \notin Open =>
    p.status \in {o.status, "Expired"} /\ p.filled = o.filled /\ p.filledAt = o.filledAt

\* An order whose status alone changes, to one that is not open, keeps all that.
LEMMA StatusClosed ==
  ASSUME NEW time \in Nat, NEW o, OrderKept(o, time), NEW s \in OrderStatus \ Open
  PROVE  OrderKept([o EXCEPT !.status = s], time)
<1> DEFINE p == [o EXCEPT !.status = s]
<1>1. /\ p \in Order /\ p.status = s /\ p.type = o.type /\ p.interval = o.interval
      /\ p.remaining = o.remaining /\ p.level = o.level /\ p.occurrences = o.occurrences
      /\ p.filled = o.filled /\ p.amount = o.amount /\ p.filledAt = o.filledAt
      /\ p.created = o.created /\ p.nextRun = o.nextRun /\ p.expires = o.expires
  BY DEF OrderKept, Order
<1>2. Executions(p) = Executions(o)
  BY <1>1 DEF Executions
<1> HIDE DEF p
<1>3. OrderKept(p, time)
  BY <1>1, <1>2 DEF OrderKept
<1> QED
  BY <1>3 DEF p

\* What the matcher does to an order.
LEMMA MatchedKept ==
  ASSUME orderNow \in Nat, NEW quote, NEW o, OrderKept(o, orderNow)
  PROVE  OrderKept(Matched(o, quote), orderNow) /\ OrderFinal(o, Matched(o, quote))
<1>1. CASE ExpiredNow(o)
  <2>1. Matched(o, quote) = [o EXCEPT !.status = "Expired"]
    BY <1>1 DEF Matched
  <2>2. "Expired" \in OrderStatus \ Open
    BY DEF OrderStatus, Open
  <2>3. OrderFinal(o, [o EXCEPT !.status = "Expired"])
    BY DEF OrderFinal, OrderKept, Order
  <2> QED
    BY <2>1, <2>2, <2>3, StatusClosed
<1>2. CASE ~ExpiredNow(o) /\ Matchable(o, quote)
  <2> DEFINE q == [owner |-> o.owner, type |-> o.type, pair |-> o.pair, amount |-> o.amount,
                   filled |-> o.filled, level |-> o.level, status |-> "Filled",
                   created |-> o.created, expires |-> o.expires, filledAt |-> orderNow,
                   interval |-> o.interval, occurrences |-> o.occurrences,
                   remaining |-> o.remaining, nextRun |-> o.nextRun]
  <2>1. o \in Order
    BY DEF OrderKept
  <2>2. Matched(o, quote) = q
    <3>1. Matched(o, quote) = [o EXCEPT !.status = "Filled", !.filledAt = orderNow]
      BY <1>2 DEF Matched
    <3> QED
      BY <2>1, <3>1 DEF Order
  <2>3. q \in Order
    BY DEF OrderKept, Order, Option, OrderStatus, Open
  <2>4. o.type # "Recurring" /\ (o.expires # None => orderNow <= o.expires)
    BY <1>2, OrderAssumption DEF Matchable, ExpiredNow, OrderKept, Order, Option
  <2>5. OrderKept(q, orderNow)
    BY <2>3, <2>4 DEF OrderKept
  <2>6. o.status \in Open
    BY <1>2 DEF Matchable, Open
  <2> QED
    BY <2>2, <2>5, <2>6 DEF OrderFinal
<1>3. CASE ~ExpiredNow(o) /\ ~Matchable(o, quote)
  BY <1>3 DEF Matched, OrderFinal
<1> QED
  BY <1>1, <1>2, <1>3

\* What the sweep of due orders does to a recurring order.
LEMMA RanKept ==
  ASSUME orderNow \in Nat, NEW o, OrderKept(o, orderNow), o.type = "Recurring"
  PROVE  OrderKept(Ran(o), orderNow) /\ OrderFinal(o, Ran(o))
<1>1. CASE ExpiredNow(o)
  <2>1. Ran(o) = [o EXCEPT !.status = "Expired"]
    BY <1>1 DEF Ran
  <2>2. "Expired" \in OrderStatus \ Open
    BY DEF OrderStatus, Open
  <2>3. OrderFinal(o, [o EXCEPT !.status = "Expired"])
    BY DEF OrderFinal, OrderKept, Order
  <2> QED
    BY <2>1, <2>2, <2>3, StatusClosed
<1>2. CASE ~ExpiredNow(o) /\ Due(o)
  <2> DEFINE left == o.remaining - 1
             q == [owner |-> o.owner, type |-> o.type, pair |-> o.pair, amount |-> o.amount,
                   filled |-> o.filled + o.amount, level |-> o.level,
                   status |-> IF left = 0 THEN "Filled" ELSE "Scheduled",
                   created |-> o.created, expires |-> o.expires,
                   filledAt |-> IF left = 0 THEN orderNow ELSE o.filledAt,
                   interval |-> o.interval, occurrences |-> o.occurrences,
                   remaining |-> left,
                   nextRun |-> IF left = 0 THEN None ELSE orderNow + o.interval]
  <2>1. o.status \in Open /\ o.remaining > 0 /\ o.remaining \in Nat /\ o.occurrences \in Nat
    BY <1>2 DEF Due, Open, OrderKept
  <2>2. left \in Nat /\ left + 1 = o.remaining
    BY <2>1
  <2>3. Ran(o) = q
    <3>1. Ran(o) = Executed(o)
      BY <1>2 DEF Ran
    <3>2. Executed(o) = [o EXCEPT !.filled = @ + o.amount, !.remaining = left,
                           !.status = IF left = 0 THEN "Filled" ELSE "Scheduled",
                           !.filledAt = IF left = 0 THEN orderNow ELSE @,
                           !.nextRun = IF left = 0 THEN None ELSE orderNow + o.interval]
      BY <2>1 DEF Executed
    <3> HIDE DEF left
    <3>3. o \in Order
      BY DEF OrderKept
    <3> QED
      BY <3>1, <3>2, <3>3, ZenonT(60) DEF Order
  <2> HIDE DEF left
  <2>4. /\ o.amount \in Nat /\ o.interval \in Nat /\ o.created \in Nat /\ o.filled \in Nat
        /\ o.nextRun \in Nat /\ None \notin Nat
        /\ o.interval # None /\ o.level = None
    BY <2>1, OrderAssumption DEF OrderKept, Order
  <2>5. q \in Order
    BY <2>2, <2>4 DEF OrderKept, Order, Option, OrderStatus, Open
  <2> DEFINE k == Executions(o)
  <2>6. k \in Nat /\ Executions(q) = k + 1
    BY <2>1, <2>2 DEF OrderKept, Executions
  <2>7. o.created + (k + 1) * o.interval <= orderNow
    <3>1. orderNow >= o.nextRun /\ o.nextRun >= o.created + (k + 1) * o.interval
      BY <1>2, <2>1 DEF Due, OrderKept
    <3> HIDE DEF k
    <3>2. (k + 1) * o.interval \in Nat
      BY <2>4, <2>6, Products
    <3> QED
      BY <2>4, <3>1, <3>2
  <2>8. q.filled = (k + 1) * o.amount
    <3>1. o.filled = k * o.amount
      BY DEF OrderKept
    <3> HIDE DEF k
    <3>2. (k + 1) * o.amount = k * o.amount + o.amount
      BY <2>4, <2>6
    <3>3. q.filled = o.filled + o.amount
      OBVIOUS
    <3> QED
      BY <3>1, <3>2, <3>3
  <2>9. orderNow + o.interval >= o.created + (k + 2) * o.interval
    <3> HIDE DEF k
    <3>1. (k + 2) * o.interval = (k + 1) * o.interval + o.interval
      BY <2>4, <2>6
    <3>2. (k + 1) * o.interval \in Nat
      BY <2>4, <2>6, Products
    <3> QED
      BY <2>4, <2>7, <3>1, <3>2
  <2>10. q.remaining \in 0..q.occurrences
    BY <2>1, <2>2 DEF OrderKept
  <2>11. o.expires # None => orderNow <= o.expires
    BY <1>2, OrderAssumption DEF ExpiredNow, OrderKept, Order, Option
  <2>12. o.filledAt = None
    BY <2>1 DEF OrderKept
  <2> HIDE DEF k
  <2>13. orderNow + o.interval \in Nat /\ orderNow # None
    BY <2>4
  <2>14. OrderKept(q, orderNow)
    <3>1. q.remaining # None /\ q.interval \in Nat /\ q.occurrences \in Nat
      BY <2>1, <2>2, <2>4
    <3>2. q.filledAt # None <=> q.remaining = 0
      BY <2>12, <2>13
    <3>3. q.status \in Open => q.remaining > 0
      BY <2>2 DEF Open
    <3>4. q.remaining > 0 => q.nextRun \in Nat
                             /\ q.nextRun >= q.created + (Executions(q) + 1) * q.interval
      BY <2>2, <2>6, <2>9, <2>13
    <3>5. q.created + Executions(q) * q.interval <= orderNow
      BY <2>6, <2>7
    <3>6. q.filled = Executions(q) * q.amount
      BY <2>6, <2>8
    <3>7. q.filledAt # None /\ q.expires # None => q.filledAt <= q.expires
      BY <2>11, <2>12
    <3> HIDE DEF q
    <3> QED
      BY <2>4, <2>5, <2>10, <3>1, <3>2, <3>3, <3>4, <3>5, <3>6, <3>7 DEF OrderKept, q
  <2> QED
    BY <2>1, <2>3, <2>14 DEF OrderFinal
<1>3. CASE ~ExpiredNow(o) /\ ~Due(o)
  BY <1>3 DEF Ran, OrderFinal
<1> QED
  BY <1>1, <1>2, <1>3

\* The same orders, each as it is kept, with later times.
LEMMA OrderKeptLater ==
  ASSUME NEW o, NEW s \in Nat, NEW t \in Nat, s <= t, OrderKept(o, s)
  PROVE  OrderKept(o, t)
<1>1. ASSUME o.type = "Recurring", Executions(o) > 0
      PROVE  o.created + Executions(o) * o.interval <= t
  <2>1. /\ o.created \in Nat /\ o.interval \in Nat /\ Executions(o) \in Nat
        /\ o.created + Executions(o) * o.interval <= s
    BY <1>1 DEF OrderKept, Order, Executions
  <2>2. Executions(o) * o.interval \in Nat
    BY <2>1, Products
  <2> QED
    BY <2>1, <2>2
<1> QED
  BY <1>1 DEF OrderKept

\* Every call keeps what holds of each order, and leaves closed orders final.
LEMMA OrderStep ==
  OrderInv /\ [OrderNext]_orderVars =>
    OrderInv' /\ \A id \in DOMAIN orders : OrderFinal(orders[id], orders'[id])
<1> SUFFICES ASSUME OrderInv, [OrderNext]_orderVars
             PROVE  OrderInv' /\ \A id \in DOMAIN orders : OrderFinal(orders[id], orders'[id])
  OBVIOUS
<1>1. PICK n \in Nat : n = Len(orders) /\ DOMAIN orders = 1..n
  BY DEF OrderInv
<1>2. orderNow \in Nat /\ \A id \in 1..n : orders[id] \in Order /\ OrderKept(orders[id], orderNow)
  BY <1>1 DEF OrderInv
<1>3. ASSUME NEW o, OrderKept(o, orderNow), orders' = Append(orders, o), orderNow' = orderNow
      PROVE  OrderInv' /\ \A id \in DOMAIN orders : OrderFinal(orders[id], orders'[id])
  <2>1. o \in Order
    BY <1>3 DEF OrderKept
  <2>2. /\ orders' \in Seq(Order) /\ DOMAIN orders' = 1..(n + 1)
        /\ orders'[n + 1] = o /\ \A id \in 1..n : orders'[id] = orders[id]
    BY <1>1, <1>3, <2>1 DEF OrderInv
  <2>3. \A id \in 1..(n + 1) : OrderKept(orders'[id], orderNow)
    BY <1>2, <1>3, <2>2
  <2> QED
    BY <1>1, <1>2, <1>3, <2>2, <2>3 DEF OrderInv, OrderFinal
<1>4. ASSUME NEW f \in [1..n -> Order], orders' = f, orderNow' = orderNow,
             \A id \in 1..n : OrderKept(f[id], orderNow) /\ OrderFinal(orders[id], f[id])
      PROVE  OrderInv' /\ \A id \in DOMAIN orders : OrderFinal(orders[id], orders'[id])
  <2>1. f \in Seq(Order) /\ DOMAIN f = 1..n
    BY <1>4
  <2> QED
    BY <1>1, <1>2, <1>4, <2>1 DEF OrderInv
<1>5. CASE \E u \in Customers, type \in {"Limit", "StopLoss"}, pair \in Pairs,
        amount \in OrderAmounts, level \in OrderPrices, expires \in Expiries :
        PlaceOrder(u, type, pair, amount, level, expires)
  <2> PICK u \in Customers, type \in {"Limit", "StopLoss"}, pair \in Pairs,
           amount \in OrderAmounts, level \in OrderPrices, expires \in Expiries :
           PlaceOrder(u, type, pair, amount, level, expires)
    BY <1>5
  <2> DEFINE o == [ owner |-> u, type |-> type, pair |-> pair, amount |-> amount,
                    filled |-> 0, level |-> level, status |-> "Pending",
                    created |-> orderNow, expires |-> expires, filledAt |-> None,
                    interval |-> None, occurrences |-> None, remaining |-> None,
                    nextRun |-> None ]
  <2>1. orders' = Append(orders, o) /\ orderNow' = orderNow
    BY DEF PlaceOrder
  <2>2. o \in Order
    BY <1>2, OrderAssumption DEF Order, Option, OrderStatus, Open, OrderType
  <2>3. o.level # None /\ o.type # "Recurring"
    BY OrderAssumption
  <2>4. OrderKept(o, orderNow)
    BY <2>2, <2>3 DEF OrderKept
  <2> QED
    BY <1>3, <2>1, <2>4
<1>6. CASE \E u \in Customers, pair \in Pairs, amount \in OrderAmounts, interval \in Intervals,
        occurrences \in Occurrences, expires \in Expiries :
        PlaceRecurringOrder(u, pair, amount, interval, occurrences, expires)
  <2> PICK u \in Customers, pair \in Pairs, amount \in OrderAmounts, interval \in Intervals,
           occurrences \in Occurrences, expires \in Expiries :
           PlaceRecurringOrder(u, pair, amount, interval, occurrences, expires)
    BY <1>6
  <2> DEFINE o == [ owner |-> u, type |-> "Recurring", pair |-> pair, amount |-> amount,
                    filled |-> 0, level |-> None, status |-> "Pending",
                    created |-> orderNow, expires |-> expires, filledAt |-> None,
                    interval |-> interval, occurrences |-> occurrences,
                    remaining |-> occurrences, nextRun |-> orderNow + interval ]
  <2>1. orders' = Append(orders, o) /\ orderNow' = orderNow
    BY DEF PlaceRecurringOrder
  <2>2. /\ amount \in Nat /\ interval \in Nat /\ occurrences \in Nat \ {0}
        /\ interval # None /\ occurrences # None /\ orderNow + interval \in Nat
    BY <1>2, OrderAssumption DEF PlaceRecurringOrder
  <2>3. o \in Order
    BY <1>2, <2>2, OrderAssumption DEF Order, Option, OrderStatus, Open, OrderType
  <2>4. Executions(o) = 0
    BY <2>2 DEF Executions
  <2>5. Executions(o) * o.amount = 0 /\ (Executions(o) + 1) * o.interval = interval
    BY <2>2, <2>4
  <2>6. OrderKept(o, orderNow)
    BY <1>2, <2>2, <2>3, <2>4, <2>5 DEF OrderKept
  <2> QED
    BY <1>3, <2>1, <2>6
<1>7. CASE \E id \in DOMAIN orders, u \in Customers : CancelOrder(id, u)
  <2> PICK i \in 1..n, u \in Customers : CancelOrder(i, u)
    BY <1>1, <1>7
  <2> DEFINE f == [orders EXCEPT ![i].status = "Cancelled"]
  <2>1. orders' = f /\ orderNow' = orderNow /\ orders[i].status \in Open
    BY DEF CancelOrder
  <2>2. /\ f[i] = [orders[i] EXCEPT !.status = "Cancelled"]
        /\ \A id \in 1..n : id # i => f[id] = orders[id]
        /\ f = [id \in 1..n |-> f[id]]
    BY <1>1, <1>2 DEF OrderInv
  <2>3. "Cancelled" \in OrderStatus \ Open
    BY DEF OrderStatus, Open
  <2>4. OrderKept([orders[i] EXCEPT !.status = "Cancelled"], orderNow)
    BY <1>2, <2>3, StatusClosed
  <2> HIDE DEF f
  <2>5. \A id \in 1..n : OrderKept(f[id], orderNow) /\ OrderFinal(orders[id], f[id])
    BY <1>2, <2>1, <2>2, <2>4 DEF OrderFinal
  <2>6. f \in [1..n -> Order]
    BY <2>2, <2>5 DEF OrderKept
  <2> QED
    BY <1>4, <2>1, <2>5, <2>6
<1>8. CASE \E pair \in Pairs, quote \in OrderPrices : MatchPendingOrders(pair, quote)
  <2> PICK pair \in Pairs, quote \in OrderPrices : MatchPendingOrders(pair, quote)
    BY <1>8
  <2> DEFINE f == [id \in 1..n |-> IF id \in Book(pair) THEN Matched(orders[id], quote)
                                   ELSE orders[id]]
  <2>1. orders' = f /\ orderNow' = orderNow
    BY <1>1 DEF MatchPendingOrders
  <2>2. \A id \in 1..n : OrderKept(f[id], orderNow) /\ OrderFinal(orders[id], f[id])
    <3> SUFFICES ASSUME NEW id \in 1..n
                 PROVE  OrderKept(f[id], orderNow) /\ OrderFinal(orders[id], f[id])
      OBVIOUS
    <3>1. CASE id \in Book(pair)
      BY <1>2, <3>1, MatchedKept
    <3>2. CASE id \notin Book(pair)
      BY <1>2, <3>2 DEF OrderFinal
    <3> QED
      BY <3>1, <3>2
  <2>3. f \in [1..n -> Order]
    BY <2>2 DEF OrderKept
  <2> HIDE DEF f
  <2> QED
    BY <1>4, <2>1, <2>2, <2>3
<1>9. CASE ExecuteDueOrders
  <2> DEFINE f == [id \in 1..n |-> IF id \in Recurring THEN Ran(orders[id]) ELSE orders[id]]
  <2>1. orders' = f /\ orderNow' = orderNow
    BY <1>1, <1>9 DEF ExecuteDueOrders
  <2>2. \A id \in 1..n : OrderKept(f[id], orderNow) /\ OrderFinal(orders[id], f[id])
    <3> SUFFICES ASSUME NEW id \in 1..n
                 PROVE  OrderKept(f[id], orderNow) /\ OrderFinal(orders[id], f[id])
      OBVIOUS
    <3>1. CASE id \in Recurring
      <4>1. orders[id].type = "Recurring"
        BY <3>1 DEF Recurring
      <4> QED
        BY <1>2, <3>1, <4>1, RanKept
    <3>2. CASE id \notin Recurring
      BY <1>2, <3>2 DEF OrderFinal
    <3> QED
      BY <3>1, <3>2
  <2>3. f \in [1..n -> Order]
    BY <2>2 DEF OrderKept
  <2> HIDE DEF f
  <2> QED
    BY <1>4, <2>1, <2>2, <2>3
<1>10. CASE OrderTick
  <2>1. orders' = orders /\ orderNow' = orderNow + 1 /\ orderNow' \in Nat
    BY <1>2, <1>10 DEF OrderTick
  <2>2. \A id \in 1..n : OrderKept(orders[id], orderNow')
    BY <1>2, <2>1, OrderKeptLater, orderNow <= orderNow'
  <2> QED
    BY <1>1, <2>1, <2>2 DEF OrderInv, OrderFinal
<1>11. CASE UNCHANGED orderVars
  BY <1>11 DEF orderVars, OrderInv, OrderFinal
<1> QED
  BY <1>5, <1>6, <1>7, <1>8, <1>9, <1>10, <1>11 DEF OrderNext

LEMMA OrdersBegin == OrderInit => OrderInv
<1> SUFFICES ASSUME OrderInit PROVE OrderInv
  OBVIOUS
<1>1. orders = <<>> /\ orderNow = 0 /\ DOMAIN orders = {}
  BY DEF OrderInit
<1> QED
  BY <1>1 DEF OrderInv

\* Whatever customers place and cancel, and whenever anyone calls the sweeps:
\* executions are paid for once, on schedule and in time, and what is closed stays
\* so (orders.rs:131-511).
THEOREM OrdersKept == OrderSpec => OrdersSound
<1> DEFINE Facts == OrderTypeOK /\ ExecutionsAccounted /\ NeverAhead /\ FilledInTime
           Finals == \A id \in DOMAIN orders :
                       orders[id].status \notin Open =>
                         /\ orders'[id].status \in {orders[id].status, "Expired"}
                         /\ orders'[id].filled = orders[id].filled
                         /\ orders'[id].filledAt = orders[id].filledAt
<1>1. OrderInit => OrderInv
  BY OrdersBegin
<1>2. OrderInv /\ [OrderNext]_orderVars => OrderInv'
  BY OrderStep
<1>3. OrderInv => Facts
  <2> SUFFICES ASSUME OrderInv PROVE Facts
    OBVIOUS
  <2>1. OrderTypeOK
    BY DEF OrderInv, OrderKept, OrderTypeOK
  <2>2. ExecutionsAccounted
    BY DEF OrderInv, OrderKept, ExecutionsAccounted, Recurring
  <2>3. NeverAhead
    BY DEF OrderInv, OrderKept, NeverAhead, Recurring
  <2>4. FilledInTime
    BY DEF OrderInv, OrderKept, FilledInTime
  <2> QED
    BY <2>1, <2>2, <2>3, <2>4
<1>4. OrderInv /\ [OrderNext]_orderVars => [Finals]_orders
  BY OrderStep DEF OrderFinal
<1> HIDE DEF Facts, Finals
<1>5. OrderSpec => []Facts /\ [][Finals]_orders
  BY <1>1, <1>2, <1>3, <1>4, PTL DEF OrderSpec
<1> QED
  BY <1>5, PTL DEF OrdersSound, ClosedIsFinal, Facts, Finals

-----------------------------------------------------------------------------
(* Staking.  The sums over a list of stakes move with each call as the      *)
(* totals kept beside the list do.                                          *)

\* The sums over a list when a stake is added to it.
LEMMA StakeAdded ==
  ASSUME NEW list \in Seq(StakeRecord), NEW s \in StakeRecord, s.active, ~s.bonusClaimed
  PROVE  /\ Supply(ActiveAmounts(Append(list, s))) = Supply(ActiveAmounts(list)) + s.amount
         /\ Supply(ClosedAmounts(Append(list, s))) = Supply(ClosedAmounts(list))
         /\ Supply(ClaimedBonuses(Append(list, s))) = Supply(ClaimedBonuses(list))
<1> DEFINE more == Append(list, s)
<1>0. PICK n \in Nat : n = Len(list)
  OBVIOUS
<1>1. /\ DOMAIN list = 1..n /\ DOMAIN more = 1..(n + 1)
      /\ more[n + 1] = s /\ \A i \in 1..n : more[i] = list[i]
  <2>1. PICK S : S = StakeRecord /\ list \in Seq(S) /\ s \in S
    OBVIOUS
  <2>2. /\ more \in Seq(S) /\ Len(more) = Len(list) + 1 /\ more[Len(list) + 1] = s
        /\ \A i \in 1..Len(list) : more[i] = list[i]
    BY ONLY <2>1, AppendProperties
  <2>3. Len(list) \in Nat /\ DOMAIN list = 1..Len(list) /\ DOMAIN more = 1..(Len(list) + 1)
    BY ONLY <2>1, <2>2
  <2> HIDE DEF more
  <2> QED
    BY ONLY <1>0, <2>2, <2>3
<1> HIDE DEF more
<1>2. ASSUME NEW i \in 1..(n + 1)
      PROVE  more[i].amount \in Nat /\ more[i].bonus \in Nat
  <2>1. more[i] \in StakeRecord
    BY <1>1
  <2> QED
    BY <2>1 DEF StakeRecord
<1>3. \A i \in 1..n : i \in 1..(n + 1)
  OBVIOUS
<1>5. /\ ActiveAmounts(list) \in [1..n -> Nat] /\ ActiveAmounts(more) \in [1..(n + 1) -> Nat]
      /\ \A i \in 1..n : ActiveAmounts(more)[i] = ActiveAmounts(list)[i]
      /\ ActiveAmounts(more)[n + 1] = s.amount
  BY <1>1, <1>2, <1>3 DEF ActiveAmounts
<1>6. /\ ClosedAmounts(list) \in [1..n -> Nat] /\ ClosedAmounts(more) \in [1..(n + 1) -> Nat]
      /\ \A i \in 1..n : ClosedAmounts(more)[i] = ClosedAmounts(list)[i]
      /\ ClosedAmounts(more)[n + 1] = 0
  BY <1>1, <1>2, <1>3 DEF ClosedAmounts
<1>7. /\ ClaimedBonuses(list) \in [1..n -> Nat] /\ ClaimedBonuses(more) \in [1..(n + 1) -> Nat]
      /\ \A i \in 1..n : ClaimedBonuses(more)[i] = ClaimedBonuses(list)[i]
      /\ ClaimedBonuses(more)[n + 1] = 0
  BY <1>1, <1>2, <1>3 DEF ClaimedBonuses
<1>8. Supply(ActiveAmounts(more)) = Supply(ActiveAmounts(list)) + s.amount
  BY <1>5, SumAppended
<1>9. Supply(ClosedAmounts(more)) = Supply(ClosedAmounts(list))
  BY <1>6, SumAppended, SMTT(40)
<1>10. Supply(ClaimedBonuses(more)) = Supply(ClaimedBonuses(list))
  BY <1>7, SumAppended, SMTT(40)
<1> QED
  BY <1>8, <1>9, <1>10 DEF more

\* The sums over a list when what can be claimed of it is claimed.
LEMMA BonusesClaimed ==
  ASSUME NEW list \in Seq(StakeRecord), NEW after, after = Collected(list)
  PROVE  /\ after \in Seq(StakeRecord) /\ DOMAIN after = DOMAIN list
         /\ Supply(ActiveAmounts(after)) = Supply(ActiveAmounts(list))
         /\ Supply(ClosedAmounts(after)) = Supply(ClosedAmounts(list))
         /\ Supply(ClaimedBonuses(after))
              = Supply(ClaimedBonuses(list)) + Supply(ClaimableBonuses(list))
         /\ Supply(ClaimableBonuses(list)) \in Nat
         /\ \A i \in DOMAIN list :
              /\ after[i].stakedAt = list[i].stakedAt /\ after[i].claimableAt = list[i].claimableAt
              /\ after[i].bonusClaimed => list[i].bonusClaimed \/ Claimable(list[i])
<1>1. PICK n \in Nat : DOMAIN list = 1..n
  OBVIOUS
<1>2. \A i \in 1..n : list[i] \in StakeRecord
  BY <1>1
<1>3. IsFiniteSet(1..n)
  BY FS_Interval
<1>4. \A i \in 1..n : Claimable(list[i]) \in BOOLEAN /\ (Claimable(list[i]) => ~list[i].bonusClaimed)
  BY DEF Claimable
<1>5. ASSUME NEW i \in 1..n
      PROVE  /\ after[i] \in StakeRecord /\ after[i].active = list[i].active
             /\ after[i].amount = list[i].amount /\ after[i].bonus = list[i].bonus
             /\ after[i].bonusClaimed <=> list[i].bonusClaimed \/ Claimable(list[i])
             /\ after[i].stakedAt = list[i].stakedAt
             /\ after[i].claimableAt = list[i].claimableAt
  <2> DEFINE r == list[i]
  <2>1. r \in StakeRecord
    BY <1>2
  <2>2. CASE Claimable(list[i])
    <3>1. after[i] = [r EXCEPT !.bonusClaimed = TRUE]
      BY <1>1, <2>2 DEF Collected
    <3> HIDE DEF r
    <3>2. after[i] = [amount |-> r.amount, stakedAt |-> r.stakedAt, unlockAt |-> r.unlockAt,
                      bonus |-> r.bonus, bonusClaimed |-> TRUE, claimableAt |-> r.claimableAt,
                      active |-> r.active]
      BY ONLY <2>1, <3>1 DEF StakeRecord
    <3>3. /\ after[i] \in StakeRecord /\ after[i].active = r.active
          /\ after[i].amount = r.amount /\ after[i].bonus = r.bonus
          /\ after[i].bonusClaimed = TRUE /\ after[i].stakedAt = r.stakedAt
          /\ after[i].claimableAt = r.claimableAt
      BY ONLY <2>1, <3>2 DEF StakeRecord
    <3> QED
      BY <2>2, <3>3 DEF r
  <2>3. CASE ~Claimable(list[i])
    <3>1. after[i] = [r EXCEPT !.bonusClaimed = r.bonusClaimed]
      <4>1. r.bonusClaimed \in BOOLEAN
        BY <2>1 DEF StakeRecord
      <4> QED
        BY <1>1, <2>3, <4>1 DEF Collected
    <3>2. after[i] = r
      BY <2>1, <3>1 DEF StakeRecord
    <3> QED
      BY <2>1, <2>3, <3>2
  <2> QED
    BY <2>2, <2>3
<1>6. DOMAIN after = 1..n /\ after = [i \in 1..n |-> after[i]]
  BY <1>1 DEF Collected
<1>7. after \in Seq(StakeRecord)
  <2>1. after \in [1..n -> StakeRecord]
    BY <1>5, <1>6
  <2> QED
    BY <2>1
<1>8. ActiveAmounts(after) = ActiveAmounts(list) /\ ClosedAmounts(after) = ClosedAmounts(list)
  BY <1>1, <1>5, <1>6 DEF ActiveAmounts, ClosedAmounts
<1>9. /\ ClaimedBonuses(list) \in [1..n -> Nat] /\ ClaimableBonuses(list) \in [1..n -> Nat]
  BY <1>1, <1>2 DEF ClaimedBonuses, ClaimableBonuses, StakeRecord
<1>10. ClaimedBonuses(after) = [i \in 1..n |-> ClaimedBonuses(list)[i] + ClaimableBonuses(list)[i]]
  <2>1. ASSUME NEW i \in 1..n
        PROVE  (IF after[i].bonusClaimed THEN after[i].bonus ELSE 0)
                 = (IF list[i].bonusClaimed THEN list[i].bonus ELSE 0)
                     + (IF Claimable(list[i]) THEN list[i].bonus ELSE 0)
    <3>1. list[i].bonus \in Nat
      BY <1>2 DEF StakeRecord
    <3>2. CASE Claimable(list[i])
      <4>1. ~list[i].bonusClaimed /\ after[i].bonusClaimed /\ after[i].bonus = list[i].bonus
        BY <1>4, <1>5, <3>2
      <4> QED
        BY <3>1, <3>2, <4>1
    <3>3. CASE ~Claimable(list[i])
      <4>1. (list[i].bonusClaimed <=> after[i].bonusClaimed) /\ after[i].bonus = list[i].bonus
        BY <1>5, <3>3
      <4> QED
        BY <3>1, <3>3, <4>1
    <3> QED
      BY <3>2, <3>3
  <2>2. ClaimedBonuses(after) = [i \in 1..n |-> IF after[i].bonusClaimed THEN after[i].bonus ELSE 0]
    BY <1>6 DEF ClaimedBonuses
  <2>3. \A i \in 1..n :
          /\ ClaimedBonuses(list)[i] = IF list[i].bonusClaimed THEN list[i].bonus ELSE 0
          /\ ClaimableBonuses(list)[i] = IF Claimable(list[i]) THEN list[i].bonus ELSE 0
    BY <1>1 DEF ClaimedBonuses, ClaimableBonuses
  <2> QED
    BY ONLY <2>1, <2>2, <2>3
<1>11. Supply(ClaimedBonuses(after)) = Supply(ClaimedBonuses(list)) + Supply(ClaimableBonuses(list))
  <2> DEFINE f == ClaimedBonuses(list)
             g == ClaimableBonuses(list)
  <2>1. PICK S : S = 1..n
    OBVIOUS
  <2>2. IsFiniteSet(S) /\ f \in [S -> Nat] /\ g \in [S -> Nat]
    BY <1>3, <1>9, <2>1
  <2>3. ClaimedBonuses(after) = [i \in S |-> f[i] + g[i]]
    BY <1>10, <2>1
  <2> HIDE DEF f, g
  <2>4. Supply([i \in S |-> f[i] + g[i]]) = Supply(f) + Supply(g)
    BY ONLY <2>2, SupplyOfSum
  <2> QED
    BY <2>3, <2>4 DEF f, g
<1>12. Supply(ClaimableBonuses(list)) \in Nat
  BY <1>3, <1>9, SupplyType
<1> QED
  BY <1>1, <1>5, <1>6, <1>7, <1>8, <1>11, <1>12

\* What holds of the account of one user: the totals are those of his stakes, and
\* the two times of every stake are a holding period apart.
AccountKept(list, inStakes, out, paid, t) ==
  /\ list \in Seq(StakeRecord) /\ inStakes \in Nat /\ out \in Nat /\ paid \in Nat /\ t \in Nat
  /\ inStakes = Supply(ActiveAmounts(list))
  /\ out <= Supply(ClosedAmounts(list)) /\ Supply(ClosedAmounts(list)) \in Nat
  /\ paid = Supply(ClaimedBonuses(list))
  /\ \A i \in DOMAIN list :
       /\ list[i].claimableAt = list[i].stakedAt + HoldingPeriod
       /\ list[i].bonusClaimed => t >= list[i].stakedAt + HoldingPeriod

StakingInv ==
  /\ StakingTypeOK
  /\ \A u \in Users : AccountKept(stakes[u], userStaked[u], returned[u], claimed[u], stakingNow)
  /\ totalStaked = Supply(userStaked)
  /\ totalClaimed = Supply(claimed)
  /\ EarnedOnRecord

LEMMA NewStakeType ==
  ASSUME stakingNow \in Nat, NEW amount \in Principals, NEW d \in Days
  PROVE  /\ NewStake(amount, d) \in StakeRecord /\ amount \in Nat
         /\ NewStake(amount, d).amount = amount
         /\ NewStake(amount, d).active = TRUE /\ NewStake(amount, d).bonusClaimed = FALSE
         /\ NewStake(amount, d).claimableAt = NewStake(amount, d).stakedAt + HoldingPeriod
<1>1. amount \in Nat /\ TierSecs[d] \in Nat /\ TierBps[d] \in Nat /\ Bps \in Nat \ {0}
      /\ HoldingPeriod \in Nat
  BY StakingAssumption
<1>2. amount * TierBps[d] \in Nat
  BY <1>1
<1>3. (amount * TierBps[d]) \div Bps \in Nat
  BY <1>1, <1>2, Quotient
<1> QED
  BY <1>1, <1>3 DEF NewStake, StakeRecord

LEMMA AccountStaked ==
  ASSUME NEW list, NEW a, NEW out, NEW paid, NEW t, AccountKept(list, a, out, paid, t),
         NEW s \in StakeRecord, s.active, ~s.bonusClaimed,
         s.claimableAt = s.stakedAt + HoldingPeriod
  PROVE  AccountKept(Append(list, s), a + s.amount, out, paid, t)
<1> DEFINE more == Append(list, s)
<1>1. list \in Seq(StakeRecord) /\ more \in Seq(StakeRecord) /\ s.amount \in Nat
  BY DEF AccountKept, StakeRecord
<1>2. /\ Supply(ActiveAmounts(more)) = Supply(ActiveAmounts(list)) + s.amount
      /\ Supply(ClosedAmounts(more)) = Supply(ClosedAmounts(list))
      /\ Supply(ClaimedBonuses(more)) = Supply(ClaimedBonuses(list))
  BY <1>1, StakeAdded
<1>3. \A i \in DOMAIN more : (i \in DOMAIN list /\ more[i] = list[i]) \/ more[i] = s
  BY <1>1
<1> HIDE DEF more
<1>4. \A i \in DOMAIN more :
        /\ more[i].claimableAt = more[i].stakedAt + HoldingPeriod
        /\ more[i].bonusClaimed => t >= more[i].stakedAt + HoldingPeriod
  <2>1. ASSUME NEW i \in DOMAIN more, i \in DOMAIN list, more[i] = list[i]
        PROVE  /\ more[i].claimableAt = more[i].stakedAt + HoldingPeriod
               /\ more[i].bonusClaimed => t >= more[i].stakedAt + HoldingPeriod
    BY <2>1 DEF AccountKept
  <2> QED
    BY <1>3, <2>1
<1>5. AccountKept(more, a + s.amount, out, paid, t)
  BY <1>1, <1>2, <1>4 DEF AccountKept
<1> QED
  BY <1>5 DEF more

\* A stake is closed: what was active is now closed.
LEMMA AccountClosed ==
  ASSUME NEW list, NEW a, NEW out, NEW paid, NEW t, AccountKept(list, a, out, paid, t),
         NEW id \in DOMAIN list, list[id].active,
         NEW less, less = [list EXCEPT ![id].active = FALSE],
         NEW back \in Nat, back <= list[id].amount
  PROVE  /\ AccountKept(less, a - list[id].amount, out + back, paid, t)
         /\ list[id].amount \in Nat /\ list[id].amount <= a
<1>1. PICK n \in Nat : DOMAIN list = 1..n /\ list \in Seq(StakeRecord)
  BY DEF AccountKept
<1>2. \A i \in 1..n : list[i] \in StakeRecord
  BY <1>1
<1>3. IsFiniteSet(1..n)
  BY FS_Interval
<1>4. /\ DOMAIN less = 1..n /\ less[id] = [list[id] EXCEPT !.active = FALSE]
      /\ \A i \in 1..n : i # id => less[i] = list[i]
      /\ less = [i \in 1..n |-> less[i]]
  BY <1>1
<1>5. /\ less[id] \in StakeRecord /\ less[id].active = FALSE
      /\ less[id].amount = list[id].amount /\ less[id].bonus = list[id].bonus
      /\ less[id].bonusClaimed = list[id].bonusClaimed
      /\ less[id].stakedAt = list[id].stakedAt
      /\ less[id].claimableAt = list[id].claimableAt
  BY <1>1, <1>2, <1>4, ZenonT(60) DEF StakeRecord
<1>6. less \in Seq(StakeRecord)
  <2>1. less \in [1..n -> StakeRecord]
    BY <1>1, <1>2, <1>4, <1>5
  <2> QED
    BY ONLY <2>1, n \in Nat
<1>7. /\ ActiveAmounts(list) \in [1..n -> Nat] /\ ActiveAmounts(less) \in [1..n -> Nat]
      /\ \A i \in (1..n) \ {id} : ActiveAmounts(less)[i] = ActiveAmounts(list)[i]
      /\ ActiveAmounts(less)[id] = 0 /\ ActiveAmounts(list)[id] = list[id].amount
  BY <1>1, <1>2, <1>4, <1>5, ZenonT(60) DEF ActiveAmounts, StakeRecord
<1>8. /\ ClosedAmounts(list) \in [1..n -> Nat] /\ ClosedAmounts(less) \in [1..n -> Nat]
      /\ \A i \in (1..n) \ {id} : ClosedAmounts(less)[i] = ClosedAmounts(list)[i]
      /\ ClosedAmounts(less)[id] = list[id].amount /\ ClosedAmounts(list)[id] = 0
  BY <1>1, <1>2, <1>4, <1>5, ZenonT(60) DEF ClosedAmounts, StakeRecord
<1>9. ClaimedBonuses(less) = ClaimedBonuses(list)
  <2>1. \A i \in 1..n : less[i].bonus = list[i].bonus /\ less[i].bonusClaimed = list[i].bonusClaimed
    BY <1>4, <1>5
  <2> QED
    BY <1>1, <1>4, <2>1 DEF ClaimedBonuses
<1>10. /\ Supply(ActiveAmounts(less)) + ActiveAmounts(list)[id]
            = Supply(ActiveAmounts(list)) + ActiveAmounts(less)[id]
       /\ Supply(ActiveAmounts(less)) \in Nat /\ Supply(ActiveAmounts(list)) \in Nat
  <2> DEFINE f == ActiveAmounts(list)
             g == ActiveAmounts(less)
  <2>1. PICK S : S = 1..n
    OBVIOUS
  <2>2. /\ id \in S /\ f \in [S -> Nat] /\ g \in [S -> Nat] /\ IsFiniteSet(S)
        /\ g = [f EXCEPT ![id] = g[id]]
    BY <1>1, <1>3, <1>7, <2>1
  <2> HIDE DEF f, g
  <2>3. /\ Supply(g) + f[id] = Supply(f) + g[id] /\ Supply(f) \in Nat /\ Supply(g) \in Nat
    BY ONLY <2>2, SupplyReplaced
  <2> QED
    BY <2>3 DEF f, g
<1>11. /\ Supply(ClosedAmounts(less)) + ClosedAmounts(list)[id]
            = Supply(ClosedAmounts(list)) + ClosedAmounts(less)[id]
       /\ Supply(ClosedAmounts(less)) \in Nat /\ Supply(ClosedAmounts(list)) \in Nat
  <2> DEFINE f == ClosedAmounts(list)
             g == ClosedAmounts(less)
  <2>1. PICK S : S = 1..n
    OBVIOUS
  <2>2. /\ id \in S /\ f \in [S -> Nat] /\ g \in [S -> Nat] /\ IsFiniteSet(S)
        /\ g = [f EXCEPT ![id] = g[id]]
    BY <1>1, <1>3, <1>8, <2>1
  <2> HIDE DEF f, g
  <2>3. /\ Supply(g) + f[id] = Supply(f) + g[id] /\ Supply(f) \in Nat /\ Supply(g) \in Nat
    BY ONLY <2>2, SupplyReplaced
  <2> QED
    BY <2>3 DEF f, g
<1>12. list[id].amount \in Nat
  BY <1>1, <1>2 DEF StakeRecord
<1>13. /\ Supply(ActiveAmounts(less)) = Supply(ActiveAmounts(list)) - list[id].amount
       /\ list[id].amount <= Supply(ActiveAmounts(list))
       /\ Supply(ClosedAmounts(less)) = Supply(ClosedAmounts(list)) + list[id].amount
  <2>1. /\ ActiveAmounts(less)[id] = 0 /\ ActiveAmounts(list)[id] = list[id].amount
        /\ ClosedAmounts(less)[id] = list[id].amount /\ ClosedAmounts(list)[id] = 0
    BY <1>7, <1>8
  <2> QED
    BY ONLY <1>10, <1>11, <1>12, <2>1
<1>14. \A i \in 1..n : /\ less[i].bonusClaimed = list[i].bonusClaimed
                      /\ less[i].stakedAt = list[i].stakedAt
                      /\ less[i].claimableAt = list[i].claimableAt
  BY <1>4, <1>5
<1> QED
  BY <1>1, <1>4, <1>6, <1>9, <1>12, <1>13, <1>14, SMTT(40) DEF AccountKept

LEMMA AccountClaimed ==
  ASSUME NEW list, NEW a, NEW out, NEW paid, AccountKept(list, a, out, paid, stakingNow), NEW after, after = Collected(list)
  PROVE  /\ AccountKept(after, a, out, paid + Supply(ClaimableBonuses(list)), stakingNow)
         /\ Supply(ClaimableBonuses(list)) \in Nat
<1>1. list \in Seq(StakeRecord)
  BY DEF AccountKept
<1>2. /\ after \in Seq(StakeRecord) /\ DOMAIN after = DOMAIN list
      /\ Supply(ActiveAmounts(after)) = Supply(ActiveAmounts(list))
      /\ Supply(ClosedAmounts(after)) = Supply(ClosedAmounts(list))
      /\ Supply(ClaimedBonuses(after))
           = Supply(ClaimedBonuses(list)) + Supply(ClaimableBonuses(list))
      /\ Supply(ClaimableBonuses(list)) \in Nat
      /\ \A i \in DOMAIN list :
           /\ after[i].stakedAt = list[i].stakedAt /\ after[i].claimableAt = list[i].claimableAt
           /\ after[i].bonusClaimed => list[i].bonusClaimed \/ Claimable(list[i])
  BY <1>1, BonusesClaimed
<1>3. \A i \in DOMAIN list : Claimable(list[i]) => stakingNow >= list[i].claimableAt
  BY DEF Claimable
<1> QED
  BY <1>2, <1>3, SMTT(40) DEF AccountKept

LEMMA AccountLater ==
  ASSUME NEW list, NEW a, NEW out, NEW paid, NEW t, AccountKept(list, a, out, paid, t)
  PROVE  AccountKept(list, a, out, paid, t + 1)
<1>1. \A i \in DOMAIN list : list[i].stakedAt \in Nat
  <2>1. \A i \in DOMAIN list : list[i] \in StakeRecord
    BY DEF AccountKept
  <2> QED
    BY <2>1 DEF StakeRecord
<1>2. t \in Nat /\ t + 1 \in Nat /\ HoldingPeriod \in Nat
  BY StakingAssumption DEF AccountKept
<1>3. \A i \in DOMAIN list : list[i].bonusClaimed => t + 1 >= list[i].stakedAt + HoldingPeriod
  <2>1. ASSUME NEW i \in DOMAIN list, list[i].bonusClaimed
        PROVE  t >= list[i].stakedAt + HoldingPeriod /\ list[i].stakedAt \in Nat
    BY <1>1, <2>1 DEF AccountKept
  <2> QED
    BY <1>2, <2>1
<1> QED
  BY <1>2, <1>3 DEF AccountKept

LEMMA StakeKeeps ==
  ASSUME StakingInv, NEW u \in Users, NEW amount \in Principals, NEW d \in Days,
         Stake(u, amount, d)
  PROVE  StakingInv'
<1> DEFINE s == NewStake(amount, d)
<1>1. /\ s \in StakeRecord /\ amount \in Nat /\ s.amount = amount
      /\ s.active = TRUE /\ s.bonusClaimed = FALSE
      /\ s.claimableAt = s.stakedAt + HoldingPeriod
  BY NewStakeType DEF StakingInv, StakingTypeOK
<1>2. AccountKept(Append(stakes[u], s), userStaked[u] + amount, returned[u], claimed[u], stakingNow)
  <2> HIDE DEF s
  <2>1. AccountKept(stakes[u], userStaked[u], returned[u], claimed[u], stakingNow)
    BY DEF StakingInv
  <2> QED
    BY <1>1, <2>1, AccountStaked
<1>3. /\ stakes' = [stakes EXCEPT ![u] = Append(stakes[u], s)]
      /\ userStaked' = [userStaked EXCEPT ![u] = userStaked[u] + amount]
      /\ totalStaked' = totalStaked + amount
      /\ UNCHANGED <<returned, claimed, totalClaimed, earned, distributions, lastDistribution, stakingNow>>
  BY DEF Stake, bonuses, rounds
<1> HIDE DEF s
<1>4. Append(stakes[u], s) \in Seq(StakeRecord) /\ userStaked[u] + amount \in Nat
  BY <1>2 DEF AccountKept
<1>5. StakingTypeOK'
  <2>1. totalStaked \in Nat /\ totalStaked + amount \in Nat
    BY <1>1 DEF StakingInv, StakingTypeOK
  <2> QED
    BY <1>3, <1>4, <2>1 DEF StakingInv, StakingTypeOK
<1>6. ASSUME NEW v \in Users
      PROVE  AccountKept(stakes'[v], userStaked'[v], returned'[v], claimed'[v], stakingNow')
  BY <1>2, <1>3 DEF StakingInv, StakingTypeOK
<1>7. Supply(userStaked') = Supply(userStaked) + amount
  <2>1. userStaked \in [Users -> Nat] /\ IsFiniteSet(Users)
    BY StakingAssumption DEF StakingInv, StakingTypeOK
  <2>2. Supply([userStaked EXCEPT ![u] = userStaked[u] + amount]) = Supply(userStaked) + amount
    <3>1. PICK n \in Nat : n = amount
      BY <1>1
    <3>2. Supply([userStaked EXCEPT ![u] = userStaked[u] + n]) = Supply(userStaked) + n
      BY ONLY <2>1, <3>1, SupplyCredit, u \in Users, ZenonT(60)
    <3> QED
      BY <3>1, <3>2
  <2> QED
    BY <1>3, <2>2
<1>8. EarnedOnRecord'
  BY <1>3 DEF StakingInv, EarnedOnRecord
<1> QED
  BY <1>3, <1>5, <1>6, <1>7, <1>8 DEF StakingInv

\* Both withdrawals, when what is paid is at most what was staked.
LEMMA WithdrawnKeeps ==
  ASSUME StakingInv, NEW u \in Users, NEW id \in DOMAIN stakes[u], stakes[u][id].active,
         NEW back \in Nat, back <= stakes[u][id].amount, Withdrawn(u, id, back),
         UNCHANGED <<bonuses, rounds, stakingNow>>
  PROVE  StakingInv'
<1> DEFINE less == [stakes[u] EXCEPT ![id].active = FALSE]
           x == stakes[u][id].amount
<1>1. /\ AccountKept(less, userStaked[u] - x, returned[u] + back, claimed[u], stakingNow)
      /\ x \in Nat /\ x <= userStaked[u]
  <2> DEFINE list == stakes[u]
  <2>1. AccountKept(list, userStaked[u], returned[u], claimed[u], stakingNow)
    BY DEF StakingInv
  <2>2. id \in DOMAIN list /\ list[id].active /\ back <= list[id].amount
    OBVIOUS
  <2>3. PICK l : l = [list EXCEPT ![id].active = FALSE]
    OBVIOUS
  <2>4. l = less /\ list[id].amount = x
    BY <2>3
  <2> HIDE DEF list, less, x
  <2>5. /\ AccountKept(l, userStaked[u] - list[id].amount, returned[u] + back, claimed[u], stakingNow)
        /\ list[id].amount \in Nat /\ list[id].amount <= userStaked[u]
    BY <2>1, <2>2, <2>3, AccountClosed
  <2> QED
    BY <2>4, <2>5
<1>2. /\ stakes' = [stakes EXCEPT ![u] = less]
      /\ userStaked' = [userStaked EXCEPT ![u] = userStaked[u] - x]
      /\ totalStaked' = totalStaked - x
      /\ returned' = [returned EXCEPT ![u] = returned[u] + back]
      /\ UNCHANGED <<claimed, totalClaimed, earned, distributions, lastDistribution, stakingNow>>
  BY DEF Withdrawn, bonuses, rounds
<1> HIDE DEF less, x
<1>3. less \in Seq(StakeRecord) /\ userStaked[u] - x \in Nat /\ returned[u] + back \in Nat
  BY <1>1 DEF AccountKept
<1>4. Supply(userStaked') = Supply(userStaked) - x /\ Supply(userStaked') \in Nat
  <2>1. userStaked \in [Users -> Nat] /\ IsFiniteSet(Users) /\ userStaked' \in [Users -> Nat]
    BY <1>2, <1>3, StakingAssumption DEF StakingInv, StakingTypeOK
  <2>2. Supply(userStaked') \in Nat
    BY <2>1, SupplyType
  <2>3. Supply([userStaked EXCEPT ![u] = userStaked[u] - x]) = Supply(userStaked) - x
    <3>1. PICK n \in Nat : n = x /\ n <= userStaked[u]
      BY <1>1
    <3>2. Supply([userStaked EXCEPT ![u] = userStaked[u] - n]) = Supply(userStaked) - n
      <4>1. userStaked \in [Users -> Nat] /\ IsFiniteSet(Users)
        BY <2>1
      <4> QED
        BY ONLY <3>1, <4>1, SupplyDebit, u \in Users, ZenonT(60)
    <3> QED
      BY <3>1, <3>2
  <2> QED
    BY <1>2, <2>2, <2>3
<1>5. StakingTypeOK'
  BY <1>2, <1>3, <1>4 DEF StakingInv, StakingTypeOK
<1>6. ASSUME NEW v \in Users
      PROVE  AccountKept(stakes'[v], userStaked'[v], returned'[v], claimed'[v], stakingNow')
  BY <1>1, <1>2 DEF StakingInv, StakingTypeOK
<1>7. EarnedOnRecord'
  BY <1>2 DEF StakingInv, EarnedOnRecord
<1> QED
  BY <1>2, <1>4, <1>5, <1>6, <1>7 DEF StakingInv

LEMMA PenaltyWithin ==
  ASSUME NEW s \in StakeRecord
  PROVE  s.amount - Penalty(s) \in Nat /\ s.amount - Penalty(s) <= s.amount /\ s.amount \in Nat
<1>1. s.amount \in Nat /\ PenaltyPct \in Nat /\ PenaltyPct <= 100
  BY StakingAssumption DEF StakeRecord
<1>2. PICK a \in Nat, p \in Nat : a = s.amount /\ p = PenaltyPct /\ p <= 100
  BY <1>1
<1>3. a * p \in Nat /\ a * p <= a * 100
  BY <1>2
<1>4. (a * p) \div 100 \in Nat /\ ((a * p) \div 100) * 100 <= a * p
  BY <1>3, Quotient
<1>5. (a * p) \div 100 <= a
  BY <1>3, <1>4
<1> QED
  BY <1>2, <1>4, <1>5 DEF Penalty

LEMMA ClaimKeeps ==
  ASSUME StakingInv, NEW u \in Users, ClaimBonuses(u)
  PROVE  StakingInv'
<1> DEFINE list == stakes[u]
           total == Supply(ClaimableBonuses(list))
           after == Collected(list)
<1>1. /\ AccountKept(after, userStaked[u], returned[u], claimed[u] + total, stakingNow)
      /\ total \in Nat
  <2>1. AccountKept(list, userStaked[u], returned[u], claimed[u], stakingNow)
    BY DEF StakingInv
  <2>2. PICK l : l = after
    OBVIOUS
  <2> HIDE DEF list
  <2>3. /\ AccountKept(l, userStaked[u], returned[u], claimed[u] + Supply(ClaimableBonuses(list)), stakingNow)
        /\ Supply(ClaimableBonuses(list)) \in Nat
    BY <2>1, <2>2, AccountClaimed
  <2> HIDE DEF after
  <2> QED
    BY <2>2, <2>3
<1>2. /\ stakes' = [stakes EXCEPT ![u] = after]
      /\ claimed' = [claimed EXCEPT ![u] = claimed[u] + total]
      /\ totalClaimed' = totalClaimed + total
      /\ UNCHANGED <<userStaked, totalStaked, returned, earned, distributions, lastDistribution, stakingNow>>
  BY DEF ClaimBonuses, rounds
<1> HIDE DEF after, total
<1>3. after \in Seq(StakeRecord) /\ claimed[u] + total \in Nat
  BY <1>1 DEF AccountKept
<1>4. Supply(claimed') = Supply(claimed) + total
  <2>1. claimed \in [Users -> Nat] /\ IsFiniteSet(Users)
    BY StakingAssumption DEF StakingInv, StakingTypeOK
  <2>2. Supply([claimed EXCEPT ![u] = claimed[u] + total]) = Supply(claimed) + total
    BY <1>1, <2>1, SupplyCredit, ZenonT(60)
  <2> QED
    BY <1>2, <2>2
<1>5. StakingTypeOK'
  <2>1. totalClaimed \in Nat /\ totalClaimed + total \in Nat
    BY <1>1, SMTT(40) DEF StakingInv, StakingTypeOK
  <2> QED
    BY <1>2, <1>3, <2>1 DEF StakingInv, StakingTypeOK
<1>6. ASSUME NEW v \in Users
      PROVE  AccountKept(stakes'[v], userStaked'[v], returned'[v], claimed'[v], stakingNow')
  BY <1>1, <1>2 DEF StakingInv, StakingTypeOK
<1>7. EarnedOnRecord'
  BY <1>2 DEF StakingInv, EarnedOnRecord
<1> QED
  BY <1>2, <1>4, <1>5, <1>6, <1>7 DEF StakingInv

\* A distribution is worth what the stakers accrue; who never staked accrues nothing.
LEMMA AccruedAmounts ==
  ASSUME StakingTypeOK
  PROVE  /\ \A u \in Users : AccruedBy(u) \in Nat
         /\ \A u \in Users \ Stakers : AccruedBy(u) = 0
         /\ Stakers \in SUBSET Users /\ IsFiniteSet(Stakers) /\ IsFiniteSet(Users)
<1>1. ASSUME NEW u \in Users PROVE AccruedBy(u) \in Nat
  <2>1. PICK n \in Nat : DOMAIN stakes[u] = 1..n /\ \A i \in 1..n : stakes[u][i] \in StakeRecord
    BY DEF StakingTypeOK
  <2>2. AccruingBonuses(stakes[u]) \in [1..n -> Nat] /\ IsFiniteSet(1..n)
    BY <2>1, FS_Interval DEF AccruingBonuses, StakeRecord
  <2> QED
    BY <2>2, SupplyType DEF AccruedBy
<1>2. ASSUME NEW u \in Users, stakes[u] = <<>> PROVE AccruedBy(u) = 0
  <2>1. AccruingBonuses(stakes[u]) = [i \in {} |-> 0]
    BY <1>2 DEF AccruingBonuses
  <2> QED
    BY <2>1, SupplyZero DEF AccruedBy
<1>3. Stakers \in SUBSET Users /\ IsFiniteSet(Stakers) /\ IsFiniteSet(Users)
  BY FS_Subset, StakingAssumption DEF Stakers
<1> QED
  BY <1>1, <1>2, <1>3 DEF Stakers

LEMMA DistributionKeeps ==
  ASSUME StakingInv, ExecuteDistribution
  PROVE  StakingInv'
<1> DEFINE total == Supply([v \in Stakers |-> AccruedBy(v)])
           count == Cardinality({ v \in Stakers : AccruedBy(v) > 0 })
           rec == [ at |-> stakingNow, total |-> total, recipients |-> count ]
           accrued == [v \in Users |-> AccruedBy(v)]
           totals == [i \in DOMAIN distributions |-> distributions[i].total]
<1>1. /\ \A v \in Users : AccruedBy(v) \in Nat
      /\ \A v \in Users \ Stakers : AccruedBy(v) = 0
      /\ Stakers \in SUBSET Users /\ IsFiniteSet(Stakers) /\ IsFiniteSet(Users)
  BY AccruedAmounts DEF StakingInv
<1>2. total \in Nat /\ count \in Nat
  <2>1. [v \in Stakers |-> AccruedBy(v)] \in [Stakers -> Nat]
    BY <1>1
  <2>2. total \in Nat
    BY <1>1, <2>1, SupplyType
  <2>3. IsFiniteSet({ v \in Stakers : AccruedBy(v) > 0 })
    BY <1>1, FS_Subset
  <2> QED
    BY <2>2, <2>3, FS_CardinalityType
<1>3. Supply(accrued) = total /\ accrued \in [Users -> Nat]
  <2>1. accrued \in [Users -> Nat] /\ \A v \in Users \ Stakers : accrued[v] = 0
    BY <1>1
  <2>2. Supply([v \in Stakers |-> accrued[v]]) = Supply(accrued)
    <3> HIDE DEF accrued
    <3> QED
      BY <1>1, <2>1, SupplyRestricted
  <2>3. [v \in Stakers |-> accrued[v]] = [v \in Stakers |-> AccruedBy(v)]
    BY <1>1
  <2> QED
    BY <2>1, <2>2, <2>3
<1>4. /\ earned' = [v \in Users |-> earned[v] + accrued[v]]
      /\ distributions' = Append(distributions, rec)
      /\ lastDistribution' = stakingNow
      /\ UNCHANGED <<stakes, userStaked, totalStaked, returned, claimed, totalClaimed, stakingNow>>
  BY DEF ExecuteDistribution, Credited, staked, bonuses
<1>5. earned' \in [Users -> Nat] /\ Supply(earned') = Supply(earned) + total
  <2>1. earned \in [Users -> Nat]
    BY DEF StakingInv, StakingTypeOK
  <2> HIDE DEF accrued, total
  <2>2. Supply([v \in Users |-> earned[v] + accrued[v]]) = Supply(earned) + Supply(accrued)
    BY <1>1, <1>3, <2>1, SupplyOfSum
  <2> QED
    BY <1>3, <1>4, <2>1, <2>2
<1>6. rec \in DistributionRecord /\ rec.total = total
  BY <1>2 DEF DistributionRecord, StakingInv, StakingTypeOK
<1> HIDE DEF rec, total, accrued
<1>7. distributions' \in Seq(DistributionRecord)
  BY <1>4, <1>6 DEF StakingInv, StakingTypeOK
<1>8. Supply([i \in DOMAIN distributions' |-> distributions'[i].total]) = Supply(totals) + total
  <2> DEFINE more == [i \in DOMAIN distributions' |-> distributions'[i].total]
  <2>1. PICK n \in Nat : /\ DOMAIN distributions = 1..n /\ DOMAIN distributions' = 1..(n + 1)
                         /\ \A i \in 1..n : distributions[i] \in DistributionRecord
                                            /\ distributions'[i] = distributions[i]
                         /\ distributions'[n + 1] = rec
    <3>1. distributions \in Seq(DistributionRecord)
      BY DEF StakingInv, StakingTypeOK
    <3>2. PICK n \in Nat : n = Len(distributions)
      BY <3>1
    <3> QED
      BY <1>4, <3>1, <3>2
  <2>2. /\ totals \in [1..n -> Nat] /\ more \in [1..(n + 1) -> Nat]
        /\ \A i \in 1..n : more[i] = totals[i]
        /\ more[n + 1] = total
    <3>1. \A i \in 1..n : distributions[i].total \in Nat
      BY <2>1 DEF DistributionRecord
    <3>2. total \in Nat /\ rec.total = total
      BY <1>2, <1>6
    <3>3. \A i \in 1..(n + 1) : i \in 1..n \/ i = n + 1
      OBVIOUS
    <3>4. n + 1 \in 1..(n + 1) /\ \A i \in 1..n : i \in 1..(n + 1)
      OBVIOUS
    <3> QED
      BY <2>1, <3>1, <3>2, <3>3, <3>4
  <2> HIDE DEF more, totals
  <2>3. Supply(more) = Supply(totals) + more[n + 1]
    BY <2>2, SumAppended
  <2>4. Supply(more) = Supply(totals) + total
    BY <2>2, <2>3
  <2> QED
    BY <2>4 DEF more
<1>9. EarnedOnRecord'
  <2>1. Supply(earned) = Supply(totals)
    BY DEF StakingInv, EarnedOnRecord
  <2> QED
    BY <1>5, <1>8, <2>1 DEF EarnedOnRecord
<1>10. StakingTypeOK'
  BY <1>4, <1>5, <1>7 DEF StakingInv, StakingTypeOK
<1>11. \A v \in Users : AccountKept(stakes'[v], userStaked'[v], returned'[v], claimed'[v], stakingNow')
  BY <1>4 DEF StakingInv
<1> QED
  BY <1>4, <1>9, <1>10, <1>11 DEF StakingInv

LEMMA StakingStep == StakingInv /\ [StakingNext]_stakingVars => StakingInv'
<1> SUFFICES ASSUME StakingInv, [StakingNext]_stakingVars PROVE StakingInv'
  OBVIOUS
<1>1. CASE \E u \in Users, amount \in Principals, d \in Days : Stake(u, amount, d)
  BY <1>1, StakeKeeps
<1>2. ASSUME NEW u \in Users, NEW id \in DOMAIN stakes[u]
      PROVE  stakes[u][id] \in StakeRecord
  BY DEF StakingInv, StakingTypeOK
<1>3. CASE \E u \in Users : \E id \in DOMAIN stakes[u] : UnstakeEarly(u, id)
  <2> PICK u \in Users : \E id \in DOMAIN stakes[u] : UnstakeEarly(u, id)
    BY <1>3
  <2> PICK id \in DOMAIN stakes[u] : UnstakeEarly(u, id)
    OBVIOUS
  <2>1. PICK back \in Nat : back = stakes[u][id].amount - Penalty(stakes[u][id])
                            /\ back <= stakes[u][id].amount
    BY <1>2, PenaltyWithin
  <2> QED
    BY <2>1, WithdrawnKeeps DEF UnstakeEarly
<1>4. CASE \E u \in Users : \E id \in DOMAIN stakes[u] : ClaimStake(u, id)
  <2> PICK u \in Users : \E id \in DOMAIN stakes[u] : ClaimStake(u, id)
    BY <1>4
  <2> PICK id \in DOMAIN stakes[u] : ClaimStake(u, id)
    OBVIOUS
  <2>1. PICK back \in Nat : back = stakes[u][id].amount /\ back <= stakes[u][id].amount
    BY <1>2 DEF StakeRecord
  <2> QED
    BY <2>1, WithdrawnKeeps DEF ClaimStake
<1>5. CASE \E u \in Users : ClaimBonuses(u)
  BY <1>5, ClaimKeeps
<1>6. CASE ExecuteDistribution
  BY <1>6, DistributionKeeps
<1>7. CASE StakingTick
  <2>1. UNCHANGED <<staked, bonuses, rounds>> /\ stakingNow' = stakingNow + 1
    BY <1>7 DEF StakingTick
  <2>2. \A v \in Users : AccountKept(stakes[v], userStaked[v], returned[v], claimed[v], stakingNow + 1)
    BY AccountLater DEF StakingInv
  <2> QED
    BY <2>1, <2>2 DEF staked, bonuses, rounds, StakingInv, StakingTypeOK, EarnedOnRecord
<1>8. CASE UNCHANGED stakingVars
  BY <1>8 DEF stakingVars, StakingInv, StakingTypeOK, EarnedOnRecord
<1> QED
  BY <1>1, <1>3, <1>4, <1>5, <1>6, <1>7, <1>8 DEF StakingNext

LEMMA StakingBegins == StakingInit => StakingInv
<1> SUFFICES ASSUME StakingInit PROVE StakingInv
  OBVIOUS
<1>1. /\ Supply([u \in Users |-> 0]) = 0
      /\ Supply([i \in {} |-> 0]) = 0
  BY SupplyZero
<1>2. /\ ActiveAmounts(<<>>) = [i \in {} |-> 0]
      /\ ClosedAmounts(<<>>) = [i \in {} |-> 0]
      /\ ClaimedBonuses(<<>>) = [i \in {} |-> 0]
  BY DEF ActiveAmounts, ClosedAmounts, ClaimedBonuses
<1>3. AccountKept(<<>>, 0, 0, 0, 0)
  BY <1>1, <1>2 DEF AccountKept
<1>4. StakingTypeOK
  BY DEF StakingInit, StakingTypeOK
<1>5. EarnedOnRecord
  <2>1. [i \in DOMAIN distributions |-> distributions[i].total] = [i \in {} |-> 0]
    BY DEF StakingInit
  <2> QED
    BY <1>1, <2>1 DEF StakingInit, EarnedOnRecord
<1>6. \A u \in Users : AccountKept(stakes[u], userStaked[u], returned[u], claimed[u], stakingNow)
  BY <1>3 DEF StakingInit
<1> QED
  BY <1>1, <1>4, <1>5, <1>6 DEF StakingInit, StakingInv

\* For any users, durations, amounts and rates, after any sequence of stakes,
\* claims, withdrawals and distributions: the totals are those of the stakes,
\* principal and bonus are paid once, the bonus after the holding period, and the
\* history accounts for what was credited (staking_bonus.rs:270-590).
THEOREM StakingKept == StakingSpec => []StakingSound
<1>1. StakingInit => StakingInv
  BY StakingBegins
<1>2. StakingInv /\ [StakingNext]_stakingVars => StakingInv'
  BY StakingStep
<1>3. StakingInv => StakingSound
  <2> SUFFICES ASSUME StakingInv PROVE StakingSound
    OBVIOUS
  <2>1. TotalsAgree
    BY DEF StakingInv, AccountKept, TotalsAgree
  <2>2. PrincipalReturnedOnce
    BY DEF StakingInv, AccountKept, PrincipalReturnedOnce
  <2>3. BonusPaidOnce
    BY DEF StakingInv, AccountKept, BonusPaidOnce
  <2> QED
    BY <2>1, <2>2, <2>3 DEF StakingInv, StakingSound
<1> QED
  BY <1>1, <1>2, <1>3, PTL DEF StakingSpec

-----------------------------------------------------------------------------
(* Referrals.  Links are inspected as far up as commissions are paid; what  *)
(* one charge brings to all accounts is at most the two highest rates of it.   *)

EarnedBy == [u \in Members |-> stats[u].earned]

\* The links made by one registration keep the property of those before it.
LEMMA LinkKeepsAcyclic ==
  ASSUME ReferralTypeOK, ReferralsAcyclic, NEW by \in Members, NEW u \in Members,
         by # u, referrer[u] = Nobody, ~Circular(by, u),
         referrer' = [referrer EXCEPT ![u] = by]
  PROVE  \A w \in Members :
           w \notin {Referrer(w), Referrer(Referrer(w)), Referrer(Referrer(Referrer(w)))}'
<1> DEFINE up(w) == Referrer(w)
           next(w) == IF w = u THEN by ELSE Referrer(w)
<1>1. Nobody \notin Members /\ up(Nobody) = Nobody
  BY ReferralAssumption DEF Referrer
<1>2. \A w \in Members \cup {Nobody} : up(w) \in Members \cup {Nobody}
  BY <1>1 DEF Referrer, ReferralTypeOK
<1>3. \A w \in Members \cup {Nobody} : Referrer(w)' = next(w) /\ next(w) \in Members \cup {Nobody}
  BY <1>1, <1>2 DEF Referrer, ReferralTypeOK
<1>4. \A w \in Members : w # up(w) /\ w # up(up(w)) /\ w # up(up(up(w)))
  BY DEF ReferralsAcyclic
<1>5. up(u) = Nobody /\ by # u /\ u # up(by) /\ u # up(up(by))
  BY <1>1 DEF Referrer, Circular
<1> HIDE DEF up
<1>6. \A w \in Members \cup {Nobody} : next(w) = IF w = u THEN by ELSE up(w)
  BY DEF up
<1> HIDE DEF next
<1>7. ASSUME NEW w \in Members
      PROVE  w # next(w) /\ w # next(next(w)) /\ w # next(next(next(w)))
  BY ONLY <1>1, <1>2, <1>4, <1>5, <1>6, w \in Members, by \in Members, u \in Members
<1>8. ASSUME NEW w \in Members
      PROVE  /\ Referrer(w)' = next(w) /\ Referrer(Referrer(w))' = next(next(w))
             /\ Referrer(Referrer(Referrer(w)))' = next(next(next(w)))
  <2>1. Referrer(w)' = next(w) /\ next(w) \in Members \cup {Nobody}
    BY <1>3
  <2>2. Referrer(Referrer(w))' = next(next(w)) /\ next(next(w)) \in Members \cup {Nobody}
    BY <1>3, <2>1 DEF Referrer
  <2>3. Referrer(Referrer(Referrer(w)))' = next(next(next(w)))
    BY <1>3, <2>2 DEF Referrer
  <2> QED
    BY <2>1, <2>2, <2>3
<1> QED
  BY <1>7, <1>8

\* A link adds its account to those the referrer is counted for.
LEMMA LinkCounted ==
  ASSUME ReferralTypeOK, NEW by \in Members, NEW u \in Members, referrer[u] = Nobody,
         referrer' = [referrer EXCEPT ![u] = by], NEW x \in Members
  PROVE  Cardinality({w \in Members : referrer'[w] = x})
           = Cardinality({w \in Members : referrer[w] = x}) + (IF x = by THEN 1 ELSE 0)
<1> DEFINE before == {w \in Members : referrer[w] = x}
           after == {w \in Members : referrer'[w] = x}
<1>1. x # Nobody /\ IsFiniteSet(before) /\ u \notin before
  BY ReferralAssumption, FS_Subset
<1>2. Cardinality(before) \in Nat
  BY <1>1, FS_CardinalityType
<1>3. CASE x = by
  <2>1. after = before \cup {u}
    BY <1>3 DEF ReferralTypeOK
  <2> HIDE DEF before, after
  <2>2. Cardinality(before \cup {u}) = Cardinality(before) + 1
    BY <1>1, FS_AddElement
  <2>3. Cardinality(after) = Cardinality(before) + 1
    BY <2>1, <2>2
  <2> QED
    BY <1>3, <2>3 DEF before, after
<1>4. CASE x # by
  <2>1. after = before
    BY <1>1, <1>4 DEF ReferralTypeOK
  <2> HIDE DEF before, after
  <2>2. Cardinality(after) = Cardinality(before) + 0
    BY <1>2, <2>1
  <2> QED
    BY <1>4, <2>2 DEF before, after
<1> QED
  BY <1>3, <1>4

\* An amount that one account at most has is the whole supply at most.
LEMMA OneHolder ==
  ASSUME NEW S, IsFiniteSet(S), NEW x, NEW a \in Nat
  PROVE  /\ [u \in S |-> IF u = x THEN a ELSE 0] \in [S -> Nat]
         /\ Supply([u \in S |-> IF u = x THEN a ELSE 0]) \in Nat
         /\ Supply([u \in S |-> IF u = x THEN a ELSE 0]) <= a
<1> DEFINE none == [u \in S |-> 0]
           f == [u \in S |-> IF u = x THEN a ELSE 0]
<1>1. none \in [S -> Nat] /\ f \in [S -> Nat] /\ Supply(none) = 0
  BY SupplyZero
<1>2. CASE x \in S
  <2>1. f = [none EXCEPT ![x] = f[x]] /\ f[x] = a /\ none[x] = 0
    BY <1>2
  <2> HIDE DEF f, none
  <2>2. Supply(f) + none[x] = Supply(none) + f[x] /\ Supply(f) \in Nat
    BY <1>1, <1>2, <2>1, SupplyReplaced
  <2> QED
    BY <1>1, <2>1, <2>2 DEF f
<1>3. CASE x \notin S
  <2>1. f = none
    BY <1>3
  <2> QED
    BY <1>1, <2>1
<1> QED
  BY <1>2, <1>3

\* What one fee brings to all accounts, in the unit of the rates.
LEMMA SharesWithinRates ==
  ASSUME ReferralTypeOK, ReferralsAcyclic, NEW trader \in Members, NEW charge \in SwapFees,
         NEW due, due = Shares(trader, charge)
  PROVE  /\ due \in [Members -> Nat] /\ charge \in Nat /\ Supply(due) \in Nat
         /\ Supply(due) * RateScale <= 140 * charge
<1> DEFINE rates == Tier(volume[trader])
           d == Referrer(trader)
           i == Referrer(d)
           a == (charge * rates.direct) \div RateScale
           b == (charge * rates.indirect) \div RateScale
           fa == [u \in Members |-> IF u = d THEN a ELSE 0]
           fb == [u \in Members |-> IF u = i THEN b ELSE 0]
<1>1. /\ charge \in Nat /\ RateScale \in Nat \ {0} /\ IsFiniteSet(Members)
      /\ rates.direct \in Nat /\ rates.direct <= 100
      /\ rates.indirect \in Nat /\ rates.indirect <= 40
  <2>1. \/ rates = [direct |-> 100, indirect |-> 40]
        \/ rates = [direct |-> 75, indirect |-> 30]
        \/ rates = [direct |-> 50, indirect |-> 20]
    BY DEF Tier
  <2> HIDE DEF rates
  <2> QED
    BY <2>1, ReferralAssumption
<1>2. a \in Nat /\ a * RateScale <= charge * 100
  <2>1. PICK r \in Nat : r = rates.direct /\ r <= 100
    BY <1>1
  <2>2. charge * r \in Nat /\ charge * r <= charge * 100
    BY <1>1, <2>1
  <2>3. (charge * r) \div RateScale \in Nat /\ ((charge * r) \div RateScale) * RateScale <= charge * r
    BY <1>1, <2>2, Quotient
  <2>4. ((charge * r) \div RateScale) * RateScale \in Nat
    BY <1>1, <2>3
  <2> QED
    BY <1>1, <2>1, <2>2, <2>3, <2>4
<1>3. b \in Nat /\ b * RateScale <= charge * 40
  <2>1. PICK r \in Nat : r = rates.indirect /\ r <= 40
    BY <1>1
  <2>2. charge * r \in Nat /\ charge * r <= charge * 40
    BY <1>1, <2>1
  <2>3. (charge * r) \div RateScale \in Nat /\ ((charge * r) \div RateScale) * RateScale <= charge * r
    BY <1>1, <2>2, Quotient
  <2>4. ((charge * r) \div RateScale) * RateScale \in Nat
    BY <1>1, <2>3
  <2> QED
    BY <1>1, <2>1, <2>2, <2>3, <2>4
<1> HIDE DEF rates, d, i
<1>4. ASSUME NEW u \in Members PROVE due[u] = IF u = d THEN a ELSE IF u = i THEN b ELSE 0
  <2>1. d \in Members \cup {Nobody}
    BY ReferralAssumption DEF d, Referrer, ReferralTypeOK
  <2>2. d \in Members => i # d
    BY DEF i, ReferralsAcyclic
  <2>3. due[u] = CASE u = d -> a [] u = i -> b [] OTHER -> 0
    BY DEF Shares, Share, rates, d, i
  <2> HIDE DEF a, b
  <2>4. CASE u = d
    BY <2>2, <2>3, <2>4
  <2>5. CASE u # d
    BY <2>3, <2>5
  <2> QED
    BY <2>4, <2>5
<1>10. due = [u \in Members |-> due[u]]
  BY DEF Shares
<1> HIDE DEF a, b
<1>5. /\ fa \in [Members -> Nat] /\ fb \in [Members -> Nat]
      /\ Supply(fa) \in Nat /\ Supply(fb) \in Nat /\ Supply(fa) <= a /\ Supply(fb) <= b
  <2>1. fa \in [Members -> Nat] /\ fb \in [Members -> Nat]
    BY <1>2, <1>3
  <2>2. Supply(fa) \in Nat /\ Supply(fa) <= a
    BY ONLY <1>1, <1>2, OneHolder
  <2>3. Supply(fb) \in Nat /\ Supply(fb) <= b
    BY ONLY <1>1, <1>3, OneHolder
  <2> QED
    BY <2>1, <2>2, <2>3
<1>6. due \in [Members -> Nat]
  BY <1>2, <1>3, <1>4, <1>10
<1>7. Supply(due) \in Nat /\ Supply(due) <= Supply(fa) + Supply(fb)
  <2> DEFINE both == [u \in Members |-> fa[u] + fb[u]]
  <2>1. both \in [Members -> Nat] /\ \A u \in Members : due[u] <= both[u]
    BY <1>2, <1>3, <1>4, <1>5
  <2> HIDE DEF fa, fb
  <2>2. Supply(both) = Supply(fa) + Supply(fb)
    BY <1>1, <1>5, SupplyOfSum
  <2> HIDE DEF both
  <2>3. Supply(due) <= Supply(both)
    BY <1>1, <1>6, <2>1, SupplyMonotone
  <2>4. Supply(due) \in Nat
    BY <1>1, <1>6, SupplyType
  <2> QED
    BY <2>2, <2>3, <2>4
<1>8. Supply(due) * RateScale <= 140 * charge
  <2>1. PICK s \in Nat, x \in Nat, y \in Nat, z \in Nat :
          s = Supply(due) /\ x = a /\ y = b /\ z = RateScale
    BY <1>1, <1>2, <1>3, <1>7
  <2>2. s <= x + y
    BY <1>2, <1>3, <1>5, <1>7, <2>1
  <2>3. s * z <= (x + y) * z /\ (x + y) * z = x * z + y * z
    BY <2>2
  <2>4. x * z <= charge * 100 /\ y * z <= charge * 40 /\ x * z \in Nat /\ y * z \in Nat
    BY <1>2, <1>3, <2>1
  <2> QED
    BY <1>1, <2>1, <2>3, <2>4
<1> QED
  BY <1>1, <1>6, <1>7, <1>8

LEMMA ReferralsBegin == ReferralInit => ReferralsSound
<1> SUFFICES ASSUME ReferralInit PROVE ReferralsSound
  OBVIOUS
<1>1. ReferralTypeOK
  BY DEF ReferralInit, ReferralTypeOK
<1>2. ReferralsAcyclic
  <2>1. \A u \in Members : {w \in Members : referrer[w] = u} = {}
    BY ReferralAssumption DEF ReferralInit
  <2>2. \A u \in Members : Referrer(u) = Nobody /\ Referrer(Nobody) = Nobody /\ u # Nobody
    BY ReferralAssumption DEF ReferralInit, Referrer
  <2> QED
    BY <2>1, <2>2, FS_EmptySet DEF ReferralInit, ReferralsAcyclic
<1>3. CommissionsAccounted
  <2>1. [u \in Members |-> stats[u].earned] = [u \in Members |-> 0]
    BY DEF ReferralInit
  <2>2. Supply([u \in Members |-> 0]) = 0
    BY SupplyZero
  <2>3. 0 * RateScale <= 140 * 0
    BY ReferralAssumption
  <2> QED
    BY <2>1, <2>2, <2>3 DEF ReferralInit, CommissionsAccounted
<1> QED
  BY <1>1, <1>2, <1>3 DEF ReferralsSound

LEMMA RegisterKeeps ==
  ASSUME ReferralsSound, NEW by \in Members, NEW u \in Members, RegisterReferral(by, u)
  PROVE  ReferralsSound'
<1>1. /\ ReferralTypeOK /\ ReferralsAcyclic /\ CommissionsAccounted
      /\ by # u /\ referrer[u] = Nobody /\ ~Circular(by, u)
      /\ referrer' = [referrer EXCEPT ![u] = by]
      /\ stats' = [stats EXCEPT ![by].direct = @ + 1]
      /\ UNCHANGED <<volume, commission, withdrawn>>
  BY DEF RegisterReferral, ReferralsSound
<1>2. /\ stats[by] \in [direct : Nat, earned : Nat, volume : Nat]
      /\ stats' = [stats EXCEPT ![by] = stats'[by]]
      /\ stats'[by] \in [direct : Nat, earned : Nat, volume : Nat]
      /\ stats'[by].direct = stats[by].direct + 1 /\ stats'[by].earned = stats[by].earned
      /\ \A x \in Members \ {by} : stats'[x] = stats[x]
  BY <1>1 DEF ReferralTypeOK
<1>3. ReferralTypeOK'
  BY <1>1, <1>2 DEF ReferralTypeOK
<1>4. ReferralsAcyclic'
  <2>1. \A w \in Members :
           w \notin {Referrer(w), Referrer(Referrer(w)), Referrer(Referrer(Referrer(w)))}'
    BY <1>1, LinkKeepsAcyclic
  <2>2. ASSUME NEW x \in Members
        PROVE  stats'[x].direct = Cardinality({w \in Members : referrer'[w] = x})
    <3>1. Cardinality({w \in Members : referrer'[w] = x})
            = Cardinality({w \in Members : referrer[w] = x}) + (IF x = by THEN 1 ELSE 0)
      BY <1>1, LinkCounted
    <3>2. stats[x].direct = Cardinality({w \in Members : referrer[w] = x}) /\ stats[x].direct \in Nat
      BY <1>1 DEF ReferralsAcyclic, ReferralTypeOK
    <3> QED
      BY <1>2, <3>1, <3>2
  <2> QED
    BY <2>1, <2>2 DEF ReferralsAcyclic
<1>5. CommissionsAccounted'
  <2>1. \A x \in Members : stats'[x].earned = stats[x].earned
    BY <1>2
  <2>2. [x \in Members |-> stats'[x].earned] = [x \in Members |-> stats[x].earned]
    BY <2>1
  <2> QED
    BY <1>1, <2>1, <2>2 DEF CommissionsAccounted
<1> QED
  BY <1>3, <1>4, <1>5 DEF ReferralsSound

LEMMA PaidType ==
  ASSUME NEW s \in [direct : Nat, earned : Nat, volume : Nat], NEW due \in Nat, NEW charge \in Nat
  PROVE  /\ Paid(s, due, charge) \in [direct : Nat, earned : Nat, volume : Nat]
         /\ Paid(s, due, charge).earned = s.earned + due
         /\ Paid(s, due, charge).direct = s.direct /\ s.earned \in Nat
<1> DEFINE e == [s EXCEPT !.earned = @ + due, !.volume = @ + charge]
<1>1. e = [direct |-> s.direct, earned |-> s.earned + due, volume |-> s.volume + charge]
  <2>1. PICK x \in Nat, y \in Nat : x = s.earned + due /\ y = s.volume + charge
    OBVIOUS
  <2>2. e = [s EXCEPT !.earned = x, !.volume = y]
    BY <2>1
  <2>3. /\ [s EXCEPT !.earned = x, !.volume = y] \in [direct : Nat, earned : Nat, volume : Nat]
        /\ [s EXCEPT !.earned = x, !.volume = y].direct = s.direct
        /\ [s EXCEPT !.earned = x, !.volume = y].earned = x
        /\ [s EXCEPT !.earned = x, !.volume = y].volume = y
    BY ONLY s \in [direct : Nat, earned : Nat, volume : Nat], x \in Nat, y \in Nat
  <2>4. /\ e \in [direct : Nat, earned : Nat, volume : Nat]
        /\ e.direct = s.direct /\ e.earned = s.earned + due /\ e.volume = s.volume + charge
    BY ONLY <2>1, <2>2, <2>3
  <2> HIDE DEF e
  <2> QED
    BY ONLY <2>4
<1>2. s.direct \in Nat /\ s.earned \in Nat /\ s.volume \in Nat
  OBVIOUS
<1> HIDE DEF e
<1>3. CASE due = 0
  BY <1>2, <1>3 DEF Paid
<1>4. CASE due # 0
  <2>1. Paid(s, due, charge) = e
    BY <1>4 DEF Paid, e
  <2> QED
    BY <1>1, <1>2, <2>1
<1> QED
  BY <1>3, <1>4

LEMMA DistributeKeeps ==
  ASSUME ReferralsSound, NEW trader \in Members, NEW charge \in SwapFees,
         DistributeCommission(trader, charge)
  PROVE  ReferralsSound'
<1>1. PICK due : due = Shares(trader, charge)
  OBVIOUS
<1>2. ReferralTypeOK /\ ReferralsAcyclic /\ CommissionsAccounted
  BY DEF ReferralsSound
<1>3. /\ due \in [Members -> Nat] /\ charge \in Nat /\ Supply(due) \in Nat
      /\ Supply(due) * RateScale <= 140 * charge
  BY <1>1, <1>2, SharesWithinRates
<1>4. /\ volume' = [volume EXCEPT ![trader] = volume[trader] + charge]
      /\ commission' = [u \in Members |-> commission[u] + due[u]]
      /\ stats' = [u \in Members |-> Paid(stats[u], due[u], charge)]
      /\ UNCHANGED <<referrer, withdrawn>>
  BY <1>1 DEF DistributeCommission
<1>5. ASSUME NEW u \in Members
      PROVE  /\ stats'[u] \in [direct : Nat, earned : Nat, volume : Nat]
             /\ stats'[u].earned = stats[u].earned + due[u]
             /\ stats'[u].direct = stats[u].direct
             /\ stats[u].earned \in Nat
  <2>1. stats[u] \in [direct : Nat, earned : Nat, volume : Nat] /\ due[u] \in Nat
    BY <1>2, <1>3 DEF ReferralTypeOK
  <2>2. stats'[u] = Paid(stats[u], due[u], charge)
    BY <1>4
  <2>3. PICK s, d : s = stats[u] /\ d = due[u]
    OBVIOUS
  <2>4. s \in [direct : Nat, earned : Nat, volume : Nat] /\ d \in Nat
    BY ONLY <2>1, <2>3
  <2>5. /\ Paid(s, d, charge) \in [direct : Nat, earned : Nat, volume : Nat]
        /\ Paid(s, d, charge).earned = s.earned + d
        /\ Paid(s, d, charge).direct = s.direct /\ s.earned \in Nat
    BY ONLY <1>3, <2>4, PaidType, ZenonT(60)
  <2> QED
    BY ONLY <2>2, <2>3, <2>5
<1>6. ReferralTypeOK'
  <2>1. volume' \in [Members -> Nat] /\ commission' \in [Members -> Nat]
    BY <1>2, <1>3, <1>4 DEF ReferralTypeOK
  <2>2. stats' \in [Members -> [direct : Nat, earned : Nat, volume : Nat]]
    BY <1>4, <1>5
  <2> QED
    BY <1>2, <1>4, <2>1, <2>2 DEF ReferralTypeOK
<1>7. ReferralsAcyclic'
  <2>1. referrer' = referrer /\ \A u \in Members : stats'[u].direct = stats[u].direct
    BY <1>4, <1>5
  <2>2. \A u \in Members :
          u \notin {Referrer(u), Referrer(Referrer(u)), Referrer(Referrer(Referrer(u)))}'
    BY <1>2, <2>1 DEF ReferralsAcyclic, Referrer
  <2>3. \A u \in Members : stats'[u].direct = Cardinality({w \in Members : referrer'[w] = u})
    BY <1>2, <2>1 DEF ReferralsAcyclic
  <2> QED
    BY <2>2, <2>3 DEF ReferralsAcyclic
<1>8. CommissionsAccounted'
  <2>1. \A u \in Members : commission'[u] + withdrawn'[u] = stats'[u].earned
    BY <1>2, <1>3, <1>4, <1>5 DEF CommissionsAccounted, ReferralTypeOK
  <2>2. IsFiniteSet(Members) /\ trader \in Members /\ volume \in [Members -> Nat] /\ EarnedBy \in [Members -> Nat]
    BY <1>2, ReferralAssumption DEF ReferralTypeOK, EarnedBy
  <2>3. Supply([u \in Members |-> stats'[u].earned]) = Supply(EarnedBy) + Supply(due)
    <3>1. [u \in Members |-> stats'[u].earned] = [u \in Members |-> EarnedBy[u] + due[u]]
      BY <1>5 DEF EarnedBy
    <3> QED
      BY <1>3, <2>2, <3>1, SupplyOfSum
  <2>4. Supply(volume') = Supply(volume) + charge
    <3>1. Supply([volume EXCEPT ![trader] = volume[trader] + charge]) = Supply(volume) + charge
      <4>1. PICK n \in Nat : n = charge
        BY <1>3
      <4>2. Supply([volume EXCEPT ![trader] = volume[trader] + n]) = Supply(volume) + n
        <5>1. IsFiniteSet(Members) /\ trader \in Members /\ volume \in [Members -> Nat]
          BY <2>2
        <5> QED
          BY ONLY <5>1, SupplyCredit, n \in Nat, ZenonT(60)
      <4> QED
        BY <4>1, <4>2
    <3> QED
      BY <1>4, <3>1
  <2>5. Supply(EarnedBy) * RateScale <= 140 * Supply(volume)
    BY <1>2 DEF CommissionsAccounted, EarnedBy
  <2>6. PICK e \in Nat, v \in Nat, n \in Nat, z \in Nat :
          e = Supply(EarnedBy) /\ v = Supply(volume) /\ n = Supply(due) /\ z = RateScale
    BY <1>3, <2>2, SupplyType, ReferralAssumption
  <2>7. (e + n) * z = e * z + n * z /\ e * z \in Nat /\ n * z \in Nat
    OBVIOUS
  <2>8. (e + n) * z <= 140 * (v + charge)
    BY <1>3, <2>5, <2>6, <2>7
  <2> QED
    BY <2>1, <2>3, <2>4, <2>6, <2>8 DEF CommissionsAccounted
<1> QED
  BY <1>6, <1>7, <1>8 DEF ReferralsSound

LEMMA ReferralStep == ReferralsSound /\ [ReferralNext]_referralVars => ReferralsSound'
<1> SUFFICES ASSUME ReferralsSound, [ReferralNext]_referralVars PROVE ReferralsSound'
  OBVIOUS
<1>1. CASE \E u \in Members, by \in Members : RegisterReferral(by, u)
  BY <1>1, RegisterKeeps
<1>2. CASE \E u \in Members, charge \in SwapFees : DistributeCommission(u, charge)
  BY <1>2, DistributeKeeps
<1>3. CASE \E u \in Members : WithdrawCommission(u)
  <2> PICK u \in Members : WithdrawCommission(u)
    BY <1>3
  <2>1. /\ commission' = [commission EXCEPT ![u] = 0]
        /\ withdrawn' = [withdrawn EXCEPT ![u] = withdrawn[u] + commission[u]]
        /\ UNCHANGED <<referrer, stats, volume>>
    BY DEF WithdrawCommission
  <2>2. commission \in [Members -> Nat] /\ withdrawn \in [Members -> Nat]
    BY DEF ReferralsSound, ReferralTypeOK
  <2>3. ReferralTypeOK'
    BY <2>1, <2>2 DEF ReferralsSound, ReferralTypeOK
  <2>4. ReferralsAcyclic'
    BY <2>1, SMTT(40) DEF ReferralsSound, ReferralsAcyclic, Referrer
  <2>5. \A x \in Members : commission'[x] + withdrawn'[x] = commission[x] + withdrawn[x]
    BY <2>1, <2>2
  <2>6. CommissionsAccounted'
    BY <2>1, <2>5 DEF ReferralsSound, CommissionsAccounted
  <2> QED
    BY <2>3, <2>4, <2>6 DEF ReferralsSound
<1>4. CASE UNCHANGED referralVars
  <2>1. UNCHANGED <<referrer, stats, volume, commission, withdrawn>>
    BY <1>4 DEF referralVars
  <2>2. ReferralTypeOK' /\ CommissionsAccounted'
    BY <2>1 DEF ReferralsSound, ReferralTypeOK, CommissionsAccounted
  <2>3. ReferralsAcyclic'
    BY <2>1 DEF ReferralsSound, ReferralsAcyclic, Referrer
  <2> QED
    BY <2>2, <2>3 DEF ReferralsSound
<1> QED
  BY <1>1, <1>2, <1>3, <1>4 DEF ReferralNext

\* For any accounts, fees and thresholds of the tiers, in whatever order links are
\* made: nobody is found within three steps up from himself, links are counted
\* once, and commissions are accounted for and within 1.4% of the fees
\* (referral_system.rs:80-260).
THEOREM ReferralsKept == ReferralSpec => []ReferralsSound
BY ReferralsBegin, ReferralStep, PTL DEF ReferralSpec

-----------------------------------------------------------------------------
(* The price oracle.  The mean of a window lies between two of its prices,  *)
(* and only prices that were believed are kept.                             *)

\* The integer mean of a list lies between two of its elements.
LEMMA MeanBetween ==
  ASSUME NEW n \in Nat \ {0}, NEW s \in [1..n -> Nat]
  PROVE  /\ \E i \in 1..n : s[i] <= Supply(s) \div n
         /\ \E i \in 1..n : Supply(s) \div n <= s[i]
<1> DEFINE total == Supply(s)
           m == total \div n
<1>1. PICK S : S = 1..n
  OBVIOUS
<1>2. IsFiniteSet(S) /\ Cardinality(S) = n /\ s \in [S -> Nat]
  <2>1. 1 \in Int /\ n \in Int
    OBVIOUS
  <2>2. IsFiniteSet(1..n) /\ Cardinality(1..n) = IF 1 > n THEN 0 ELSE n - 1 + 1
    BY <2>1, FS_Interval
  <2> QED
    BY <1>1, <2>2
<1>3. total \in Nat
  BY <1>2, SupplyType
<1>4. m \in Nat /\ n * m <= total /\ total < n * (m + 1)
  <2>1. PICK t \in Nat : t = total
    BY <1>3
  <2>2. /\ t \div n \in Nat /\ t % n \in 0..(n - 1)
        /\ t = n * (t \div n) + (t % n)
    BY ONLY t \in Nat, n \in Nat \ {0}
  <2>3. PICK q \in Nat, k \in 0..(n - 1) : q = t \div n /\ t = n * q + k
    BY <2>2
  <2>4. n * (q + 1) = n * q + n /\ n * q \in Nat
    OBVIOUS
  <2>5. m = q /\ total = t
    BY <2>1, <2>3
  <2> HIDE DEF m, total
  <2> QED
    BY ONLY <2>3, <2>4, <2>5, n \in Nat
<1> HIDE DEF total, m
<1>5. \E i \in S : s[i] <= m
  <2> SUFFICES ASSUME \A i \in S : ~(s[i] <= m) PROVE FALSE
    OBVIOUS
  <2> DEFINE low == [i \in S |-> m + 1]
  <2>1. low \in [S -> Nat] /\ \A i \in S : low[i] <= s[i]
    BY <1>2, <1>4
  <2>2. Supply(low) = n * (m + 1)
    <3>1. PICK k \in Nat : k = m + 1
      BY <1>4
    <3>2. Supply([i \in S |-> k]) = Cardinality(S) * k
      BY ONLY <1>2, k \in Nat, SupplyConstant
    <3> QED
      BY <1>2, <3>1, <3>2
  <2> HIDE DEF low
  <2>3. Supply(low) <= total
    BY <1>2, <2>1, SupplyMonotone DEF total
  <2> QED
    BY <1>3, <1>4, <2>2, <2>3
<1>6. \E i \in S : m <= s[i]
  <2> SUFFICES ASSUME \A i \in S : ~(m <= s[i]) PROVE FALSE
    OBVIOUS
  <2>1. 1 \in S /\ s[1] \in Nat /\ ~(m <= s[1])
    BY <1>1
  <2>2. PICK k \in Nat : m = k + 1
    BY <1>4, <2>1
  <2> DEFINE high == [i \in S |-> k]
  <2>3. high \in [S -> Nat] /\ \A i \in S : s[i] <= high[i]
    BY <1>2, <2>2
  <2>4. Supply(high) = n * k
    BY <1>2, SupplyConstant
  <2> HIDE DEF high
  <2>5. total <= Supply(high)
    BY <1>2, <2>3, SupplyMonotone DEF total
  <2>6. n * m = n * k + n
    BY <2>2
  <2> QED
    BY <1>3, <1>4, <2>4, <2>5, <2>6
<1> QED
  BY <1>1, <1>5, <1>6 DEF m, total

\* The believed prices are numbers, and the last of a list of them are too.
LEMMA BelievedPrices ==
  ASSUME OracleTypeOK
  PROVE  /\ believed \subseteq Nat /\ window \in Nat \ {0}
         /\ Len(prices) \in Nat
BY OracleAssumption DEF OracleTypeOK

LEMMA LastOf ==
  ASSUME NEW S, NEW s \in Seq(S), NEW n \in Nat \ {0}, n <= Len(s)
  PROVE  /\ SubSeq(s, Len(s) - n + 1, Len(s)) \in Seq(S)
         /\ SubSeq(s, Len(s) - n + 1, Len(s)) \in [1..n -> S]
<1>1. PICK l \in Nat : l = Len(s)
  OBVIOUS
<1> DEFINE m == l - n + 1
           t == SubSeq(s, m, l)
<1>2. m \in Int /\ l \in Int /\ l - m + 1 = n /\ m <= l /\ m >= 1
  BY <1>1
<1>3. \A i \in m..l : s[i] \in S
  BY <1>1, <1>2
<1> HIDE DEF m
<1>4. t \in Seq(S) /\ Len(t) = IF m <= l THEN l - m + 1 ELSE 0
  BY <1>2, <1>3, SubSeqProperties
<1>5. t \in Seq(S) /\ Len(t) = n
  BY <1>2, <1>4
<1> HIDE DEF t
<1>6. t \in [1..n -> S]
  BY <1>5
<1> QED
  BY <1>1, <1>5, <1>6 DEF t, m

LEMMA QuoteBelieved ==
  ASSUME OracleTypeOK
  PROVE  QuoteVouched
<1>1. /\ believed \subseteq Nat /\ window \in Nat \ {0} /\ Len(prices) \in Nat
      /\ price \in believed /\ fallback \in believed /\ prices \in Seq(believed)
  BY BelievedPrices DEF OracleTypeOK
<1>2. CASE Stale \/ tripped
  <2>1. Quote = fallback /\ fallback \in Nat
    BY <1>1, <1>2 DEF Quote
  <2>2. fallback <= Quote /\ Quote <= fallback
    BY <2>1
  <2> QED
    BY <1>1, <2>1, <2>2 DEF QuoteVouched
<1>3. CASE ~(Stale \/ tripped) /\ Len(prices) >= window
  <2>1. Quote = Supply(Recent) \div window
    BY <1>3 DEF Quote, Twap
  <2>2. Recent \in [1..window -> believed]
    BY <1>1, <1>3, LastOf DEF Recent
  <2>3. Recent \in [1..window -> Nat]
    BY <1>1, <2>2
  <2>4. /\ \E i \in 1..window : Recent[i] <= Supply(Recent) \div window
        /\ \E i \in 1..window : Supply(Recent) \div window <= Recent[i]
    BY <1>1, <2>3, MeanBetween
  <2>5. \E least, most \in believed : least <= Quote /\ Quote <= most
    BY <2>1, <2>2, <2>4
  <2> QED
    BY <1>3, <2>5 DEF QuoteVouched
<1>4. CASE ~(Stale \/ tripped) /\ ~(Len(prices) >= window)
  <2>1. Quote = price /\ price \in Nat
    BY <1>1, <1>4 DEF Quote
  <2>2. price <= Quote /\ Quote <= price
    BY <2>1
  <2> QED
    BY <1>1, <1>4, <2>2 DEF QuoteVouched
<1> QED
  BY <1>2, <1>3, <1>4

LEMMA OracleStep == OracleTypeOK /\ [OracleNext]_oracleVars => OracleTypeOK'
<1> SUFFICES ASSUME OracleTypeOK, [OracleNext]_oracleVars PROVE OracleTypeOK'
  OBVIOUS
<1>1. /\ window \in 1..100 /\ active \in BOOLEAN /\ tripped \in BOOLEAN
      /\ price \in believed /\ prices \in Seq(believed)
      /\ updatedAt \in 0..oracleNow /\ oracleNow \in Nat
      /\ fallback \in believed /\ believed \subseteq FeedPrices \cup {FirstPrice}
  BY DEF OracleTypeOK
<1>2. ASSUME NEW p \in FeedPrices, TripBreaker(p) PROVE OracleTypeOK'
  BY <1>1, <1>2 DEF TripBreaker, OracleTypeOK
<1>3. ASSUME NEW p \in FeedPrices, UpdatePrice(p) PROVE OracleTypeOK'
  <2> DEFINE all == Append(prices, p)
             B == believed \cup {p}
  <2>1. /\ price' = p /\ updatedAt' = oracleNow /\ believed' = B
        /\ prices' = IF Len(all) > window THEN SubSeq(all, Len(all) - window + 1, Len(all)) ELSE all
        /\ tripped' = (tripped /\ Deviation(fallback, p) > JumpBps \div 2)
        /\ UNCHANGED <<window, active, fallback, oracleNow>>
    BY <1>3 DEF UpdatePrice
  <2>2. all \in Seq(B) /\ Len(all) \in Nat /\ window \in Nat \ {0}
    <3>1. prices \in Seq(B)
      <4>1. PICK n \in Nat : n = Len(prices)
        BY <1>1
      <4>2. prices \in [1..n -> believed]
        BY <1>1, <4>1
      <4>3. prices \in [1..n -> B]
        BY <4>2
      <4> QED
        BY ONLY <4>3, n \in Nat
    <3> QED
      BY <1>1, <3>1
  <2> HIDE DEF all
  <2>3. prices' \in Seq(B)
    <3>1. CASE Len(all) > window
      <4>1. window <= Len(all)
        BY <2>2, <3>1
      <4>2. SubSeq(all, Len(all) - window + 1, Len(all)) \in Seq(B)
        BY ONLY <2>2, <4>1, LastOf
      <4> QED
        BY <2>1, <3>1, <4>2
    <3>2. CASE ~(Len(all) > window)
      BY <2>1, <2>2, <3>2
    <3> QED
      BY <3>1, <3>2
  <2>4. tripped' \in BOOLEAN
    BY <2>1
  <2>5. updatedAt' \in 0..oracleNow'
    BY <1>1, <2>1
  <2> QED
    BY <1>1, <2>1, <2>3, <2>4, <2>5 DEF OracleTypeOK
<1>4. ASSUME NEW w \in Windows, UpdateWindow(w) PROVE OracleTypeOK'
  BY <1>1, <1>4 DEF UpdateWindow, OracleTypeOK
<1>5. ASSUME NEW on \in BOOLEAN, SetOracleActive(on) PROVE OracleTypeOK'
  BY <1>1, <1>5 DEF SetOracleActive, OracleTypeOK
<1>6. CASE ResetCircuitBreaker
  BY <1>1, <1>6 DEF ResetCircuitBreaker, OracleTypeOK
<1>7. CASE OracleTick
  BY <1>1, <1>7 DEF OracleTick, OracleTypeOK
<1>8. CASE UNCHANGED oracleVars
  BY <1>1, <1>8 DEF oracleVars, OracleTypeOK
<1> QED
  BY <1>2, <1>3, <1>4, <1>5, <1>6, <1>7, <1>8 DEF OracleNext

\* For any prices of the feed, windows and thresholds, in any order of reports,
\* trips, resets and new configurations: what a swap is quoted was believed or
\* lies between what was (oracle_adapter.rs:60-250).
THEOREM QuotesAreVouched == OracleSpec => []QuoteVouched
<1>1. OracleInit => OracleTypeOK
  <2> SUFFICES ASSUME OracleInit PROVE OracleTypeOK
    OBVIOUS
  <2>1. prices \in Seq(believed)
    BY DEF OracleInit
  <2>2. window \in 1..100 /\ active \in BOOLEAN /\ tripped \in BOOLEAN
    BY OracleAssumption DEF OracleInit
  <2>3. /\ price \in believed /\ fallback \in believed
        /\ believed \subseteq FeedPrices \cup {FirstPrice}
    BY DEF OracleInit
  <2>4. updatedAt \in 0..oracleNow /\ oracleNow \in Nat
    BY DEF OracleInit
  <2> QED
    BY <2>1, <2>2, <2>3, <2>4 DEF OracleTypeOK
<1> QED
  BY <1>1, OracleStep, QuoteBelieved, PTL DEF OracleSpec

-----------------------------------------------------------------------------
(* Alerts.  Ids are given once, so the firings counted for an id are those  *)
(* of one alert; what an id that was not given yet has fired is nothing.    *)

AlertRecord == [id : 1..MaxAlerts, kind : AlertKinds, expires_at : Nat,
                active : BOOLEAN, last : Nat]

\* What holds of one alert that has fired f times and was renewed r times.
AlertKept(a, f, r) ==
  Expires(a) => /\ f <= 1 + r
                /\ a.active => f <= r
                /\ a.last < a.expires_at

AlertInv ==
  /\ AlertTypeOK
  /\ \A u \in Owners : \A a \in alerts[u] : a.id <= lastId /\ AlertKept(a, fired[a.id], renewed[a.id])
  /\ \A u, v \in Owners : \A a \in alerts[u], b \in alerts[v] : a.id = b.id => u = v /\ a = b
  /\ \A id \in 1..MaxAlerts : id > lastId => fired[id] = 0

\* One alert after a check.
LEMMA CheckedAlert ==
  ASSUME alertNow \in Nat, NEW a \in AlertRecord, NEW event
  PROVE  /\ Checked(a, event) \in AlertRecord
         /\ Checked(a, event).id = a.id /\ Checked(a, event).expires_at = a.expires_at
         /\ Fires(a, event) => /\ a.active /\ (Expires(a) => alertNow < a.expires_at)
                               /\ Checked(a, event).last = alertNow
                               /\ Checked(a, event).active => ~Expires(a)
         /\ ~Fires(a, event) => /\ Checked(a, event).last = a.last
                                /\ Checked(a, event).active => a.active
<1>1. /\ a.id \in 1..MaxAlerts /\ a.kind \in AlertKinds /\ a.expires_at \in Nat
      /\ a.active \in BOOLEAN /\ a.last \in Nat
      /\ a = [id |-> a.id, kind |-> a.kind, expires_at |-> a.expires_at,
              active |-> a.active, last |-> a.last]
  BY DEF AlertRecord
<1>2. CASE a.active /\ Expired(a)
  <2>1. Checked(a, event) = [a EXCEPT !.active = FALSE]
    BY <1>2 DEF Checked
  <2>2. Checked(a, event) = [id |-> a.id, kind |-> a.kind, expires_at |-> a.expires_at,
                             active |-> FALSE, last |-> a.last]
    BY <1>1, <2>1
  <2>3. ~Fires(a, event)
    BY <1>2 DEF Fires
  <2> QED
    BY <1>1, <2>2, <2>3 DEF AlertRecord
<1>3. CASE ~(a.active /\ Expired(a)) /\ Fires(a, event)
  <2>1. PICK on \in BOOLEAN : on <=> ~Expires(a)
    OBVIOUS
  <2>2. a.active /\ (Expires(a) => alertNow < a.expires_at)
    BY <1>1, <1>3 DEF Fires, Expired
  <2>3. Checked(a, event) = [a EXCEPT !.last = alertNow, !.active = on]
    <3>1. on = ~Expires(a)
      BY <2>1 DEF Expires
    <3> QED
      BY <1>3, <3>1 DEF Checked
  <2>4. Checked(a, event) = [id |-> a.id, kind |-> a.kind, expires_at |-> a.expires_at,
                             active |-> on, last |-> alertNow]
    BY <1>1, <2>3
  <2> QED
    BY <1>1, <1>3, <2>1, <2>2, <2>4 DEF AlertRecord
<1>4. CASE ~(a.active /\ Expired(a)) /\ ~Fires(a, event)
  BY <1>4 DEF Checked
<1> QED
  BY <1>2, <1>3, <1>4

LEMMA AlertsBegin == AlertInit => AlertInv
<1> SUFFICES ASSUME AlertInit PROVE AlertInv
  OBVIOUS
<1>1. AlertTypeOK
  BY AlertAssumption DEF AlertInit, AlertTypeOK
<1> QED
  BY <1>1 DEF AlertInit, AlertInv

LEMMA CreateAlertKeeps ==
  ASSUME AlertInv, NEW u \in Owners, NEW kind \in AlertKinds, NEW expires \in Nat,
         CreateAlert(u, kind, expires)
  PROVE  AlertInv'
<1> DEFINE new == [id |-> lastId + 1, kind |-> kind, expires_at |-> expires, active |-> TRUE,
                   last |-> 0]
<1>1. /\ alerts \in [Owners -> SUBSET AlertRecord] /\ lastId \in 0..MaxAlerts /\ alertNow \in Nat
      /\ fired \in [1..MaxAlerts -> Nat] /\ renewed \in [1..MaxAlerts -> Nat] /\ MaxAlerts \in Nat
  BY AlertAssumption DEF AlertInv, AlertTypeOK, AlertRecord
<1>2. /\ lastId < MaxAlerts /\ lastId' = lastId + 1
      /\ alerts' = [alerts EXCEPT ![u] = alerts[u] \cup {new}]
      /\ UNCHANGED <<fired, renewed, alertNow>>
  BY DEF CreateAlert
<1>3. lastId' \in 1..MaxAlerts /\ new \in AlertRecord
  BY <1>1, <1>2 DEF AlertRecord
<1>4. /\ new.id = lastId' /\ new.last = 0 /\ new.expires_at = expires
  BY <1>2
<1> HIDE DEF new
<1>5. \A v \in Owners : alerts'[v] = IF v = u THEN alerts[u] \cup {new} ELSE alerts[v]
  BY <1>1, <1>2
<1>6. AlertTypeOK'
  <2>1. alerts' \in [Owners -> SUBSET AlertRecord]
    BY <1>1, <1>2, <1>3
  <2> QED
    BY <1>1, <1>2, <1>3, <2>1, SMTT(40) DEF AlertTypeOK, AlertRecord
<1>7. \A v \in Owners : \A a \in alerts[v] :
        a.id <= lastId /\ a.id \in 1..MaxAlerts /\ AlertKept(a, fired[a.id], renewed[a.id])
  BY <1>1 DEF AlertInv, AlertRecord
<1>8. AlertKept(new, fired[new.id], renewed[new.id])
  <2>1. fired[new.id] = 0 /\ renewed[new.id] \in Nat
    BY <1>1, <1>2, <1>3, <1>4 DEF AlertInv
  <2> QED
    BY <1>4, <2>1 DEF AlertKept, Expires
<1>9. \A v \in Owners : \A a \in alerts'[v] :
        a.id <= lastId' /\ AlertKept(a, fired'[a.id], renewed'[a.id])
  <2>1. ASSUME NEW v \in Owners, NEW a \in alerts'[v]
        PROVE  a.id <= lastId' /\ AlertKept(a, fired[a.id], renewed[a.id])
    <3>1. CASE a \in alerts[v]
      <4>1. a.id <= lastId /\ a.id \in 1..MaxAlerts /\ AlertKept(a, fired[a.id], renewed[a.id])
        BY <1>7, <3>1
      <4>2. a.id <= lastId'
        <5>1. lastId \in Nat /\ lastId' = lastId + 1 /\ a.id \in Nat
          BY <1>1, <1>2, <4>1
        <5> QED
          BY ONLY <4>1, <5>1
      <4> QED
        BY <4>1, <4>2
    <3>2. CASE a = new
      BY <1>3, <1>4, <1>8, <3>2
    <3> QED
      BY <1>5, <3>1, <3>2
  <2> QED
    BY <1>2, <2>1
<1>10. \A v, w \in Owners : \A a \in alerts'[v], b \in alerts'[w] : a.id = b.id => v = w /\ a = b
  <2> SUFFICES ASSUME NEW v \in Owners, NEW w \in Owners, NEW a \in alerts'[v], NEW b \in alerts'[w],
                      a.id = b.id
               PROVE  v = w /\ a = b
    OBVIOUS
  <2>1. a \in alerts[v] \/ (v = u /\ a = new)
    BY <1>5
  <2>2. b \in alerts[w] \/ (w = u /\ b = new)
    BY <1>5
  <2>3. \A x \in Owners : \A c \in alerts[x] : c.id # new.id
    BY <1>1, <1>2, <1>4, <1>7
  <2> QED
    BY <2>1, <2>2, <2>3 DEF AlertInv
<1>11. \A id \in 1..MaxAlerts : id > lastId' => fired'[id] = 0
  BY <1>1, <1>2 DEF AlertInv
<1> QED
  BY <1>6, <1>9, <1>10, <1>11 DEF AlertInv

\* A call that replaces alerts one by one and keeps their ids.
LEMMA AlertsReplaced ==
  ASSUME AlertInv, NEW g,
         \A u \in Owners : \A a \in alerts[u] : g[u][a] \in AlertRecord /\ g[u][a].id = a.id,
         alerts' = [u \in Owners |-> {g[u][a] : a \in alerts[u]}],
         lastId' = lastId, alertNow' = alertNow,
         fired' \in [1..MaxAlerts -> Nat], renewed' \in [1..MaxAlerts -> Nat],
         \A id \in 1..MaxAlerts : id > lastId => fired'[id] = 0,
         \A u \in Owners : \A a \in alerts[u] : AlertKept(g[u][a], fired'[a.id], renewed'[a.id])
  PROVE  AlertInv'
<1>1. \A u \in Owners : \A b \in alerts'[u] : \E a \in alerts[u] : b = g[u][a]
  OBVIOUS
<1>2. alerts' \in [Owners -> SUBSET AlertRecord]
  OBVIOUS
<1>3. AlertTypeOK'
  BY <1>2 DEF AlertInv, AlertTypeOK, AlertRecord
<1>4. \A u \in Owners : \A b \in alerts'[u] :
        b.id <= lastId' /\ AlertKept(b, fired'[b.id], renewed'[b.id])
  BY <1>1 DEF AlertInv
<1>5. \A u, v \in Owners : \A b \in alerts'[u], c \in alerts'[v] : b.id = c.id => u = v /\ b = c
  BY <1>1 DEF AlertInv
<1> QED
  BY <1>3, <1>4, <1>5 DEF AlertInv

LEMMA SubscribeKeeps ==
  ASSUME AlertInv, NEW u \in Owners, NEW ids, SubscribeAlerts(u, ids)
  PROVE  AlertInv'
<1> DEFINE subscribed(a) == IF a.id \in ids THEN [a EXCEPT !.active = TRUE] ELSE a
           g == [v \in Owners |-> [a \in AlertRecord |-> IF v = u THEN subscribed(a) ELSE a]]
<1>1. /\ alerts \in [Owners -> SUBSET AlertRecord] /\ lastId \in 0..MaxAlerts
      /\ fired \in [1..MaxAlerts -> Nat] /\ renewed \in [1..MaxAlerts -> Nat]
  BY DEF AlertInv, AlertTypeOK, AlertRecord
<1>2. ASSUME NEW v \in Owners, NEW a \in alerts[v]
      PROVE  /\ a \in AlertRecord /\ a.id \in 1..MaxAlerts
             /\ g[v][a] = IF v = u THEN subscribed(a) ELSE a
  BY <1>1 DEF AlertRecord
<1>3. /\ alerts' = [alerts EXCEPT ![u] = {subscribed(a) : a \in alerts[u]}]
      /\ renewed' = [id \in DOMAIN renewed |-> IF id \in ids THEN renewed[id] + 1 ELSE renewed[id]]
      /\ UNCHANGED <<lastId, fired, alertNow>>
  BY DEF SubscribeAlerts
<1> HIDE DEF g, subscribed
<1>4. alerts' = [v \in Owners |-> {g[v][a] : a \in alerts[v]}]
  <2>1. {g[u][a] : a \in alerts[u]} = {subscribed(a) : a \in alerts[u]}
    BY <1>2
  <2>2. ASSUME NEW v \in Owners, v # u PROVE {g[v][a] : a \in alerts[v]} = alerts[v]
    <3>1. \A a \in alerts[v] : g[v][a] = a
      BY <1>2, <2>2
    <3> QED
      BY <3>1
  <2>3. \A v \in Owners : alerts'[v] = {g[v][a] : a \in alerts[v]}
    BY <1>1, <1>3, <2>1, <2>2
  <2>4. alerts' = [v \in Owners |-> alerts'[v]]
    BY <1>1, <1>3
  <2> QED
    BY <2>3, <2>4
<1>5. ASSUME NEW v \in Owners, NEW a \in alerts[v]
      PROVE  /\ g[v][a] \in AlertRecord /\ g[v][a].id = a.id
             /\ g[v][a].expires_at = a.expires_at /\ g[v][a].last = a.last
             /\ g[v][a].active => a.active \/ a.id \in ids
  <2>1. CASE v = u /\ a.id \in ids
    <3>1. a \in AlertRecord /\ g[v][a] = [a EXCEPT !.active = TRUE]
      BY <1>2, <2>1 DEF subscribed
    <3> QED
      BY <2>1, <3>1 DEF AlertRecord
  <2>2. CASE ~(v = u /\ a.id \in ids)
    BY <1>2, <2>2 DEF subscribed
  <2> QED
    BY <2>1, <2>2
<1>6. renewed' \in [1..MaxAlerts -> Nat]
  BY <1>1, <1>3
<1>7. ASSUME NEW v \in Owners, NEW a \in alerts[v]
      PROVE  AlertKept(g[v][a], fired'[a.id], renewed'[a.id])
  <2>1. AlertKept(a, fired[a.id], renewed[a.id])
    BY DEF AlertInv
  <2>2. /\ fired'[a.id] = fired[a.id] /\ fired[a.id] \in Nat /\ renewed[a.id] \in Nat
        /\ renewed'[a.id] = IF a.id \in ids THEN renewed[a.id] + 1 ELSE renewed[a.id]
    BY <1>1, <1>2, <1>3
  <2> QED
    BY <1>5, <2>1, <2>2 DEF AlertKept, Expires
<1>8. \A id \in 1..MaxAlerts : id > lastId => fired'[id] = 0
  BY <1>3 DEF AlertInv
<1>9. fired' \in [1..MaxAlerts -> Nat] /\ lastId' = lastId /\ alertNow' = alertNow
  BY <1>1, <1>3
<1>10. \A v \in Owners : \A a \in alerts[v] : g[v][a] \in AlertRecord /\ g[v][a].id = a.id
  BY <1>5
<1> QED
  BY <1>4, <1>6, <1>7, <1>8, <1>9, <1>10, AlertsReplaced

LEMMA CheckKeeps ==
  ASSUME AlertInv, NEW event, NEW seen \in SUBSET Owners, CheckAlerts(event, seen)
  PROVE  AlertInv'
<1> DEFINE g == [v \in Owners |-> [a \in AlertRecord |-> IF v \in seen THEN Checked(a, event) ELSE a]]
           hits == {id \in 1..MaxAlerts : \E u \in seen : \E a \in alerts[u] :
                      a.id = id /\ Fires(a, event)}
<1>1. /\ alerts \in [Owners -> SUBSET AlertRecord] /\ lastId \in 0..MaxAlerts
      /\ fired \in [1..MaxAlerts -> Nat] /\ renewed \in [1..MaxAlerts -> Nat] /\ alertNow \in Nat
  BY DEF AlertInv, AlertTypeOK, AlertRecord
<1>2. ASSUME NEW v \in Owners, NEW a \in alerts[v]
      PROVE  /\ a \in AlertRecord /\ a.id \in 1..MaxAlerts
             /\ g[v][a] = IF v \in seen THEN Checked(a, event) ELSE a
  BY <1>1 DEF AlertRecord
<1>3. /\ alerts' = [v \in Owners |->
             IF v \in seen THEN {Checked(a, event) : a \in alerts[v]} ELSE alerts[v]]
      /\ fired' = [id \in 1..MaxAlerts |-> IF id \in hits THEN fired[id] + 1 ELSE fired[id]]
      /\ UNCHANGED <<lastId, renewed, alertNow>>
  BY DEF CheckAlerts
<1>4. ASSUME NEW v \in Owners, NEW a \in alerts[v]
      PROVE  a.id \in hits <=> v \in seen /\ Fires(a, event)
  <2>1. ASSUME a.id \in hits PROVE v \in seen /\ Fires(a, event)
    <3>1. PICK u \in seen : \E b \in alerts[u] : b.id = a.id /\ Fires(b, event)
      BY <2>1
    <3>2. PICK b \in alerts[u] : b.id = a.id /\ Fires(b, event)
      BY <3>1
    <3>3. u = v /\ b = a
      BY <3>2 DEF AlertInv
    <3> QED
      BY <3>2, <3>3
  <2>2. ASSUME v \in seen, Fires(a, event) PROVE a.id \in hits
    BY <1>2, <2>2
  <2> QED
    BY <2>1, <2>2
<1>5. \A id \in hits : id <= lastId
  BY DEF AlertInv
<1> HIDE DEF g, hits
<1>6. alerts' = [v \in Owners |-> {g[v][a] : a \in alerts[v]}]
  <2>1. ASSUME NEW v \in Owners PROVE alerts'[v] = {g[v][a] : a \in alerts[v]}
    <3>1. CASE v \in seen
      <4>1. {g[v][a] : a \in alerts[v]} = {Checked(a, event) : a \in alerts[v]}
        BY <1>2, <3>1
      <4> QED
        BY <1>3, <3>1, <4>1
    <3>2. CASE v \notin seen
      <4>1. {g[v][a] : a \in alerts[v]} = alerts[v]
        BY <1>2, <3>2
      <4> QED
        BY <1>3, <3>2, <4>1
    <3> QED
      BY <3>1, <3>2
  <2>2. alerts' = [v \in Owners |-> alerts'[v]]
    BY <1>3
  <2> QED
    BY <2>1, <2>2
<1>7. fired' \in [1..MaxAlerts -> Nat]
  BY <1>1, <1>3
<1>8. ASSUME NEW v \in Owners, NEW a \in alerts[v]
      PROVE  /\ g[v][a] \in AlertRecord /\ g[v][a].id = a.id
             /\ AlertKept(g[v][a], fired'[a.id], renewed'[a.id])
  <2>1. AlertKept(a, fired[a.id], renewed[a.id]) /\ a \in AlertRecord /\ a.id \in 1..MaxAlerts
    BY <1>2 DEF AlertInv
  <2>2. /\ renewed'[a.id] = renewed[a.id] /\ renewed[a.id] \in Nat /\ fired[a.id] \in Nat
        /\ fired'[a.id] = IF a.id \in hits THEN fired[a.id] + 1 ELSE fired[a.id]
    BY <1>1, <1>3, <2>1
  <2>3. CASE v \in seen /\ Fires(a, event)
    <3>1. g[v][a] = Checked(a, event) /\ a.id \in hits
      BY <1>2, <1>4, <2>3
    <3>2. /\ g[v][a] \in AlertRecord /\ g[v][a].id = a.id /\ g[v][a].expires_at = a.expires_at
          /\ a.active /\ (Expires(a) => alertNow < a.expires_at)
          /\ g[v][a].last = alertNow /\ (g[v][a].active => ~Expires(a))
      BY <1>1, <2>1, <2>3, <3>1, CheckedAlert
    <3>3. fired'[a.id] = fired[a.id] + 1
      BY <2>2, <3>1
    <3> QED
      BY <2>1, <2>2, <3>2, <3>3 DEF AlertKept, Expires
  <2>4. CASE v \in seen /\ ~Fires(a, event)
    <3>1. g[v][a] = Checked(a, event) /\ a.id \notin hits
      BY <1>2, <1>4, <2>4
    <3>2. /\ g[v][a] \in AlertRecord /\ g[v][a].id = a.id /\ g[v][a].expires_at = a.expires_at
          /\ g[v][a].last = a.last /\ (g[v][a].active => a.active)
      BY <1>1, <2>1, <2>4, <3>1, CheckedAlert
    <3>3. fired'[a.id] = fired[a.id]
      BY <2>2, <3>1
    <3> QED
      BY <2>1, <2>2, <3>2, <3>3 DEF AlertKept, Expires
  <2>5. CASE v \notin seen
    <3>1. g[v][a] = a /\ a.id \notin hits
      BY <1>2, <1>4, <2>5
    <3> QED
      BY <2>1, <2>2, <3>1
  <2> QED
    BY <2>3, <2>4, <2>5
<1>9. \A id \in 1..MaxAlerts : id > lastId => fired'[id] = 0
  <2>1. ASSUME NEW id \in 1..MaxAlerts, id > lastId PROVE fired'[id] = 0
    <3>1. id \notin hits
      BY <1>1, <1>5, <2>1
    <3> QED
      BY <1>3, <2>1, <3>1 DEF AlertInv
  <2> QED
    BY <2>1
<1>10. renewed' \in [1..MaxAlerts -> Nat] /\ lastId' = lastId /\ alertNow' = alertNow
  BY <1>1, <1>3
<1> QED
  BY <1>6, <1>7, <1>8, <1>9, <1>10, AlertsReplaced

LEMMA AlertStep == AlertInv /\ [AlertNext]_alertVars => AlertInv'
<1> SUFFICES ASSUME AlertInv, [AlertNext]_alertVars PROVE AlertInv'
  OBVIOUS
<1>1. ASSUME NEW u \in Owners, NEW kind \in AlertKinds, NEW life \in Lifetimes,
             CreateAlert(u, kind, IF life = 0 THEN 0 ELSE alertNow + life)
      PROVE  AlertInv'
  <2>1. PICK expires \in Nat : expires = IF life = 0 THEN 0 ELSE alertNow + life
    BY AlertAssumption DEF AlertInv, AlertTypeOK
  <2>2. CreateAlert(u, kind, expires)
    BY <1>1, <2>1
  <2> QED
    BY <2>2, CreateAlertKeeps
<1>2. ASSUME NEW u \in Owners, NEW ids, SubscribeAlerts(u, ids) PROVE AlertInv'
  BY <1>2, SubscribeKeeps
<1>3. ASSUME NEW event, NEW seen \in SUBSET Owners, CheckAlerts(event, seen) PROVE AlertInv'
  BY <1>3, CheckKeeps
<1>4. ASSUME NEW u \in Owners, CleanupAlerts(u) PROVE AlertInv'
  <2>1. /\ UNCHANGED <<lastId, fired, renewed, alertNow>>
        /\ alerts' = [alerts EXCEPT ![u] = {a \in alerts[u] : a.active /\ ~Expired(a)}]
    BY <1>4 DEF CleanupAlerts
  <2>2. \A v \in Owners : alerts'[v] \subseteq alerts[v]
    BY <2>1 DEF AlertInv, AlertTypeOK
  <2>3. AlertTypeOK'
    BY <2>1 DEF AlertInv, AlertTypeOK
  <2> QED
    BY <2>1, <2>2, <2>3 DEF AlertInv
<1>5. CASE AlertTick
  <2>1. UNCHANGED <<alerts, lastId, fired, renewed>> /\ alertNow' = alertNow + 1
    BY <1>5 DEF AlertTick
  <2>2. AlertTypeOK'
    BY <2>1 DEF AlertInv, AlertTypeOK
  <2> QED
    BY <2>1, <2>2 DEF AlertInv
<1>6. CASE UNCHANGED alertVars
  <2>1. UNCHANGED <<alerts, lastId, fired, renewed, alertNow>>
    BY <1>6 DEF alertVars
  <2>2. AlertTypeOK'
    BY <2>1 DEF AlertInv, AlertTypeOK
  <2> QED
    BY <2>1, <2>2 DEF AlertInv
<1> QED
  BY <1>1, <1>2, <1>3, <1>4, <1>5, <1>6 DEF AlertNext

\* For any owners, alerts and events, however checks, subscriptions and cleanups
\* follow one another: an alert with an expiry fires once per subscription, and
\* never at or after its expiry (alerts.rs:60-330).
THEOREM AlertsFireOnce == AlertSpec => []FiresOncePerSubscription
<1>1. AlertInv => FiresOncePerSubscription
  BY DEF AlertInv, AlertKept, FiresOncePerSubscription
<1> QED
  BY <1>1, AlertsBegin, AlertStep, PTL DEF AlertSpec

-----------------------------------------------------------------------------
(* Seasons.  A board is kept in order by taking out one entry and putting   *)
(* one in; the lemmas say where every other entry goes.                     *)

LEMMA RemovedAt ==
  ASSUME NEW S, NEW b \in Seq(S), NEW k \in 1..Len(b)
  PROVE  /\ RemoveAt(b, k) \in Seq(S) /\ Len(RemoveAt(b, k)) = Len(b) - 1
         /\ \A i \in 1..(Len(b) - 1) : RemoveAt(b, k)[i] = IF i < k THEN b[i] ELSE b[i + 1]
<1> DEFINE x == SubSeq(b, 1, k - 1)
           y == SubSeq(b, k + 1, Len(b))
<1>1. PICK n \in Nat : n = Len(b) /\ \A i \in 1..n : b[i] \in S
  OBVIOUS
<1>2. k \in 1..n /\ 1 \in Int /\ k - 1 \in Int /\ k + 1 \in Int /\ n \in Int
  BY <1>1
<1>3. x \in Seq(S) /\ Len(x) = k - 1 /\ \A i \in 1..(k - 1) : x[i] = b[i]
  <2>1. \A i \in 1..(k - 1) : b[i] \in S
    BY <1>1, <1>2
  <2>2. /\ x \in Seq(S) /\ Len(x) = IF 1 <= k - 1 THEN (k - 1) - 1 + 1 ELSE 0
        /\ \A i \in 1..((k - 1) - 1 + 1) : x[i] = b[1 + i - 1]
    BY <1>2, <2>1, SubSeqProperties
  <2> HIDE DEF x
  <2>3. Len(x) = k - 1
    BY <1>2, <2>2
  <2>4. \A i \in 1..(k - 1) : i \in 1..((k - 1) - 1 + 1) /\ 1 + i - 1 = i
    BY <1>2
  <2> QED
    BY <2>2, <2>3, <2>4
<1>4. y \in Seq(S) /\ Len(y) = n - k /\ \A i \in 1..(n - k) : y[i] = b[i + k]
  <2>1. \A i \in (k + 1)..n : b[i] \in S
    BY <1>1, <1>2
  <2>2. /\ y \in Seq(S) /\ Len(y) = IF k + 1 <= n THEN n - (k + 1) + 1 ELSE 0
        /\ \A i \in 1..(n - (k + 1) + 1) : y[i] = b[(k + 1) + i - 1]
    BY <1>1, <1>2, <2>1, SubSeqProperties
  <2> HIDE DEF y
  <2>3. Len(y) = n - k
    <3>1. (IF k + 1 <= n THEN n - (k + 1) + 1 ELSE 0) = n - k
      BY <1>2
    <3> QED
      BY <2>2, <3>1
  <2>4. \A i \in 1..(n - k) : i \in 1..(n - (k + 1) + 1) /\ (k + 1) + i - 1 = i + k
    BY <1>2
  <2> QED
    BY <2>2, <2>3, <2>4
<1>5. RemoveAt(b, k) = x \o y
  BY DEF RemoveAt
<1> HIDE DEF x, y
<1>6. /\ x \o y \in Seq(S) /\ Len(x \o y) = Len(x) + Len(y)
      /\ \A i \in 1..(Len(x) + Len(y)) : (x \o y)[i] = IF i <= Len(x) THEN x[i] ELSE y[i - Len(x)]
  BY <1>3, <1>4, ConcatProperties
<1>7. Len(x) + Len(y) = n - 1
  BY <1>2, <1>3, <1>4, SMTT(40)
<1>8. ASSUME NEW i \in 1..(n - 1)
      PROVE  (x \o y)[i] = IF i < k THEN b[i] ELSE b[i + 1]
  <2>1. CASE i < k
    BY <1>2, <1>3, <1>6, <1>7, <2>1
  <2>2. CASE ~(i < k)
    <3>1. i - (k - 1) \in 1..(n - k) /\ (i - (k - 1)) + k = i + 1 /\ ~(i <= k - 1)
      BY <1>2, <2>2
    <3> QED
      BY <1>2, <1>3, <1>4, <1>6, <1>7, <2>2, <3>1
  <2> QED
    BY <2>1, <2>2
<1> QED
  BY <1>1, <1>5, <1>6, <1>7, <1>8

LEMMA InsertedAt ==
  ASSUME NEW S, NEW b \in Seq(S), NEW k \in 1..(Len(b) + 1), NEW e \in S
  PROVE  /\ InsertAt(b, k, e) \in Seq(S) /\ Len(InsertAt(b, k, e)) = Len(b) + 1
         /\ \A i \in 1..(Len(b) + 1) :
              InsertAt(b, k, e)[i] = IF i < k THEN b[i] ELSE IF i = k THEN e ELSE b[i - 1]
<1> DEFINE x == SubSeq(b, 1, k - 1)
           y == SubSeq(b, k, Len(b))
           z == x \o <<e>>
<1>1. PICK n \in Nat : n = Len(b) /\ \A i \in 1..n : b[i] \in S
  OBVIOUS
<1>2. k \in 1..(n + 1) /\ 1 \in Int /\ k - 1 \in Int /\ k \in Int /\ n \in Int
  BY <1>1
<1>3. x \in Seq(S) /\ Len(x) = k - 1 /\ \A i \in 1..(k - 1) : x[i] = b[i]
  <2>1. \A i \in 1..(k - 1) : b[i] \in S
    BY <1>1, <1>2
  <2>2. /\ x \in Seq(S) /\ Len(x) = IF 1 <= k - 1 THEN (k - 1) - 1 + 1 ELSE 0
        /\ \A i \in 1..((k - 1) - 1 + 1) : x[i] = b[1 + i - 1]
    BY <1>2, <2>1, SubSeqProperties
  <2> HIDE DEF x
  <2>3. Len(x) = k - 1
    BY <1>2, <2>2
  <2>4. \A i \in 1..(k - 1) : i \in 1..((k - 1) - 1 + 1) /\ 1 + i - 1 = i
    BY <1>2
  <2> QED
    BY <2>2, <2>3, <2>4
<1>4. y \in Seq(S) /\ Len(y) = n - k + 1 /\ \A i \in 1..(n - k + 1) : y[i] = b[k + i - 1]
  <2>1. \A i \in k..n : b[i] \in S
    BY <1>1, <1>2
  <2>2. /\ y \in Seq(S) /\ Len(y) = IF k <= n THEN n - k + 1 ELSE 0
        /\ \A i \in 1..(n - k + 1) : y[i] = b[k + i - 1]
    BY <1>1, <1>2, <2>1, SubSeqProperties
  <2> HIDE DEF y
  <2>3. Len(y) = n - k + 1
    BY <1>2, <2>2
  <2> QED
    BY <2>2, <2>3
<1>5. InsertAt(b, k, e) = z \o y
  BY DEF InsertAt
<1>6. z \in Seq(S) /\ Len(z) = k /\ z[k] = e /\ \A i \in 1..(k - 1) : z[i] = b[i]
  <2>1. <<e>> \in Seq(S) /\ Len(<<e>>) = 1 /\ <<e>>[1] = e
    OBVIOUS
  <2>2. PICK w : w = <<e>>
    OBVIOUS
  <2> HIDE DEF x
  <2>3. /\ x \o w \in Seq(S) /\ Len(x \o w) = Len(x) + Len(w)
        /\ \A i \in 1..(Len(x) + Len(w)) : (x \o w)[i] = IF i <= Len(x) THEN x[i] ELSE w[i - Len(x)]
    BY <1>3, <2>1, <2>2, ConcatProperties
  <2>4. Len(x) + Len(w) = k /\ k \in 1..k /\ k - Len(x) = 1 /\ ~(k <= Len(x))
        /\ \A i \in 1..(k - 1) : i \in 1..k /\ i <= Len(x)
    <3>1. Len(x) = k - 1 /\ Len(w) = 1 /\ k \in Nat \ {0}
      BY <1>2, <1>3, <2>1, <2>2
    <3> QED
      BY ONLY <3>1
  <2> QED
    BY <1>3, <2>1, <2>2, <2>3, <2>4, SMTT(40)
<1> HIDE DEF x, y, z
<1>7. /\ z \o y \in Seq(S) /\ Len(z \o y) = Len(z) + Len(y)
      /\ \A i \in 1..(Len(z) + Len(y)) : (z \o y)[i] = IF i <= Len(z) THEN z[i] ELSE y[i - Len(z)]
  BY <1>4, <1>6, ConcatProperties, ZenonT(60)
<1>8. Len(z) + Len(y) = n + 1
  BY <1>2, <1>4, <1>6, SMTT(40)
<1>9. ASSUME NEW i \in 1..(n + 1)
      PROVE  (z \o y)[i] = IF i < k THEN b[i] ELSE IF i = k THEN e ELSE b[i - 1]
  <2>1. CASE i < k
    BY <1>2, <1>6, <1>7, <1>8, <2>1, SMTT(40)
  <2>2. CASE i = k
    BY <1>2, <1>6, <1>7, <1>8, <2>2
  <2>3. CASE i > k
    <3>1. i - k \in 1..(n - k + 1) /\ k + (i - k) - 1 = i - 1 /\ ~(i <= k)
      BY <1>2, <2>3
    <3> QED
      BY <1>2, <1>4, <1>6, <1>7, <1>8, <2>3, <3>1, SMTT(40)
  <2>4. i < k \/ i = k \/ i > k
    BY <1>2
  <2>5. ASSUME i > k
        PROVE (z \o y)[i] = IF i < k THEN b[i] ELSE IF i = k THEN e ELSE b[i - 1]
    BY <1>2, <2>3, <2>5
  <2> QED
    BY <2>1, <2>2, <2>4, <2>5
<1> QED
  BY <1>1, <1>5, <1>7, <1>8, <1>9

Entry == Traders \X (0..MaxScore)

\* A board in order: nobody twice, and every entry with the score its account has.
InOrder(b, scores) ==
  /\ b \in Seq(Entry)
  /\ \A i, j \in DOMAIN b : b[i][1] = b[j][1] => i = j
  /\ \A i, j \in DOMAIN b : i < j => b[i][2] >= b[j][2]
  /\ \A i \in DOMAIN b : b[i][2] = scores[b[i][1]]

\* Taking an account out: the others stay, in order, and no entry is below the
\* last one there was.
LEMMA WithoutInOrder ==
  ASSUME NEW scores, NEW b, InOrder(b, scores), NEW u
  PROVE  /\ InOrder(Without(b, u), scores)
         /\ \A i \in DOMAIN Without(b, u) : Without(b, u)[i][1] # u
         /\ \A i \in DOMAIN Without(b, u) : \E j \in DOMAIN b : Without(b, u)[i] = b[j]
         /\ \A j \in DOMAIN b : b[j][1] # u => \E i \in DOMAIN Without(b, u) : Without(b, u)[i] = b[j]
         /\ IF \E j \in DOMAIN b : b[j][1] = u THEN Len(Without(b, u)) = Len(b) - 1
            ELSE Without(b, u) = b
<1> DEFINE w == Without(b, u)
<1>1. PICK n \in Nat : n = Len(b) /\ DOMAIN b = 1..n /\ b \in Seq(Entry)
  BY DEF InOrder
<1>2. CASE \A j \in DOMAIN b : b[j][1] # u
  <2>1. w = b
    BY <1>2 DEF Without
  <2> HIDE DEF w
  <2> QED
    BY <1>2, <2>1 DEF w
<1>3. CASE \E j \in DOMAIN b : b[j][1] = u
  <2>1. PICK k \in 1..n : b[k][1] = u
    BY <1>1, <1>3
  <2>2. \A j \in 1..n : b[j][1] = u => j = k
    BY <1>1, <2>1 DEF InOrder
  <2>3. b[k][1] = u /\ \A j \in 1..k - 1 : b[j][1] # u
    BY <2>1, <2>2
  <2>4. (CHOOSE i \in DOMAIN b : b[i][1] = u /\ \A j \in 1..i - 1 : b[j][1] # u) = k
    <3> DEFINE P(i) == b[i][1] = u /\ \A j \in 1..i - 1 : b[j][1] # u
    <3>1. P(k) /\ \A i \in 1..n : P(i) => i = k
      BY <2>2, <2>3
    <3> HIDE DEF P
    <3>2. (CHOOSE i \in 1..n : P(i)) = k
      BY <3>1
    <3> QED
      BY <1>1, <3>2 DEF P
  <2>5. w = RemoveAt(b, k)
    BY <1>3, <2>4 DEF Without
  <2>6. /\ w \in Seq(Entry) /\ Len(w) = n - 1
        /\ \A i \in 1..(n - 1) : w[i] = IF i < k THEN b[i] ELSE b[i + 1]
    BY <1>1, <2>5, RemovedAt, SMTT(40)
  <2> HIDE DEF w
  <2>7. DOMAIN w = 1..(n - 1) /\ n - 1 \in Nat
    BY <1>1, <2>1, <2>6
  <2> DEFINE from(i) == IF i < k THEN i ELSE i + 1
  <2>8. \A i \in 1..(n - 1) : from(i) \in 1..n /\ from(i) # k /\ w[i] = b[from(i)]
    BY <2>1, <2>6
  <2>9. \A i, j \in 1..(n - 1) : i < j => from(i) < from(j)
    BY <2>1
  <2>10. \A i, j \in 1..(n - 1) : from(i) = from(j) => i = j
    BY <2>1
  <2>11. \A j \in 1..n : j # k => \E i \in 1..(n - 1) : from(i) = j
    <3> SUFFICES ASSUME NEW j \in 1..n, j # k PROVE \E i \in 1..(n - 1) : from(i) = j
      OBVIOUS
    <3>1. CASE j < k
      <4>1. j \in 1..(n - 1) /\ from(j) = j
        BY <2>1, <3>1
      <4> QED
        BY <4>1
    <3>2. CASE j > k
      <4>1. j - 1 \in 1..(n - 1) /\ from(j - 1) = j
        BY <2>1, <3>2
      <4> QED
        BY <4>1
    <3> QED
      BY <3>1, <3>2
  <2> HIDE DEF from
  <2>12. InOrder(w, scores)
    <3>1. \A i, j \in 1..(n - 1) : w[i][1] = w[j][1] => i = j
      BY <1>1, <2>8, <2>10 DEF InOrder
    <3>2. \A i, j \in 1..(n - 1) : i < j => w[i][2] >= w[j][2]
      BY <1>1, <2>8, <2>9 DEF InOrder
    <3>3. \A i \in 1..(n - 1) : w[i][2] = scores[w[i][1]]
      BY <1>1, <2>8 DEF InOrder
    <3> QED
      BY <2>6, <2>7, <3>1, <3>2, <3>3 DEF InOrder
  <2>13. \A i \in DOMAIN w : w[i][1] # u
    BY <2>2, <2>7, <2>8
  <2>14. \A i \in DOMAIN w : \E j \in DOMAIN b : w[i] = b[j]
    BY <1>1, <2>7, <2>8
  <2>15. \A j \in DOMAIN b : b[j][1] # u => \E i \in DOMAIN w : w[i] = b[j]
    <3> SUFFICES ASSUME NEW j \in 1..n, b[j][1] # u PROVE \E i \in 1..(n - 1) : w[i] = b[j]
      BY <1>1, <2>7
    <3>1. PICK i \in 1..(n - 1) : from(i) = j
      BY <2>1, <2>11
    <3> QED
      BY <2>8, <3>1
  <2> QED
    BY <1>1, <1>3, <2>6, <2>12, <2>13, <2>14, <2>15 DEF w
<1> QED
  BY <1>2, <1>3

\* In a board in order the place of a score is where the entries below it begin.
LEMMA PlaceFound ==
  ASSUME NEW scores, NEW b, InOrder(b, scores), NEW s \in 0..MaxScore
  PROVE  /\ Place(b, s) \in 1..(Len(b) + 1)
         /\ \A i \in 1..Len(b) : IF i < Place(b, s) THEN b[i][2] >= s ELSE b[i][2] < s
<1>1. PICK n \in Nat : n = Len(b) /\ DOMAIN b = 1..n /\ b \in Seq(Entry)
  BY DEF InOrder
<1>2. \A i \in 1..n : b[i][2] \in 0..MaxScore
  BY <1>1 DEF Entry
<1> DEFINE G == {i \in 1..n : b[i][2] >= s}
           P(p) == (\A i \in p..n : b[i][2] < s) /\ (p > 1 => b[p - 1][2] >= s)
<1>3. \A i \in G : \A j \in 1..n : j < i => j \in G
  <2> SUFFICES ASSUME NEW i \in 1..n, b[i][2] >= s, NEW j \in 1..n, j < i PROVE b[j][2] >= s
    OBVIOUS
  <2>1. b[j][2] >= b[i][2]
    BY <1>1 DEF InOrder
  <2> QED
    BY <1>2, <2>1
<1>4. PICK c \in 0..n : G = 1..c
  <2>1. G \in SUBSET (1..n)
    OBVIOUS
  <2> HIDE DEF G
  <2> QED
    BY <1>3, <2>1, DownwardClosed
<1>5. \A i \in 1..n : i <= c <=> b[i][2] >= s
  BY <1>4
<1>6. P(c + 1) /\ c + 1 \in 1..(n + 1)
  BY <1>2, <1>5
<1>7. Place(b, s) = CHOOSE p \in 1..(n + 1) : P(p)
  <2>1. Place(b, s) = CHOOSE p \in 1..(Len(b) + 1) :
                        (\A i \in p..Len(b) : b[i][2] < s) /\ (p > 1 => b[p - 1][2] >= s)
    BY ONLY DEF Place
  <2>2. Len(b) = n
    BY <1>1
  <2> QED
    BY ONLY <2>1, <2>2
<1>8. PICK p : p = Place(b, s) /\ p \in 1..(n + 1) /\ P(p)
  <2> HIDE DEF P
  <2> QED
    BY <1>6, <1>7
<1>9. \A i \in 1..n : IF i < p THEN b[i][2] >= s ELSE b[i][2] < s
  <2> SUFFICES ASSUME NEW i \in 1..n PROVE IF i < p THEN b[i][2] >= s ELSE b[i][2] < s
    OBVIOUS
  <2>1. CASE i < p
    <3>1. p - 1 \in 1..n /\ i <= p - 1 /\ b[p - 1][2] >= s
      BY <1>8, <2>1
    <3>2. p - 1 <= c
      BY <1>5, <3>1
    <3> QED
      BY <1>5, <2>1, <3>1, <3>2
  <2>2. CASE ~(i < p)
    <3>1. i \in p..n
      BY <1>8, <2>2
    <3> QED
      BY <1>8, <2>2, <3>1
  <2> QED
    BY <2>1, <2>2
<1> QED
  BY <1>1, <1>8, <1>9

\* The board of one season: in order, no longer than it may be, and nobody left
\* out has more than the last one listed.
BoardKept(b, scores) ==
  /\ InOrder(b, scores)
  /\ Len(b) <= MaxLeaderboard
  /\ \A u \in Traders : (\A i \in DOMAIN b : b[i][1] # u) =>
       \/ scores[u] = 0
       \/ Len(b) = MaxLeaderboard /\ scores[u] <= b[MaxLeaderboard][2]

\* A newcomer put in its place, and everybody else where he was or one below.
PutInPlace(all, rest, p, u, s) ==
  /\ Len(all) = Len(rest) + 1
  /\ p \in 1..(Len(rest) + 1) /\ all[p] = <<u, s>>
  /\ \A i \in 1..Len(rest) : all[IF i < p THEN i ELSE i + 1] = rest[i]
  /\ \A i \in 1..(Len(rest) + 1) : i # p =>
       /\ (IF i < p THEN i ELSE i - 1) \in 1..Len(rest)
       /\ all[i] = rest[IF i < p THEN i ELSE i - 1]

LEMMA InsertedInOrder ==
  ASSUME NEW scores, scores \in [Traders -> 0..MaxScore], NEW b, InOrder(b, scores),
         NEW u, u \in Traders, NEW s, s \in 0..MaxScore, NEW now, now = [scores EXCEPT ![u] = s],
         NEW rest, rest = Without(b, u), NEW p, p = Place(rest, s),
         NEW all, all = Inserted(b, u, s)
  PROVE  InOrder(all, now) /\ PutInPlace(all, rest, p, u, s)
<1>1. InOrder(rest, scores) /\ \A i \in DOMAIN rest : rest[i][1] # u
  BY WithoutInOrder
<1>2. PICK n \in Nat : n = Len(rest) /\ DOMAIN rest = 1..n /\ rest \in Seq(Entry)
  BY <1>1 DEF InOrder
<1>3. all = InsertAt(rest, p, <<u, s>>)
  BY DEF Inserted
<1>4. /\ p \in 1..(n + 1)
      /\ \A i \in 1..n : IF i < p THEN rest[i][2] >= s ELSE rest[i][2] < s
  BY <1>1, <1>2, PlaceFound
<1>5. <<u, s>> \in Entry
  BY DEF Entry
<1>6. PICK e : e = <<u, s>> /\ e \in Entry /\ e[1] = u /\ e[2] = s
  BY <1>5
<1>7. /\ all \in Seq(Entry) /\ Len(all) = n + 1
      /\ \A i \in 1..(n + 1) :
           all[i] = IF i < p THEN rest[i] ELSE IF i = p THEN e ELSE rest[i - 1]
  <2>1. PICK k : k = p /\ k \in 1..(Len(rest) + 1)
    BY <1>2, <1>4
  <2>2. rest \in Seq(Entry) /\ e \in Entry
    BY <1>2, <1>6
  <2>3. /\ InsertAt(rest, k, e) \in Seq(Entry) /\ Len(InsertAt(rest, k, e)) = Len(rest) + 1
        /\ \A i \in 1..(Len(rest) + 1) :
             InsertAt(rest, k, e)[i] = IF i < k THEN rest[i] ELSE IF i = k THEN e ELSE rest[i - 1]
    BY ONLY <2>1, <2>2, InsertedAt
  <2>4. all = InsertAt(rest, k, e) /\ Len(rest) = n
    BY <1>2, <1>3, <1>6, <2>1
  <2> QED
    BY ONLY <2>1, <2>3, <2>4
<1>8. DOMAIN all = 1..(n + 1)
  BY <1>7
<1> DEFINE was(i) == IF i < p THEN i ELSE i - 1
<1>9. \A i \in 1..(n + 1) : i # p => was(i) \in 1..n /\ all[i] = rest[was(i)]
  BY <1>4, <1>7
<1>10. \A i, j \in 1..(n + 1) : i # p /\ j # p =>
          /\ was(i) = was(j) => i = j
          /\ i < j => was(i) < was(j)
  BY <1>4
<1>11. all[p] = e
  BY <1>4, <1>7
<1>12. \A i \in 1..(n + 1) : /\ i < p => was(i) < p
                             /\ i > p => ~(was(i) < p)
  BY <1>4
<1>13. \A i \in 1..n : all[IF i < p THEN i ELSE i + 1] = rest[i]
  <2> SUFFICES ASSUME NEW i \in 1..n PROVE all[IF i < p THEN i ELSE i + 1] = rest[i]
    OBVIOUS
  <2>1. CASE i < p
    BY <1>7, <2>1
  <2>2. CASE ~(i < p)
    <3>1. i + 1 \in 1..(n + 1) /\ ~(i + 1 < p) /\ i + 1 # p /\ (i + 1) - 1 = i
      BY <1>4, <2>2
    <3> QED
      BY <1>7, <2>2, <3>1
  <2> QED
    BY <2>1, <2>2
<1>14. \A i \in 1..n : rest[i] \in Entry /\ rest[i][1] \in Traders /\ rest[i][2] \in 0..MaxScore
  BY <1>2 DEF Entry
<1> HIDE DEF was, PutInPlace
<1>15. \A i, j \in 1..(n + 1) : all[i][1] = all[j][1] => i = j
  <2> SUFFICES ASSUME NEW i \in 1..(n + 1), NEW j \in 1..(n + 1), all[i][1] = all[j][1]
               PROVE  i = j
    OBVIOUS
  <2>1. CASE i # p /\ j # p
    <3>1. was(i) = was(j)
      BY <1>1, <1>2, <1>9, <2>1, SMTT(40) DEF InOrder
    <3> QED
      BY <1>10, <2>1, <3>1
  <2>2. CASE i = p /\ j # p
    BY <1>1, <1>2, <1>6, <1>9, <1>11, <2>2
  <2>3. CASE i # p /\ j = p
    BY <1>1, <1>2, <1>6, <1>9, <1>11, <2>3
  <2> QED
    BY <2>1, <2>2, <2>3
<1>16. \A i, j \in 1..(n + 1) : i < j => all[i][2] >= all[j][2]
  <2> SUFFICES ASSUME NEW i \in 1..(n + 1), NEW j \in 1..(n + 1), i < j
               PROVE  all[i][2] >= all[j][2]
    OBVIOUS
  <2>1. CASE i # p /\ j # p
    <3>1. was(i) < was(j) /\ was(i) \in 1..n /\ was(j) \in 1..n
      BY <1>9, <1>10, <2>1
    <3> QED
      BY <1>1, <1>2, <1>9, <2>1, <3>1 DEF InOrder
  <2>2. CASE i = p
    <3>1. j # p /\ j > p
      BY <2>2
    <3>2. ~(was(j) < p) /\ was(j) \in 1..n
      BY <1>9, <1>12, <3>1
    <3>3. rest[was(j)][2] < s /\ rest[was(j)][2] \in 0..MaxScore
      BY <1>4, <1>14, <3>2
    <3>4. all[i][2] = s /\ all[j][2] = rest[was(j)][2]
      BY <1>6, <1>9, <1>11, <2>2, <3>1
    <3> QED
      BY <3>3, <3>4
  <2>3. CASE j = p
    <3>1. i # p /\ i < p
      BY <2>3
    <3>2. was(i) < p /\ was(i) \in 1..n
      BY <1>9, <1>12, <3>1
    <3>3. rest[was(i)][2] >= s
      BY <1>4, <3>2
    <3>4. all[j][2] = s /\ all[i][2] = rest[was(i)][2]
      BY <1>6, <1>9, <1>11, <2>3, <3>1
    <3> QED
      BY <3>3, <3>4
  <2> QED
    BY <2>1, <2>2, <2>3
<1>17. \A i \in 1..(n + 1) : all[i][2] = now[all[i][1]]
  <2> SUFFICES ASSUME NEW i \in 1..(n + 1) PROVE all[i][2] = now[all[i][1]]
    OBVIOUS
  <2>1. CASE i = p
    BY <1>6, <1>11, <2>1
  <2>2. CASE i # p
    <3>1. was(i) \in 1..n /\ all[i] = rest[was(i)]
      BY <1>9, <2>2
    <3>2. rest[was(i)][1] # u /\ rest[was(i)][1] \in Traders
          /\ rest[was(i)][2] = scores[rest[was(i)][1]]
      BY <1>1, <1>2, <1>14, <3>1 DEF InOrder
    <3> QED
      BY <3>1, <3>2
  <2> QED
    BY <2>1, <2>2
<1>18. InOrder(all, now)
  BY <1>7, <1>8, <1>15, <1>16, <1>17 DEF InOrder
<1> QED
  BY <1>2, <1>4, <1>6, <1>7, <1>9, <1>11, <1>13, <1>18 DEF was, PutInPlace

\* A board without its last entry.
LEMMA FrontInOrder ==
  ASSUME NEW now, NEW b, InOrder(b, now), NEW m \in Nat, Len(b) = m + 1
  PROVE  /\ InOrder(Front(b), now) /\ Len(Front(b)) = m
         /\ \A i \in 1..m : Front(b)[i] = b[i]
<1> DEFINE r == Front(b)
<1>1. b \in Seq(Entry) /\ DOMAIN b = 1..(m + 1) /\ \A i \in 1..(m + 1) : b[i] \in Entry
  BY DEF InOrder
<1>2. r = SubSeq(b, 1, m)
  <2>1. r = SubSeq(b, 1, Len(b) - 1)
    BY ONLY DEF Front
  <2>2. Len(b) - 1 = m
    OBVIOUS
  <2> QED
    BY ONLY <2>1, <2>2
<1> HIDE DEF r
<1>3. /\ r \in Seq(Entry) /\ Len(r) = IF 1 <= m THEN m - 1 + 1 ELSE 0
      /\ \A i \in 1..(m - 1 + 1) : r[i] = b[1 + i - 1]
  <2>1. 1 \in Int /\ m \in Int /\ \A i \in 1..m : b[i] \in Entry
    BY <1>1
  <2> QED
    BY <1>2, <2>1, SubSeqProperties
<1>4. Len(r) = m
  BY <1>3
<1>5. DOMAIN r = 1..m /\ \A i \in 1..m : r[i] = b[i] /\ i \in DOMAIN b
  <2>1. \A i \in 1..m : i \in 1..(m - 1 + 1) /\ 1 + i - 1 = i
    OBVIOUS
  <2> QED
    BY <1>1, <1>3, <1>4, <2>1
<1>6. InOrder(r, now)
  BY <1>3, <1>5, SMTT(40) DEF InOrder
<1> QED
  BY <1>4, <1>5, <1>6 DEF r

\* A swap moves its user to his place and keeps the best.
LEMMA RankedKept ==
  ASSUME NEW scores \in [Traders -> 0..MaxScore], NEW b, BoardKept(b, scores),
         NEW u \in Traders, NEW s \in 0..MaxScore, scores[u] <= s,
         NEW now, now = [scores EXCEPT ![u] = s]
  PROVE  BoardKept(Ranked(b, u, s), now)
<1> DEFINE rest == Without(b, u)
           p == Place(rest, s)
           all == Inserted(b, u, s)
           M == MaxLeaderboard
<1>1. InOrder(b, scores) /\ M \in Nat \ {0}
  BY SeasonAssumption DEF BoardKept
<1>2. PICK n \in Nat : n = Len(b) /\ DOMAIN b = 1..n /\ b \in Seq(Entry) /\ n <= M
  BY <1>1 DEF InOrder, BoardKept
<1>3. /\ InOrder(rest, scores)
      /\ \A i \in DOMAIN rest : \E j \in DOMAIN b : rest[i] = b[j]
      /\ \A j \in DOMAIN b : b[j][1] # u => \E i \in DOMAIN rest : rest[i] = b[j]
      /\ IF \E j \in DOMAIN b : b[j][1] = u THEN Len(rest) = Len(b) - 1 ELSE rest = b
  BY <1>1, WithoutInOrder
<1>4. PICK k \in Nat : k = Len(rest) /\ DOMAIN rest = 1..k
  <2> HIDE DEF rest
  <2> QED
    BY <1>3 DEF InOrder
<1>5. /\ InOrder(all, now) /\ Len(all) = Len(rest) + 1
      /\ p \in 1..(Len(rest) + 1) /\ all[p] = <<u, s>>
      /\ \A i \in 1..Len(rest) : all[IF i < p THEN i ELSE i + 1] = rest[i]
      /\ \A i \in 1..(Len(rest) + 1) : i # p =>
           /\ (IF i < p THEN i ELSE i - 1) \in 1..Len(rest)
           /\ all[i] = rest[IF i < p THEN i ELSE i - 1]
  <2>1. /\ scores \in [Traders -> 0..MaxScore] /\ InOrder(b, scores) /\ u \in Traders
        /\ s \in 0..MaxScore /\ now = [scores EXCEPT ![u] = s]
    BY <1>1
  <2>2. PICK r, q, a : r = rest /\ q = p /\ a = all
    OBVIOUS
  <2>3. r = Without(b, u) /\ q = Place(r, s) /\ a = Inserted(b, u, s)
    BY ONLY <2>2
  <2>4. InOrder(a, now) /\ PutInPlace(a, r, q, u, s)
    BY ONLY <2>1, <2>3, InsertedInOrder, Zenon
  <2> QED
    BY ONLY <2>2, <2>4 DEF PutInPlace
<1>6. Ranked(b, u, s) = IF Len(all) > M THEN Front(all) ELSE all
  BY DEF Ranked
<1>7. \A v \in Traders : now[v] = (IF v = u THEN s ELSE scores[v]) /\ now[v] \in 0..MaxScore
                         /\ scores[v] \in 0..MaxScore
  OBVIOUS
<1>8. \A i \in 1..n : b[i] \in Entry /\ b[i][1] \in Traders /\ b[i][2] \in 0..MaxScore
  BY <1>2, SMTT(40) DEF Entry
<1>9. \A v \in Traders : (\A i \in 1..n : b[i][1] # v) =>
        scores[v] = 0 \/ (n = M /\ scores[v] <= b[M][2])
  BY <1>2 DEF BoardKept
<1> HIDE DEF rest, p, all, M
<1>10. DOMAIN all = 1..(k + 1) /\ \A i \in 1..(k + 1) : all[i][1] \in Traders /\ all[i][2] \in 0..MaxScore
  <2>1. all \in Seq(Entry) /\ Len(all) = k + 1
    BY <1>4, <1>5 DEF InOrder
  <2>2. DOMAIN all = 1..(k + 1) /\ \A i \in 1..(k + 1) : all[i] \in Entry
    BY <1>4, <2>1
  <2> QED
    BY <2>2 DEF Entry
\* Whoever is not on the new board, before a last entry is dropped, was not on the old one.
<1>11. ASSUME NEW v \in Traders, \A i \in 1..(k + 1) : all[i][1] # v
       PROVE  v # u /\ \A j \in 1..n : b[j][1] # v
  <2>1. v # u
    <3>1. p \in 1..(k + 1) /\ all[p][1] = u
      BY <1>4, <1>5
    <3> QED
      BY <1>11, <3>1
  <2>2. ASSUME NEW j \in 1..n, b[j][1] = v PROVE FALSE
    <3>1. PICK i \in 1..k : rest[i] = b[j]
      BY <1>2, <1>3, <1>4, <2>1, <2>2, SMTT(40)
    <3>2. (IF i < p THEN i ELSE i + 1) \in 1..(k + 1)
      BY <1>4, <1>5
    <3>3. all[IF i < p THEN i ELSE i + 1] = b[j]
      BY <1>4, <1>5, <3>1
    <3> QED
      BY <1>11, <2>2, <3>2, <3>3
  <2> QED
    BY <2>1, <2>2
<1>12. CASE \E j \in DOMAIN b : b[j][1] = u
  <2>1. PICK x \in 1..n : b[x][1] = u
    BY <1>2, <1>12
  <2>2. n = k + 1 /\ ~(Len(all) > M)
    BY <1>1, <1>2, <1>3, <1>4, <1>5, <1>12, SMTT(40)
  <2>3. \A i, j \in 1..n : i < j => b[i][2] >= b[j][2]
    BY <1>1, <1>2 DEF InOrder
  <2>4. ASSUME n = M PROVE all[M][2] >= b[M][2]
    <3>1. M \in 1..n /\ M \in 1..(k + 1)
      BY <1>1, <1>2, <2>2, <2>4
    <3>2. CASE p = M
      <4>1. all[M][2] = s /\ b[x][2] = scores[u]
        BY <1>1, <1>2, <1>5, <2>1, <3>2, SMTT(40) DEF InOrder
      <4>2. b[x][2] >= b[M][2]
        <5>1. x = M \/ x < M
          BY <2>1, <2>4
        <5> QED
          BY <1>8, <2>1, <2>3, <3>1, <5>1
      <4>3. scores[u] \in 0..MaxScore /\ b[M][2] \in 0..MaxScore
        BY <1>7, <1>8, <3>1
      <4> QED
        BY <4>1, <4>2, <4>3
    <3>3. CASE p # M
      <4>1. PICK i \in 1..k : all[M] = rest[i]
        BY <1>4, <1>5, <3>1, <3>3
      <4>2. PICK j \in 1..n : all[M] = b[j]
        BY <1>2, <1>3, <1>4, <4>1, SMTT(40)
      <4>3. j = M \/ j < M
        BY <2>4
      <4> QED
        BY <1>8, <2>3, <3>1, <4>2, <4>3
    <3> QED
      BY <3>2, <3>3
  <2>5. ASSUME NEW v \in Traders, \A i \in DOMAIN all : all[i][1] # v
        PROVE  now[v] = 0 \/ (Len(all) = M /\ now[v] <= all[M][2])
    <3>1. v # u /\ now[v] = scores[v] /\ (scores[v] = 0 \/ (n = M /\ scores[v] <= b[M][2]))
      BY <1>7, <1>9, <1>10, <1>11, <2>5
    <3>2. CASE n = M /\ scores[v] <= b[M][2]
      <4>1. M \in 1..n /\ M \in 1..(k + 1)
        BY <1>1, <1>2, <2>2, <3>2
      <4>2. scores[v] \in 0..MaxScore /\ b[M][2] \in 0..MaxScore /\ all[M][2] \in 0..MaxScore
        BY <1>7, <1>8, <1>10, <4>1
      <4> QED
        BY <1>4, <1>5, <2>2, <2>4, <3>1, <3>2, <4>2, SMTT(40)
    <3> QED
      BY <3>1, <3>2
  <2>6. Ranked(b, u, s) = all /\ Len(all) <= M
    BY <1>1, <1>4, <1>5, <1>6, <2>2
  <2> QED
    BY <1>5, <2>5, <2>6 DEF BoardKept, M
<1>13. CASE ~ \E j \in DOMAIN b : b[j][1] = u
  <2>1. rest = b /\ k = n
    BY <1>2, <1>3, <1>4, <1>13
  <2>2. CASE n < M
    <3>1. Ranked(b, u, s) = all /\ Len(all) <= M
      BY <1>1, <1>4, <1>5, <1>6, <2>1, <2>2
    <3>2. ASSUME NEW v \in Traders, \A i \in DOMAIN all : all[i][1] # v
          PROVE  now[v] = 0
      BY <1>1, <1>7, <1>9, <1>10, <1>11, <2>2, <3>2, SMTT(40)
    <3> QED
      BY <1>5, <3>1, <3>2 DEF BoardKept, M
  <2>3. CASE n = M
    <3> DEFINE r == Front(all)
    <3>1. Len(all) = M + 1 /\ Ranked(b, u, s) = r
      BY <1>1, <1>4, <1>5, <1>6, <2>1, <2>3
    <3>2. InOrder(r, now) /\ Len(r) = M /\ \A i \in 1..M : r[i] = all[i]
      BY <1>1, <1>5, <3>1, FrontInOrder, SMTT(40)
    <3> HIDE DEF r
    <3>3. DOMAIN r = 1..M /\ M \in 1..M /\ M \in 1..(M + 1) /\ M + 1 \in 1..(M + 1)
          /\ M < M + 1 /\ M \in 1..n
      BY <1>1, <2>3, <3>2 DEF InOrder
    <3>4. all[M][2] >= all[M + 1][2]
      BY <1>5, <1>10, <2>1, <2>3, <3>3 DEF InOrder
    <3>5. all[M][2] >= b[M][2]
      <4>1. CASE p = M + 1
        <5>1. all[M] = b[M]
          BY <1>1, <1>5, <2>1, <2>3, <1>2, <3>3, <4>1
        <5> QED
          BY <1>8, <3>3, <5>1
      <4>2. CASE p # M + 1
        <5>1. ~(M < p)
          BY <1>1, <1>2, <1>5, <2>1, <2>3, <4>2
        <5>2. all[M + 1] = b[M]
          BY <1>2, <1>5, <2>1, <3>3, <5>1
        <5> QED
          BY <3>4, <5>2
      <4> QED
        BY <4>1, <4>2
    <3>6. ASSUME NEW v \in Traders, \A i \in DOMAIN r : r[i][1] # v
          PROVE  now[v] = 0 \/ now[v] <= r[M][2]
      <4>1. \A i \in 1..M : all[i][1] # v
        BY <3>2, <3>3, <3>6
      <4>2. CASE all[M + 1][1] = v
        <5>1. now[v] = all[M + 1][2]
          BY <1>5, <1>10, <2>1, <2>3, <3>3, <4>2 DEF InOrder
        <5> QED
          BY <1>1, <1>10, <2>1, <2>3, <3>2, <3>3, <3>4, <5>1
      <4>3. CASE all[M + 1][1] # v
        <5>1. \A i \in 1..(k + 1) : all[i][1] # v
          BY <1>1, <2>1, <2>3, <4>1, <4>3
        <5>2. v # u /\ now[v] = scores[v] /\ (scores[v] = 0 \/ scores[v] <= b[M][2])
          BY <1>7, <1>9, <1>11, <5>1
        <5>3. scores[v] \in 0..MaxScore /\ b[M][2] \in 0..MaxScore /\ r[M] = all[M]
              /\ all[M][2] \in 0..MaxScore
          BY <1>7, <1>8, <1>10, <2>1, <2>3, <3>2, <3>3
        <5> QED
          BY <3>5, <5>2, <5>3
      <4> QED
        BY <4>2, <4>3
    <3> QED
      BY <1>1, <3>1, <3>2, <3>6 DEF BoardKept, M
  <2> QED
    BY <1>1, <1>2, <2>2, <2>3
<1> QED
  BY <1>12, <1>13

\* A list of an account each has as many accounts as entries.
LEMMA AsManyListed ==
  ASSUME NEW b \in Seq(Entry), \A i, j \in DOMAIN b : b[i][1] = b[j][1] => i = j
  PROVE  Cardinality({b[i][1] : i \in DOMAIN b}) = Len(b)
<1>1. PICK n \in Nat : n = Len(b) /\ DOMAIN b = 1..n
  OBVIOUS
<1>2. PICK T : T = 1..n /\ IsFiniteSet(T) /\ Cardinality(T) = n
  <2>1. 1 \in Int /\ n \in Int
    OBVIOUS
  <2>2. IsFiniteSet(1..n) /\ Cardinality(1..n) = IF 1 > n THEN 0 ELSE n - 1 + 1
    BY <2>1, FS_Interval
  <2> QED
    BY <2>2
<1>3. PICK L : L = {b[i][1] : i \in DOMAIN b}
  OBVIOUS
<1>4. PICK f : f = [i \in T |-> b[i][1]]
  OBVIOUS
<1>5. f \in [T -> L] /\ (\A i, j \in T : f[i] = f[j] => i = j) /\ \A a \in L : \E i \in T : f[i] = a
  BY <1>1, <1>2, <1>3, <1>4
<1>6. f \in Bijection(T, L)
  BY <1>5 DEF Bijection, Injection, Surjection, IsInjective
<1>7. Cardinality(T) = Cardinality(L)
  <2>1. ExistsBijection(T, L)
    BY <1>6 DEF ExistsBijection
  <2> QED
    BY <1>2, <2>1, FS_Bijection
<1>8. Cardinality(L) = Len(b)
  BY ONLY <1>1, <1>2, <1>7
<1> QED
  BY ONLY <1>3, <1>8, Zenon

\* The boards of every season are kept, the current one and those that have ended.
SeasonInv == SeasonTypeOK /\ \A m \in 1..MaxSeasons : BoardKept(board[m], score[m])

LEMMA SeasonInitInv == SeasonInit => SeasonInv
<1> SUFFICES ASSUME SeasonInit PROVE SeasonInv
  OBVIOUS
<1> USE SeasonAssumption
<1>1. <<>> \in Seq(Entry) /\ Len(<<>>) = 0 /\ DOMAIN <<>> = {}
  OBVIOUS
<1>2. SeasonTypeOK
  <2>1. <<>> \in Seq(Traders \X (0..MaxScore))
    BY <1>1 DEF Entry
  <2>2. season \in 0..MaxSeasons /\ badges \subseteq Traders
    BY DEF SeasonInit
  <2>3. score \in [1..MaxSeasons -> [Traders -> 0..MaxScore]]
    BY DEF SeasonInit
  <2>4. board \in [1..MaxSeasons -> Seq(Traders \X (0..MaxScore))]
    <3>1. PICK S, e : S = Seq(Traders \X (0..MaxScore)) /\ e = <<>> /\ e \in S
      BY <2>1
    <3>2. board = [m \in 1..MaxSeasons |-> e]
      BY <3>1 DEF SeasonInit
    <3> QED
      BY ONLY <3>1, <3>2
  <2>5. ended \in BOOLEAN
    BY ONLY SeasonInit, Zenon DEF SeasonInit
  <2> QED
    BY ONLY <2>2, <2>3, <2>4, <2>5 DEF SeasonTypeOK
<1>3. ASSUME NEW m \in 1..MaxSeasons PROVE BoardKept(board[m], score[m])
  <2>1. board[m] = <<>> /\ \A u \in Traders : score[m][u] = 0
    BY DEF SeasonInit
  <2>2. 0 <= MaxLeaderboard
    OBVIOUS
  <2> QED
    BY <1>1, <2>1, <2>2 DEF BoardKept, InOrder
<1> QED
  BY <1>2, <1>3 DEF SeasonInv

LEMMA SeasonStep == ASSUME SeasonInv, [SeasonNext]_seasonVars PROVE SeasonInv'
<1> USE SeasonAssumption
<1>1. CASE StartSeason
  <2>1. season' \in 0..MaxSeasons
    BY <1>1 DEF StartSeason, SeasonInv, SeasonTypeOK
  <2>2. ended' \in BOOLEAN
    BY ONLY <1>1, Zenon DEF StartSeason
  <2> QED
    BY <1>1, <2>1, <2>2 DEF StartSeason, SeasonInv, SeasonTypeOK
<1>2. CASE EndSeason
  <2>1. season \in 1..MaxSeasons
    BY <1>2 DEF EndSeason, SeasonInv, SeasonTypeOK
  <2>2. PICK b : b = board[season] /\ b \in Seq(Entry)
    BY <2>1 DEF SeasonInv, SeasonTypeOK, Entry
  <2>3. \A i \in 1..Len(b) : b[i] \in Entry
    BY <2>2
  <2>4. \A i \in 1..Len(b) : b[i][1] \in Traders
    BY <2>3 DEF Entry
  <2>5. badges' \subseteq Traders
    BY <1>2, <2>2, <2>4 DEF EndSeason, SeasonInv, SeasonTypeOK
  <2> QED
    BY <1>2, <2>5 DEF EndSeason, SeasonInv, SeasonTypeOK
<1>3. ASSUME NEW u \in Traders, NEW volume_ \in Volumes, UpdateUserScore(u, volume_)
      PROVE  SeasonInv'
  <2>1. season \in 1..MaxSeasons /\ season \in Nat
    BY <1>3 DEF UpdateUserScore, SeasonInv, SeasonTypeOK
  <2>2. PICK scores : scores = score[season] /\ scores \in [Traders -> 0..MaxScore]
    BY <2>1 DEF SeasonInv, SeasonTypeOK
  <2>3. PICK s : s = scores[u] + volume_ /\ s \in 0..MaxScore /\ scores[u] <= s
    BY <1>3, <2>2 DEF UpdateUserScore
  <2>4. PICK now : now = [scores EXCEPT ![u] = s] /\ now \in [Traders -> 0..MaxScore]
    <3>1. [scores EXCEPT ![u] = s] \in [Traders -> 0..MaxScore]
      BY <2>2, <2>3
    <3> QED
      BY <3>1
  <2>5. PICK b : b = board[season] /\ BoardKept(b, scores)
    BY <2>1, <2>2 DEF SeasonInv
  <2>6. BoardKept(Ranked(b, u, s), now)
    BY <2>2, <2>3, <2>4, <2>5, RankedKept
  <2>7. PICK r : r = Ranked(b, u, s) /\ r \in Seq(Traders \X (0..MaxScore))
    BY <2>6 DEF BoardKept, InOrder, Entry
  <2>8. score' = [score EXCEPT ![season] = now]
    BY <1>3, <2>2, <2>3, <2>4 DEF UpdateUserScore
  <2>9. board' = [board EXCEPT ![season] = r]
    BY <1>3, <2>2, <2>3, <2>5, <2>7 DEF UpdateUserScore
  <2>10. SeasonTypeOK'
    BY <1>3, <2>1, <2>4, <2>7, <2>8, <2>9, SMTT(40) DEF UpdateUserScore, SeasonInv, SeasonTypeOK
  <2>11. ASSUME NEW m \in 1..MaxSeasons PROVE BoardKept(board'[m], score'[m])
    <3>1. CASE m = season
      <4>1. board'[m] = r /\ score'[m] = now
        BY <2>8, <2>9, <3>1 DEF SeasonInv, SeasonTypeOK
      <4> QED
        BY <2>6, <2>7, <4>1
    <3>2. CASE m # season
      <4>1. board'[m] = board[m] /\ score'[m] = score[m]
        BY <2>8, <2>9, <3>2 DEF SeasonInv, SeasonTypeOK
      <4> QED
        BY <4>1 DEF SeasonInv
    <3> QED
      BY <3>1, <3>2
  <2> QED
    BY <2>10, <2>11 DEF SeasonInv
<1>4. CASE UNCHANGED seasonVars
  BY <1>4 DEF seasonVars, SeasonInv, SeasonTypeOK
<1> QED
  BY <1>1, <1>2, <1>3, <1>4 DEF SeasonNext

LEMMA SeasonInvHolds == SeasonInv => BoardHoldsTheBest
<1> SUFFICES ASSUME SeasonInv PROVE BoardHoldsTheBest
  OBVIOUS
<1>1. SeasonTypeOK
  BY DEF SeasonInv
<1>2. ASSUME NEW m \in 1..MaxSeasons
      PROVE  /\ Cardinality(Listed(m)) = Len(board[m])
             /\ \A i \in DOMAIN board[m] :
                   /\ board[m][i][2] = score[m][board[m][i][1]]
                   /\ i > 1 => board[m][i - 1][2] >= board[m][i][2]
             /\ \A u \in Traders \ Listed(m) :
                   \/ score[m][u] = 0
                   \/ /\ Len(board[m]) = MaxLeaderboard
                      /\ score[m][u] <= board[m][MaxLeaderboard][2]
  <2>1. PICK b : b = board[m] /\ BoardKept(b, score[m])
    BY DEF SeasonInv
  <2>2. InOrder(b, score[m]) /\ Listed(m) = {b[i][1] : i \in DOMAIN b}
    BY <2>1 DEF BoardKept, Listed
  <2>3. Cardinality(Listed(m)) = Len(b)
    BY <2>2, AsManyListed DEF InOrder
  <2>4. ASSUME NEW i \in DOMAIN b
        PROVE  b[i][2] = score[m][b[i][1]] /\ (i > 1 => b[i - 1][2] >= b[i][2])
    <3>1. i > 1 => i - 1 \in DOMAIN b /\ i - 1 < i
      BY <2>2 DEF InOrder
    <3> QED
      BY <2>2, <3>1 DEF InOrder
  <2>5. ASSUME NEW u \in Traders \ Listed(m)
        PROVE  score[m][u] = 0 \/ (Len(b) = MaxLeaderboard /\ score[m][u] <= b[MaxLeaderboard][2])
    BY <2>1, <2>2 DEF BoardKept
  <2> QED
    BY <2>1, <2>3, <2>4, <2>5
<1> QED
  BY <1>1, <1>2 DEF BoardHoldsTheBest

\* In every state of the seasons of seasons.rs the board of every season lists an
\* account once, with the score it has, best first, and leaves out nobody who has
\* more than the last one on it (update_leaderboard, seasons.rs:115).
THEOREM BoardsHoldTheBest == SeasonSpec => []BoardHoldsTheBest
<1>1. SeasonInit => SeasonInv
  BY SeasonInitInv
<1>2. SeasonInv /\ [SeasonNext]_seasonVars => SeasonInv'
  BY SeasonStep
<1>3. SeasonInv => BoardHoldsTheBest
  BY SeasonInvHolds
<1> QED
  BY <1>1, <1>2, <1>3, PTL DEF SeasonSpec

-----------------------------------------------------------------------------
(* Congestion fees.  The history is a chain; trimming it, and cleaning it   *)
(* up by age since it is in order of time, leaves an end of it.             *)

LEMMA LevelBounds ==
  ASSUME NEW m \in Metrics
  PROVE  Level(m) \in 1..5
<1>1. /\ m.tps \in Nat /\ m.gas \in Nat /\ m.pending \in Nat /\ m.capacity \in Nat
  BY FeeAssumption
<1>2. \A part \in Int, whole \in Nat \ {0} : Percent(part, whole) \in 0..100
  BY DEF Percent, Lower, Higher
<1> DEFINE x == Percent(m.gas - 100, 4900)
           y == Percent(m.tps, 1000)
           z == Percent(m.pending, 10000)
           w == Lower(m.capacity, 100)
<1>3. x \in 0..100 /\ y \in 0..100 /\ z \in 0..100 /\ w \in 0..100
  <2>1. x \in 0..100
    BY <1>1, <1>2, SMTT(40)
  <2>2. y \in 0..100
    BY <1>1, <1>2, SMTT(40)
  <2>3. z \in 0..100
    BY <1>1, <1>2, SMTT(40)
  <2>4. w \in 0..100
    BY <1>1 DEF Lower
  <2> QED
    BY ONLY <2>1, <2>2, <2>3, <2>4
<1>4. Level(m) = LET score_ == (30 * x + 25 * y + 25 * z + 20 * w) \div 100
                 IN  CASE score_ <= 20 -> 1 [] score_ \in 21..40 -> 2 [] score_ \in 41..60 -> 3
                       [] score_ \in 61..80 -> 4 [] OTHER -> 5
  BY DEF Level
<1> HIDE DEF x, y, z, w
<1>5. PICK s \in Nat : s = (30 * x + 25 * y + 25 * z + 20 * w) \div 100
  BY <1>3
<1>6. Level(m) = CASE s <= 20 -> 1 [] s \in 21..40 -> 2 [] s \in 41..60 -> 3
                   [] s \in 61..80 -> 4 [] OTHER -> 5
  BY <1>5, <1>4
<1> QED
  BY <1>6

\* The fee an update computes: within the bounds of the configuration but where
\* these contradict each other, and within the emergency cap where that applies.
LEMMA AdjustedFeeBounds ==
  ASSUME FeeTypeOK, NEW m \in Metrics, NEW emergency \in BOOLEAN
  PROVE  /\ AdjustedFee(m, emergency) \in 0..Ceiling
         /\ emergency /\ feeConfig.overrideOn =>
              AdjustedFee(m, emergency) <= Higher(feeConfig.min, feeConfig.emergencyCap)
<1>1. PICK c : c = feeConfig /\ c \in FeeConfig /\ c.max <= Ceiling
  BY FeeAssumption DEF FeeTypeOK
<1>2. /\ c.base \in Nat /\ c.min \in Nat /\ c.max \in Nat /\ c.trendPct \in Nat
      /\ c.emergencyCap \in Nat /\ c.multiplier \in [1..5 -> Nat]
  BY <1>1 DEF FeeConfig
<1>3. PICK k \in Nat : k = c.multiplier[Level(m)]
  BY <1>2, LevelBounds
<1>4. PICK d \in Nat : d = TrendStep(c)
  <2>1. Lower(c.trendPct, 50) \in Nat
    BY <1>2 DEF Lower
  <2> QED
    BY <1>2, <2>1 DEF TrendStep
<1>5. PICK trend : trend = (IF c.trendOn THEN Trend(m) ELSE 0)
  OBVIOUS
<1>6. PICK factor \in Int :
        factor = CASE trend = 1 -> k + 5 [] trend = -1 -> Higher(0, k - 3) [] OTHER -> k
  BY DEF Higher
<1>7. PICK scaled \in Int : scaled = (c.base * factor) \div 100
  BY <1>2
<1>8. PICK moved \in Int :
        moved = CASE trend = 1 -> scaled + d [] trend = -1 -> Higher(0, scaled - d \div 2)
                  [] OTHER -> scaled
  BY DEF Higher
<1>9. PICK capped \in Int :
        capped = IF emergency /\ c.overrideOn THEN Lower(moved, c.emergencyCap) ELSE moved
  BY <1>2 DEF Lower
<1>10. AdjustedFee(m, emergency) = Lower(Higher(capped, c.min), c.max)
  BY ONLY <1>1, <1>3, <1>4, <1>5, <1>6, <1>7, <1>8, <1>9 DEF AdjustedFee
<1>11. Lower(Higher(capped, c.min), c.max) \in 0..Ceiling
  <2>1. Ceiling \in Nat
    BY <1>1, <1>2, FeeAssumption DEF Ceiling, Higher, FeeConfig
  <2> QED
    BY <1>1, <1>2, <2>1 DEF Lower, Higher
<1>12. ASSUME emergency, c.overrideOn
       PROVE  Lower(Higher(capped, c.min), c.max) <= Higher(c.min, c.emergencyCap)
  <2>1. capped <= c.emergencyCap
    BY <1>2, <1>9, <1>12 DEF Lower
  <2> QED
    BY <1>2, <2>1 DEF Lower, Higher
<1> QED
  BY <1>1, <1>10, <1>11, <1>12

\* A history that tells how the fee came to be f, and before it p, in order of time.
Chained(h) == /\ \A i \in 2..Len(h) : h[i].previous = h[i - 1].fee
              /\ \A i, j \in 1..Len(h) : i < j => h[i].at <= h[j].at

Tells(h, f, p) ==
  /\ Len(h) <= HistoryCap /\ Chained(h)
  /\ Len(h) > 0 => h[Len(h)].fee = f /\ h[Len(h)].previous = p

\* Its last entries tell the same.
LEMMA EndTells ==
  ASSUME NEW S, NEW h \in Seq(S), NEW f, NEW p, NEW k \in 1..(Len(h) + 1),
         NEW r \in Seq(S), Len(r) = Len(h) - k + 1,
         \A i \in 1..Len(r) : r[i] = h[k + i - 1], Chained(h),
         Len(h) > 0 => h[Len(h)].fee = f /\ h[Len(h)].previous = p,
         Len(r) <= HistoryCap
  PROVE  Tells(r, f, p)
<1>1. PICK n, l \in Nat : n = Len(h) /\ l = Len(r) /\ l = n - k + 1 /\ k \in 1..(n + 1)
  OBVIOUS
<1>2. ASSUME NEW i \in 2..l
      PROVE  r[i].previous = r[i - 1].fee
  <2>1. /\ k + i - 1 \in 2..n /\ i - 1 \in 1..l /\ i \in 1..l
        /\ k + (i - 1) - 1 = (k + i - 1) - 1
    BY <1>1
  <2>2. r[i] = h[k + i - 1] /\ r[i - 1] = h[(k + i - 1) - 1]
    BY <1>1, <2>1
  <2> QED
    BY <1>1, <2>1, <2>2 DEF Chained
<1>3. ASSUME l > 0 PROVE r[l] = h[n] /\ n > 0
  <2>1. l \in 1..l /\ k + l - 1 = n
    BY <1>1, <1>3
  <2>2. r[l] = h[k + l - 1]
    BY <1>1, <2>1
  <2> QED
    BY <1>1, <1>3, <2>1, <2>2
<1>4. ASSUME NEW i \in 1..l, NEW j \in 1..l, i < j PROVE r[i].at <= r[j].at
  <2>1. k + i - 1 \in 1..n /\ k + j - 1 \in 1..n /\ k + i - 1 < k + j - 1
    BY <1>1, <1>4
  <2>2. r[i] = h[k + i - 1] /\ r[j] = h[k + j - 1]
    BY <1>1
  <2> QED
    BY <1>1, <2>1, <2>2 DEF Chained
<1> QED
  BY <1>1, <1>2, <1>3, <1>4 DEF Tells, Chained

\* A change of the fee goes on the end of the chain.
LEMMA RecordedTells ==
  ASSUME FeeTypeOK, Tells(feeHistory, fee, prevFee), NEW new \in 0..Ceiling
  PROVE  Recorded(feeHistory, new) \in Seq(FeeEntry) /\ Tells(Recorded(feeHistory, new), new, fee)
<1> DEFINE e == [at |-> feeNow, fee |-> new, previous |-> fee]
           all == Append(feeHistory, e)
<1>1. PICK h : h = feeHistory /\ h \in Seq(FeeEntry)
  BY DEF FeeTypeOK
<1>2. e \in FeeEntry
  BY DEF FeeTypeOK, FeeEntry
<1>3. PICK x : x = e /\ x \in FeeEntry /\ x.at = feeNow /\ x.fee = new /\ x.previous = fee
  BY <1>2
<1>4. PICK a : a = all /\ a \in Seq(FeeEntry) /\ Len(a) = Len(h) + 1 /\ a[Len(h) + 1] = x
              /\ \A i \in 1..Len(h) : a[i] = h[i]
  <2>1. /\ Append(h, x) \in Seq(FeeEntry) /\ Len(Append(h, x)) = Len(h) + 1
        /\ Append(h, x)[Len(h) + 1] = x /\ \A i \in 1..Len(h) : Append(h, x)[i] = h[i]
    BY <1>1, <1>3, AppendProperties
  <2> QED
    BY <1>1, <1>3, <2>1
<1> HIDE DEF all, e
<1>5. PICK n \in Nat : n = Len(h) /\ Len(a) = n + 1
  BY <1>1, <1>4
<1>6. PICK k \in 1..(n + 1) : k = Higher(1, Len(a) - HistoryCap + 1)
  BY <1>5, FeeAssumption DEF Higher
<1>7. PICK r : r = SubSeq(a, k, Len(a))
  OBVIOUS
<1>8. r \in Seq(FeeEntry) /\ Len(r) = (n + 1) - k + 1 /\ \A i \in 1..Len(r) : r[i] = a[k + i - 1]
  <2>1. k \in Int /\ n + 1 \in Int /\ \A i \in k..(n + 1) : a[i] \in FeeEntry
    BY <1>4, <1>5, <1>6
  <2>2. /\ SubSeq(a, k, n + 1) \in Seq(FeeEntry)
        /\ Len(SubSeq(a, k, n + 1)) = IF k <= n + 1 THEN (n + 1) - k + 1 ELSE 0
        /\ \A i \in 1..((n + 1) - k + 1) : SubSeq(a, k, n + 1)[i] = a[k + i - 1]
    BY <2>1, SubSeqProperties
  <2>3. r = SubSeq(a, k, n + 1)
    BY <1>5, <1>7
  <2> QED
    BY <1>6, <2>2, <2>3, SMTT(40)
<1>9. Len(r) <= HistoryCap
  BY <1>5, <1>6, <1>8, FeeAssumption DEF Higher
<1>10. ASSUME NEW i \in 2..(n + 1)
       PROVE  a[i].previous = a[i - 1].fee
  <2>1. CASE i <= n
    <3>1. i \in 2..Len(h) /\ i \in 1..Len(h) /\ i - 1 \in 1..Len(h)
      BY <1>5, <2>1
    <3> QED
      BY <1>1, <1>4, <3>1 DEF Tells, Chained
  <2>2. CASE i = n + 1
    <3>1. n > 0 /\ n \in 1..Len(h) /\ i - 1 = n
      BY <1>5, <2>2
    <3>2. a[i] = x /\ a[i - 1] = h[n] /\ h[n].fee = fee
      BY <1>1, <1>4, <1>5, <2>2, <3>1 DEF Tells
    <3> QED
      BY <1>3, <3>2
  <2> QED
    BY <2>1, <2>2
<1>11. ASSUME NEW i \in 1..(n + 1), NEW j \in 1..(n + 1), i < j PROVE a[i].at <= a[j].at
  <2>1. i \in 1..Len(h) /\ a[i] = h[i]
    BY <1>4, <1>5, <1>11
  <2>2. CASE j <= n
    <3>1. j \in 1..Len(h) /\ a[j] = h[j]
      BY <1>4, <1>5, <2>2
    <3> QED
      BY <1>1, <1>11, <2>1, <3>1 DEF Tells, Chained
  <2>3. CASE j = n + 1
    <3>1. a[j] = x /\ h[i] \in FeeEntry
      BY <1>1, <1>4, <1>5, <2>1, <2>3
    <3> QED
      BY <1>3, <2>1, <3>1, SMTT(40) DEF FeeEntry, FeeTypeOK
  <2> QED
    BY <2>2, <2>3
<1>12. Tells(r, new, fee)
  <2>1. a[Len(a)].fee = new /\ a[Len(a)].previous = fee
    BY <1>3, <1>4
  <2>2. k \in 1..(Len(a) + 1) /\ Len(r) = Len(a) - k + 1
    BY <1>5, <1>6, <1>8
  <2>3. Chained(a)
    BY <1>5, <1>10, <1>11 DEF Chained
  <2> QED
    BY <1>4, <1>8, <1>9, <2>1, <2>2, <2>3, EndTells, ZenonT(60)
<1>13. Recorded(feeHistory, new) = r
  BY <1>4, <1>6, <1>7 DEF Recorded, all, e
<1> QED
  BY <1>8, <1>12, <1>13

\* The last members of 1..n, counted from the first of them.
LEMMA CountedFrom ==
  ASSUME NEW n \in Nat, NEW c \in 0..n, NEW k \in (c + 1)..n
  PROVE  Cardinality({j \in (c + 1)..n : j <= k}) = k - c
<1>1. {j \in (c + 1)..n : j <= k} = (c + 1)..k
  OBVIOUS
<1>2. c + 1 \in Int /\ k \in Int
  OBVIOUS
<1>3. Cardinality((c + 1)..k) = IF c + 1 > k THEN 0 ELSE k - (c + 1) + 1
  BY <1>2, FS_Interval
<1>4. Cardinality((c + 1)..k) = k - c
  BY <1>3
<1> QED
  BY ONLY <1>1, <1>4, Zenon

\* Cleaning up: as the history is in order of time, what is kept is an end of it.
LEMMA RetainedTells ==
  ASSUME FeeTypeOK, Tells(feeHistory, fee, prevFee), NEW since \in Nat
  PROVE  /\ Retained(feeHistory, since) \in Seq(FeeEntry)
         /\ Tells(Retained(feeHistory, since), fee, prevFee)
<1>1. PICK h : h = feeHistory /\ h \in Seq(FeeEntry) /\ Tells(h, fee, prevFee)
  BY DEF FeeTypeOK
<1>2. PICK n \in Nat : n = Len(h) /\ DOMAIN h = 1..n /\ \A i \in 1..n : h[i] \in FeeEntry
  BY <1>1
<1>3. \A i \in 1..n : h[i].at \in Nat
  BY <1>2 DEF FeeEntry
<1>4. \A i, j \in 1..n : i < j => h[i].at <= h[j].at
  BY <1>1, <1>2 DEF Tells, Chained
<1> DEFINE old == {i \in 1..n : h[i].at < since}
           kept == {i \in DOMAIN h : h[i].at >= since}
<1>5. PICK c \in 0..n : old = 1..c
  <2>1. old \in SUBSET (1..n) /\ \A i \in old : \A j \in 1..n : j < i => j \in old
    BY <1>3, <1>4
  <2> HIDE DEF old
  <2> QED
    BY <2>1, DownwardClosed
<1>6. PICK T : T = (c + 1)..n
  OBVIOUS
<1>7. kept = T
  <2>1. \A i \in 1..n : h[i].at < since <=> i <= c
    BY <1>5
  <2>2. \A i \in 1..n : h[i].at >= since <=> i > c
    BY <1>3, <2>1
  <2> QED
    BY <1>2, <1>6, <2>2
<1>8. Cardinality(T) = n - c
  <2>1. c + 1 \in Int /\ n \in Int
    OBVIOUS
  <2>2. Cardinality((c + 1)..n) = IF c + 1 > n THEN 0 ELSE n - (c + 1) + 1
    BY <2>1, FS_Interval
  <2> QED
    BY <1>6, <2>2
<1> DEFINE at(i) == CHOOSE k \in T : Cardinality({j \in T : j <= k}) = i
<1>9. Retained(h, since) = [i \in 1..(n - c) |-> h[at(i)]]
  <2>1. Retained(h, since) = [i \in 1..Cardinality(kept) |->
            h[CHOOSE k \in kept : Cardinality({j \in kept : j <= k}) = i]]
    BY ONLY Zenon DEF Retained
  <2> HIDE DEF kept
  <2>2. Retained(h, since) = [i \in 1..Cardinality(T) |->
            h[CHOOSE k \in T : Cardinality({j \in T : j <= k}) = i]]
    BY ONLY <1>7, <2>1
  <2>3. PICK s : s = Cardinality(T)
    OBVIOUS
  <2>4. s = n - c
    BY <1>8, <2>3
  <2> QED
    BY ONLY <2>2, <2>3, <2>4
<1>10. \A i \in 1..(n - c) : at(i) = c + i
  <2> SUFFICES ASSUME NEW i \in 1..(n - c) PROVE at(i) = c + i
    OBVIOUS
  <2>1. \A k \in T : Cardinality({j \in T : j <= k}) = k - c
    BY <1>6, CountedFrom
  <2>2. c + i \in T /\ (c + i) - c = i
    BY <1>6
  <2>3. \A k \in T : k - c = i => k = c + i
    BY <1>6
  <2> QED
    BY <2>1, <2>2, <2>3
<1> HIDE DEF at, old, kept
<1>11. PICK r : r = [i \in 1..(n - c) |-> h[c + i]]
  OBVIOUS
<1>12. Retained(h, since) = r
  BY <1>9, <1>10, <1>11
<1>13. \A i \in 1..(n - c) : c + i \in 1..n
  OBVIOUS
<1>14. /\ r \in Seq(FeeEntry) /\ Len(r) = n - c
       /\ \A i \in 1..Len(r) : r[i] = h[c + i]
  <2>1. r \in [1..(n - c) -> FeeEntry] /\ n - c \in Nat
    BY <1>2, <1>11, <1>13
  <2> QED
    BY <1>11, <2>1
<1>15. Tells(r, fee, prevFee)
  <2>1. PICK k : k = c + 1 /\ k \in 1..(Len(h) + 1)
    BY <1>2
  <2>2. Len(r) = Len(h) - k + 1 /\ \A i \in 1..Len(r) : r[i] = h[k + i - 1]
    <3>1. Len(r) = Len(h) - k + 1
      BY <1>2, <1>14, <2>1
    <3>2. ASSUME NEW i \in 1..Len(r) PROVE c + i = k + i - 1
      BY <1>2, <2>1
    <3> QED
      BY <1>14, <3>1, <3>2
  <2>3. /\ Chained(h) /\ Len(r) <= HistoryCap
        /\ Len(h) > 0 => h[Len(h)].fee = fee /\ h[Len(h)].previous = prevFee
    BY <1>1, <1>2, <1>14, FeeAssumption DEF Tells
  <2> QED
    BY <1>1, <1>14, <2>1, <2>2, <2>3, EndTells, ZenonT(60)
<1> QED
  BY <1>1, <1>12, <1>14, <1>15

\* The history is a chain, besides the types.
FeeInv == FeeTypeOK /\ Tells(feeHistory, fee, prevFee)

Overrides == [active : BOOLEAN, cap : Nat, until : 0..FeeEnd + AutoRecovery]

LEMMA OverridesTyped ==
  ASSUME FeeTypeOK
  PROVE  /\ \A cap \in Nat : Activated(cap) \in Overrides /\ Activated(cap).until > feeNow
         /\ Ended(override) \in Overrides /\ ~Ended(override).active
<1>1. feeNow \in 0..FeeEnd /\ override \in Overrides
  BY DEF FeeTypeOK, Overrides
<1>2. PICK t \in Nat : t = feeNow + AutoRecovery /\ t > feeNow /\ t \in 0..FeeEnd + AutoRecovery
  BY <1>1, FeeAssumption
<1>3. \A cap \in Nat : Activated(cap) = [active |-> TRUE, cap |-> cap, until |-> t]
  BY <1>2 DEF Activated
<1>4. 0 \in 0..FeeEnd + AutoRecovery
  BY FeeAssumption
<1>5. PICK no, z, T : no = FALSE /\ no \in BOOLEAN /\ z = 0 /\ T = 0..FeeEnd + AutoRecovery /\ z \in T
  BY <1>4
<1>6. override \in [active : BOOLEAN, cap : Nat, until : T]
  BY <1>1, <1>5 DEF Overrides
<1>7. /\ [override EXCEPT !.active = no, !.until = z] \in [active : BOOLEAN, cap : Nat, until : T]
      /\ [override EXCEPT !.active = no, !.until = z].active = no
  BY ONLY <1>5, <1>6
<1>8. Ended(override) \in Overrides /\ ~Ended(override).active
  <2>1. Ended(override) = [override EXCEPT !.active = no, !.until = z]
    BY ONLY <1>5 DEF Ended
  <2> QED
    BY ONLY <1>5, <1>7, <2>1 DEF Overrides
<1>9. ASSUME NEW cap \in Nat PROVE Activated(cap) \in Overrides /\ Activated(cap).until > feeNow
  <2>1. PICK yes \in BOOLEAN : yes = TRUE
    OBVIOUS
  <2>2. PICK a : a = [active |-> yes, cap |-> cap, until |-> t]
    OBVIOUS
  <2>3. a \in Overrides /\ a.until = t
    BY <1>2, <2>2 DEF Overrides
  <2>4. Activated(cap) = a
    BY ONLY <1>3, <2>1, <2>2
  <2> QED
    BY <1>2, <2>3, <2>4
<1> QED
  BY <1>8, <1>9

LEMMA OverrideAfterTyped ==
  ASSUME FeeTypeOK, NEW m \in Metrics
  PROVE  /\ OverrideAfter(m) \in Overrides /\ OverrideAfter(m).active \in BOOLEAN
         /\ OverrideAfter(m).active => feeNow < OverrideAfter(m).until
<1>1. feeNow \in 0..FeeEnd /\ override \in Overrides
  BY DEF FeeTypeOK, Overrides
<1>2. AutoCap(m) \in Nat
  BY DEF AutoCap
<1>3. PICK cap \in Nat : cap = AutoCap(m)
  BY <1>2
<1>4. PICK a : a = Activated(cap) /\ a \in Overrides /\ a.until > feeNow
  BY OverridesTyped
<1>5. PICK e : e = Ended(override) /\ e \in Overrides /\ ~e.active
  BY OverridesTyped
<1>6. OverrideAfter(m) = IF ~override.active /\ ShouldAutoTrigger(m) THEN a
                         ELSE IF override.active /\ feeNow >= override.until THEN e
                         ELSE override
  BY <1>3, <1>4, <1>5 DEF OverrideAfter
<1>7. override.active /\ ~(feeNow >= override.until) => feeNow < override.until
  BY <1>1, FeeAssumption DEF Overrides
<1>8. PICK o : o = OverrideAfter(m) /\ (o = a \/ o = e \/ (o = override /\ ~(o.active /\ feeNow >= o.until)))
  BY <1>6
<1>9. o \in Overrides /\ (o.active => feeNow < o.until)
  <2>1. CASE o = a
    BY <1>1, <1>4, <2>1 DEF Overrides
  <2>2. CASE o = e
    BY <1>5, <2>2
  <2>3. CASE o = override /\ ~(o.active /\ feeNow >= o.until)
    BY <1>1, <1>7, <2>3
  <2> QED
    BY <1>8, <2>1, <2>2, <2>3
<1> QED
  BY <1>8, <1>9 DEF Overrides

LEMMA FeeInitInv == FeeInit => FeeInv
<1> SUFFICES ASSUME FeeInit PROVE FeeInv
  OBVIOUS
<1>1. PICK b \in Nat : b = FirstConfig.base /\ b <= Ceiling /\ FirstConfig.max <= Ceiling
  <2>1. FirstConfig.base \in Nat /\ FirstConfig.max \in Nat
    BY FeeAssumption DEF FeeConfig
  <2> QED
    BY <2>1 DEF Ceiling, Higher
<1>2. feeNow = 0 /\ feeNow \in 0..FeeEnd /\ b \in 0..Ceiling
  <2>1. Ceiling \in Int
    BY <1>1, FeeAssumption DEF Ceiling, Higher, FeeConfig
  <2> QED
    BY <1>1, <2>1, FeeAssumption DEF FeeInit
<1>3. PICK e : e = [at |-> 0, fee |-> b, previous |-> b]
  OBVIOUS
<1>4. e \in FeeEntry /\ e.at = 0 /\ e.fee = b /\ e.previous = b
  BY <1>2, <1>3 DEF FeeEntry
<1>5. feeHistory = <<e>> /\ fee = b /\ prevFee = b
  BY <1>1, <1>3 DEF FeeInit
<1>6. <<e>> \in Seq(FeeEntry) /\ Len(<<e>>) = 1 /\ <<e>>[1] = e
  BY <1>4
<1>7. override \in [active : BOOLEAN, cap : Nat, until : 0..FeeEnd + AutoRecovery]
  BY FeeAssumption DEF FeeInit, NoOverride
<1>8. FeeTypeOK
  BY <1>1, <1>2, <1>5, <1>6, <1>7, FeeAssumption DEF FeeInit, FeeTypeOK
<1>9. Tells(<<e>>, b, b)
  BY <1>4, <1>6, FeeAssumption DEF Tells, Chained
<1> QED
  BY <1>5, <1>8, <1>9 DEF FeeInv

\* A fee that changes is recorded.
LEMMA ChangeRecorded ==
  ASSUME FeeInv, NEW new \in 0..Ceiling, ChangeFee(new)
  PROVE  /\ fee' \in 0..Ceiling /\ prevFee' \in 0..Ceiling
         /\ feeHistory' \in Seq(FeeEntry) /\ Tells(feeHistory', fee', prevFee')
<1>1. FeeTypeOK /\ Tells(feeHistory, fee, prevFee)
  BY DEF FeeInv
<1>2. PICK h : h = Recorded(feeHistory, new) /\ h \in Seq(FeeEntry) /\ Tells(h, new, fee)
  BY <1>1, RecordedTells
<1>3. fee' = new /\ prevFee' = fee /\ feeHistory' = h
  BY <1>2 DEF ChangeFee
<1> QED
  BY <1>1, <1>2, <1>3 DEF FeeTypeOK

LEMMA FeeUpdated ==
  ASSUME FeeInv, NEW m \in Metrics, UpdateFeesForCongestion(m)
  PROVE  /\ FeeInv'
         /\ override'.active =>
              /\ feeConfig.overrideOn => fee' <= Higher(feeConfig.min, feeConfig.emergencyCap)
              /\ feeNow < override'.until
<1>1. FeeTypeOK /\ Tells(feeHistory, fee, prevFee)
  BY DEF FeeInv
<1>2. PICK o : /\ o = OverrideAfter(m) /\ o \in Overrides /\ o.active \in BOOLEAN
               /\ o.active => feeNow < o.until
  BY <1>1, OverrideAfterTyped
<1>3. PICK new : /\ new = AdjustedFee(m, o.active) /\ new \in 0..Ceiling
                 /\ o.active /\ feeConfig.overrideOn =>
                      new <= Higher(feeConfig.min, feeConfig.emergencyCap)
  <2>1. PICK on \in BOOLEAN : on = o.active
    BY <1>2
  <2>2. /\ AdjustedFee(m, on) \in 0..Ceiling
        /\ on /\ feeConfig.overrideOn =>
             AdjustedFee(m, on) <= Higher(feeConfig.min, feeConfig.emergencyCap)
    BY <1>1, AdjustedFeeBounds
  <2> QED
    BY ONLY <2>1, <2>2
<1>4. /\ override' = o /\ prevMetrics' = m /\ lastUpdate' = feeNow
      /\ UNCHANGED <<feeConfig, emAdmins, feeNow>>
      /\ IF new = fee THEN UNCHANGED <<fee, prevFee, feeHistory>> ELSE ChangeFee(new)
  BY <1>2, <1>3 DEF UpdateFeesForCongestion
<1>5. fee' = new
  BY <1>4 DEF ChangeFee
<1>6. /\ fee' \in 0..Ceiling /\ prevFee' \in 0..Ceiling
      /\ feeHistory' \in Seq(FeeEntry) /\ Tells(feeHistory', fee', prevFee')
  <2>1. CASE new = fee
    <3>1. UNCHANGED <<fee, prevFee, feeHistory>>
      BY <1>4, <2>1
    <3> QED
      BY <1>1, <3>1 DEF FeeTypeOK
  <2>2. CASE new # fee
    <3>1. ChangeFee(new)
      BY <1>4, <2>2
    <3> QED
      BY <1>3, <3>1, ChangeRecorded
  <2> QED
    BY <2>1, <2>2
<1>7. FeeEntry' = FeeEntry
  BY <1>4 DEF FeeEntry
<1>8. /\ lastUpdate' \in 0..feeNow' /\ feeNow' \in 0..FeeEnd /\ feeConfig' \in FeeConfigs
      /\ feeConfig'.max <= Ceiling /\ emAdmins' \subseteq FeeAdmins
      /\ prevMetrics' \in Metrics \cup {NoMetrics}
  BY <1>1, <1>4 DEF FeeTypeOK
<1>9. override' \in [active : BOOLEAN, cap : Nat, until : 0..FeeEnd + AutoRecovery]
  BY <1>2, <1>4 DEF Overrides
<1>10. FeeTypeOK'
  BY ONLY <1>6, <1>7, <1>8, <1>9 DEF FeeTypeOK, Ceiling
<1> QED
  BY <1>2, <1>3, <1>4, <1>5, <1>6, <1>10 DEF FeeInv

LEMMA FeeStep == ASSUME FeeInv, [FeeNext]_feeVars PROVE FeeInv'
<1>1. FeeTypeOK /\ Tells(feeHistory, fee, prevFee)
  BY DEF FeeInv
<1>2. ASSUME NEW m \in Metrics, UpdateFeesForCongestion(m) PROVE FeeInv'
  BY <1>2, FeeUpdated
<1>3. ASSUME NEW new \in ManualFees, UpdateFeesManual(new) PROVE FeeInv'
  <2>1. new \in 0..Ceiling
    <3>1. feeConfig.min \in Nat /\ feeConfig.max \in Nat /\ feeConfig.max <= Ceiling /\ new \in Nat
      BY <1>1, FeeAssumption DEF FeeTypeOK, FeeConfig
    <3>2. Ceiling \in Int
      BY FeeAssumption DEF Ceiling, Higher, FeeConfig
    <3> QED
      BY <1>3, <3>1, <3>2 DEF UpdateFeesManual
  <2>2. ChangeFee(new) /\ UNCHANGED <<feeConfig, prevMetrics, lastUpdate, override, emAdmins, feeNow>>
    BY <1>3 DEF UpdateFeesManual
  <2>3. /\ fee' \in 0..Ceiling /\ prevFee' \in 0..Ceiling
        /\ feeHistory' \in Seq(FeeEntry) /\ Tells(feeHistory', fee', prevFee')
    BY <2>1, <2>2, ChangeRecorded
  <2>4. FeeEntry' = FeeEntry
    BY <2>2 DEF FeeEntry
  <2>5. FeeTypeOK'
    BY <1>1, <2>2, <2>3, <2>4 DEF FeeTypeOK, Ceiling
  <2> QED
    BY <2>3, <2>5 DEF FeeInv
<1>4. ASSUME NEW c \in FeeConfigs, UpdateConfig(c) PROVE FeeInv'
  <2>1. c.max <= Ceiling
    <3>1. c.max \in Nat /\ c.max <= 1000
      BY <1>4, FeeAssumption DEF UpdateConfig, FeeConfig
    <3> QED
      BY <3>1, FeeAssumption DEF Ceiling, Higher, FeeConfig
  <2> QED
    BY <1>1, <1>4, <2>1 DEF UpdateConfig, FeeInv, FeeTypeOK, FeeEntry, Ceiling
<1>5. ASSUME NEW o \in Overrides, override' = o,
             UNCHANGED <<feeConfig, fee, prevFee, prevMetrics, lastUpdate, emAdmins, feeHistory, feeNow>>
      PROVE  FeeInv'
  BY <1>1, <1>5 DEF FeeInv, FeeTypeOK, FeeEntry, Ceiling, Overrides
<1>6. ASSUME NEW a \in FeeAdmins, NEW cap \in Caps, ActivateEmergencyOverride(a, cap) PROVE FeeInv'
  <2>1. Activated(cap) \in Overrides
    BY <1>1, FeeAssumption, OverridesTyped
  <2> QED
    BY <1>5, <1>6, <2>1 DEF ActivateEmergencyOverride
<1>7. ASSUME NEW a \in FeeAdmins, DeactivateEmergencyOverride(a) PROVE FeeInv'
  <2>1. Ended(override) \in Overrides
    BY <1>1, OverridesTyped
  <2> QED
    BY <1>5, <1>7, <2>1 DEF DeactivateEmergencyOverride
<1>8. ASSUME NEW a \in FeeAdmins, NEW authorized \in BOOLEAN, SetEmergencyAdmin(a, authorized)
      PROVE  FeeInv'
  BY <1>1, <1>8 DEF SetEmergencyAdmin, FeeInv, FeeTypeOK, FeeEntry, Ceiling
<1>9. CASE CleanupOldHistory
  <2>1. PICK since \in Nat : since = Higher(0, feeNow - Retention)
    <3>1. feeNow - Retention \in Int
      BY <1>1, FeeAssumption DEF FeeTypeOK
    <3> QED
      BY <3>1 DEF Higher
  <2>2. PICK h : h = Retained(feeHistory, since) /\ h \in Seq(FeeEntry) /\ Tells(h, fee, prevFee)
    BY <1>1, RetainedTells
  <2>3. feeHistory' = h
    BY <1>9, <2>1, <2>2 DEF CleanupOldHistory
  <2>4. FeeEntry' = FeeEntry
    BY <1>9 DEF CleanupOldHistory, FeeEntry
  <2>5. FeeTypeOK'
    BY <1>1, <1>9, <2>2, <2>3, <2>4 DEF CleanupOldHistory, FeeTypeOK, Ceiling
  <2> QED
    BY <1>9, <2>2, <2>3, <2>5 DEF CleanupOldHistory, FeeInv
<1>10. CASE FeeTick
  <2>1. feeNow' \in 0..FeeEnd /\ feeNow \in 0..feeNow' /\ 0..feeNow \subseteq 0..feeNow'
    BY <1>1, <1>10, FeeAssumption DEF FeeTick, FeeTypeOK
  <2>2. feeHistory' \in Seq(FeeEntry')
    <3>1. FeeEntry \subseteq FeeEntry'
      BY <2>1 DEF FeeEntry, Ceiling
    <3>2. PICK S, R : S = FeeEntry /\ R = FeeEntry' /\ S \subseteq R
      BY <3>1
    <3>3. feeHistory \in Seq(S) /\ feeHistory' = feeHistory
      BY <1>1, <1>10, <3>2 DEF FeeTick, FeeTypeOK
    <3> QED
      BY <3>2, <3>3
  <2>3. FeeTypeOK'
    BY <1>1, <1>10, <2>1, <2>2 DEF FeeTick, FeeTypeOK, Ceiling
  <2> QED
    BY <1>1, <1>10, <2>3 DEF FeeTick, FeeInv
<1>11. CASE UNCHANGED feeVars
  BY <1>1, <1>11 DEF feeVars, FeeInv, FeeTypeOK, FeeEntry, Ceiling
<1> QED
  BY <1>2, <1>3, <1>4, <1>6, <1>7, <1>8, <1>9, <1>10, <1>11 DEF FeeNext

LEMMA FeeInvTells == FeeInv => FeeTypeOK /\ FeeHistoryTells
<1> SUFFICES ASSUME FeeInv PROVE FeeTypeOK /\ FeeHistoryTells
  OBVIOUS
<1>1. FeeTypeOK /\ Tells(feeHistory, fee, prevFee)
  BY DEF FeeInv
<1>2. PICK h, n : /\ h = feeHistory /\ h \in Seq(FeeEntry) /\ Tells(h, fee, prevFee)
                  /\ n = Len(h) /\ n \in Nat
  BY <1>1 DEF FeeTypeOK
<1>3. ASSUME NEW i \in 2..n
      PROVE  h[i].previous = h[i - 1].fee /\ h[i].at >= h[i - 1].at
  <2>1. i - 1 \in 1..n /\ i \in 1..n /\ i - 1 < i
    BY <1>2
  <2>2. h[i].previous = h[i - 1].fee /\ h[i - 1].at <= h[i].at
    BY <1>2, <2>1 DEF Tells, Chained
  <2>3. h[i] \in FeeEntry /\ h[i - 1] \in FeeEntry
    BY <1>2, <2>1
  <2>4. h[i].at \in Nat /\ h[i - 1].at \in Nat
    BY <2>3 DEF FeeEntry
  <2> QED
    BY <2>2, <2>4
<1>4. ASSUME h # <<>> PROVE Last(h).fee = fee /\ Last(h).previous = prevFee
  <2>1. n > 0
    BY <1>2, <1>4
  <2> QED
    BY <1>2, <2>1 DEF Tells, Last
<1>5. Len(h) <= HistoryCap
  BY <1>2 DEF Tells
<1> QED
  BY <1>1, <1>2, <1>3, <1>4, <1>5 DEF FeeHistoryTells

\* In every run of the fee manager the history of fees is one chain that ends with
\* the fee in force, and an override holds while it lasts and not longer
\* (fee_adjustment_manager.rs:130, emergency_override.rs, fee_history.rs:120).
THEOREM FeesKept == FeeSpec => FeesSound
<1> DEFINE Held == (\E m \in Metrics : UpdateFeesForCongestion(m)) /\ override'.active
                   => /\ feeConfig.overrideOn => fee' <= Higher(feeConfig.min, feeConfig.emergencyCap)
                      /\ feeNow < override'.until
<1>1. FeeInit => FeeInv
  BY FeeInitInv
<1>2. FeeInv /\ [FeeNext]_feeVars => FeeInv'
  BY FeeStep
<1>3. FeeInv => FeeTypeOK /\ FeeHistoryTells
  BY FeeInvTells
<1>4. FeeInv /\ [FeeNext]_feeVars => [Held]_feeVars
  BY FeeUpdated
<1> HIDE DEF Held
<1>5. FeeSpec => [](FeeTypeOK /\ FeeHistoryTells) /\ [][Held]_feeVars
  BY <1>1, <1>2, <1>3, <1>4, PTL DEF FeeSpec
<1> QED
  BY <1>5, PTL DEF FeesSound, OverrideHolds, Held

-----------------------------------------------------------------------------
(* The volume breaker.  What a narrower window leaves out, the sum over a   *)
(* still narrower one does not miss.                                        *)

\* What one entry adds to the sum.
Weight(e, t) == IF e[1] >= t THEN e[2] ELSE 0

LEMMA EntryAppended ==
  ASSUME NEW S, NEW s \in Seq(S), NEW e \in S
  PROVE  /\ Append(s, e) \in Seq(S) /\ Len(s) \in Nat /\ Len(Append(s, e)) = Len(s) + 1
         /\ Append(s, e)[Len(s) + 1] = e
         /\ \A i \in 1..Len(s) : Append(s, e)[i] = s[i]
<1>1. Append(s, e) \in Seq(S) /\ Len(s) \in Nat
  OBVIOUS
<1>2. Len(Append(s, e)) = Len(s) + 1 /\ Append(s, e)[Len(s) + 1] = e
  OBVIOUS
<1>3. \A i \in 1..Len(s) : Append(s, e)[i] = s[i]
  BY <1>1
<1> QED
  BY <1>1, <1>2, <1>3, Zenon

\* An entry added to a list adds its weight to what was recorded since a time.
LEMMA SinceAppended ==
  ASSUME NEW s \in Seq(Nat \X Nat), NEW e \in Nat \X Nat, NEW t \in Int
  PROVE  /\ Supply(Since(Append(s, e), t)) = Supply(Since(s, t)) + Weight(e, t)
         /\ Weight(e, t) \in Nat /\ Supply(Since(s, t)) \in Nat
<1>1. PICK n \in Nat : n = Len(s)
  OBVIOUS
<1>2. PICK r \in Seq(Nat \X Nat) : r = Append(s, e)
  BY EntryAppended
<1>3. Len(r) = n + 1 /\ r[n + 1] = e /\ \A i \in 1..n : r[i] = s[i]
  BY <1>1, <1>2, EntryAppended
<1>4. /\ \A i \in 1..n : s[i] \in Nat \X Nat
      /\ \A i \in 1..(n + 1) : r[i] \in Nat \X Nat
  <2>1. \A i \in 1..n : s[i] \in Nat \X Nat
    BY <1>1
  <2>2. \A i \in 1..Len(r) : r[i] \in Nat \X Nat
    OBVIOUS
  <2> QED
    BY <1>3, <2>1, <2>2
<1>5. PICK f \in [1..n -> Nat] : f = Since(s, t)
  BY <1>1, <1>4 DEF Since
<1>6. PICK g \in [1..(n + 1) -> Nat] : g = Since(r, t)
  BY <1>3, <1>4 DEF Since
<1>7. (\A i \in 1..n : g[i] = f[i]) /\ g[n + 1] = Weight(e, t)
  <2>1. \A i \in 1..n : f[i] = Weight(s[i], t)
    BY <1>1, <1>5 DEF Since, Weight
  <2>2. \A i \in 1..(n + 1) : g[i] = Weight(r[i], t)
    BY <1>3, <1>6 DEF Since, Weight
  <2>3. n + 1 \in 1..(n + 1) /\ \A i \in 1..n : i \in 1..(n + 1)
    OBVIOUS
  <2> QED
    BY <1>3, <2>1, <2>2, <2>3, Zenon
<1>8. Supply(g) = Supply(f) + g[n + 1] /\ Supply(f) \in Nat
  BY <1>7, SumAppended
<1>9. Weight(e, t) \in Nat
  BY DEF Weight
<1> QED
  BY <1>2, <1>5, <1>6, <1>7, <1>8, <1>9

\* The loop over the entries ends, and says what it is meant to.
LEMMA KeptDefined ==
  ASSUME NEW t, Len(entries) \in Nat
  PROVE  \E L : /\ L[0] = <<>> /\ Kept(t) = L[Len(entries)]
                /\ \A i \in 1..Len(entries) :
                     L[i] = IF entries[i][1] >= t THEN Append(L[i - 1], entries[i]) ELSE L[i - 1]
<1> DEFINE Next(i, f) == IF entries[i][1] >= t THEN Append(f, entries[i]) ELSE f
           Settles(n) == \E f : f = [i \in 0..n |-> IF i = 0 THEN <<>> ELSE Next(i, f[i - 1])]
           Bad == { n \in Nat : ~ Settles(n) }
<1> HIDE DEF Next
<1>1. Settles(0)
  <2> DEFINE f == [i \in 0..0 |-> <<>>]
  <2>1. f = [i \in 0..0 |-> IF i = 0 THEN <<>> ELSE Next(i, f[i - 1])]
    OBVIOUS
  <2> QED
    BY <2>1
<1>2. ASSUME NEW n \in Nat, Settles(n) PROVE Settles(n + 1)
  <2>1. PICK g : g = [i \in 0..n |-> IF i = 0 THEN <<>> ELSE Next(i, g[i - 1])]
    BY <1>2
  <2> DEFINE last == Next(n + 1, g[n])
             f == [i \in 0..(n + 1) |-> IF i = n + 1 THEN last ELSE g[i]]
  <2>2. g[0] = <<>> /\ \A i \in 1..n : g[i] = Next(i, g[i - 1])
    BY <2>1
  <2>3. \A i \in 0..n : f[i] = g[i]
    OBVIOUS
  <2>4. f[n + 1] = last /\ f[n] = g[n]
    OBVIOUS
  <2>5. \A i \in 0..(n + 1) : f[i] = IF i = 0 THEN <<>> ELSE Next(i, f[i - 1])
    <3> SUFFICES ASSUME NEW i \in 0..(n + 1)
                 PROVE  f[i] = IF i = 0 THEN <<>> ELSE Next(i, f[i - 1])
      OBVIOUS
    <3>1. CASE i = 0
      BY <2>2, <2>3, <3>1
    <3>2. CASE i \in 1..n
      <4>1. i - 1 \in 0..n /\ i \in 0..n
        BY <3>2
      <4> HIDE DEF f
      <4> QED
        BY <2>2, <2>3, <3>2, <4>1
    <3>3. CASE i = n + 1
      <4>1. i - 1 = n /\ i # 0
        BY <3>3
      <4> HIDE DEF f
      <4> QED
        BY <2>4, <3>3, <4>1
    <3> QED
      BY <3>1, <3>2, <3>3
  <2>6. f = [i \in 0..(n + 1) |-> f[i]]
    OBVIOUS
  <2> HIDE DEF f
  <2>7. f = [i \in 0..(n + 1) |-> IF i = 0 THEN <<>> ELSE Next(i, f[i - 1])]
    BY <2>5, <2>6
  <2> QED
    BY <2>7
<1>3. Settles(Len(entries))
  <2> SUFFICES ASSUME Len(entries) \in Bad PROVE FALSE
    OBVIOUS
  <2>1. PICK n \in Bad : \A k \in Bad : n <= k
    <3>1. Bad \in SUBSET Nat
      OBVIOUS
    <3> HIDE DEF Bad
    <3> QED
      BY <3>1, LeastMember
  <2>2. n \in Nat /\ n # 0
    BY <1>1
  <2>3. n - 1 \in Nat /\ n - 1 \notin Bad
    <3>1. n - 1 \in Nat /\ ~(n <= n - 1)
      BY <2>2
    <3> HIDE DEF Bad
    <3> QED
      BY <2>1, <3>1
  <2>4. Settles(n - 1)
    BY <2>3
  <2>5. (n - 1) + 1 = n
    BY <2>2
  <2> HIDE DEF Settles
  <2>6. Settles((n - 1) + 1)
    BY <1>2, <2>3, <2>4
  <2> QED
    BY <2>5, <2>6
<1> DEFINE L == CHOOSE f : f = [i \in 0..Len(entries) |-> IF i = 0 THEN <<>>
                                  ELSE Next(i, f[i - 1])]
<1>4. Kept(t) = L[Len(entries)]
  BY DEF Kept, Next
<1>5. L = [i \in 0..Len(entries) |-> IF i = 0 THEN <<>> ELSE Next(i, L[i - 1])]
  BY <1>3
<1> HIDE DEF L
<1>6. L[0] = <<>> /\ \A i \in 1..Len(entries) : L[i] = Next(i, L[i - 1])
  BY <1>5
<1> QED
  BY <1>4, <1>6 DEF Next

\* What is dropped is no part of any sum over a time after the cut.
LEMMA KeptSums ==
  ASSUME NEW E, E \subseteq Nat \X Nat, entries \in Seq(E), NEW t \in Int
  PROVE  /\ Kept(t) \in Seq(E)
         /\ \A c \in Int : c >= t => Supply(Since(Kept(t), c)) = Supply(Since(entries, c))
<1>1. PICK n \in Nat : n = Len(entries)
  OBVIOUS
<1>2. PICK L : /\ L[0] = <<>> /\ Kept(t) = L[n]
               /\ \A i \in 1..n :
                    L[i] = IF entries[i][1] >= t THEN Append(L[i - 1], entries[i]) ELSE L[i - 1]
  <2>1. Len(entries) \in Nat
    BY <1>1
  <2>2. \E L : /\ L[0] = <<>> /\ Kept(t) = L[Len(entries)]
               /\ \A i \in 1..Len(entries) :
                    L[i] = IF entries[i][1] >= t THEN Append(L[i - 1], entries[i]) ELSE L[i - 1]
    BY <2>1, KeptDefined, SMTT(40)
  <2> QED
    BY <1>1, <2>2
<1> DEFINE Upto(i, c) == [j \in 1..i |-> IF entries[j][1] >= c THEN entries[j][2] ELSE 0]
           Good(i) == /\ L[i] \in Seq(E)
                      /\ \A c \in Int : c >= t => Supply(Since(L[i], c)) = Supply(Upto(i, c))
           Bad == { i \in 0..n : ~ Good(i) }
<1>3. \A i \in 1..n : entries[i] \in E /\ entries[i] \in Nat \X Nat
  BY <1>1
<1>4. Good(0)
  <2>1. L[0] \in Seq(E) /\ Len(L[0]) = 0
    BY <1>2
  <2>2. \A c : Since(L[0], c) = Upto(0, c)
    BY <1>2, <2>1 DEF Since
  <2> QED
    BY <2>1, <2>2
<1>5. ASSUME NEW i \in 1..n, Good(i - 1) PROVE Good(i)
  <2>0. i - 1 \in Nat /\ (i - 1) + 1 = i
    OBVIOUS
  <2>1. L[i - 1] \in Seq(E)
    BY <1>5
  <2>2. L[i] = IF entries[i][1] >= t THEN Append(L[i - 1], entries[i]) ELSE L[i - 1]
    BY <1>2
  <2>3. L[i] \in Seq(E)
    BY <1>3, <2>1, <2>2
  <2>4. ASSUME NEW c \in Int, c >= t
        PROVE  Supply(Since(L[i], c)) = Supply(Upto(i, c))
    <3>1. /\ Supply(Since(Append(L[i - 1], entries[i]), c))
               = Supply(Since(L[i - 1], c)) + Weight(entries[i], c)
          /\ Supply(Since(L[i - 1], c)) \in Nat
      <4>1. L[i - 1] \in Seq(Nat \X Nat) /\ entries[i] \in Nat \X Nat
        BY <1>3, <2>1
      <4> QED
        BY <4>1, SinceAppended
    <3>2. entries[i][1] < t => Weight(entries[i], c) = 0
      BY <1>3, <2>4 DEF Weight
    <3>3. Supply(Upto(i, c)) = Supply(Upto(i - 1, c)) + Weight(entries[i], c)
      <4>1. PICK m \in Nat : m = i - 1
        BY <2>0
      <4>a. \A j \in 1..(m + 1) : entries[j][1] \in Nat /\ entries[j][2] \in Nat
        <5>1. \A j \in 1..(m + 1) : j \in 1..n
          BY <4>1
        <5> QED
          BY <1>3, <5>1
      <4>b. \A j \in 1..m : entries[j][1] \in Nat /\ entries[j][2] \in Nat
        BY <4>a
      <4>2. PICK f \in [1..m -> Nat] : f = Upto(m, c)
        BY <4>b
      <4>3. PICK g \in [1..(m + 1) -> Nat] : g = Upto(m + 1, c)
        BY <4>a
      <4>4. (\A j \in 1..m : g[j] = f[j]) /\ g[m + 1] = Weight(entries[i], c)
        <5>1. \A j \in 1..m : j \in 1..(m + 1)
          OBVIOUS
        <5>2. \A j \in 1..m : g[j] = f[j]
          BY <4>2, <4>3, <5>1
        <5>3. m + 1 \in 1..(m + 1) /\ i = m + 1
          BY <2>0, <4>1
        <5>4. g[m + 1] = Weight(entries[m + 1], c)
          BY <4>3, <5>3 DEF Weight
        <5> QED
          BY <5>2, <5>3, <5>4
      <4>5. Supply(g) = Supply(f) + g[m + 1]
        BY <4>4, SumAppended
      <4> QED
        BY <2>0, <4>1, <4>2, <4>3, <4>4, <4>5
    <3>4. Supply(Since(L[i - 1], c)) = Supply(Upto(i - 1, c))
      BY <1>5, <2>4
    <3> HIDE DEF Upto
    <3>5. CASE entries[i][1] >= t
      BY <2>2, <3>1, <3>3, <3>4, <3>5
    <3>6. CASE ~(entries[i][1] >= t)
      <4>1. Weight(entries[i], c) = 0
        BY <1>3, <3>2, <3>6
      <4> QED
        BY <2>2, <3>1, <3>3, <3>4, <3>6, <4>1
    <3> QED
      BY <3>5, <3>6
  <2> QED
    BY <2>3, <2>4
<1>6. Good(n)
  <2> SUFFICES ASSUME n \in Bad PROVE FALSE
    OBVIOUS
  <2>1. PICK m \in Bad : \A k \in Bad : m <= k
    <3>1. Bad \in SUBSET Nat
      OBVIOUS
    <3> HIDE DEF Bad
    <3> QED
      BY <3>1, LeastMember
  <2>2. m \in 0..n /\ ~ Good(m)
    OBVIOUS
  <2> HIDE DEF Good
  <2>3. m # 0
    BY <1>4, <2>2
  <2>4. m \in 1..n /\ m - 1 \in 0..n /\ ~(m <= m - 1)
    BY <2>2, <2>3
  <2>5. Good(m - 1)
    <3>1. m - 1 \notin Bad
      BY <2>1, <2>4
    <3> QED
      BY <2>4, <3>1
  <2> QED
    BY <1>5, <2>2, <2>4, <2>5
<1>7. \A c : Upto(n, c) = Since(entries, c)
  BY <1>1 DEF Since
<1> QED
  BY <1>2, <1>6, <1>7

\* The later the time, the less was recorded since.
LEMMA SinceShrinks ==
  ASSUME NEW s \in Seq(Nat \X Nat), NEW t \in Int, NEW c \in Int, t <= c
  PROVE  Supply(Since(s, c)) <= Supply(Since(s, t))
<1>1. PICK n \in Nat : n = Len(s)
  OBVIOUS
<1>2. IsFiniteSet(1..n)
  BY FS_Interval
<1>3. \A i \in 1..n : s[i] \in Nat \X Nat
  BY <1>1
<1>4. PICK f \in [1..n -> Nat] : f = Since(s, c)
  BY <1>1, <1>3 DEF Since
<1>5. PICK g \in [1..n -> Nat] : g = Since(s, t)
  BY <1>1, <1>3 DEF Since
<1>6. ASSUME NEW i \in 1..n PROVE f[i] <= g[i]
  <2>1. s[i][1] \in Nat /\ s[i][2] \in Nat
    BY <1>3
  <2>2. f[i] = IF s[i][1] >= c THEN s[i][2] ELSE 0
    BY <1>1, <1>4 DEF Since
  <2>3. g[i] = IF s[i][1] >= t THEN s[i][2] ELSE 0
    BY <1>1, <1>5 DEF Since
  <2>4. PICK a \in Nat, b \in Nat : a = s[i][1] /\ b = s[i][2]
    BY <2>1
  <2>5. (f[i] = IF a >= c THEN b ELSE 0) /\ (g[i] = IF a >= t THEN b ELSE 0)
    BY <2>2, <2>3, <2>4
  <2>6. a >= c => a >= t
    OBVIOUS
  <2> QED
    BY <2>5, <2>6
<1> QED
  BY <1>2, <1>4, <1>5, <1>6, SupplyMonotone

\* The strengthening: since any time within the narrowest window, the entries that
\* are kept add up to all that was recorded.
BreakerInv ==
    /\ BreakerTypeOK
    /\ narrowest \in Nat /\ narrowest <= threshold.window
    /\ \A t \in Int : t >= breakerNow - narrowest =>
         Supply(Since(entries, t)) = Supply(Since(recorded, t))

LEMMA BreakerInvNext ==
  BreakerInv' <=>
    /\ BreakerTypeOK'
    /\ narrowest' \in Nat /\ narrowest' <= threshold'.window
    /\ \A t \in Int : t >= breakerNow' - narrowest' =>
         Supply(Since(entries', t)) = Supply(Since(recorded', t))
BY DEF BreakerInv, Since, Supply, Units

\* One check keeps it, and says whether the threshold is passed.
LEMMA CheckKeepsWindow ==
  ASSUME BreakerInv, NEW amount \in VolumeAmounts, CheckAndRecordVolume(amount)
  PROVE  /\ BreakerInv'
         /\ ~breakerTripped' /\ threshold.max > 0
            => Volume(recorded', narrowest) <= threshold.max
<1> USE BreakerAssumption
<1>1. PICK E : E = (0..breakerNow) \X VolumeAmounts
  OBVIOUS
<1>2. PICK e : e = <<breakerNow, amount>>
  OBVIOUS
<1>3. /\ breakerNow \in Nat /\ threshold.window \in Nat /\ threshold.max \in Int
      /\ narrowest \in Nat /\ narrowest <= threshold.window
      /\ E \subseteq Nat \X Nat /\ e \in E /\ entries \in Seq(E) /\ recorded \in Seq(E)
  <2>1. /\ breakerNow \in 0..BreakerEnd /\ threshold \in [window : Nat, max : Int]
        /\ narrowest \in Nat /\ narrowest <= threshold.window
    BY DEF BreakerInv, BreakerTypeOK
  <2>2. entries \in Seq(E) /\ recorded \in Seq(E)
    BY <1>1 DEF BreakerInv, BreakerTypeOK
  <2>3. breakerNow \in Nat /\ breakerNow \in 0..breakerNow
    BY <2>1
  <2>4. VolumeAmounts \subseteq Nat /\ 0..breakerNow \subseteq Nat
    BY <2>3, BreakerAssumption
  <2>5. E \subseteq Nat \X Nat
    BY <1>1, <2>4
  <2>6. e \in E
    BY <1>1, <1>2, <2>3
  <2> QED
    BY <2>1, <2>2, <2>3, <2>5, <2>6
<1>4. /\ breakerNow \in Nat /\ threshold.window \in Nat /\ threshold.max \in Int
      /\ narrowest \in Nat /\ narrowest <= threshold.window
  BY <1>3
<1>5. PICK cut \in Int : cut = breakerNow - threshold.window
  BY <1>4
<1>6. PICK kept : kept = Kept(cut)
  OBVIOUS
<1>7. /\ kept \in Seq(E)
      /\ \A t \in Int : t >= cut => Supply(Since(kept, t)) = Supply(Since(entries, t))
  BY <1>3, <1>6, KeptSums
<1>8. /\ entries' = Append(kept, e) /\ recorded' = Append(recorded, e)
      /\ UNCHANGED <<threshold, narrowest, breakerNow>>
      /\ breakerTripped' = (Supply(Since(Append(kept, e), cut)) > threshold.max /\ threshold.max > 0)
      /\ breakerPaused' \in BOOLEAN /\ breakerTripped' \in BOOLEAN
  BY <1>2, <1>5, <1>6 DEF CheckAndRecordVolume, Pruned, Volume, BreakerInv, BreakerTypeOK
<1>9. entries' \in Seq(E) /\ recorded' \in Seq(E)
  BY <1>3, <1>7, <1>8
<1>10. BreakerTypeOK'
  BY <1>1, <1>8, <1>9 DEF BreakerInv, BreakerTypeOK
<1>11. ASSUME NEW t \in Int, t >= breakerNow - narrowest
       PROVE  Supply(Since(entries', t)) = Supply(Since(recorded', t))
  <2>1. t >= cut
    BY <1>4, <1>5, <1>11
  <2>2. Supply(Since(kept, t)) = Supply(Since(recorded, t))
    BY <1>7, <1>11, <2>1 DEF BreakerInv
  <2>3. /\ Supply(Since(Append(kept, e), t)) = Supply(Since(kept, t)) + Weight(e, t)
        /\ Supply(Since(Append(recorded, e), t)) = Supply(Since(recorded, t)) + Weight(e, t)
    <3>1. E \subseteq Nat \X Nat /\ e \in E /\ kept \in Seq(E) /\ recorded \in Seq(E)
      BY <1>3, <1>7
    <3>2. e \in Nat \X Nat
      BY <3>1
    <3>3. kept \in Seq(Nat \X Nat) /\ recorded \in Seq(Nat \X Nat)
      BY <3>1
    <3> QED
      BY <3>2, <3>3, SinceAppended
  <2> QED
    BY <1>8, <2>2, <2>3
<1>12. BreakerInv'
  BY <1>3, <1>8, <1>10, <1>11, BreakerInvNext
<1>13. ASSUME ~breakerTripped', threshold.max > 0
       PROVE  Volume(recorded', narrowest) <= threshold.max
  <2>1. PICK t \in Int : t = breakerNow - narrowest /\ cut <= t
    BY <1>4, <1>5
  <2>2. Volume(recorded', narrowest) = Supply(Since(entries', t))
    BY <1>11, <2>1 DEF Volume
  <2>3. entries' \in Seq(Nat \X Nat)
    BY <1>3, <1>9
  <2>4. Supply(Since(entries', t)) <= Supply(Since(entries', cut))
    BY <2>1, <2>3, SinceShrinks
  <2>5. Supply(Since(entries', t)) \in Nat /\ Supply(Since(entries', cut)) \in Nat
    BY <2>3, <1>3, SinceAppended
  <2>6. Supply(Since(entries', cut)) <= threshold.max
    <3>1. ~(Supply(Since(Append(kept, e), cut)) > threshold.max)
      BY <1>8, <1>13, Zenon
    <3>2. ~(Supply(Since(entries', cut)) > threshold.max)
      BY <1>8, <3>1, Zenon
    <3> QED
      BY <1>4, <2>5, <3>2
  <2> QED
    BY <1>4, <2>2, <2>4, <2>5, <2>6
<1> QED
  BY <1>12, <1>13

LEMMA BreakerStep ==
  ASSUME BreakerInv, [BreakerNext]_breakerVars
  PROVE  /\ BreakerInv'
         /\ recorded' # recorded /\ recorded' # <<>> /\ ~breakerTripped' /\ threshold.max > 0
            => Volume(recorded', narrowest) <= threshold.max
<1> USE BreakerAssumption
<1>1. PICK E : E = (0..breakerNow) \X VolumeAmounts
  OBVIOUS
<1>2. /\ breakerNow \in 0..BreakerEnd /\ threshold \in [window : Nat, max : Int]
      /\ narrowest \in Nat /\ narrowest <= threshold.window
      /\ breakerTripped \in BOOLEAN /\ breakerPaused \in BOOLEAN
      /\ entries \in Seq(E) /\ recorded \in Seq(E)
  BY <1>1 DEF BreakerInv, BreakerTypeOK
<1>3. ASSUME NEW t \in Thresholds, SetThreshold(t)
      PROVE  BreakerInv' /\ recorded' = recorded
  <2>1. /\ threshold' = t /\ narrowest' = Least(narrowest, t.window) /\ t.window \in Nat
        /\ UNCHANGED <<entries, breakerTripped, breakerPaused, recorded, breakerNow>>
    BY <1>3 DEF SetThreshold
  <2>2. narrowest' \in Nat /\ narrowest' <= narrowest /\ narrowest' <= threshold'.window
    BY <1>2, <2>1 DEF Least
  <2>3. BreakerTypeOK'
    BY <2>1 DEF BreakerInv, BreakerTypeOK
  <2>4. \A c \in Int : c >= breakerNow - narrowest' => c >= breakerNow - narrowest
    <3>1. \A b \in Int, m \in Int, k \in Int, c \in Int :
             k <= m /\ c >= b - k => c >= b - m
      OBVIOUS
    <3>2. PICK b \in Int, m \in Int, k \in Int : b = breakerNow /\ m = narrowest /\ k = narrowest'
      BY <1>2, <2>2
    <3> QED
      BY <2>2, <3>1, <3>2
  <2> QED
    BY <2>1, <2>2, <2>3, <2>4, BreakerInvNext DEF BreakerInv
<1>4. CASE ResetBreaker
  <2>1. /\ entries' = <<>> /\ recorded' = <<>> /\ narrowest' = threshold.window
        /\ breakerTripped' = FALSE /\ breakerPaused' = FALSE
        /\ UNCHANGED <<threshold, breakerNow>>
    BY <1>4 DEF ResetBreaker
  <2>2. BreakerTypeOK'
    <3>1. \A S : <<>> \in Seq(S)
      OBVIOUS
    <3> QED
      BY <1>2, <2>1, <3>1 DEF BreakerInv, BreakerTypeOK
  <2>3. BreakerInv'
    BY <1>2, <2>1, <2>2, BreakerInvNext
  <2> QED
    BY <2>1, <2>3
<1>5. CASE BreakerTick
  <2>1. /\ breakerNow' = breakerNow + 1 /\ breakerNow < BreakerEnd
        /\ UNCHANGED <<threshold, entries, breakerTripped, breakerPaused, recorded, narrowest>>
    BY <1>5 DEF BreakerTick
  <2>2. PICK F : F = (0..(breakerNow + 1)) \X VolumeAmounts
    OBVIOUS
  <2>3. E \subseteq F
    BY <1>1, <1>2, <2>2
  <2>4. entries \in Seq(F) /\ recorded \in Seq(F)
    BY <1>2, <2>3
  <2>5. BreakerTypeOK'
    BY <1>2, <2>1, <2>2, <2>4 DEF BreakerInv, BreakerTypeOK
  <2>6. \A c \in Int : c >= breakerNow' - narrowest => c >= breakerNow - narrowest
    BY <1>2, <2>1
  <2>7. BreakerInv'
    BY <2>1, <2>5, <2>6, BreakerInvNext DEF BreakerInv
  <2> QED
    BY <2>1, <2>7
<1>6. CASE UNCHANGED breakerVars
  <2>1. UNCHANGED <<threshold, entries, breakerTripped, breakerPaused, recorded, narrowest,
                    breakerNow>>
    BY <1>6 DEF breakerVars
  <2>3. BreakerTypeOK'
    BY <2>1 DEF BreakerInv, BreakerTypeOK
  <2>2. BreakerInv'
    BY <2>1, <2>3, BreakerInvNext DEF BreakerInv
  <2> QED
    BY <2>1, <2>2
<1>7. ASSUME NEW amount \in VolumeAmounts, CheckAndRecordVolume(amount)
      PROVE  /\ BreakerInv'
             /\ ~breakerTripped' /\ threshold.max > 0
                => Volume(recorded', narrowest) <= threshold.max
  BY <1>7, CheckKeepsWindow
<1> QED
  BY <1>3, <1>4, <1>5, <1>6, <1>7 DEF BreakerNext

\* For any thresholds and windows, and however they are changed between checks: a
\* volume that does not trip the breaker leaves no more than the threshold within any
\* window that was in force all along.
THEOREM BreakerKeepsThreshold == BreakerSpec => VolumeWithinThreshold
<1> DEFINE Within == recorded' # recorded /\ recorded' # <<>> /\ ~breakerTripped'
                       /\ threshold.max > 0
                     => Volume(recorded', narrowest) <= threshold.max
<1>1. BreakerInit => BreakerInv
  <2> SUFFICES ASSUME BreakerInit PROVE BreakerInv
    OBVIOUS
  <2>1. /\ threshold = DefaultThreshold /\ narrowest = DefaultThreshold.window
        /\ entries = <<>> /\ recorded = <<>> /\ breakerNow = 0
        /\ breakerTripped = FALSE /\ breakerPaused = FALSE
    BY DEF BreakerInit
  <2>2. DefaultThreshold \in Thresholds /\ DefaultThreshold.window \in Nat /\ BreakerEnd \in Nat
    BY BreakerAssumption
  <2>3. \A S : <<>> \in Seq(S)
    OBVIOUS
  <2>5. breakerNow \in 0..BreakerEnd
    BY <2>1, <2>2
  <2>6. threshold \in Thresholds /\ breakerTripped \in BOOLEAN /\ breakerPaused \in BOOLEAN
    BY <2>1, <2>2
  <2>7. /\ entries \in Seq((0..breakerNow) \X VolumeAmounts)
        /\ recorded \in Seq((0..breakerNow) \X VolumeAmounts)
    BY <2>1, <2>3
  <2>4. BreakerTypeOK
    BY <2>5, <2>6, <2>7 DEF BreakerTypeOK
  <2> QED
    BY <2>1, <2>2, <2>4 DEF BreakerInv
<1>2. BreakerInv /\ [BreakerNext]_breakerVars => BreakerInv'
  BY BreakerStep
<1>3. BreakerInv /\ [BreakerNext]_breakerVars => [Within]_breakerVars
  BY BreakerStep
<1>4. BreakerInv => BreakerTypeOK
  BY DEF BreakerInv
<1> QED
  BY <1>1, <1>2, <1>3, <1>4, PTL DEF BreakerSpec, VolumeWithinThreshold
=============================================================================
