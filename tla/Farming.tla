------------------------------ MODULE Farming ------------------------------
\* Liquidity mining (counter/src/farming.rs): LP tokens staked in a farm pool
\* earn an emission, divided by an accumulator of rewards per share. Pools share
\* no state but a grand total nothing reads, so one pool is modelled. A call
\* that returns an error leaves no trace: the ledger rolls it back.
EXTENDS Ledger

CONSTANTS
    Farmers,        \* accounts that stake
    StakeAmounts,   \* amounts of LP tokens they stake and take back
    MinStake,       \* MIN_STAKE_AMOUNT
    Emissions,      \* emission rates the admin sets
    Scale,          \* SCALE_FACTOR
    FarmEnd,        \* exploration bound on the ledger time
    MaxStaked       \* exploration bound on the tokens staked

ASSUME FarmAssumption == /\ IsFiniteSet(Farmers)
                         /\ StakeAmounts \subseteq Nat \ {0}
                         /\ Emissions \subseteq Nat
                         /\ Scale \in Nat \ {0}
                         /\ FarmEnd \in Nat

VARIABLES
    farmPool,       \* PoolFarmState
    position,       \* UserFarmPosition of every account
    farmPaid,       \* what claim_farm_rewards has returned to each account
    emitted,        \* what the rates in force have promised while tokens were staked
    farmNow         \* ledger time

farmVars == <<farmPool, position, farmPaid, emitted, farmNow>>

\* The accumulator moved on to the present time.
Accrued(p) ==
    IF p.total_staked = 0 \/ p.rate = 0
    THEN [p EXCEPT !.last = farmNow]
    ELSE LET fresh == (farmNow - p.last) * p.rate
         IN  [p EXCEPT !.acc = @ + (fresh * Scale) \div p.total_staked,
                       !.last = farmNow, !.distributed = @ + fresh]

Unsettled(p, u) == ((p.acc - position[u].debt) * position[u].staked) \div Scale

\* A position brought up to the accumulator: update_user_position.
Settled(p, u) ==
    [position[u] EXCEPT !.pending = @ + Unsettled(p, u), !.debt = p.acc]

FarmInit ==
    /\ farmPool = [total_staked |-> 0, acc |-> 0, rate |-> 0, last |-> 0, distributed |-> 0]
    /\ position = [u \in Farmers |-> [staked |-> 0, pending |-> 0, debt |-> 0]]
    /\ farmPaid = [u \in Farmers |-> 0]
    /\ emitted = 0
    /\ farmNow = 0

StakeLp(u, amount) ==
    LET p == Accrued(farmPool) IN
    /\ amount >= MinStake /\ farmPool.total_staked + amount <= MaxStaked
    /\ farmPool' = [p EXCEPT !.total_staked = @ + amount]
    /\ position' = [position EXCEPT ![u] = [Settled(p, u) EXCEPT !.staked = @ + amount]]
    /\ UNCHANGED <<farmPaid, emitted, farmNow>>

UnstakeLp(u, amount) ==
    LET p == Accrued(farmPool) IN
    /\ position[u].staked >= amount
    /\ farmPool' = [p EXCEPT !.total_staked = @ - amount]
    /\ position' = [position EXCEPT ![u] = [Settled(p, u) EXCEPT !.staked = @ - amount]]
    /\ UNCHANGED <<farmPaid, emitted, farmNow>>

ClaimFarmRewards(u) ==
    LET p == Accrued(farmPool)
        due == Settled(p, u).pending
    IN  /\ due > 0
        /\ farmPool' = p
        /\ position' = [position EXCEPT ![u] = [Settled(p, u) EXCEPT !.pending = 0]]
        /\ farmPaid' = [farmPaid EXCEPT ![u] = @ + due]
        /\ UNCHANGED <<emitted, farmNow>>

\* The getter of the pending rewards settles the position it reports.
GetPendingFarmRewards(u) ==
    LET p == Accrued(farmPool) IN
    /\ farmPool' = p
    /\ position' = [position EXCEPT ![u] = Settled(p, u)]
    /\ UNCHANGED <<farmPaid, emitted, farmNow>>

\* Variant with a fault: the new rate is stored before the time so far is settled.
SetEmissionRateAtOnce(rate) ==
    /\ farmPool' = [farmPool EXCEPT !.rate = rate]
    /\ UNCHANGED <<position, farmPaid, emitted, farmNow>>

SetFarmEmissionRate(rate) ==
    /\ farmPool' = [Accrued(farmPool) EXCEPT !.rate = rate]
    /\ UNCHANGED <<position, farmPaid, emitted, farmNow>>

FarmTick ==
    /\ farmNow < FarmEnd
    /\ farmNow' = farmNow + 1
    /\ emitted' = emitted + (IF farmPool.total_staked > 0 THEN farmPool.rate ELSE 0)
    /\ UNCHANGED <<farmPool, position, farmPaid>>

FarmNext ==
    \/ \E u \in Farmers :
          \/ \E amount \in StakeAmounts : StakeLp(u, amount) \/ UnstakeLp(u, amount)
          \/ ClaimFarmRewards(u)
          \/ GetPendingFarmRewards(u)
    \/ \E rate \in Emissions : SetFarmEmissionRate(rate)
    \/ FarmTick

FarmSpec == FarmInit /\ [][FarmNext]_farmVars

----------------------------------------------------------------------------
StakedBy == [u \in Farmers |-> position[u].staked]
Owed(u) == farmPaid[u] + position[u].pending + Unsettled(Accrued(farmPool), u)
AllOwed == [u \in Farmers |-> Owed(u)]

FarmTypeOK ==
    /\ farmPool \in [total_staked : Nat, acc : Nat, rate : Emissions \cup {0},
                     last : 0..FarmEnd, distributed : Nat]
    /\ position \in [Farmers -> [staked : Nat, pending : Nat, debt : Nat]]
    /\ farmPaid \in [Farmers -> Nat]
    /\ emitted \in Nat /\ farmNow \in 0..FarmEnd

\* What the accounts have been paid and could still claim never exceeds what the
\* emission rates promised second by second while anything was staked, whatever
\* the order of stakes, withdrawals, claims and changes of the rate; and the
\* pool's total is the sum of the positions (farming.rs:92 and 153).
RewardsBacked ==
    /\ FarmTypeOK
    /\ farmPool.total_staked = Supply(StakedBy)
    /\ Supply(AllOwed) <= emitted
=============================================================================
