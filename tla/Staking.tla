------------------------------ MODULE Staking ------------------------------
(* Staking with duration bonuses (counter/src/staking_bonus.rs): stakes,    *)
(* early and regular withdrawal, bonus claims after the holding period, and *)
(* the periodic distribution.  Each action is one contract invocation.      *)
(*                                                                          *)
(* The staker registry, to which a user's first stake adds him and from     *)
(* which nobody is removed, is the set Stakers.  Sums over stakes and users *)
(* are Supply of module Ledger.                                             *)
EXTENDS Ledger, Sequences

CONSTANTS
  Users,
  Days,                \* the accepted durations: 30, 60, 90 and 365 days
  TierSecs, TierBps,   \* lock time and bonus of each duration
  Principals,          \* amounts staked
  Bps,                 \* 10000, the denominator of a bonus
  PenaltyPct,          \* 10, the percentage an early withdrawal costs
  HoldingPeriod,       \* BONUS_HOLDING_PERIOD_SECS
  DistributionPeriod,  \* DISTRIBUTION_PERIOD_SECS
  StakingEnd,          \* bound: last ledger timestamp explored
  MaxStakes,           \* bound: stakes of all users together
  MaxDistributions     \* bound: distributions explored

ASSUME StakingAssumption ==
  /\ IsFiniteSet(Users)
  /\ TierSecs \in [Days -> Nat] /\ TierBps \in [Days -> Nat]
  /\ Principals \subseteq Nat
  /\ Bps \in Nat \ {0}
  /\ PenaltyPct \in 0..100
  /\ HoldingPeriod \in Nat /\ DistributionPeriod \in Nat
  /\ StakingEnd \in Nat /\ MaxStakes \in Nat /\ MaxDistributions \in Nat

VARIABLES
  stakes,            \* UserStakes(user); stake_id is the position
  userStaked,        \* UserTotalStaked(user)
  totalStaked,       \* TotalStaked
  claimed,           \* UserClaimedBonuses(user)
  totalClaimed,      \* TotalBonusesDistributed
  earned,            \* UserEarnedBonuses(user)
  distributions,     \* DistributionRecords
  lastDistribution,  \* LastDistributionTime
  returned,          \* what withdrawals paid back to each user so far
  stakingNow                \* env.ledger().timestamp()

staked == <<stakes, userStaked, totalStaked, returned>>
bonuses == <<claimed, totalClaimed>>
rounds == <<earned, distributions, lastDistribution>>
stakingVars == <<stakes, userStaked, totalStaked, claimed, totalClaimed, earned,
          distributions, lastDistribution, returned, stakingNow>>

-----------------------------------------------------------------------------
(* Stakes *)

StakeRecord ==
  [ amount : Nat, stakedAt : Nat, unlockAt : Nat, bonus : Nat,
    bonusClaimed : BOOLEAN, claimableAt : Nat, active : BOOLEAN ]

DistributionRecord == [ at : Nat, total : Nat, recipients : Nat ]

NewStake(amount, d) ==
  [ amount |-> amount,
    stakedAt |-> stakingNow,
    unlockAt |-> stakingNow + TierSecs[d],
    bonus |-> (amount * TierBps[d]) \div Bps,
    bonusClaimed |-> FALSE,
    claimableAt |-> stakingNow + HoldingPeriod,
    active |-> TRUE ]

\* Mutant: a bonus paid twice.
ClaimableAgain(s) == s.active /\ stakingNow >= s.claimableAt /\ s.bonus > 0
Claimable(s) ==
  /\ ~s.bonusClaimed
  /\ s.active
  /\ stakingNow >= s.claimableAt
  /\ s.bonus > 0

\* What a distribution credits again and again until the bonus is claimed.
Accruing(s) == s.active /\ ~s.bonusClaimed

\* The bonuses of a list that a claim pays, and those a distribution credits.
ClaimableBonuses(list) == [i \in DOMAIN list |-> IF Claimable(list[i]) THEN list[i].bonus ELSE 0]
AccruingBonuses(list) == [i \in DOMAIN list |-> IF Accruing(list[i]) THEN list[i].bonus ELSE 0]

Penalty(s) == (s.amount * PenaltyPct) \div 100

\* Both withdrawals: the stake is closed, the totals lose its amount, the user
\* is paid.
Withdrawn(u, id, paid) ==
  /\ stakes' = [stakes EXCEPT ![u][id].active = FALSE]
  /\ userStaked' = [userStaked EXCEPT ![u] = @ - stakes[u][id].amount]
  /\ totalStaked' = totalStaked - stakes[u][id].amount
  /\ returned' = [returned EXCEPT ![u] = @ + paid]

\* The getter adds up the stakes and does not read UserEarnedBonuses.
GetUserEarnedBonuses(u) ==
  Supply([i \in DOMAIN stakes[u] |-> IF stakes[u][i].active THEN stakes[u][i].bonus ELSE 0])

Stakers == { u \in Users : stakes[u] # <<>> }

-----------------------------------------------------------------------------
(* Operations *)

Stake(u, amount, d) ==
  /\ amount > 0
  /\ Supply([v \in Users |-> Len(stakes[v])]) < MaxStakes
  /\ stakes' = [stakes EXCEPT ![u] = Append(@, NewStake(amount, d))]
  /\ userStaked' = [userStaked EXCEPT ![u] = @ + amount]
  /\ totalStaked' = totalStaked + amount
  /\ UNCHANGED <<returned, bonuses, rounds, stakingNow>>

UnstakeEarly(u, id) ==
  /\ stakes[u][id].active
  /\ Withdrawn(u, id, stakes[u][id].amount - Penalty(stakes[u][id]))
  /\ UNCHANGED <<bonuses, rounds, stakingNow>>

ClaimStake(u, id) ==
  /\ stakes[u][id].active
  /\ stakingNow >= stakes[u][id].unlockAt
  /\ Withdrawn(u, id, stakes[u][id].amount)
  /\ UNCHANGED <<bonuses, rounds, stakingNow>>

\* A list of stakes whose claimable bonuses are marked as claimed.
Collected(list) ==
  [i \in DOMAIN list |-> [list[i] EXCEPT !.bonusClaimed = @ \/ Claimable(list[i])]]

ClaimBonuses(u) ==
  LET total == Supply(ClaimableBonuses(stakes[u]))
  IN /\ total # 0
     /\ stakes' = [stakes EXCEPT ![u] = Collected(stakes[u])]
     /\ claimed' = [claimed EXCEPT ![u] = @ + total]
     /\ totalClaimed' = totalClaimed + total
     /\ UNCHANGED <<userStaked, totalStaked, returned, rounds, stakingNow>>

\* What the next distribution gives each staker.
AccruedBy(u) == Supply(AccruingBonuses(stakes[u]))

DistributionDue == stakingNow >= lastDistribution + DistributionPeriod
Credited(u) == earned[u] + AccruedBy(u)

ExecuteDistribution ==
  /\ DistributionDue
  /\ Len(distributions) < MaxDistributions
  /\ earned' = [u \in Users |-> Credited(u)]
  /\ distributions' = Append(distributions,
       [ at |-> stakingNow,
         total |-> Supply([u \in Stakers |-> AccruedBy(u)]),
         recipients |-> Cardinality({ u \in Stakers : AccruedBy(u) > 0 }) ])
  /\ lastDistribution' = stakingNow
  /\ UNCHANGED <<staked, bonuses, stakingNow>>

StakingTick ==
  /\ stakingNow < StakingEnd
  /\ stakingNow' = stakingNow + 1
  /\ UNCHANGED <<staked, bonuses, rounds>>

StakingInit ==
  /\ stakes = [u \in Users |-> <<>>]
  /\ userStaked = [u \in Users |-> 0] /\ totalStaked = 0
  /\ claimed = [u \in Users |-> 0] /\ totalClaimed = 0
  /\ earned = [u \in Users |-> 0]
  /\ distributions = <<>> /\ lastDistribution = 0
  /\ returned = [u \in Users |-> 0]
  /\ stakingNow = 0

StakingNext ==
  \/ \E u \in Users, amount \in Principals, d \in Days : Stake(u, amount, d)
  \/ \E u \in Users : \E id \in DOMAIN stakes[u] : UnstakeEarly(u, id)
  \/ \E u \in Users : \E id \in DOMAIN stakes[u] : ClaimStake(u, id)
  \/ \E u \in Users : ClaimBonuses(u)
  \/ ExecuteDistribution
  \/ StakingTick

StakingSpec == StakingInit /\ [][StakingNext]_stakingVars

-----------------------------------------------------------------------------
(* Properties *)

\* Type invariant; no total and no balance goes below zero.
StakingTypeOK ==
  /\ stakes \in [Users -> Seq(StakeRecord)]
  /\ userStaked \in [Users -> Nat] /\ totalStaked \in Nat
  /\ claimed \in [Users -> Nat] /\ totalClaimed \in Nat
  /\ earned \in [Users -> Nat]
  /\ distributions \in Seq(DistributionRecord) /\ lastDistribution \in Nat
  /\ returned \in [Users -> Nat]
  /\ stakingNow \in Nat

\* The amounts and bonuses of a list of stakes by what has become of them.
ActiveAmounts(list) == [i \in DOMAIN list |-> IF list[i].active THEN list[i].amount ELSE 0]
ClosedAmounts(list) == [i \in DOMAIN list |-> IF list[i].active THEN 0 ELSE list[i].amount]
ClaimedBonuses(list) == [i \in DOMAIN list |-> IF list[i].bonusClaimed THEN list[i].bonus ELSE 0]

\* The totals kept beside the stakes agree with them after any sequence of
\* stakes and withdrawals: they count the active stakes, in full.
TotalsAgree ==
  /\ \A u \in Users : userStaked[u] = Supply(ActiveAmounts(stakes[u]))
  /\ totalStaked = Supply(userStaked)

\* Nobody is paid more than the stakes he closed: a stake is paid out once, by
\* one of the two withdrawals.
PrincipalReturnedOnce ==
  \A u \in Users : returned[u] <= Supply(ClosedAmounts(stakes[u]))

\* Every bonus is paid at most once and after the holding period only, in
\* whatever order the user stakes, claims and withdraws, and both totals count
\* what was paid.
BonusPaidOnce ==
  /\ \A u \in Users : claimed[u] = Supply(ClaimedBonuses(stakes[u]))
  /\ totalClaimed = Supply(claimed)
  /\ \A u \in Users : \A id \in DOMAIN stakes[u] :
       stakes[u][id].bonusClaimed => stakingNow >= stakes[u][id].stakedAt + HoldingPeriod

\* A withdrawn stake is final: no bonus is paid for it any more.
WithdrawnIsFinal ==
  [][\A u \in Users : \A id \in DOMAIN stakes[u] :
       ~stakes[u][id].active => stakes'[u][id] = stakes[u][id]]_stakes

\* The history of distributions accounts for what the users have earned.
EarnedOnRecord ==
  Supply(earned) = Supply([i \in DOMAIN distributions |-> distributions[i].total])

\* After any sequence of stakes, claims, withdrawals and distributions the totals
\* are those of the stakes, principal and bonus are paid once, and the history
\* accounts for the credits (staking_bonus.rs:300, 350, 537).
StakingSound ==
  StakingTypeOK /\ TotalsAgree /\ PrincipalReturnedOnce /\ BonusPaidOnce /\ EarnedOnRecord

-----------------------------------------------------------------------------
(* What the comments say and the code does not do (violation runs)          *)

\* The two readings of "earned bonuses" agree: what distributions have credited
\* to a user who never withdrew is within what get_user_earned_bonuses, the
\* "total earned bonuses for a user", reports.
EarnedAsReported ==
  \A u \in Users :
    (\A id \in DOMAIN stakes[u] : stakes[u][id].active)
      => earned[u] <= GetUserEarnedBonuses(u)

=============================================================================
