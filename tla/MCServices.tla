------------------------------ MODULE MCServices ------------------------------
(* The contract's services that keep their own storage, one per behaviour: they  *)
(* share nothing, so what one does is the same whatever the others do.           *)
EXTENDS Staking, Orders, Farming, Referral, Seasons, Fees, Oracle, Alerts, VolumeBreaker

VARIABLE part    \* the service that moves

\* Two of the four durations, with times in units of the distribution period:
\* the short one locks as long as the holding period.
MCTierSecs == [d \in {30, 60} |-> IF d = 30 THEN 2 ELSE 4]
MCTierBps == [d \in {30, 60} |-> IF d = 30 THEN 10 ELSE 24]

-----------------------------------------------------------------------------
\* A calm, a busy and an overloaded network; two configurations with the
\* multipliers of the code, the trend on, and an emergency cap between the limits.
Sample(tps, gas, pending, capacity) ==
  [tps |-> tps, gas |-> gas, pending |-> pending, capacity |-> capacity]

MCMetrics ==
  { Sample(100, 100, 100, 10), Sample(700, 3000, 6000, 80), Sample(1000, 7000, 20000, 99) }

Config(base, least, most) ==
  [ base |-> base, min |-> least, max |-> most,
    multiplier |-> <<80, 90, 100, 150, 250>>, trendOn |-> TRUE, trendPct |-> 20,
    cooldown |-> 1, overrideOn |-> TRUE, emergencyCap |-> 120 ]

MCFirstConfig == Config(50, 10, 500)
MCConfigs == { MCFirstConfig, Config(100, 60, 200) }

\* A price above a target, a change of the portfolio of 5%, a signal; and what
\* each of them sees.
MCKinds ==
  { [what |-> "above", of |-> "XLM", at |-> 5], [what |-> "change", at |-> 500],
    [what |-> "signal", of |-> "XLM", at |-> "spike"] }
MCEvents ==
  { [what |-> "price", of |-> "XLM", at |-> 5], [what |-> "portfolio", at |-> 95, was |-> 100],
    [what |-> "signal", of |-> "XLM", at |-> "spike"] }

MCDefaultThreshold == [window |-> 2, max |-> 5]
MCThresholds ==
  { MCDefaultThreshold, [window |-> 1, max |-> 3], [window |-> 1, max |-> 0] }

-----------------------------------------------------------------------------
vars == <<part, stakingVars, orderVars, farmVars, referralVars, seasonVars, feeVars,
          oracleVars, alertVars, breakerVars>>

Init ==
  /\ part \in { "staking", "orders", "farming", "referral", "seasons", "fees", "oracle",
                "alerts", "breaker" }
  /\ StakingInit /\ OrderInit /\ FarmInit /\ ReferralInit /\ SeasonInit /\ FeeInit
  /\ OracleInit /\ AlertInit /\ BreakerInit

Idle(service, v) == IF part = service THEN TRUE ELSE UNCHANGED v

Next ==
  /\ \/ part = "staking" /\ StakingNext
     \/ part = "orders" /\ OrderNext
     \/ part = "farming" /\ FarmNext
     \/ part = "referral" /\ ReferralNext
     \/ part = "seasons" /\ SeasonNext
     \/ part = "fees" /\ FeeNext
     \/ part = "oracle" /\ OracleNext
     \/ part = "alerts" /\ AlertNext
     \/ part = "breaker" /\ BreakerNext
  /\ UNCHANGED part
  /\ Idle("staking", stakingVars) /\ Idle("orders", orderVars)
  /\ Idle("farming", farmVars) /\ Idle("referral", referralVars)
  /\ Idle("seasons", seasonVars) /\ Idle("fees", feeVars)
  /\ Idle("oracle", oracleVars) /\ Idle("alerts", alertVars)
  /\ Idle("breaker", breakerVars)

Spec == Init /\ [][Next]_vars

=============================================================================
