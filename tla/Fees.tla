-------------------------------- MODULE Fees --------------------------------
\* Trading fees that follow the network (counter/src/fee_adjustment_manager.rs
\* with dynamic_fee_adjustment.rs, emergency_override.rs, network_congestion.rs
\* and fee_history.rs): an update turns metrics into a fee, starts and ends the
\* emergency override, and writes the history of fees. The caller is asked to
\* check that the admin of a manual call is one.
EXTENDS Integers, SequencesExt

CONSTANTS
    Metrics,         \* samples of the network: [tps, gas, pending, capacity]
    NoMetrics,       \* no sample yet
    FeeConfigs,      \* configurations an admin may set: FeeAdjustmentConfig
    FirstConfig,     \* the one the system is initialized with
    ManualFees,      \* fees an admin sets by hand
    Caps,            \* fee caps an admin gives an override
    FeeAdmins,       \* accounts that may be authorized for overrides
    AutoRecovery,    \* AUTO_RECOVERY_TIMEOUT
    Retention,       \* retention period of a cleanup
    HistoryCap,      \* MAX_HISTORY_ENTRIES
    FeeEnd           \* exploration bound on the ledger time

FeeConfig == [ base : Nat, min : Nat, max : Nat, multiplier : [1..5 -> Nat],
               trendOn : BOOLEAN, trendPct : Nat, cooldown : Nat, overrideOn : BOOLEAN,
               emergencyCap : Nat ]

\* The first configuration is taken as it is given.
ASSUME FeeAssumption ==
    /\ FeeConfigs \subseteq FeeConfig /\ FirstConfig \in FeeConfigs
    /\ Metrics \subseteq [tps : Nat, gas : Nat, pending : Nat, capacity : Nat]
    /\ NoMetrics \notin Metrics
    /\ ManualFees \subseteq Nat /\ Caps \subseteq Nat
    /\ AutoRecovery \in Nat \ {0} /\ Retention \in Nat
    /\ HistoryCap \in Nat \ {0} /\ FeeEnd \in Nat

VARIABLES
    feeConfig,       \* FEE_CONFIG_KEY
    fee,             \* CURRENT_FEE_KEY
    prevFee,         \* PREVIOUS_FEE_KEY
    prevMetrics,     \* PREVIOUS_METRICS_KEY
    lastUpdate,      \* time of the last automatic update
    override,        \* EmergencyOverrideState
    emAdmins,        \* AUTHORIZED_ADMINS_KEY
    feeHistory,      \* HISTORY_LOG_KEY, oldest first
    feeNow           \* ledger time

feeVars == <<feeConfig, fee, prevFee, prevMetrics, lastUpdate, override, emAdmins,
             feeHistory, feeNow>>

Lower(x, y) == IF x < y THEN x ELSE y
Higher(x, y) == IF x < y THEN y ELSE x
Percent(part, whole) == Lower(100, (Higher(0, part) * 100) \div whole)

\* Congestion from 1 (VeryLow) to 5 (Critical), by the weighted score.
Level(m) ==
    LET score == (30 * Percent(m.gas - 100, 4900) + 25 * Percent(m.tps, 1000)
                  + 25 * Percent(m.pending, 10000) + 20 * Lower(m.capacity, 100)) \div 100
    IN  CASE score <= 20 -> 1 [] score \in 21..40 -> 2 [] score \in 41..60 -> 3
          [] score \in 61..80 -> 4 [] OTHER -> 5

\* -1, 0 or 1: whether the level fell, stayed or rose since the last sample.
Trend(m) ==
    IF prevMetrics = NoMetrics \/ Level(prevMetrics) = Level(m) THEN 0
    ELSE IF Level(m) > Level(prevMetrics) THEN 1 ELSE -1

TrendStep(c) == (c.base * Lower(c.trendPct, 50)) \div 100

AdjustedFee(m, emergency) ==
    LET c == feeConfig
        trend == IF c.trendOn THEN Trend(m) ELSE 0
        factor == CASE trend = 1 -> c.multiplier[Level(m)] + 5
                    [] trend = -1 -> Higher(0, c.multiplier[Level(m)] - 3)
                    [] OTHER -> c.multiplier[Level(m)]
        scaled == (c.base * factor) \div 100
        moved == CASE trend = 1 -> scaled + TrendStep(c)
                   [] trend = -1 -> Higher(0, scaled - TrendStep(c) \div 2)
                   [] OTHER -> scaled
        capped == IF emergency /\ c.overrideOn THEN Lower(moved, c.emergencyCap) ELSE moved
    IN  Lower(Higher(capped, c.min), c.max)

Overloads(m) == {f \in {"CriticalCongestion", "ExtremeGasPrices", "QueueOverflow"} :
    CASE f = "CriticalCongestion" -> m.capacity >= 95
      [] f = "ExtremeGasPrices" -> m.gas >= 5000
      [] f = "QueueOverflow" -> m.pending >= 15000}

ShouldAutoTrigger(m) ==
    \/ Cardinality(Overloads(m)) >= 2
    \/ Overloads(m) # {} /\ (m.capacity >= 98 \/ m.gas >= 7000 \/ m.pending >= 20000)

AutoCap(m) ==
    CASE Cardinality(Overloads(m)) >= 2 -> 200
      [] Overloads(m) = {"ExtremeGasPrices"} -> 250
      [] Overloads(m) = {"QueueOverflow"} -> 280
      [] OTHER -> 300

NoOverride == [active |-> FALSE, cap |-> 300, until |-> 0]
Activated(cap) == [active |-> TRUE, cap |-> cap, until |-> feeNow + AutoRecovery]
Ended(o) == [o EXCEPT !.active = FALSE, !.until = 0]

\* Variant with a fault: an override that runs out is noticed by the next update.
OverrideAfterLate(m) ==
    IF ~override.active /\ ShouldAutoTrigger(m) THEN Activated(AutoCap(m))
    ELSE IF override.active /\ feeNow > override.until THEN Ended(override)
    ELSE override

\* What an update makes of the override before it computes the fee.
OverrideAfter(m) ==
    IF ~override.active /\ ShouldAutoTrigger(m) THEN Activated(AutoCap(m))
    ELSE IF override.active /\ feeNow >= override.until THEN Ended(override)
    ELSE override

\* The history with the change to a new fee, within its cap.
Recorded(h, new) ==
    LET all == Append(h, [at |-> feeNow, fee |-> new, previous |-> fee])
    IN  SubSeq(all, Higher(1, Len(all) - HistoryCap + 1), Len(all))

\* The history without what is older than a time, in its order.
Retained(h, since) ==
    LET kept == {i \in DOMAIN h : h[i].at >= since}
    IN  [i \in 1..Cardinality(kept) |->
            h[CHOOSE k \in kept : Cardinality({j \in kept : j <= k}) = i]]

FeeInit ==
    /\ feeConfig = FirstConfig
    /\ fee = FirstConfig.base /\ prevFee = FirstConfig.base
    /\ prevMetrics = NoMetrics /\ lastUpdate = 0
    /\ override = NoOverride /\ emAdmins = {}
    /\ feeHistory = <<[at |-> 0, fee |-> FirstConfig.base, previous |-> FirstConfig.base]>>
    /\ feeNow = 0

ChangeFee(new) ==
    /\ fee' = new /\ prevFee' = fee
    /\ feeHistory' = Recorded(feeHistory, new)

UpdateFeesForCongestion(m) ==
    LET new == AdjustedFee(m, OverrideAfter(m).active) IN
    /\ feeNow - lastUpdate >= feeConfig.cooldown
    /\ override' = OverrideAfter(m)
    /\ IF new = fee THEN UNCHANGED <<fee, prevFee, feeHistory>> ELSE ChangeFee(new)
    /\ prevMetrics' = m /\ lastUpdate' = feeNow
    /\ UNCHANGED <<feeConfig, emAdmins, feeNow>>

UpdateFeesManual(new) ==
    /\ new \in feeConfig.min..feeConfig.max /\ new # fee
    /\ ChangeFee(new)
    /\ UNCHANGED <<feeConfig, prevMetrics, lastUpdate, override, emAdmins, feeNow>>

\* The fee in force is not brought within the new bounds.
UpdateConfig(c) ==
    /\ c.min <= c.base /\ c.base <= c.max /\ c.max <= 1000
    /\ feeConfig' = c
    /\ UNCHANGED <<fee, prevFee, prevMetrics, lastUpdate, override, emAdmins, feeHistory,
                   feeNow>>

ActivateEmergencyOverride(a, cap) ==
    /\ a \in emAdmins /\ ~override.active
    /\ override' = Activated(cap)
    /\ UNCHANGED <<feeConfig, fee, prevFee, prevMetrics, lastUpdate, emAdmins, feeHistory,
                   feeNow>>

DeactivateEmergencyOverride(a) ==
    /\ override.active /\ a \in emAdmins
    /\ override' = Ended(override)
    /\ UNCHANGED <<feeConfig, fee, prevFee, prevMetrics, lastUpdate, emAdmins, feeHistory,
                   feeNow>>

SetEmergencyAdmin(a, authorized) ==
    /\ emAdmins' = IF authorized THEN emAdmins \cup {a} ELSE emAdmins \ {a}
    /\ UNCHANGED <<feeConfig, fee, prevFee, prevMetrics, lastUpdate, override, feeHistory,
                   feeNow>>

CleanupOldHistory ==
    /\ feeHistory' = Retained(feeHistory, Higher(0, feeNow - Retention))
    /\ UNCHANGED <<feeConfig, fee, prevFee, prevMetrics, lastUpdate, override, emAdmins,
                   feeNow>>

FeeTick ==
    /\ feeNow < FeeEnd
    /\ feeNow' = feeNow + 1
    /\ UNCHANGED <<feeConfig, fee, prevFee, prevMetrics, lastUpdate, override, emAdmins,
                   feeHistory>>

FeeNext ==
    \/ \E m \in Metrics : UpdateFeesForCongestion(m)
    \/ \E new \in ManualFees : UpdateFeesManual(new)
    \/ \E c \in FeeConfigs : UpdateConfig(c)
    \/ \E a \in FeeAdmins :
          \/ \E cap \in Caps : ActivateEmergencyOverride(a, cap)
          \/ DeactivateEmergencyOverride(a)
          \/ \E authorized \in BOOLEAN : SetEmergencyAdmin(a, authorized)
    \/ CleanupOldHistory
    \/ FeeTick

FeeSpec == FeeInit /\ [][FeeNext]_feeVars

----------------------------------------------------------------------------
\* No fee is above what any configuration allows.
Ceiling == Higher(1000, Higher(FirstConfig.base, FirstConfig.max))
FeeEntry == [at : 0..feeNow, fee : 0..Ceiling, previous : 0..Ceiling]

FeeTypeOK ==
    /\ feeConfig \in FeeConfigs /\ feeConfig.max <= Ceiling
    /\ fee \in 0..Ceiling /\ prevFee \in 0..Ceiling
    /\ prevMetrics \in Metrics \cup {NoMetrics}
    /\ lastUpdate \in 0..feeNow /\ feeNow \in 0..FeeEnd
    /\ override \in [active : BOOLEAN, cap : Nat, until : 0..FeeEnd + AutoRecovery]
    /\ emAdmins \subseteq FeeAdmins
    /\ feeHistory \in Seq(FeeEntry)

\* The history is one chain that ends with the fee in force: no change by hand, by
\* an update or by the override is missing from it or out of order, wherever it
\* was trimmed or cleaned up (fee_adjustment_manager.rs:158, fee_history.rs:120).
FeeHistoryTells ==
    /\ Len(feeHistory) <= HistoryCap
    /\ \A i \in 2..Len(feeHistory) :
          /\ feeHistory[i].previous = feeHistory[i - 1].fee
          /\ feeHistory[i].at >= feeHistory[i - 1].at
    /\ feeHistory # <<>> => /\ Last(feeHistory).fee = fee
                            /\ Last(feeHistory).previous = prevFee

\* While an override is in force an update sets no fee above the emergency cap of
\* a configuration that allows overrides, and no update leaves an override in force
\* that has run out (fee_adjustment_manager.rs:130).
OverrideHolds ==
    [][(\E m \in Metrics : UpdateFeesForCongestion(m)) /\ override'.active
       => /\ feeConfig.overrideOn => fee' <= Higher(feeConfig.min, feeConfig.emergencyCap)
          /\ feeNow < override'.until]_feeVars

\* The history of fees is one chain that ends with the fee in force, and an
\* override holds while it lasts (fee_adjustment_manager.rs:130, fee_history.rs:120).
FeesSound == [](FeeTypeOK /\ FeeHistoryTells) /\ OverrideHolds

\* The cap an override is given is what it is documented to be, the fee cap while
\* it is in force; the fee is computed from the configuration's cap instead
\* (emergency_override.rs:45, dynamic_fee_adjustment.rs:199).
OverrideCapHonoured ==
    [][(\E m \in Metrics : UpdateFeesForCongestion(m)) /\ override'.active
       => fee' <= Higher(feeConfig.min, override'.cap)]_feeVars
=============================================================================
