---------------------------- MODULE VolumeBreaker ----------------------------
\* The volume circuit breaker (risk_management/volume_circuit_breaker.rs): it
\* sums the volume of a sliding window and pauses trading when the sum is above
\* a threshold. No entry point records a swap's volume; the caller here is any
\* that would. The flag it pauses is not the one a swap looks at.
EXTENDS Ledger, Sequences

CONSTANTS
    Thresholds,      \* configurations an admin sets: [window, max]
    DefaultThreshold,
    VolumeAmounts,   \* volumes recorded
    MaxRecords,      \* exploration bound on the volumes recorded between resets
    BreakerEnd       \* exploration bound on the ledger time

ASSUME BreakerAssumption ==
    /\ DefaultThreshold \in Thresholds
    /\ Thresholds \subseteq [window : Nat, max : Int]
    /\ VolumeAmounts \subseteq Nat       \* a swap of nothing or less is refused
    /\ MaxRecords \in Nat /\ BreakerEnd \in Nat

VARIABLES
    threshold,       \* CONFIG_KEY
    entries,         \* VOLUME_KEY: <<time, volume>>, oldest first
    breakerTripped,  \* TRIPPED_KEY
    breakerPaused,   \* PAUSED_KEY of the instance storage
    recorded,        \* every volume checked since the last reset
    narrowest,       \* the narrowest window in force since the last reset
    breakerNow       \* ledger time

breakerVars == <<threshold, entries, breakerTripped, breakerPaused, recorded, narrowest,
                 breakerNow>>

Least(x, y) == IF x < y THEN x ELSE y

\* What was recorded since a time, and within a window that ends now.
Since(log, t) == [i \in 1..Len(log) |-> IF log[i][1] >= t THEN log[i][2] ELSE 0]
Volume(log, window) == Supply(Since(log, breakerNow - window))

BreakerInit ==
    /\ threshold = DefaultThreshold /\ narrowest = DefaultThreshold.window
    /\ entries = <<>> /\ recorded = <<>>
    /\ breakerTripped = FALSE /\ breakerPaused = FALSE
    /\ breakerNow = 0

\* Called by the admin only.
SetThreshold(t) ==
    /\ threshold' = t
    /\ narrowest' = Least(narrowest, t.window)
    /\ UNCHANGED <<entries, breakerTripped, breakerPaused, recorded, breakerNow>>

\* Called by the admin only.
ResetBreaker ==
    /\ entries' = <<>> /\ recorded' = <<>> /\ narrowest' = threshold.window
    /\ breakerTripped' = FALSE /\ breakerPaused' = FALSE
    /\ UNCHANGED <<threshold, breakerNow>>

\* What the loop over the entries keeps: those since a time, in their order.
Kept(t) ==
    LET kept[i \in 0..Len(entries)] ==
          IF i = 0 THEN <<>>
          ELSE IF entries[i][1] >= t THEN Append(kept[i - 1], entries[i]) ELSE kept[i - 1]
    IN kept[Len(entries)]

\* Variant with a fault: entries at the edge of the window are dropped.
PrunedAtEdge == Kept(breakerNow - threshold.window + 1)

\* The entries of the window now in force; what is dropped stays dropped when
\* the window is widened.
Pruned == Kept(breakerNow - threshold.window)

\* A tripped breaker records nothing.
CheckAndRecordVolume(amount) ==
    LET kept == Append(Pruned, <<breakerNow, amount>>)
        trips == Volume(kept, threshold.window) > threshold.max /\ threshold.max > 0
    IN  /\ ~breakerTripped /\ Len(recorded) < MaxRecords
        /\ entries' = kept
        /\ recorded' = Append(recorded, <<breakerNow, amount>>)
        /\ breakerTripped' = trips /\ breakerPaused' = (breakerPaused \/ trips)
        /\ UNCHANGED <<threshold, narrowest, breakerNow>>

BreakerTick ==
    /\ breakerNow < BreakerEnd
    /\ breakerNow' = breakerNow + 1
    /\ UNCHANGED <<threshold, entries, breakerTripped, breakerPaused, recorded, narrowest>>

BreakerNext ==
    \/ \E t \in Thresholds : SetThreshold(t)
    \/ ResetBreaker
    \/ \E amount \in VolumeAmounts : CheckAndRecordVolume(amount)
    \/ BreakerTick

BreakerSpec == BreakerInit /\ [][BreakerNext]_breakerVars

----------------------------------------------------------------------------
BreakerTypeOK ==
    /\ threshold \in Thresholds /\ breakerTripped \in BOOLEAN /\ breakerPaused \in BOOLEAN
    /\ entries \in Seq((0..breakerNow) \X VolumeAmounts)
    /\ recorded \in Seq((0..breakerNow) \X VolumeAmounts)
    /\ breakerNow \in 0..BreakerEnd

\* A volume that does not trip the breaker leaves no more than the threshold
\* within any window that was in force all along, although each check forgets
\* what its own window leaves out and windows are narrowed and widened between
\* checks (volume_circuit_breaker.rs:112).
VolumeWithinThreshold ==
    /\ []BreakerTypeOK
    /\ [][recorded' # recorded /\ recorded' # <<>> /\ ~breakerTripped' /\ threshold.max > 0
          => Volume(recorded', narrowest) <= threshold.max]_breakerVars
=============================================================================
