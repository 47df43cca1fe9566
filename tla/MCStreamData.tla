---------------------------- MODULE MCStreamData -----------------------------
(* The parts of the market data server that only keep data, one per          *)
(* behaviour: they share nothing, so what one does is the same whatever the  *)
(* others do.                                                                *)
EXTENDS BookReplica, History, Matching, Limiters

VARIABLE part

vars == <<part, replicaVars, historyVars, matchVars, rateVars, ipVars>>

Init ==
  /\ part \in {"replica", "history", "matching", "orders", "addresses"}
  /\ ReplicaInit /\ HistoryInit /\ MatchInit /\ RateInit /\ IpInit
  /\ part # "matching" => algorithm = "FIFO"

Next ==
  /\ UNCHANGED part
  /\ \/ /\ part = "replica" /\ ReplicaNext
        /\ UNCHANGED <<historyVars, matchVars, rateVars, ipVars>>
     \/ /\ part = "history" /\ HistoryNext
        /\ UNCHANGED <<replicaVars, matchVars, rateVars, ipVars>>
     \/ /\ part = "matching" /\ MatchNext
        /\ UNCHANGED <<replicaVars, historyVars, rateVars, ipVars>>
     \/ /\ part = "orders" /\ RateNext
        /\ UNCHANGED <<replicaVars, historyVars, matchVars, ipVars>>
     \/ /\ part = "addresses" /\ IpNext
        /\ UNCHANGED <<replicaVars, historyVars, matchVars, rateVars>>

Spec == Init /\ [][Next]_vars

-----------------------------------------------------------------------------
\* Every part keeps its types.
DataTyped ==
  ReplicaTypeOK /\ HistoryTypeOK /\ MatchTypeOK /\ RateTypeOK /\ IpTypeOK

\* No window sees more accepted orders of a trader than the maximum, and a block
\* for too many requests is served in full (hft_protection.rs:216, rate_limiter.rs:397).
LimitersSound == DataTyped /\ OrdersWithinRate /\ FloodBlockServed

-----------------------------------------------------------------------------
\* A range asked for with two limits.
TwoLimits == [first : {1}, last : {2}, limit : {1, 2}]
\* A range asked for without a limit that matters.
AllOfIt == [first : {1}, last : {2}, limit : {9}]
=============================================================================
