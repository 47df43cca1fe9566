------------------------------- MODULE Alerts -------------------------------
\* Alerts of users on prices, portfolios and market signals
\* (counter/src/alerts.rs). One with an expiry fires once, until its owner
\* subscribes to it again; one without fires whenever it matches. How the owner
\* is notified is left out.
EXTENDS Integers, FiniteSets

CONSTANTS
    Owners,          \* accounts with alerts
    AlertKinds,      \* what alerts look for: AlertKind
    Events,          \* what the checks are called with
    Lifetimes,       \* times until an alert expires
    MaxAlerts,       \* exploration bound on the alerts created
    MaxFirings,      \* exploration bound on the firings of an alert
    AlertEnd         \* exploration bound on the ledger time

ASSUME AlertAssumption == Lifetimes \subseteq Nat /\ MaxAlerts \in Nat

VARIABLES
    alerts,          \* ALERT_MAP: the alerts of every account
    lastId,          \* ALERT_COUNTER
    fired,           \* how often each alert has fired
    renewed,         \* how often its owner has subscribed to it
    alertNow         \* ledger time

alertVars == <<alerts, lastId, fired, renewed, alertNow>>

Abs(n) == IF n < 0 THEN -n ELSE n

\* What each check fires on: the price of a token against a target, a portfolio
\* against its reference value or a ratio, a signal of a market.
Matches(kind, event) ==
    CASE kind.what = "above" -> event.what = "price" /\ event.of = kind.of /\ event.at >= kind.at
      [] kind.what = "below" -> event.what = "price" /\ event.of = kind.of /\ event.at <= kind.at
      [] kind.what = "change" -> event.what = "portfolio" /\ event.was # 0
            /\ (Abs(event.at - event.was) * 10000) \div event.was >= kind.at
      [] kind.what = "risk" -> event.what = "portfolio" /\ event.at <= kind.at
      [] kind.what = "signal" -> event.what = "signal" /\ event.of = kind.of /\ event.at = kind.at

Expires(alert) == alert.expires_at # 0
Expired(alert) == Expires(alert) /\ alert.expires_at <= alertNow
Fires(alert, event) == alert.active /\ ~Expired(alert) /\ Matches(alert.kind, event)

\* Variant with a fault: an alert with an expiry stays active until then.
CheckedPersistent(alert, event) ==
    IF alert.active /\ Expired(alert) THEN [alert EXCEPT !.active = FALSE]
    ELSE IF Fires(alert, event) THEN [alert EXCEPT !.last = alertNow]
    ELSE alert

\* An alert after a check: expired, fired, or as it was.
Checked(alert, event) ==
    IF alert.active /\ Expired(alert) THEN [alert EXCEPT !.active = FALSE]
    ELSE IF Fires(alert, event)
    THEN [alert EXCEPT !.last = alertNow, !.active = ~Expires(alert)]
    ELSE alert

AlertInit ==
    /\ alerts = [u \in Owners |-> {}]
    /\ lastId = 0 /\ alertNow = 0
    /\ fired = [id \in 1..MaxAlerts |-> 0]
    /\ renewed = [id \in 1..MaxAlerts |-> 0]

CreateAlert(u, kind, expires) ==
    /\ lastId < MaxAlerts
    /\ lastId' = lastId + 1
    /\ alerts' = [alerts EXCEPT ![u] = @ \cup
           {[id |-> lastId + 1, kind |-> kind, expires_at |-> expires, active |-> TRUE,
             last |-> 0]}]
    /\ UNCHANGED <<fired, renewed, alertNow>>

\* An expired alert becomes active again, until the next check finds it.
SubscribeAlerts(u, ids) ==
    /\ \A id \in ids : renewed[id] < MaxFirings
    /\ alerts' = [alerts EXCEPT ![u] =
           {IF a.id \in ids THEN [a EXCEPT !.active = TRUE] ELSE a : a \in alerts[u]}]
    /\ renewed' = [id \in DOMAIN renewed |-> IF id \in ids THEN renewed[id] + 1 ELSE renewed[id]]
    /\ UNCHANGED <<lastId, fired, alertNow>>

\* A check of a price or a signal looks at the alerts of every account, a check
\* of a portfolio at those of its owner.
CheckAlerts(event, seen) ==
    LET hits == {id \in 1..MaxAlerts : \E u \in seen : \E a \in alerts[u] :
                    a.id = id /\ Fires(a, event)}
    IN  /\ event.what = "portfolio" => Cardinality(seen) = 1
        /\ event.what # "portfolio" => seen = Owners
        /\ \A id \in hits : fired[id] < MaxFirings
        /\ alerts' = [u \in Owners |->
               IF u \in seen THEN {Checked(a, event) : a \in alerts[u]} ELSE alerts[u]]
        /\ fired' = [id \in 1..MaxAlerts |-> IF id \in hits THEN fired[id] + 1 ELSE fired[id]]
        /\ UNCHANGED <<lastId, renewed, alertNow>>

CleanupAlerts(u) ==
    /\ alerts' = [alerts EXCEPT ![u] = {a \in @ : a.active /\ ~Expired(a)}]
    /\ UNCHANGED <<lastId, fired, renewed, alertNow>>

AlertTick ==
    /\ alertNow < AlertEnd
    /\ alertNow' = alertNow + 1
    /\ UNCHANGED <<alerts, lastId, fired, renewed>>

AlertNext ==
    \/ \E u \in Owners, kind \in AlertKinds, life \in Lifetimes :
          CreateAlert(u, kind, IF life = 0 THEN 0 ELSE alertNow + life)
    \/ \E u \in Owners : \E ids \in (SUBSET {a.id : a \in alerts[u]}) \ {{}} :
          SubscribeAlerts(u, ids)
    \/ \E event \in Events, seen \in SUBSET Owners : CheckAlerts(event, seen)
    \/ \E u \in Owners : CleanupAlerts(u)
    \/ AlertTick

AlertSpec == AlertInit /\ [][AlertNext]_alertVars

----------------------------------------------------------------------------
AlertTypeOK ==
    /\ alerts \in [Owners -> SUBSET [id : 1..MaxAlerts, kind : AlertKinds, expires_at : Nat,
                                     active : BOOLEAN, last : Nat]]
    /\ lastId \in 0..MaxAlerts /\ alertNow \in Nat
    /\ fired \in [1..MaxAlerts -> Nat] /\ renewed \in [1..MaxAlerts -> Nat]

\* Between two subscriptions an alert with an expiry fires at most once, however
\* many checks match it, and is not active when it has nothing left to fire; and
\* no alert fires at or after its expiry (alerts.rs:215).
FiresOncePerSubscription ==
    /\ AlertTypeOK
    /\ \A u \in Owners : \A a \in alerts[u] :
          Expires(a) => /\ fired[a.id] <= 1 + renewed[a.id]
                        /\ a.active => fired[a.id] <= renewed[a.id]
                        /\ a.last < a.expires_at
=============================================================================
