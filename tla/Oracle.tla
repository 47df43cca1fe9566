------------------------------- MODULE Oracle -------------------------------
\* The price oracle of a token pair (counter/src/oracle_adapter.rs, called by
\* counter/trading.rs): a feed of prices with a circuit breaker against jumps, a
\* mean over a window, and a fallback for a stale or tripped feed. The calls
\* are open to anyone. The provider of the pair is only recorded.
EXTENDS Ledger, Sequences

CONSTANTS
    FeedPrices,      \* prices the feed reports
    FirstPrice,      \* initial_price
    FirstWindow,     \* twap_window_size of a new oracle
    Windows,         \* window sizes an update of the configuration sets
    Staleness,       \* staleness_threshold
    JumpBps,         \* circuit_breaker_threshold_bps
    OracleEnd        \* exploration bound on the ledger time

ASSUME OracleAssumption == /\ FirstPrice \in Nat \ {0} /\ FeedPrices \subseteq Nat
                           /\ Windows \subseteq Nat /\ FirstWindow \in 1..100
                           /\ Staleness \in Nat /\ JumpBps \in Nat

VARIABLES
    window,          \* twap_window_size
    active,          \* is_active
    price,           \* current_price
    prices,          \* price_history, oldest first
    updatedAt,       \* last_update
    tripped,         \* circuit_breaker_active
    fallback,        \* fallback_price
    believed,        \* every price the feed was believed, the first one included
    oracleNow        \* ledger time

oracleVars == <<window, active, price, prices, updatedAt, tripped, fallback, believed,
                oracleNow>>

Deviation(old, new) == ((IF new >= old THEN new - old ELSE old - new) * 10000) \div old

\* Variant with a fault: all that is kept, divided by the size of the window.
TwapOverAll == Supply(prices) \div window

\* The mean of the last prices, as many as the window.
Recent == SubSeq(prices, Len(prices) - window + 1, Len(prices))
Twap == Supply(Recent) \div window

Stale == oracleNow - updatedAt > Staleness

\* The price a swap is checked against: get_price of an active oracle.
Quote ==
    IF Stale \/ tripped THEN fallback
    ELSE IF Len(prices) >= window THEN Twap
    ELSE price

OracleInit ==
    /\ window = FirstWindow /\ active = TRUE
    /\ price = FirstPrice /\ prices = <<>> /\ updatedAt = 0
    /\ tripped = FALSE /\ fallback = FirstPrice
    /\ believed = {FirstPrice}
    /\ oracleNow = 0

\* A jump trips the breaker and is refused. The trip is kept when the caller goes
\* on after the error; the ledger undoes it when the caller returns the error,
\* and then the call changes nothing.
TripBreaker(p) ==
    /\ Deviation(price, p) > JumpBps
    /\ tripped' = TRUE /\ fallback' = price
    /\ UNCHANGED <<window, active, price, prices, updatedAt, believed, oracleNow>>

UpdatePrice(p) ==
    LET all == Append(prices, p) IN
    /\ Deviation(price, p) <= JumpBps
    /\ price' = p /\ updatedAt' = oracleNow
    /\ prices' = IF Len(all) > window THEN SubSeq(all, Len(all) - window + 1, Len(all)) ELSE all
    /\ tripped' = (tripped /\ Deviation(fallback, p) > JumpBps \div 2)
    /\ believed' = believed \cup {p}
    /\ UNCHANGED <<window, active, fallback, oracleNow>>

UpdateWindow(w) ==
    /\ w \in 1..100
    /\ window' = w
    /\ UNCHANGED <<active, price, prices, updatedAt, tripped, fallback, believed, oracleNow>>

SetOracleActive(on) ==
    /\ active' = on
    /\ UNCHANGED <<window, price, prices, updatedAt, tripped, fallback, believed, oracleNow>>

ResetCircuitBreaker ==
    /\ tripped' = FALSE
    /\ UNCHANGED <<window, active, price, prices, updatedAt, fallback, believed, oracleNow>>

OracleTick ==
    /\ oracleNow < OracleEnd
    /\ oracleNow' = oracleNow + 1
    /\ UNCHANGED <<window, active, price, prices, updatedAt, tripped, fallback, believed>>

OracleNext ==
    \/ \E p \in FeedPrices : TripBreaker(p) \/ UpdatePrice(p)
    \/ \E w \in Windows : UpdateWindow(w)
    \/ \E on \in BOOLEAN : SetOracleActive(on)
    \/ ResetCircuitBreaker
    \/ OracleTick

OracleSpec == OracleInit /\ [][OracleNext]_oracleVars

----------------------------------------------------------------------------
OracleTypeOK ==
    /\ window \in 1..100 /\ active \in BOOLEAN /\ tripped \in BOOLEAN
    /\ price \in believed /\ prices \in Seq(believed)
    /\ updatedAt \in 0..oracleNow /\ oracleNow \in Nat
    /\ fallback \in believed /\ believed \subseteq FeedPrices \cup {FirstPrice}

\* Whatever was reported, trimmed, reconfigured, tripped or reset before, a swap
\* is quoted a price the feed was believed, or one between such prices, and a
\* tripped or stale feed only a price that was believed (oracle_adapter.rs:105).
QuoteVouched ==
    /\ OracleTypeOK
    /\ \E least, most \in believed : least <= Quote /\ Quote <= most
    /\ Stale \/ tripped => Quote \in believed
=============================================================================
