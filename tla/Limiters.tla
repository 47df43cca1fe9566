------------------------------ MODULE Limiters ------------------------------
(* What the market data server refuses.  hft_protection.rs limits orders per *)
(* minute, suspending traders who keep exceeding them, limits messages per   *)
(* second over all traders, and halts symbols that move too fast: lists of   *)
(* times are only cut to the recent ones, added to and counted, so each is   *)
(* the number of its entries at each time.  rate_limiter.rs counts requests  *)
(* and reports by address, and blocks for a while an address that exceeds a  *)
(* threshold.  The two share nothing.  Times are in ticks.                   *)
EXTENDS Ledger

CONSTANTS
  Traders, Instruments,
  MaxOrders, OrderWindow,      \* max_orders_per_minute, and a minute
  MaxMessages, MessageWindow,  \* max_messages_per_sec, and a second
  SuspensionDuration,          \* suspension_duration
  HaltDuration,                \* halt_duration
  LastTick                     \* bound: last time explored

ASSUME OrderRateAssumption ==
  {MaxOrders, OrderWindow, MaxMessages, MessageWindow, SuspensionDuration,
   HaltDuration, LastTick} \subseteq Nat

VARIABLES
  orderTimes,     \* order_timestamps of each trader
  violations,     \* of each trader; nothing resets them
  suspendedUntil, \* suspended_traders: the end of the suspension, or Never
  messageTimes,   \* submission_times of the message limiter
  haltedAt,       \* halted_symbols: the time of the halt, or Never
  accepted,       \* history: when orders of each trader were accepted
  now

rateVars == <<orderTimes, violations, suspendedUntil, messageTimes, haltedAt, accepted, now>>

Never == -1

Ticks == 0..LastTick
NoTimes == [x \in Ticks |-> 0]

\* Entries of a window that ends now: from window ago on, exclusive.
Recent(times, window) == [x \in Ticks |-> IF now - x < window THEN times[x] ELSE 0]
WithNow(times) == [times EXCEPT ![now] = @ + 1]
Minute(times, start) ==
  [x \in Ticks |-> IF x \in start..(start + OrderWindow - 1) THEN times[x] ELSE 0]

\* is_trader_suspended: a suspension that is over is cleared by the question.
Suspended(t) == suspendedUntil[t] # Never /\ now <= suspendedUntil[t]
Cleared(t) == IF Suspended(t) THEN suspendedUntil ELSE [suspendedUntil EXCEPT ![t] = Never]

-----------------------------------------------------------------------------
(* Orders, messages and halts *)

OverLimit(t) == Supply(Recent(orderTimes[t], OrderWindow)) >= MaxOrders

\* can_submit_order, for a trader who is not over the limit.
SubmitOrder(t) ==
  /\ ~Suspended(t) /\ ~OverLimit(t)
  /\ orderTimes' = [orderTimes EXCEPT ![t] = WithNow(Recent(@, OrderWindow))]
  /\ accepted' = [accepted EXCEPT ![t] = WithNow(@)]
  /\ suspendedUntil' = Cleared(t)
  /\ UNCHANGED <<violations, messageTimes, haltedAt, now>>

\* And for one who is: the third refusal suspends, and every one after it.
RefuseOrder(t) ==
  /\ ~Suspended(t) /\ OverLimit(t)
  /\ orderTimes' = [orderTimes EXCEPT ![t] = Recent(@, OrderWindow)]
  /\ violations' = [violations EXCEPT ![t] = @ + 1]
  /\ suspendedUntil' = IF violations'[t] >= 3
       THEN [suspendedUntil EXCEPT ![t] = now + SuspensionDuration]
       ELSE Cleared(t)
  /\ UNCHANGED <<messageTimes, haltedAt, accepted, now>>

\* check_message_rate: full or not, what left the window is dropped.
SubmitMessage ==
  LET recent == Recent(messageTimes, MessageWindow) IN
  /\ messageTimes' = IF Supply(recent) < MaxMessages THEN WithNow(recent) ELSE recent
  /\ UNCHANGED <<orderTimes, violations, suspendedUntil, haltedAt, accepted, now>>

Halted(s) == haltedAt[s] # Never /\ now - haltedAt[s] < HaltDuration

\* check_circuit_breaker with a move within the thresholds, or beyond them.
CheckCircuitBreaker(s, beyond) ==
  /\ haltedAt' = [haltedAt EXCEPT ![s] =
       IF Halted(s) THEN @ ELSE IF beyond THEN now ELSE Never]
  /\ UNCHANGED <<orderTimes, violations, suspendedUntil, messageTimes, accepted, now>>

RatePasses ==
  /\ now < LastTick
  /\ now' = now + 1
  /\ UNCHANGED <<orderTimes, violations, suspendedUntil, messageTimes, haltedAt, accepted>>

RateInit ==
  /\ orderTimes = [t \in Traders |-> NoTimes] /\ violations = [t \in Traders |-> 0]
  /\ suspendedUntil = [t \in Traders |-> Never]
  /\ messageTimes = NoTimes /\ haltedAt = [s \in Instruments |-> Never]
  /\ accepted = [t \in Traders |-> NoTimes] /\ now = 0

RateNext ==
  \/ \E t \in Traders : SubmitOrder(t) \/ RefuseOrder(t)
  \/ SubmitMessage
  \/ \E s \in Instruments, beyond \in BOOLEAN : CheckCircuitBreaker(s, beyond)
  \/ RatePasses

RateSpec == RateInit /\ [][RateNext]_rateVars

-----------------------------------------------------------------------------
(* Addresses *)

CONSTANTS
  Ips,
  DetectionThreshold,   \* detection_threshold
  MaxScore,             \* the score above which reports block
  BlockDuration,        \* block_duration: an hour
  ForgetAfter,          \* cleanup_old_entries: a day
  MaxCount,             \* bound: requests, and reports, of an address
  MaxTime               \* bound: last time explored

Nobody == "nobody"

ASSUME IpAssumption ==
  /\ {DetectionThreshold, MaxScore, BlockDuration, ForgetAfter, MaxCount, MaxTime} \subseteq Nat
  /\ BlockDuration <= ForgetAfter /\ Nobody \notin Ips

VARIABLES
  tracker,        \* ip_tracker: what is known of each address, or Unknown
  banned,         \* history: the end of the last block for too many requests
  admitted,       \* history: the address let in by the last call, or Nobody
  time

ipVars == <<tracker, banned, admitted, time>>

Unknown == [known |-> FALSE]
NotBlocked == -1
IpStats == [known : {TRUE}, count : Nat, last : Nat, until : Nat \cup {NotBlocked}, score : Nat]

Entry(ip) ==
  IF tracker[ip].known THEN tracker[ip]
  ELSE [known |-> TRUE, count |-> 0, last |-> time, until |-> NotBlocked, score |-> 0]

\* A block ends at its time, not before.
Blocked(stats) == stats.until # NotBlocked /\ time < stats.until

\* check_ip: a blocked address is not counted; the count is never reset, so
\* an address over the threshold is blocked again by its next request.
Requested(stats) ==
  LET count == stats.count + 1 IN
  [stats EXCEPT !.count = count, !.last = time,
    !.until = IF count > DetectionThreshold THEN time + BlockDuration ELSE NotBlocked]

CheckIp(ip) ==
  LET stats == Requested(Entry(ip)) IN
  /\ Entry(ip).count < MaxCount
  /\ IF Blocked(Entry(ip)) THEN admitted' = Nobody /\ UNCHANGED <<tracker, banned>>
     ELSE /\ tracker' = [tracker EXCEPT ![ip] = stats]
          /\ admitted' = IF stats.until = NotBlocked THEN ip ELSE Nobody
          /\ banned' = IF stats.until = NotBlocked THEN banned
                       ELSE [banned EXCEPT ![ip] = stats.until]
  /\ UNCHANGED time

\* report_suspicious_activity: an address that never asked is not known.
ReportSuspiciousActivity(ip) ==
  LET blocked == tracker[ip].score + 1 > MaxScore
      until == IF blocked THEN time + BlockDuration ELSE tracker[ip].until
  IN
  /\ tracker[ip].known /\ tracker[ip].score < MaxCount
  /\ tracker' = [tracker EXCEPT ![ip].score = @ + 1, ![ip].until = until]
  /\ admitted' = Nobody
  /\ UNCHANGED <<banned, time>>

\* Mutant: an entry is forgotten by its age, whenever the last request was.
StaleTooSoon(stats) == time >= ForgetAfter

Stale(stats) == stats.last + ForgetAfter <= time

\* cleanup_old_entries: what was blocked by reports alone is forgotten too,
\* and whoever is forgotten starts anew.
CleanupOldEntries ==
  /\ tracker' = [ip \in Ips |->
       IF tracker[ip].known /\ Stale(tracker[ip]) THEN Unknown ELSE tracker[ip]]
  /\ admitted' = Nobody
  /\ UNCHANGED <<banned, time>>

TimePasses ==
  /\ time < MaxTime
  /\ time' = time + 1 /\ admitted' = Nobody
  /\ UNCHANGED <<tracker, banned>>

IpInit ==
  /\ tracker = [ip \in Ips |-> Unknown] /\ banned = [ip \in Ips |-> NotBlocked]
  /\ admitted = Nobody /\ time = 0

IpNext ==
  \/ \E ip \in Ips : CheckIp(ip) \/ ReportSuspiciousActivity(ip)
  \/ CleanupOldEntries
  \/ TimePasses

IpSpec == IpInit /\ [][IpNext]_ipVars

-----------------------------------------------------------------------------
(* Properties *)

\* Type invariant of the limits on orders.
RateTypeOK ==
  /\ orderTimes \in [Traders -> [Ticks -> Nat]] /\ violations \in [Traders -> Nat]
  /\ suspendedUntil \in [Traders -> Nat \cup {Never}]
  /\ messageTimes \in [Ticks -> Nat] /\ haltedAt \in [Instruments -> Nat \cup {Never}]
  /\ accepted \in [Traders -> [Ticks -> Nat]] /\ now \in Ticks

\* In no window of a minute, wherever it begins and whatever was refused,
\* suspended or cleared in between, are more orders of a trader accepted than
\* the maximum: entries are dropped exactly when they leave the window.
OrdersWithinRate ==
  \A t \in Traders, start \in Ticks :
    Supply(Minute(accepted[t], start)) <= MaxOrders

\* Type invariant of the blocking of addresses.
IpTypeOK ==
  /\ tracker \in [Ips -> {Unknown} \cup IpStats]
  /\ banned \in [Ips -> Nat \cup {NotBlocked}]
  /\ admitted \in Ips \cup {Nobody} /\ time \in 0..MaxTime

\* A block for too many requests is served in full: no sequence of requests,
\* reports and cleanups lets the address in before it ends.  (A block for
\* reports is not: a report does not count as a request, and an address
\* without requests is forgotten with its block.)
FloodBlockServed ==
  \A ip \in Ips : admitted = ip => time >= banned[ip]
=============================================================================
