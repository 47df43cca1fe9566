------------------------------ MODULE History -------------------------------
(* Historical data (historical.rs): a store of data points of one symbol, a *)
(* cache of answers with a time to live, and replay sessions.  Every call   *)
(* awaits in the middle, and others run meanwhile.  Times are in ticks, and *)
(* requests ask for whole days.                                             *)
EXTENDS Integers, Sequences, FiniteSets

CONSTANTS
  Callers,              \* calls under way at once
  Days,
  Requests,             \* records [first, last, limit] that callers may send
  CacheTtl,             \* cache_ttl_seconds
  MaxReplaySessions,    \* max_replay_sessions
  MaxAwait,             \* bound: ticks a call waits for its answer
  MaxPoints, MaxTicks   \* bounds: points stored, last time explored

ASSUME HistoryAssumption ==
  /\ \A r \in Requests : {r.first, r.last} \subseteq Days /\ r.limit \in Nat
  /\ Days \subseteq Nat /\ CacheTtl \in Nat \ {0} /\ IsFiniteSet(Callers)
  /\ {MaxReplaySessions, MaxAwait, MaxPoints, MaxTicks} \subseteq Nat

VARIABLES
  points,         \* history: the day of each point, and when it was stored
  kept,           \* the points in the store; they are numbered in its order
  cache,          \* answers and when they were cached, by cache key
  calls,          \* what each call waits for
  sessions,       \* the number of replay_sessions; each plays a copy of its own
  answer,         \* history: the answer just given, and the call it is an answer to
  tick

historyVars == <<points, kept, cache, calls, sessions, answer, tick>>

NoCall == [at |-> "idle"]
NoAnswer == [data |-> {}, call |-> NoCall]

\* store_data and retrieve_data make their keys differently.
DayKey(day) == <<day>>
RangeKey(r) == <<r.first, r.last>>

Alive(key) == key \in DOMAIN cache /\ tick < cache[key].at + CacheTtl
Without(key) == [k \in DOMAIN cache \ {key} |-> cache[k]]
With(key, data) == [k \in DOMAIN cache \cup {key} |->
                      IF k = key THEN [data |-> data, at |-> tick] ELSE cache[k]]

Within(found, r) == { p \in found : points[p].day \in r.first..r.last }
Truncated(found, limit) ==
  { p \in found : Cardinality({ q \in found : q < p }) < limit }

-----------------------------------------------------------------------------
(* Store and cache *)

\* The invalidation names a key that no answer is cached under.
StoreData(day) ==
  /\ Len(points) < MaxPoints
  /\ points' = Append(points, [day |-> day, at |-> tick])
  /\ kept' = kept \cup {Len(points) + 1}
  /\ cache' = Without(DayKey(day))
  /\ answer' = NoAnswer
  /\ UNCHANGED <<calls, sessions, tick>>

\* cleanup_old_data; the cache is left as it is.
DeleteOldData(before) ==
  /\ kept' = { p \in kept : points[p].day >= before }
  /\ answer' = NoAnswer
  /\ UNCHANGED <<points, cache, calls, sessions, tick>>

\* retrieve_data, and create_replay_session, which calls it after looking at
\* the limit of sessions: what the cache or the store says now is what the
\* call goes on with.
Ask(c, r, replay) ==
  /\ calls[c] = NoCall
  /\ replay => sessions < MaxReplaySessions
  /\ calls' = [calls EXCEPT ![c] =
       [at |-> "waiting", request |-> r, replay |-> replay, since |-> tick,
        cached |-> Alive(RangeKey(r)),
        data |-> IF Alive(RangeKey(r)) THEN cache[RangeKey(r)].data
                 ELSE Truncated(Within(kept, r), r.limit)]]
  /\ answer' = NoAnswer
  /\ UNCHANGED <<points, kept, cache, sessions, tick>>

\* Mutant: an answer from the cache is cached anew.
CachedAgain(call) == With(RangeKey(call.request), call.data)

CachedAfter(call) ==
  IF call.cached THEN cache ELSE With(RangeKey(call.request), call.data)

Answered(c) ==
  /\ cache' = CachedAfter(calls[c])
  /\ answer' = [data |-> calls[c].data, call |-> calls[c]]
  /\ calls' = [calls EXCEPT ![c] = NoCall]
  /\ UNCHANGED <<points, kept, tick>>

Answer(c) ==
  /\ calls[c] # NoCall /\ (calls[c].replay => calls[c].data = {})
  /\ Answered(c)
  /\ UNCHANGED sessions

CreateReplaySession(c) ==
  /\ calls[c] # NoCall /\ calls[c].replay /\ calls[c].data # {}
  /\ sessions' = sessions + 1
  /\ Answered(c)

\* stop_replay, or cleanup_expired_sessions.
StopReplay ==
  /\ sessions > 0
  /\ sessions' = sessions - 1
  /\ answer' = NoAnswer
  /\ UNCHANGED <<points, kept, cache, calls, tick>>

TickPasses ==
  /\ tick < MaxTicks
  /\ \A c \in Callers : calls[c] # NoCall => tick < calls[c].since + MaxAwait
  /\ tick' = tick + 1
  /\ answer' = NoAnswer
  /\ UNCHANGED <<points, kept, cache, calls, sessions>>

HistoryInit ==
  /\ points = <<>> /\ kept = {} /\ cache = [k \in {} |-> NoAnswer]
  /\ calls = [c \in Callers |-> NoCall]
  /\ sessions = 0
  /\ answer = NoAnswer /\ tick = 0

HistoryNext ==
  \/ \E day \in Days : StoreData(day) \/ DeleteOldData(day)
  \/ \E c \in Callers, r \in Requests, replay \in BOOLEAN : Ask(c, r, replay)
  \/ \E c \in Callers : Answer(c) \/ CreateReplaySession(c)
  \/ StopReplay
  \/ TickPasses

HistorySpec == HistoryInit /\ [][HistoryNext]_historyVars

-----------------------------------------------------------------------------
(* Properties *)

\* Type invariant.
HistoryTypeOK ==
  /\ points \in Seq([day : Days, at : Nat]) /\ kept \subseteq DOMAIN points
  /\ \A k \in DOMAIN cache : cache[k].data \subseteq DOMAIN points /\ cache[k].at \in 0..MaxTicks
  /\ sessions \in Nat /\ tick \in 0..MaxTicks

Missed(p) ==
  p \in Within(kept, answer.call.request) /\ p \notin answer.data

\* Whatever is stored and asked for in between, an answer misses a point only
\* if the point is younger than an entry of the cache may be, or if it is as
\* long as some request of that range wanted it to be: the key of the cache
\* has no place for the limit.
StalenessBounded ==
  answer # NoAnswer => \A p \in DOMAIN points : Missed(p) =>
    \/ points[p].at > answer.call.since - CacheTtl - MaxAwait
    \/ \E r \in Requests :
         RangeKey(r) = RangeKey(answer.call.request) /\ Cardinality(answer.data) = r.limit

\* There are never more replay sessions than the limit and the calls that may
\* have looked at it before the others were done.
SessionsBounded == sessions < MaxReplaySessions + Cardinality(Callers)

\* What is stored is found by the calls that begin later.  (The code
\* invalidates the cache to that end, under a key that is not in use.)
NewDataSeen ==
  answer # NoAnswer => \A p \in DOMAIN points : Missed(p) =>
    \/ points[p].at >= answer.call.since
    \/ Cardinality(answer.data) = answer.call.request.limit

=============================================================================
