-------------------------- MODULE ConnectionManager --------------------------
(* The connection manager of the market data server (connection.rs): a      *)
(* shared map and shared counters that any task may change, and a sweep     *)
(* that removes idle connections.  The map and the counters are locked one  *)
(* after the other, so a call of one task may fall between two steps of     *)
(* another's.  Counters are u64 and wrap as the release build lets them.    *)
EXTENDS Integers, Sequences, FiniteSets, SequencesExt

CONSTANTS
  Ids,            \* connections; a Uuid is never used again
  MaxConnections, \* the limit the manager is created with
  IdleTimeout,
  Word,           \* 2^w for words of w bits
  MaxClock        \* bound: last time explored

ASSUME ConnectionAssumption ==
  /\ MaxConnections \in Nat /\ IdleTimeout \in Nat /\ MaxClock \in Nat
  /\ IsFiniteSet(Ids)
  /\ Word \in Nat /\ Word > Cardinality(Ids)

VARIABLES
  entry,          \* how far the call that adds each connection is
  exit,           \* how far the call that removes it is
  conns,          \* ids in the connections map
  lastActivity,   \* of each connection
  total, active, peak,  \* ConnectionMetrics
  sweep,          \* connections the sweep has yet to remove
  clock

connVars == <<entry, exit, conns, lastActivity, total, active, peak, sweep, clock>>

-----------------------------------------------------------------------------
(* Operations *)

\* can_add_connection compares the idle connections with the limit; nothing in
\* the crate ever records an idle connection.
IdleConnections == {}
CanAddConnection == Cardinality(IdleConnections) < MaxConnections

\* add_connection, in three steps.
AddConnection(i) ==
  /\ entry[i] = "none"
  /\ CanAddConnection
  /\ entry' = [entry EXCEPT ![i] = "admitted"]
  /\ UNCHANGED <<exit, conns, lastActivity, total, active, peak, sweep, clock>>

Insert(i) ==
  /\ entry[i] = "admitted"
  /\ entry' = [entry EXCEPT ![i] = "inserted"]
  /\ conns' = conns \cup {i}
  /\ lastActivity' = [lastActivity EXCEPT ![i] = clock]
  /\ UNCHANGED <<exit, total, active, peak, sweep, clock>>

CountAdded(i) ==
  /\ entry[i] = "inserted"
  /\ entry' = [entry EXCEPT ![i] = "counted"]
  /\ total' = (total + 1) % Word
  /\ active' = (active + 1) % Word
  /\ peak' = IF active' > peak THEN active' ELSE peak
  /\ UNCHANGED <<exit, conns, lastActivity, sweep, clock>>

\* remove_connection, in two: of concurrent calls, one finds the connection.
TakeOut(i) ==
  /\ i \in conns
  /\ conns' = conns \ {i}
  /\ exit' = [exit EXCEPT ![i] = "removed"]
  /\ UNCHANGED <<entry, lastActivity, total, active, peak, clock>>

RemoveConnection(i) == TakeOut(i) /\ UNCHANGED sweep

\* Mutant: the counter stops at zero.
CountRemovedSaturating(i) ==
  /\ exit[i] = "removed"
  /\ exit' = [exit EXCEPT ![i] = "counted"]
  /\ active' = IF active = 0 THEN 0 ELSE active - 1
  /\ UNCHANGED <<entry, conns, lastActivity, total, peak, sweep, clock>>

CountRemoved(i) ==
  /\ exit[i] = "removed"
  /\ exit' = [exit EXCEPT ![i] = "counted"]
  /\ active' = (active - 1) % Word
  /\ UNCHANGED <<entry, conns, lastActivity, total, peak, sweep, clock>>

\* A message sent to a connection, or a call of update_connection_activity.
Touch(i) ==
  /\ i \in conns
  /\ lastActivity' = [lastActivity EXCEPT ![i] = clock]
  /\ UNCHANGED <<entry, exit, conns, total, active, peak, sweep, clock>>

\* Mutant: idle for exactly as long as allowed.
IdleExactly(i) == i \in conns /\ clock - lastActivity[i] = IdleTimeout + 1

Idle(i) == i \in conns /\ clock - lastActivity[i] > IdleTimeout

\* cleanup_idle_connections: what is idle now is listed, and removed later,
\* whatever it does in between; a connection found gone is passed over.
Sweep ==
  /\ sweep = <<>> /\ \E i \in Ids : Idle(i)
  /\ sweep' = SetToSeq({ i \in Ids : Idle(i) })
  /\ UNCHANGED <<entry, exit, conns, lastActivity, total, active, peak, clock>>

SweepRemove ==
  /\ sweep # <<>>
  /\ TakeOut(Head(sweep))
  /\ UNCHANGED sweep

SweepOn ==
  /\ sweep # <<>> /\ Head(sweep) \notin conns /\ exit[Head(sweep)] # "removed"
  /\ sweep' = Tail(sweep)
  /\ UNCHANGED <<entry, exit, conns, lastActivity, total, active, peak, clock>>

Passes ==
  /\ clock < MaxClock
  /\ clock' = clock + 1
  /\ UNCHANGED <<entry, exit, conns, lastActivity, total, active, peak, sweep>>

ConnInit ==
  /\ entry = [i \in Ids |-> "none"] /\ exit = [i \in Ids |-> "none"]
  /\ conns = {} /\ lastActivity = [i \in Ids |-> 0]
  /\ total = 0 /\ active = 0 /\ peak = 0
  /\ sweep = <<>> /\ clock = 0

Sweeping == Sweep \/ SweepRemove \/ SweepOn
GoOn(i) == Insert(i) \/ CountAdded(i) \/ CountRemoved(i)

ConnNext ==
  \/ \E i \in Ids : AddConnection(i) \/ GoOn(i) \/ RemoveConnection(i) \/ Touch(i)
  \/ Sweeping
  \/ Passes

\* The cleanup task of the server runs for ever, and calls that began go on.
ConnFairness == WF_connVars(Sweeping) /\ \A i \in Ids : WF_connVars(GoOn(i))

ConnSpec == ConnInit /\ [][ConnNext]_connVars /\ ConnFairness

-----------------------------------------------------------------------------
(* Properties *)

\* Type invariant.
ConnTypeOK ==
  /\ entry \in [Ids -> {"none", "admitted", "inserted", "counted"}]
  /\ exit \in [Ids -> {"none", "removed", "counted"}]
  /\ conns \subseteq Ids /\ sweep \in Seq(Ids)
  /\ lastActivity \in [Ids -> 0..MaxClock] /\ clock \in 0..MaxClock
  /\ {total, active, peak} \subseteq 0..(Word - 1)

InStep(f, step) == Cardinality({ i \in Ids : f[i] = step })

Counted == INSTANCE Gauge WITH
  members <- conns,
  seen <- { i \in Ids : entry[i] \in {"inserted", "counted"} },
  level <- (active + InStep(entry, "inserted") - InStep(exit, "removed")) % Word,
  arrivals <- (total + InStep(entry, "inserted")) % Word

\* With the calls under way made up for, the counters move with the map, in
\* any order of adding and removing calls and of their steps: no connection is
\* counted twice or forgotten, even when its removal is counted before its
\* arrival and the active counter goes below zero in between.
GaugeImplemented == Counted!Spec

\* A connection that stays idle is removed in the end, whatever the sweep has
\* to do with connections that were touched, or removed by others, meanwhile.
TooQuiet(i) == i \in conns /\ clock > lastActivity[i] + IdleTimeout
EvictedWhenIdle == \A i \in Ids : TooQuiet(i) ~> ~TooQuiet(i)

=============================================================================
