------------------------------- MODULE Gauge --------------------------------
(* A gauge of a changing population: its level and its count of arrivals    *)
(* move in the same step as the population does, in words of fixed width.   *)
EXTENDS Integers

CONSTANTS Ids, Word

VARIABLES members, seen, level, arrivals

vars == <<members, seen, level, arrivals>>

Init == members = {} /\ seen = {} /\ level = 0 /\ arrivals = 0

Arrive(i) ==
  /\ i \notin seen
  /\ members' = members \cup {i} /\ seen' = seen \cup {i}
  /\ level' = (level + 1) % Word
  /\ arrivals' = (arrivals + 1) % Word

Depart(i) ==
  /\ i \in members
  /\ members' = members \ {i}
  /\ level' = (level - 1) % Word
  /\ UNCHANGED <<seen, arrivals>>

Next == \E i \in Ids : Arrive(i) \/ Depart(i)

Spec == Init /\ [][Next]_vars
=============================================================================
