---------------------------- MODULE MCStreamTasks ----------------------------
(* The two concurrent parts of the market data server, one per behaviour:   *)
(* they share nothing, so what one does is the same whatever the other does. *)
EXTENDS Sessions, ConnectionManager

VARIABLE part

vars == <<part, sessionVars, connVars>>

Init == part \in {"sessions", "connections"} /\ SessionInit /\ ConnInit

Next ==
  \/ part = "sessions" /\ SessionNext /\ UNCHANGED <<part, connVars>>
  \/ part = "connections" /\ ConnNext /\ UNCHANGED <<part, sessionVars>>

\* In a part that is not chosen nothing has begun, and nothing is due.
Spec == Init /\ [][Next]_vars /\ SessionFairness /\ ConnFairness

-----------------------------------------------------------------------------
\* Clients listen to what their records say and get all of it, whatever tasks do in
\* between; both parts keep their types (websocket.rs:244, 318).
SubscribersServed ==
  [](SessionTypeOK /\ ConnTypeOK /\ RegistriesAgree) /\ FeedImplemented

OneSymbol == {Symbols}
=============================================================================
