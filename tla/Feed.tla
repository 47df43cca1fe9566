-------------------------------- MODULE Feed --------------------------------
(* What the market data server promises its clients, whatever its tasks do  *)
(* in between: a client that listens to a symbol gets every item published  *)
(* on it while it listens, once each in order, and nothing before it is     *)
(* published.  The next item of a symbol waits until all listeners have the *)
(* last one.                                                                *)
EXTENDS Naturals

CONSTANTS Clients, Symbols

VARIABLES
  published,      \* items published on each symbol
  listening,      \* the clients that listen to each symbol
  known           \* known[c][s]: the last item of s that c got or came after

vars == <<published, listening, known>>

Init ==
  /\ published = [s \in Symbols |-> 0]
  /\ listening = [s \in Symbols |-> {}]
  /\ known = [c \in Clients |-> [s \in Symbols |-> 0]]

Behind(c, s) == known[c][s] < published[s]

Publish(s) ==
  /\ \A c \in listening[s] : ~Behind(c, s)
  /\ published' = [published EXCEPT ![s] = @ + 1]
  /\ UNCHANGED <<listening, known>>

\* Whoever joins knows the symbol as it is.
Join(c, s) ==
  /\ c \notin listening[s]
  /\ listening' = [listening EXCEPT ![s] = @ \cup {c}]
  /\ known' = [known EXCEPT ![c][s] = published[s]]
  /\ UNCHANGED published

Leave(c) ==
  /\ listening' \in [Symbols -> SUBSET Clients]
  /\ \A s \in Symbols : listening'[s] = listening[s] \/ listening'[s] = listening[s] \ {c}
  /\ UNCHANGED <<published, known>>

\* An item may still reach a client that has just left.
Get(c, s) ==
  /\ Behind(c, s)
  /\ known' = [known EXCEPT ![c][s] = @ + 1]
  /\ UNCHANGED <<published, listening>>

Next ==
  \/ \E s \in Symbols : Publish(s)
  \/ \E c \in Clients : Leave(c)
  \/ \E c \in Clients, s \in Symbols : Join(c, s) \/ Get(c, s)

\* A listener gets what is published, or stops listening.
Delivery(c, s) == c \in listening[s] /\ Get(c, s)

Spec == Init /\ [][Next]_vars /\ \A c \in Clients, s \in Symbols : WF_vars(Delivery(c, s))
=============================================================================
