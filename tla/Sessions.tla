------------------------------ MODULE Sessions ------------------------------
(* The sessions of the market data server (websocket.rs) and the loop that  *)
(* feeds them (bin/server.rs): one task per connection, one task that       *)
(* broadcasts, and shared maps that each task locks for one step at a time. *)
EXTENDS Integers, Sequences, SequencesExt

CONSTANTS
  Clients,        \* connection ids; each is used for one connection
  Symbols,
  Allowed,        \* allowed_symbols of the validator
  SymbolSets,     \* sets of symbols clients ask for
  MaxEntries,     \* bound: times a client is registered for a symbol
  MaxItems        \* bound: items published on a symbol

ASSUME SessionsAssumption ==
  /\ Allowed \subseteq Symbols /\ SymbolSets \subseteq SUBSET Symbols
  /\ MaxEntries \in Nat /\ MaxItems \in Nat

VARIABLES
  task,           \* where the task of each connection is, and what it has to do
  gone,           \* clients whose end of the socket is closed
  connections,    \* ids in the connection map
  subscriptions,  \* the symbols in the record of each connection
  writers,        \* ids in ws_writers
  subscribers,    \* MessageBroadcaster: subscribers of each symbol, with repetitions
  topic, left,    \* the last broadcast, and whom it has yet to reach
  published,      \* items broadcast on each symbol
  known           \* the last item each client got, or that was there when it came

maps == <<connections, subscriptions, writers, subscribers>>
feed == <<topic, left, published, known>>
sessionVars == <<task, gone, connections, subscriptions, writers, subscribers,
                 topic, left, published, known>>

Times(c, list) == Len(SelectSeq(list, LAMBDA d : d = c))

At(c, step) == task[c].at = step
Goto(c, step, asked, todo) ==
  task' = [task EXCEPT ![c] = [at |-> step, asked |-> asked, todo |-> todo]]

-----------------------------------------------------------------------------
(* The task of a connection: handle_connection *)

Accept(c) ==
  /\ At(c, "new") /\ c \notin gone
  /\ connections' = connections \cup {c}
  /\ Goto(c, "accepted", {}, {})
  /\ UNCHANGED <<gone, subscriptions, writers, subscribers, feed>>

StoreWriter(c) ==
  /\ At(c, "accepted")
  /\ writers' = writers \cup {c}
  /\ Goto(c, "reading", {}, {})
  /\ UNCHANGED <<gone, connections, subscriptions, subscribers, feed>>

\* The record is updated first, then the broadcaster, symbol by symbol.
Subscribe(c, symbols) ==
  /\ At(c, "reading") /\ c \notin gone
  /\ symbols \subseteq Allowed
  /\ \A s \in symbols : Times(c, subscribers[s]) < MaxEntries
  /\ subscriptions' = [subscriptions EXCEPT ![c] = @ \cup symbols]
  /\ Goto(c, IF symbols = {} THEN "reading" ELSE "registering", symbols, symbols)
  /\ UNCHANGED <<gone, connections, writers, subscribers, feed>>

Register(c, s) ==
  /\ At(c, "registering") /\ s \in task[c].todo
  /\ subscribers' = [subscribers EXCEPT ![s] = Append(@, c)]
  /\ known' = [known EXCEPT ![c][s] =
       IF c \in gone \/ c \in ToSet(subscribers[s]) THEN @ ELSE published[s]]
  /\ Goto(c, IF task[c].todo = {s} THEN "reading" ELSE "registering",
          task[c].asked, task[c].todo \ {s})
  /\ UNCHANGED <<gone, connections, subscriptions, writers, topic, left, published>>

\* The other way round, and without asking the validator.
Unsubscribe(c, symbols) ==
  /\ At(c, "reading") /\ c \notin gone
  /\ Goto(c, "withdrawing", symbols, symbols)
  /\ UNCHANGED <<gone, maps, feed>>

\* All occurrences; the others stay in their order.
TakenOut(c, list) ==
  LET kept[i \in 0..Len(list)] ==
        IF i = 0 THEN <<>>
        ELSE IF list[i] = c THEN kept[i - 1] ELSE Append(kept[i - 1], list[i])
  IN  kept[Len(list)]

Withdraw(c, s) ==
  /\ At(c, "withdrawing") /\ s \in task[c].todo
  /\ subscribers' = [subscribers EXCEPT ![s] = TakenOut(c, @)]
  /\ Goto(c, "withdrawing", task[c].asked, task[c].todo \ {s})
  /\ UNCHANGED <<gone, connections, subscriptions, writers, feed>>

Withdrawn(c) ==
  /\ At(c, "withdrawing") /\ task[c].todo = {}
  /\ subscriptions' = [subscriptions EXCEPT ![c] = @ \ task[c].asked]
  /\ Goto(c, "reading", {}, {})
  /\ UNCHANGED <<gone, connections, writers, subscribers, feed>>

\* A message that cannot be read or answered, or asks for a symbol that is not
\* allowed, ends the task on the spot: nothing is cleaned up.
Fail(c) ==
  /\ At(c, "reading") /\ c \notin gone
  /\ Goto(c, "failed", {}, {})
  /\ UNCHANGED <<gone, maps, feed>>

\* The client closes its end, with a Close frame or without.
HangUp(c) ==
  /\ c \notin gone
  /\ gone' = gone \cup {c}
  /\ UNCHANGED <<task, maps, feed>>

\* The reader of a closed socket ends the loop; two removals follow.
Drop(c) ==
  /\ At(c, "reading") /\ c \in gone
  /\ connections' = connections \ {c}
  /\ Goto(c, "dropped", {}, {})
  /\ UNCHANGED <<gone, subscriptions, writers, subscribers, feed>>

DropWriter(c) ==
  /\ At(c, "dropped")
  /\ writers' = writers \ {c}
  /\ Goto(c, "ended", {}, {})
  /\ UNCHANGED <<gone, connections, subscriptions, subscribers, feed>>

-----------------------------------------------------------------------------
(* The broadcast loop: broadcast_market_data *)

\* Valid data of a symbol; the list of its subscribers is copied.
Broadcast(s) ==
  /\ left = <<>> /\ published[s] < MaxItems
  /\ topic' = s /\ left' = subscribers[s]
  /\ published' = [published EXCEPT ![s] = @ + 1]
  /\ UNCHANGED <<task, gone, maps, known>>

Reaches(c) == c \in writers /\ c \notin gone

Got(c) == known' = IF Reaches(c) THEN [known EXCEPT ![c][topic] = published[topic]] ELSE known

\* Mutant: a client that cannot be reached ends the broadcast.
SendOrStop ==
  /\ left # <<>>
  /\ Got(Head(left))
  /\ left' = IF Reaches(Head(left)) THEN Tail(left) ELSE <<>>
  /\ UNCHANGED <<task, gone, maps, topic, published>>

\* A client that cannot be reached is logged and passed over.
Send ==
  /\ left # <<>>
  /\ Got(Head(left))
  /\ left' = Tail(left)
  /\ UNCHANGED <<task, gone, maps, topic, published>>

SessionInit ==
  /\ task = [c \in Clients |-> [at |-> "new", asked |-> {}, todo |-> {}]]
  /\ gone = {} /\ connections = {} /\ writers = {}
  /\ subscriptions = [c \in Clients |-> {}]
  /\ subscribers = [s \in Symbols |-> <<>>]
  /\ topic \in Symbols /\ left = <<>>
  /\ published = [s \in Symbols |-> 0]
  /\ known = [c \in Clients |-> [s \in Symbols |-> 0]]

\* What the tasks do on their own, and what the clients and the data make them do.
Handle(c) ==
  \/ StoreWriter(c) \/ Withdrawn(c) \/ Drop(c) \/ DropWriter(c)
  \/ \E s \in Symbols : Register(c, s) \/ Withdraw(c, s)

SessionNext ==
  \/ \E c \in Clients : Accept(c) \/ Fail(c) \/ HangUp(c) \/ Handle(c)
  \/ \E c \in Clients, asked \in SymbolSets : Subscribe(c, asked) \/ Unsubscribe(c, asked)
  \/ \E s \in Symbols : Broadcast(s)
  \/ Send

\* The runtime polls every task that can go on: the broadcast, and each handler.
SessionFairness ==
  /\ WF_sessionVars(Send)
  /\ \A c \in Clients : WF_sessionVars(Handle(c))

SessionSpec == SessionInit /\ [][SessionNext]_sessionVars /\ SessionFairness

-----------------------------------------------------------------------------
(* Properties *)

\* Type invariant.
SessionTypeOK ==
  /\ task \in [Clients -> [at : {"new", "accepted", "reading", "registering", "withdrawing",
                                 "failed", "dropped", "ended"},
                           asked : SUBSET Symbols, todo : SUBSET Symbols]]
  /\ gone \subseteq Clients /\ connections \subseteq Clients /\ writers \subseteq Clients
  /\ subscriptions \in [Clients -> SUBSET Symbols]
  /\ subscribers \in [Symbols -> Seq(Clients)] /\ left \in Seq(Clients)
  /\ topic \in Symbols
  /\ published \in [Symbols -> Nat] /\ known \in [Clients -> [Symbols -> Nat]]

\* Whenever the task of a connection is between two messages, the record of the
\* connection and the broadcaster agree on what the client subscribed to, though
\* they are written in two steps and the broadcaster repeats a client.
RegistriesAgree ==
  \A c \in Clients, s \in Symbols : task[c].at \in {"reading", "failed"} =>
    (s \in subscriptions[c] <=> c \in ToSet(subscribers[s]))

\* Listening is being registered, with a writer and an open socket.
Listening == [s \in Symbols |-> { c \in ToSet(subscribers[s]) : Reaches(c) }]

Abstract == INSTANCE Feed WITH listening <- Listening

\* The server keeps the promise of Feed: whoever listens gets every item, in
\* order, and is never left behind by clients that fail, leave or hang up
\* while a broadcast goes through a list made before.
FeedImplemented == Abstract!Spec

=============================================================================
