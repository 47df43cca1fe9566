\* Two clients that subscribe to one symbol up to twice while two items are
\* broadcast; three connections with a limit of two and an idle time of one
\* tick, seen for three ticks, counted in words of three bits.
CONSTANTS
  Clients = {c1, c2}
  Symbols = {s1}
  Allowed = {s1}
  SymbolSets <- OneSymbol
  MaxEntries = 2
  MaxItems = 2
  Ids = {i1, i2, i3}
  MaxConnections = 2
  IdleTimeout = 1
  Word = 8
  MaxClock = 3
SPECIFICATION Spec
PROPERTIES  GaugeImplemented EvictedWhenIdle
\* Clients may all be gone, and items and ticks are bounded.
CHECK_DEADLOCK FALSE
