------------------------------ MODULE Failover ------------------------------
\* The primary source of market data (market-data-streaming/src/data_sources.rs,
\* DataSourceManager): a task looks at the primary every second and moves on to
\* the best healthy source, at most once per cooldown. The name of the primary
\* is under a lock that many may read or one may write, and a writer that waits
\* keeps new readers out. A source is what implements the DataSource trait, and
\* may go down and come back at any time.
EXTENDS Naturals, FiniteSets

CONSTANTS
    Sources,       \* sources of market data
    NoSource,      \* no primary yet
    Weight,        \* priority_weights
    MaxSources,    \* max_sources
    Cooldown       \* seconds between failovers

\* priority_weights is empty by default, and a source without a weight counts 1.
DefaultWeights == [s \in Sources |-> 1]

VARIABLES
    sources,       \* registered sources
    up,            \* sources that are connected and healthy
    primary,       \* primary_source
    target,        \* the source the monitor is about to make primary, or NoSource
    readers,       \* tasks that hold the lock of the primary for reading
    elapsed        \* seconds since the last failover, counted up to the cooldown

failoverVars == <<sources, up, primary, target, readers, elapsed>>

WriterWaits == target # NoSource
MayRead == ~WriterWaits
MayWrite == readers = {}

Backups == {s \in (sources \cap up) \ {primary} :
               \A r \in (sources \cap up) \ {primary} : Weight[s] >= Weight[r]}

\* Sources are not connected when they are made, and the manager starts with the
\* cooldown of a failover that has not happened.
FailoverInit ==
    /\ sources = {} /\ up = {} /\ primary = NoSource
    /\ target = NoSource /\ readers = {} /\ elapsed = 0

\* The first source is the primary.
AddSource(s) ==
    /\ s \notin sources /\ Cardinality(sources) < MaxSources
    /\ MayRead /\ (primary = NoSource => MayWrite)
    /\ sources' = sources \cup {s}
    /\ primary' = IF primary = NoSource THEN s ELSE primary
    /\ UNCHANGED <<up, target, readers, elapsed>>

\* The primary may be removed, and stays the primary.
RemoveSource(s) ==
    /\ s \in sources
    /\ sources' = sources \ {s}
    /\ UNCHANGED <<up, primary, target, readers, elapsed>>

Connect(s) ==
    /\ s \notin up /\ up' = up \cup {s}
    /\ UNCHANGED <<sources, primary, target, readers, elapsed>>

Disconnect(s) ==
    /\ s \in up /\ up' = up \ {s}
    /\ UNCHANGED <<sources, primary, target, readers, elapsed>>

\* check_health_and_failover up to the write: the guard of the read that gave the
\* name of the primary lives to the end of the block that calls the failover.
InitiateFailover ==
    /\ elapsed >= Cooldown /\ target = NoSource /\ MayRead
    /\ primary \in sources \ up
    /\ \E s \in Backups : target' = s
    /\ readers' = readers \cup {"monitor"}
    /\ UNCHANGED <<sources, up, primary, elapsed>>

\* The write, the cooldown, and the end of the block.
Switch ==
    /\ WriterWaits /\ MayWrite
    /\ primary' = target /\ target' = NoSource
    /\ readers' = readers \ {"monitor"} /\ elapsed' = 0
    /\ UNCHANGED <<sources, up>>

Second ==
    /\ elapsed < Cooldown
    /\ elapsed' = elapsed + 1
    /\ UNCHANGED <<sources, up, primary, target, readers>>

FailoverNext ==
    \/ \E s \in Sources : AddSource(s) \/ RemoveSource(s) \/ Connect(s) \/ Disconnect(s)
    \/ InitiateFailover
    \/ Switch
    \/ Second

\* Time passes, the monitor is woken every second and its task goes on when it can.
FailoverSpec ==
    /\ FailoverInit /\ [][FailoverNext]_failoverVars
    /\ WF_failoverVars(Second) /\ WF_failoverVars(InitiateFailover)
    /\ WF_failoverVars(Switch)

----------------------------------------------------------------------------
\* A primary that stays down while another registered source stays up does not
\* stay the primary: "Failover within 5s as required" (data_sources.rs:108). The
\* monitor waits for its own guard instead (data_sources.rs:428 and 465).
FailoverHappens ==
    \A s, b \in Sources :
        ~<>[](primary = s /\ s \in sources \ up /\ b \in sources \cap up)
=============================================================================
