------------------------------ MODULE GovParams ------------------------------
\* Parameters behind a timelock (counter/src/governance_params.rs): the admin
\* queues a value and executes it after the delay that was in force when it was
\* queued. Calls of anyone but the admin are refused.
EXTENDS Integers, Sequences

CONSTANTS
    Params,          \* ParamKey
    NewValues,       \* values proposed
    InRange(_, _),   \* validate_param_value
    Unset,           \* no value committed
    Delays,          \* timelock delays the admin asks for
    MinDelay,        \* PARAM_TIMELOCK_MIN
    DefaultDelay,    \* PARAM_TIMELOCK_DEFAULT
    MaxUpdates,      \* exploration bound on the updates queued
    ParamEnd         \* exploration bound on the ledger time

ASSUME ParamAssumption ==
    /\ MinDelay \in Nat /\ DefaultDelay \in Nat /\ DefaultDelay >= MinDelay
    /\ Delays \subseteq Nat /\ MaxUpdates \in Nat /\ ParamEnd \in Nat

VARIABLES
    delay,           \* TimelockDelay
    updates,         \* PendingUpdate by id
    committed,       \* ParamValue
    executions,      \* <<id, time>> of every execution
    paramNow         \* ledger time

paramVars == <<delay, updates, committed, executions, paramNow>>

ParamInit ==
    /\ delay = DefaultDelay
    /\ updates = <<>> /\ executions = <<>>
    /\ committed = [p \in Params |-> Unset]
    /\ paramNow = 0

SetTimelockDelay(d) ==
    /\ d >= MinDelay
    /\ delay' = d
    /\ UNCHANGED <<updates, committed, executions, paramNow>>

ProposeUpdate(p, v) ==
    /\ InRange(p, v) /\ Len(updates) < MaxUpdates
    /\ updates' = Append(updates, [param |-> p, value |-> v, proposed_at |-> paramNow,
                                   executable_at |-> paramNow + delay, executed |-> FALSE])
    /\ UNCHANGED <<delay, committed, executions, paramNow>>

\* Variant with a fault: the update is not stored as executed.
ExecuteUpdateAgain(id) ==
    /\ ~updates[id].executed /\ paramNow >= updates[id].executable_at
    /\ committed' = [committed EXCEPT ![updates[id].param] = updates[id].value]
    /\ executions' = Append(executions, <<id, paramNow>>)
    /\ UNCHANGED <<delay, updates, paramNow>>

ExecuteUpdate(id) ==
    /\ ~updates[id].executed /\ paramNow >= updates[id].executable_at
    /\ committed' = [committed EXCEPT ![updates[id].param] = updates[id].value]
    /\ updates' = [updates EXCEPT ![id].executed = TRUE]
    /\ executions' = Append(executions, <<id, paramNow>>)
    /\ UNCHANGED <<delay, paramNow>>

ParamTick ==
    /\ paramNow < ParamEnd
    /\ paramNow' = paramNow + 1
    /\ UNCHANGED <<delay, updates, committed, executions>>

ParamNext ==
    \/ \E d \in Delays : SetTimelockDelay(d)
    \/ \E p \in Params, v \in NewValues : ProposeUpdate(p, v)
    \/ \E id \in DOMAIN updates : ExecuteUpdate(id)
    \/ ParamTick

ParamSpec == ParamInit /\ [][ParamNext]_paramVars

----------------------------------------------------------------------------
PendingUpdate == [param : Params, value : NewValues, proposed_at : Nat,
                  executable_at : Nat, executed : BOOLEAN]

ParamTypeOK ==
    /\ delay \in Nat
    /\ updates \in Seq(PendingUpdate)
    /\ committed \in [Params -> NewValues \cup {Unset}]
    /\ executions \in Seq(Nat \X Nat)
    /\ paramNow \in Nat

\* The i-th execution set p.
Sets(i, p) == updates[executions[i][1]].param = p

\* The last execution that set p set it to the value it has, in its range, and at
\* least the minimum delay after it was proposed.
SetLast(i, p) ==
    LET u == updates[executions[i][1]]
    IN  /\ Sets(i, p) /\ \A j \in DOMAIN executions : Sets(j, p) => j <= i
        /\ committed[p] = u.value /\ InRange(p, u.value)
        /\ executions[i][2] >= u.proposed_at + MinDelay

NeverSet(p) == committed[p] = Unset /\ \A i \in DOMAIN executions : ~Sets(i, p)

\* A committed value is the one of the last executed update of its parameter, in
\* the parameter's range, and was queued for the minimum delay at least; no
\* update is executed twice, so an old one cannot undo a later one again
\* (governance_params.rs:142).
CommittedByUpdates ==
    /\ \A i, j \in DOMAIN executions : executions[i][1] = executions[j][1] => i = j
    /\ \A p \in Params : NeverSet(p) \/ \E i \in DOMAIN executions : SetLast(i, p)

\* Parameters keep their types and have the values of their last executions.
ParametersSound == ParamTypeOK /\ CommittedByUpdates
=============================================================================
