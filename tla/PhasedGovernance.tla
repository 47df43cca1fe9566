-------------------------- MODULE PhasedGovernance --------------------------
(* The decentralization schedule (counter/src/governance/governance.rs) and *)
(* the controller of the contract's parameters that is to obey it           *)
(* (governance/admin.rs).  As months pass, an admin who may change all      *)
(* becomes one who may pause, then gives way to guardians with a 3-of-5     *)
(* multi-signature, then to a DAO.  Fees can also be changed through a      *)
(* timelock.  A hash is modelled by what it hashes: the id of an operation  *)
(* or proposal is what the code hashes to get it, its payload among it.     *)
EXTENDS Integers, Sequences, FiniteSets, SequencesExt

CONSTANTS
  Guardians, Threshold,   \* authorized signers, MULTISIG_THRESHOLD
  Admin, Others,          \* the admin; callers that are neither
  Month, Delay,           \* SECS_PER_MONTH, TIMELOCK_DELAY_SECS
  Fees, Sizes,            \* values asked for as fee_bps and max_trade_size
  FirstFee, FirstSize,    \* the values the controller starts with
  Times,                  \* bound: the times at which something happens
  MaxLog                  \* bound: events logged

ASSUME GovernanceAssumption ==
  /\ Threshold \in Nat /\ Month \in Nat \ {0} /\ Delay \in Nat \ {0}
  /\ Times \subseteq Nat /\ 0 \in Times /\ MaxLog \in Nat
  /\ FirstFee \in Fees /\ FirstSize \in Sizes
  /\ Admin \notin Guardians /\ Others \cap (Guardians \cup {Admin}) = {}

VARIABLES
  phaseNow,       \* now_secs() since the deployment
  paused, fee, maxTrade,  \* ContractState
  entries,        \* Timelock.entries: from ids to entries
  sizes,          \* MultiSigCoordinator.proposals: from ids to proposals
  log,            \* GovernanceLog.entries
  reported        \* last_reported_phase

phasedVars == <<phaseNow, paused, fee, maxTrade, entries, sizes, log, reported>>
contractState == <<paused, fee, maxTrade>>

-----------------------------------------------------------------------------
(* Phases *)

Phases == <<"FullAdmin", "PauseOnly", "MultiSig", "DaoOnly">>
GovernancePhase == ToSet(Phases)

FromElapsed(elapsed) ==
  LET months == elapsed \div Month
  IN IF months <= 2 THEN "FullAdmin"
     ELSE IF months <= 5 THEN "PauseOnly"
     ELSE IF months <= 11 THEN "MultiSig" ELSE "DaoOnly"

Phase == FromElapsed(phaseNow)
Rank(p) == CHOOSE i \in DOMAIN Phases : Phases[i] = p

CanModifyState == Phase = "FullAdmin"
CanPause == Phase \in {"FullAdmin", "PauseOnly"}

-----------------------------------------------------------------------------
(* Timelock, multi-signature and log *)

\* desc, payload and time are what the id hashes; a second operation with the
\* same id replaces the first.
OperationId == [payload : Fees, queued : Times]
ProposalId == [proposer : Guardians, payload : Sizes, created : Times]

Entry == [executed : BOOLEAN, cancelled : BOOLEAN]
SizeProposal == [approvals : SUBSET Guardians, executed : BOOLEAN]

Event ==
  [kind : {"PhaseTransition"}, from : GovernancePhase, to : GovernancePhase]
    \cup [kind : {"TimelockQueued", "TimelockExecuted", "TimelockCancelled"},
          op : OperationId]
    \cup [kind : {"ProposalCreated", "ProposalExecuted"}, prop : ProposalId]
    \cup [kind : {"ProposalApproved"}, prop : ProposalId, by : Guardians]
    \cup [kind : {"GuardianOverride"}, by : Guardians]

\* Mutant: what is there already stays.
PutOnce(f, id, v) == [i \in DOMAIN f \cup {id} |-> IF i \in DOMAIN f THEN f[i] ELSE v]

Put(f, id, v) == [i \in DOMAIN f \cup {id} |-> IF i = id THEN v ELSE f[i]]

Ready(op) ==
  /\ ~entries[op].executed
  /\ ~entries[op].cancelled
  /\ phaseNow >= op.queued + Delay

\* Mutant: one signature short.
ApprovedAlmost(id) == Cardinality(sizes[id].approvals) + 1 >= Threshold

IsApproved(id) == Cardinality(sizes[id].approvals) >= Threshold

Logged(event) ==
  /\ Len(log) < MaxLog
  /\ log' = Append(log, event)

-----------------------------------------------------------------------------
(* Operations of the controller *)

SetPaused(caller, value) ==
  /\ caller = Admin
  /\ CanPause
  /\ paused' = value
  /\ UNCHANGED <<phaseNow, fee, maxTrade, entries, sizes, log, reported>>

SetFeeBpsDirect(caller, value) ==
  /\ caller = Admin
  /\ CanModifyState
  /\ fee' = value
  /\ UNCHANGED <<phaseNow, paused, maxTrade, entries, sizes, log, reported>>

QueueSetFeeBps(caller, value) ==
  LET op == [payload |-> value, queued |-> phaseNow]
  IN /\ caller = Admin
     /\ Phase # "DaoOnly"
     /\ entries' = Put(entries, op, [executed |-> FALSE, cancelled |-> FALSE])
     /\ Logged([kind |-> "TimelockQueued", op |-> op])
     /\ UNCHANGED <<phaseNow, contractState, sizes, reported>>

\* Anyone may execute, in whatever phase.
ExecuteSetFeeBps(op, value) ==
  /\ Ready(op)
  /\ value = op.payload
  /\ entries' = [entries EXCEPT ![op].executed = TRUE]
  /\ Logged([kind |-> "TimelockExecuted", op |-> op])
  /\ fee' = value
  /\ UNCHANGED <<phaseNow, paused, maxTrade, sizes, reported>>

CancelOperation(op) ==
  /\ ~entries[op].executed
  /\ entries' = [entries EXCEPT ![op].cancelled = TRUE]
  /\ Logged([kind |-> "TimelockCancelled", op |-> op])
  /\ UNCHANGED <<phaseNow, contractState, sizes, reported>>

ProposeMaxTradeSize(proposer, value) ==
  LET id == [proposer |-> proposer, payload |-> value, created |-> phaseNow]
  IN /\ Phase \in {"MultiSig", "DaoOnly"}
     /\ proposer \in Guardians
     /\ sizes' = Put(sizes, id, [approvals |-> {proposer}, executed |-> FALSE])
     /\ Logged([kind |-> "ProposalCreated", prop |-> id])
     /\ UNCHANGED <<phaseNow, contractState, entries, reported>>

ApproveMaxTradeSize(id, signer) ==
  /\ signer \in Guardians
  /\ ~sizes[id].executed
  /\ signer \notin sizes[id].approvals
  /\ sizes' = [sizes EXCEPT ![id].approvals = @ \cup {signer}]
  /\ Logged([kind |-> "ProposalApproved", prop |-> id, by |-> signer])
  /\ UNCHANGED <<phaseNow, contractState, entries, reported>>

ExecuteMaxTradeSize(id, value) ==
  /\ ~sizes[id].executed
  /\ IsApproved(id)
  /\ value = id.payload
  /\ sizes' = [sizes EXCEPT ![id].executed = TRUE]
  /\ Logged([kind |-> "ProposalExecuted", prop |-> id])
  /\ maxTrade' = value
  /\ UNCHANGED <<phaseNow, paused, fee, entries, reported>>

\* A guardian whose proof verifies: the override is logged, and does no more.
GuardianOverride(guardian) ==
  /\ guardian \in Guardians
  /\ Logged([kind |-> "GuardianOverride", by |-> guardian])
  /\ UNCHANGED <<phaseNow, contractState, entries, sizes, reported>>

\* tick, which callers call when they see fit.
ReportPhase ==
  /\ Phase # reported
  /\ Logged([kind |-> "PhaseTransition", from |-> reported, to |-> Phase])
  /\ reported' = Phase
  /\ UNCHANGED <<phaseNow, contractState, entries, sizes>>

\* The system clock.
Advance(t) ==
  /\ t > phaseNow
  /\ phaseNow' = t
  /\ UNCHANGED <<contractState, entries, sizes, log, reported>>

-----------------------------------------------------------------------------

\* deploy also logs the commitment to the schedule, which stays as it is.
PhasedInit ==
  /\ phaseNow = 0
  /\ paused = FALSE /\ fee = FirstFee /\ maxTrade = FirstSize
  /\ entries = <<>> /\ sizes = <<>>
  /\ log = << [kind |-> "PhaseTransition", from |-> "FullAdmin", to |-> "FullAdmin"] >>
  /\ reported = "FullAdmin"

Callers == Guardians \cup Others \cup {Admin}

PhasedNext ==
  \/ \E c \in Callers :
        \/ \E value \in BOOLEAN : SetPaused(c, value)
        \/ \E value \in Fees : SetFeeBpsDirect(c, value) \/ QueueSetFeeBps(c, value)
        \/ \E value \in Sizes : ProposeMaxTradeSize(c, value)
        \/ \E id \in DOMAIN sizes : ApproveMaxTradeSize(id, c)
        \/ GuardianOverride(c)
  \/ \E op \in DOMAIN entries :
        CancelOperation(op) \/ \E value \in Fees : ExecuteSetFeeBps(op, value)
  \/ \E id \in DOMAIN sizes, value \in Sizes : ExecuteMaxTradeSize(id, value)
  \/ ReportPhase
  \/ \E t \in Times : Advance(t)

PhasedSpec == PhasedInit /\ [][PhasedNext]_phasedVars

-----------------------------------------------------------------------------
(* Properties *)

\* Type invariant; no operation is both executed and cancelled.
PhasedTypeOK ==
  /\ phaseNow \in Times
  /\ paused \in BOOLEAN /\ fee \in Fees /\ maxTrade \in Sizes
  /\ DOMAIN entries \subseteq OperationId
  /\ \A op \in DOMAIN entries :
       entries[op] \in Entry /\ ~(entries[op].executed /\ entries[op].cancelled)
  /\ DOMAIN sizes \subseteq ProposalId
  /\ \A id \in DOMAIN sizes : sizes[id] \in SizeProposal
  /\ log \in Seq(Event)
  /\ reported \in GovernancePhase

About(i, op) ==
  /\ log[i].kind \in {"TimelockQueued", "TimelockExecuted", "TimelockCancelled"}
  /\ log[i].op = op
Creates(i, id) == log[i].kind = "ProposalCreated" /\ log[i].prop = id
Approves(i, id, by) ==
  log[i].kind = "ProposalApproved" /\ log[i].prop = id /\ log[i].by = by
Runs(i, id) == log[i].kind = "ProposalExecuted" /\ log[i].prop = id
Moves(i) == log[i].kind = "PhaseTransition"

\* The audit log tells the timelock: an operation exists once it was logged as
\* queued, and the last event about it says whether it waits, ran or was
\* cancelled, even where an operation replaced another with the same id.
LogTellsTimelock ==
  \A op \in OperationId :
    IF op \in DOMAIN entries
    THEN \E last \in DOMAIN log :
           /\ About(last, op)
           /\ \A i \in DOMAIN log : About(i, op) => i <= last
           /\ entries[op].executed <=> log[last].kind = "TimelockExecuted"
           /\ entries[op].cancelled <=> log[last].kind = "TimelockCancelled"
    ELSE \A i \in DOMAIN log : ~About(i, op)

\* The audit log tells who carries a proposal: its proposer and those who
\* approved it since it was last created, and whether it ran since.
LogTellsProposals ==
  \A id \in ProposalId :
    IF id \in DOMAIN sizes
    THEN \E created \in DOMAIN log :
           LET since == { i \in DOMAIN log : i > created }
           IN /\ Creates(created, id)
              /\ \A i \in since : ~Creates(i, id)
              /\ \A by \in Guardians :
                   by \in sizes[id].approvals
                     <=> by = id.proposer \/ \E i \in since : Approves(i, id, by)
              /\ sizes[id].executed <=> \E i \in since : Runs(i, id)
    ELSE \A i \in DOMAIN log : ~Creates(i, id)

\* Phase transitions are reported late and may skip phases, yet those logged
\* form one chain that only goes forward and ends at the phase last reported.
PhasesChain ==
  /\ \A j \in DOMAIN log \ {1} : Moves(j) =>
       /\ Rank(log[j].from) < Rank(log[j].to)
       /\ \E i \in 1..(j - 1) :
            /\ Moves(i) /\ log[i].to = log[j].from
            /\ \A k \in (i + 1)..(j - 1) : ~Moves(k)
  /\ \E last \in DOMAIN log :
       /\ Moves(last) /\ log[last].to = reported
       /\ \A i \in DOMAIN log : Moves(i) => i <= last
  /\ Rank(reported) <= Rank(Phase)

\* The audit log is complete: replayed, it gives the timelock, the proposals and
\* the phases (governance.rs:196, 365, 749).
LogTellsState == PhasedTypeOK /\ LogTellsTimelock /\ LogTellsProposals /\ PhasesChain

\* A fee changes only while the admin has full control, or by an operation
\* that was queued with this fee, still stood, and waited out the delay.
FeeThroughTimelock ==
  [][fee' # fee =>
       \/ Phase = "FullAdmin"
       \/ \E op \in DOMAIN entries :
            /\ op.payload = fee' /\ phaseNow - op.queued >= Delay
            /\ ~entries[op].executed /\ ~entries[op].cancelled
            /\ entries'[op].executed]_phasedVars

\* The size limit changes only by a proposal that names the new size, was made
\* once the multi-signature phase had begun, and has a quorum of guardians.
SizeByQuorum ==
  [][maxTrade' # maxTrade =>
       \E id \in DOMAIN sizes :
         /\ id.payload = maxTrade'
         /\ Rank(FromElapsed(id.created)) >= Rank("MultiSig")
         /\ Cardinality(sizes[id].approvals) >= Threshold
         /\ ~sizes[id].executed /\ sizes'[id].executed]_phasedVars

\* From the second phase on a fee needs a standing operation that waited out its
\* delay, and a size a quorum of guardians (governance/admin.rs:88).
ChangesEarned == FeeThroughTimelock /\ SizeByQuorum

-----------------------------------------------------------------------------
(* What the comments say and the code does not do (violation runs)          *)

\* governance.rs: months 7-12, "all changes require 3-of-5 multi-sig".
MultiSigForAllChanges ==
  [][Phase = "MultiSig" /\ contractState' # contractState =>
       \E id \in DOMAIN sizes :
         IsApproved(id) /\ ~sizes[id].executed /\ sizes'[id].executed]_phasedVars

=============================================================================
