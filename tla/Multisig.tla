------------------------------ MODULE Multisig ------------------------------
(* Multi-signature governance of the trading contract                       *)
(* (counter/src/governance_system.rs, admin.rs and the setters of lib.rs):  *)
(* anyone may create a proposal, the configured signers approve it, and     *)
(* anyone may execute it once it has as many approvals as the threshold.    *)
EXTENDS Integers, Sequences, FiniteSets, SequencesExt

CONSTANTS
  Users,
  SignerLists,    \* signer lists of configurations; a list may repeat a signer
  Thresholds,     \* thresholds of configurations
  Tiers,          \* fee tiers proposals ask for
  Deployer,       \* the admin stored when the contract is set up
  None,           \* Rust's Option::None
  MaxProposals    \* bound: proposals created

ASSUME MultisigAssumption ==
  /\ SignerLists \subseteq Seq(Users) /\ Thresholds \subseteq Nat
  /\ Tiers \subseteq Nat
  /\ Deployer \in Users /\ None \notin Users
  /\ MaxProposals \in Nat

VARIABLES
  proposals,      \* PROPOSALS_KEY; proposal_id is the position
  approvals,      \* PROPOSAL_STATE_KEY: who approved each proposal
  config,         \* MULTI_SIG_CONFIG_KEY
  settings,       \* what proposals change: the flags and addresses stored
  feeTier,        \* fee tier of the pool proposals name
  published       \* the (prop_exec, proposal, caller) events

multisigVars == <<proposals, approvals, config, settings, feeTier, published>>

-----------------------------------------------------------------------------
(* Proposals and settings *)

ProposalAction ==
  [kind : {"PauseTrading", "ResumeTrading"}, arg : {None}]
    \cup [kind : {"SetAdmin", "SetTreasury"}, arg : Users]
    \cup [kind : {"UpdatePoolFeeTier"}, arg : Tiers]

\* Who created a proposal, and when, is stored and never looked at.
Proposal == [action : ProposalAction, executed : BOOLEAN]
MultiSigConfig == [signers : SignerLists, threshold : Thresholds]
Settings == [paused : BOOLEAN, admin : Users, treasury : Users \cup {None}]
Execution == [id : Nat, caller : Users]
FeeTiers == {1, 5, 30}

\* The setters of lib.rs check no authority: execute_proposal is their guard.
Applied(s, action) ==
  CASE action.kind = "PauseTrading"  -> [s EXCEPT !.paused = TRUE]
    [] action.kind = "ResumeTrading" -> [s EXCEPT !.paused = FALSE]
    [] action.kind = "SetAdmin"      -> [s EXCEPT !.admin = action.arg]
    [] action.kind = "SetTreasury"   -> [s EXCEPT !.treasury = action.arg]
    [] OTHER                         -> s

\* Mutant: one approval short.
HasQuorumAlmost(id) == Cardinality(approvals[id]) + 1 >= config.threshold

\* PoolRegistry.update_fee_tier: the one setter with a check of its own.
MaySetTier(caller, tier) == caller = settings.admin /\ tier \in FeeTiers

HasQuorum(id) == Cardinality(approvals[id]) >= config.threshold

-----------------------------------------------------------------------------
(* Operations *)

SetMultiSigConfig(signers, threshold) ==
  /\ threshold # 0 /\ threshold <= Len(signers)
  /\ config' = [signers |-> signers, threshold |-> threshold]
  /\ UNCHANGED <<proposals, approvals, settings, feeTier, published>>

CreateProposal(action) ==
  /\ Len(proposals) < MaxProposals
  /\ proposals' = Append(proposals, [action |-> action, executed |-> FALSE])
  /\ approvals' = Append(approvals, {})
  /\ UNCHANGED <<config, settings, feeTier, published>>

ApproveProposal(caller, id) ==
  /\ config # None
  /\ caller \in ToSet(config.signers)
  /\ ~proposals[id].executed
  /\ caller \notin approvals[id]
  /\ approvals' = [approvals EXCEPT ![id] = @ \cup {caller}]
  /\ UNCHANGED <<proposals, config, settings, feeTier, published>>

ExecuteProposal(caller, id) ==
  LET action == proposals[id].action
  IN /\ config # None
     /\ ~proposals[id].executed
     /\ HasQuorum(id)
     /\ action.kind = "UpdatePoolFeeTier" => MaySetTier(caller, action.arg)
     /\ settings' = Applied(settings, action)
     /\ feeTier' = IF action.kind = "UpdatePoolFeeTier" THEN action.arg ELSE feeTier
     /\ proposals' = [proposals EXCEPT ![id].executed = TRUE]
     /\ published' = Append(published, [id |-> id, caller |-> caller])
     /\ UNCHANGED <<approvals, config>>

\* update_pool_fee_tier called directly.
UpdatePoolFeeTier(caller, tier) ==
  /\ MaySetTier(caller, tier)
  /\ feeTier' = tier
  /\ UNCHANGED <<proposals, approvals, config, settings, published>>

InitialSettings == [paused |-> FALSE, admin |-> Deployer, treasury |-> None]

MultisigInit ==
  /\ proposals = <<>> /\ approvals = <<>>
  /\ config = None
  /\ settings = InitialSettings
  /\ feeTier \in FeeTiers
  /\ published = <<>>

MultisigNext ==
  \/ \E signers \in SignerLists, threshold \in Thresholds :
        SetMultiSigConfig(signers, threshold)
  \/ \E action \in ProposalAction : CreateProposal(action)
  \/ \E u \in Users, id \in DOMAIN proposals :
        ApproveProposal(u, id) \/ ExecuteProposal(u, id)
  \/ \E u \in Users, tier \in Tiers : UpdatePoolFeeTier(u, tier)

MultisigSpec == MultisigInit /\ [][MultisigNext]_multisigVars

-----------------------------------------------------------------------------
(* Properties *)

\* Type invariant: the tier in force is one the pools support, and each
\* proposal has its state entry.
MultisigTypeOK ==
  /\ proposals \in Seq(Proposal)
  /\ approvals \in Seq(SUBSET Users)
  /\ Len(approvals) = Len(proposals)
  /\ config \in MultiSigConfig \cup {None}
  /\ settings \in Settings
  /\ feeTier \in FeeTiers
  /\ published \in Seq(Execution)

Kind(i) == proposals[published[i].id].action.kind
Arg(i) == proposals[published[i].id].action.arg

\* Of the first n executions, i is the last of one of these kinds.
IsLast(i, kinds, n) ==
  /\ i \in 1..n /\ Kind(i) \in kinds
  /\ \A j \in 1..n : Kind(j) \in kinds => j <= i
\* What the last of this kind asked for, or else what was stored at first.
Asked(value, kind, first, n) ==
  IF \A i \in 1..n : Kind(i) # kind THEN value = first
  ELSE \E i \in 1..n : IsLast(i, {kind}, n) /\ value = Arg(i)

\* The published executions explain the settings: trading is paused, and the
\* admin and the treasury are who they are, exactly because the last executed
\* proposals said so; each executed proposal was published, and once.
SettingsFromProposals ==
  LET n == Len(published)
  IN /\ settings.paused <=> \E i \in 1..n :
          IsLast(i, {"PauseTrading", "ResumeTrading"}, n) /\ Kind(i) = "PauseTrading"
     /\ Asked(settings.admin, "SetAdmin", Deployer, n)
     /\ Asked(settings.treasury, "SetTreasury", None, n)
     /\ \A id \in DOMAIN proposals :
          proposals[id].executed <=> \E i \in 1..n : published[i].id = id
     /\ \A i, j \in 1..n : published[i].id = published[j].id => i = j

\* A proposal sets a fee tier only when executed by whoever was admin at that
\* moment, however the office changed hands before.
FeeTierByAdmin ==
  \A i \in DOMAIN published :
    Kind(i) = "UpdatePoolFeeTier" =>
      Asked(published[i].caller, "SetAdmin", Deployer, i - 1)

\* Settings only ever move with a proposal that reaches, under the configuration
\* of that moment, the threshold in approvals of different users.
QuorumBeforeEffect ==
  [][settings' # settings =>
       \E id \in DOMAIN proposals :
         /\ ~proposals[id].executed /\ proposals'[id].executed
         /\ settings' = Applied(settings, proposals[id].action)
         /\ Cardinality(approvals[id]) >= config.threshold]_multisigVars

\* Settings and tiers are what executed proposals said, in their order, and each
\* moved with a quorum of the configuration of that moment (governance_system.rs:143).
SettingsByQuorum ==
  /\ [](MultisigTypeOK /\ SettingsFromProposals /\ FeeTierByAdmin)
  /\ QuorumBeforeEffect

=============================================================================
