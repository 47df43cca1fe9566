----------------------------- MODULE MCGovernance -----------------------------
(* The five ways in which the repository decides on settings, one per behaviour: *)
(* each keeps its own storage, so what one does is the same whatever the others  *)
(* do.                                                                           *)
EXTENDS Multisig, Voting, PhasedGovernance, GovParams, AccessControl, TLC

CONSTANTS ann, bob, cid

VARIABLE part

\* Signer lists: a pair, its successor, and one that names a signer twice.
Lists == { <<ann, bob>>, <<bob, cid>>, <<ann, ann>> }

Positive(p, v) == v > 0

\* Guardians have equal rights, and accounts with the same roles.
Symmetries == Permutations(Guardians) \cup Permutations(Accounts)

-----------------------------------------------------------------------------
vars == <<part, multisigVars, votingVars, phasedVars, paramVars, accessVars>>

\* Of the three tiers a pool may have, it has the highest at first.
Init ==
  /\ feeTier = 30
  /\ part \in {"multisig", "voting", "phases", "parameters", "roles"}
  /\ MultisigInit /\ VotingInit /\ PhasedInit /\ ParamInit /\ AccessInit

Idle(name, v) == IF part = name THEN TRUE ELSE UNCHANGED v

Next ==
  /\ \/ part = "multisig" /\ MultisigNext
     \/ part = "voting" /\ VotingNext
     \/ part = "phases" /\ PhasedNext
     \/ part = "parameters" /\ ParamNext
     \/ part = "roles" /\ AccessNext
  /\ UNCHANGED part
  /\ Idle("multisig", multisigVars) /\ Idle("voting", votingVars)
  /\ Idle("phases", phasedVars)
  /\ Idle("parameters", paramVars) /\ Idle("roles", accessVars)

Spec == Init /\ [][Next]_vars
=============================================================================
