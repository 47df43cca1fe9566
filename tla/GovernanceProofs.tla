-------------------------- MODULE GovernanceProofs --------------------------
(* Proofs about the five ways of deciding on settings: roles, timelocked     *)
(* parameters, votes, multi-signatures and the phased controller.            *)
EXTENDS Multisig, Voting, PhasedGovernance, GovParams, AccessControl,
        FiniteSetTheorems, TLAPS

\* The provers that a leaf which names none is given, and for how long.
USE SMTT(30), ZenonT(30)

-----------------------------------------------------------------------------
(* Sequences *)

\* A sequence with one element more, and one with an element replaced.
LEMMA Appended == ASSUME NEW S, NEW s \in Seq(S), NEW e \in S
  PROVE  /\ Append(s, e) \in Seq(S) /\ Len(s) \in Nat /\ DOMAIN s = 1..Len(s)
         /\ DOMAIN Append(s, e) = 1..(Len(s) + 1)
         /\ Append(s, e)[Len(s) + 1] = e
         /\ \A i \in DOMAIN s : Append(s, e)[i] = s[i]
  OBVIOUS

LEMMA Replaced == ASSUME NEW S, NEW s \in Seq(S), NEW i \in DOMAIN s, NEW e \in S
  PROVE  [s EXCEPT ![i] = e] \in Seq(S)
  OBVIOUS

-----------------------------------------------------------------------------
(* Roles *)

\* Roles keep their types and the owner can act, for any accounts and any sequence
\* of grants, revocations and transfers (access-control/src/lib.rs:86-196).
THEOREM OwnerAlwaysCanAct == AccessSpec => []RolesSound
<1> DEFINE IInv == AccessTypeOK /\ OwnerCanAct
<1>1. AccessInit => IInv
  BY AccessAssumption DEF AccessInit, AccessTypeOK, OwnerCanAct, Roles
<1>2. IInv /\ [AccessNext]_accessVars => IInv'
  <2> SUFFICES ASSUME IInv, [AccessNext]_accessVars PROVE IInv'
    OBVIOUS
  <2> USE AccessAssumption DEF AccessTypeOK, OwnerCanAct, Has, Roles
  <2>1. ASSUME NEW u \in Accounts, Initialize(u) PROVE IInv'
    BY <2>1 DEF Initialize
  <2>2. ASSUME NEW caller \in Accounts, NEW u \in Accounts, NEW role \in Roles,
               GrantRole(caller, u, role)
        PROVE  IInv'
    <3>1. owner # NoAccount
      BY <2>2 DEF GrantRole, MayManage
    <3>2. QED
      BY <3>1, <2>2 DEF GrantRole
  <2>3. ASSUME NEW caller \in Accounts, NEW u \in Accounts, NEW role \in Roles,
               RevokeRole(caller, u, role)
        PROVE  IInv'
    <3>1. owner # NoAccount
      BY <2>3 DEF RevokeRole
    <3>2. QED
      BY <3>1, <2>3 DEF RevokeRole
  <2>4. ASSUME NEW caller \in Accounts, NEW u \in Accounts, TransferOwnership(caller, u)
        PROVE  IInv'
    <3>1. caller # u => "Owner" \in roles'[u]
      BY <2>4 DEF TransferOwnership
    <3>2. QED
      BY <3>1, <2>4 DEF TransferOwnership
  <2>5. CASE UNCHANGED accessVars
    BY <2>5 DEF accessVars
  <2>6. QED
    BY <2>1, <2>2, <2>3, <2>4, <2>5 DEF AccessNext
<1>3. IInv <=> RolesSound
  BY DEF RolesSound
<1>4. QED
  BY <1>1, <1>2, <1>3, PTL DEF AccessSpec

-----------------------------------------------------------------------------
(* Parameters *)

\* What makes it inductive: an update waits out a delay that was no shorter than
\* the minimum, and is marked as executed exactly when it was.
UpdatesSound ==
    /\ delay >= MinDelay
    /\ \A id \in DOMAIN updates :
          /\ InRange(updates[id].param, updates[id].value)
          /\ updates[id].executable_at >= updates[id].proposed_at + MinDelay
    /\ \A i \in DOMAIN executions : executions[i][1] \in DOMAIN updates
    /\ \A id \in DOMAIN updates :
          updates[id].executed <=> \E i \in DOMAIN executions : executions[i][1] = id

\* Parameters have the values of their last executed updates, for any parameters,
\* values, ranges and delays (governance_params.rs:79-168).
THEOREM ParametersAreCommitted == ParamSpec => []ParametersSound
<1> DEFINE IInv == ParamTypeOK /\ UpdatesSound /\ CommittedByUpdates
<1>1. ParamInit => IInv
  BY ParamAssumption DEF ParamInit, ParamTypeOK, UpdatesSound, CommittedByUpdates, NeverSet
<1>2. IInv /\ [ParamNext]_paramVars => IInv'
  <2> SUFFICES ASSUME IInv, [ParamNext]_paramVars PROVE IInv'
    OBVIOUS
  <2> USE ParamAssumption
  <2>1. ASSUME NEW d \in Delays, SetTimelockDelay(d) PROVE IInv'
    BY <2>1 DEF SetTimelockDelay, ParamTypeOK, UpdatesSound, CommittedByUpdates, NeverSet, SetLast, Sets
  <2>2. ASSUME NEW p \in Params, NEW v \in NewValues, ProposeUpdate(p, v) PROVE IInv'
    <3> DEFINE new == [param |-> p, value |-> v, proposed_at |-> paramNow,
                       executable_at |-> paramNow + delay, executed |-> FALSE]
    <3>1. new \in PendingUpdate
      BY DEF ParamTypeOK, PendingUpdate
    <3>2. /\ updates' = Append(updates, new) /\ updates \in Seq(PendingUpdate)
          /\ UNCHANGED <<delay, committed, executions, paramNow>>
      BY <2>2 DEF ProposeUpdate, ParamTypeOK
    <3>3. /\ DOMAIN updates' = 1..(Len(updates) + 1) /\ DOMAIN updates = 1..Len(updates)
          /\ Len(updates) \in Nat
          /\ \A id \in DOMAIN updates : updates'[id] = updates[id]
          /\ updates'[Len(updates) + 1] = new
      BY <3>1, <3>2
    <3>4. ParamTypeOK'
      BY <3>1, <3>2 DEF ParamTypeOK
    <3>5. UpdatesSound'
      <4>1. InRange(p, v)
        BY <2>2 DEF ProposeUpdate
      <4>2. new.executable_at >= new.proposed_at + MinDelay /\ ~new.executed
        BY DEF ParamTypeOK, UpdatesSound
      <4> QED
        BY <3>2, <3>3, <4>1, <4>2 DEF UpdatesSound
    <3>6. CommittedByUpdates'
      <4>1. \A i \in DOMAIN executions : updates'[executions[i][1]] = updates[executions[i][1]]
        BY <3>3 DEF UpdatesSound
      <4>2. executions' = executions /\ committed' = committed
        BY <3>2
      <4> QED
        BY <4>1, <4>2 DEF CommittedByUpdates, NeverSet, SetLast, Sets
    <3> QED
      BY <3>4, <3>5, <3>6
  <2>3. ASSUME NEW id \in DOMAIN updates, ExecuteUpdate(id) PROVE IInv'
    <3> DEFINE u == updates[id]
    <3>0. PICK last \in Nat : last = Len(executions) + 1
      BY DEF ParamTypeOK
    <3>1. /\ updates \in Seq(PendingUpdate) /\ updates' = [updates EXCEPT ![id].executed = TRUE]
          /\ ~u.executed /\ paramNow >= u.executable_at
          /\ committed' = [committed EXCEPT ![u.param] = u.value]
          /\ executions' = Append(executions, <<id, paramNow>>)
          /\ delay' = delay /\ paramNow' = paramNow
      BY <2>3 DEF ExecuteUpdate, ParamTypeOK
    <3>2. u \in PendingUpdate /\ id \in Nat /\ paramNow \in Nat
      BY <3>1, SMTT(40) DEF ParamTypeOK
    <3>3. /\ updates' \in Seq(PendingUpdate) /\ DOMAIN updates' = DOMAIN updates
          /\ updates'[id].executed /\ \A i \in DOMAIN updates : i # id => updates'[i] = updates[i]
          /\ \A i \in DOMAIN updates :
               /\ updates'[i].param = updates[i].param /\ updates'[i].value = updates[i].value
               /\ updates'[i].proposed_at = updates[i].proposed_at
               /\ updates'[i].executable_at = updates[i].executable_at
      <4> DEFINE new == [u EXCEPT !.executed = TRUE]
      <4>1. /\ new \in PendingUpdate /\ new.executed
            /\ new.param = u.param /\ new.value = u.value
            /\ new.proposed_at = u.proposed_at /\ new.executable_at = u.executable_at
        BY <3>2 DEF PendingUpdate
      <4>2. updates' = [updates EXCEPT ![id] = new]
        BY <3>1
      <4> HIDE DEF new
      <4>3. /\ DOMAIN updates' = DOMAIN updates /\ updates'[id] = new
            /\ \A i \in DOMAIN updates : i # id => updates'[i] = updates[i]
        BY <4>2
      <4>4. [updates EXCEPT ![id] = new] \in Seq(PendingUpdate)
        <5>1. updates \in Seq(PendingUpdate) /\ new \in PendingUpdate
          BY <3>1, <4>1
        <5> QED
          BY <5>1, Replaced
      <4> QED
        BY <4>1, <4>2, <4>3, <4>4
    <3>4. /\ executions \in Seq(Nat \X Nat) /\ last \in Nat /\ Len(executions) \in Nat
          /\ last = Len(executions) + 1
          /\ DOMAIN executions = 1..Len(executions) /\ DOMAIN executions' = 1..last
          /\ executions'[last] = <<id, paramNow>>
          /\ \A i \in DOMAIN executions : executions'[i] = executions[i]
      <4>1. executions \in Seq(Nat \X Nat) /\ <<id, paramNow>> \in Nat \X Nat
        BY <3>2 DEF ParamTypeOK
      <4> QED
        BY <3>0, <3>1, <4>1, Appended, SMTT(40)
    <3>5. \A i \in DOMAIN executions : executions[i][1] \in DOMAIN updates /\ executions[i][1] # id
      BY <3>1 DEF UpdatesSound
    <3>6. ParamTypeOK'
      BY <3>1, <3>2, <3>3 DEF ParamTypeOK, PendingUpdate
    <3>7. UpdatesSound'
      <4>1. \A i \in DOMAIN updates' : updates'[i].executed
              <=> \E j \in DOMAIN executions' : executions'[j][1] = i
        <5>1. \A j \in DOMAIN executions' : j = last \/ j \in DOMAIN executions
          BY <3>4
        <5>2. /\ executions'[last][1] = id /\ last \in DOMAIN executions'
              /\ DOMAIN executions \subseteq DOMAIN executions'
          BY <3>4
        <5>3. ASSUME NEW i \in DOMAIN updates, i # id
              PROVE  updates'[i].executed
                       <=> \E j \in DOMAIN executions' : executions'[j][1] = i
          <6>1. updates'[i].executed <=> \E j \in DOMAIN executions : executions[j][1] = i
            BY <3>3, <5>3 DEF UpdatesSound
          <6>2. ASSUME NEW j \in DOMAIN executions', executions'[j][1] = i
                PROVE  j \in DOMAIN executions /\ executions[j][1] = i
            BY <3>4, <5>1, <5>2, <5>3, <6>2
          <6>3. \A j \in DOMAIN executions : executions'[j][1] = executions[j][1]
            BY <3>4
          <6> QED
            BY <5>2, <6>1, <6>2, <6>3
        <5> QED
          BY <3>3, <5>2, <5>3
      <4>2. \A i \in DOMAIN executions' : executions'[i][1] \in DOMAIN updates'
        <5>1. \A i \in DOMAIN executions' : i = last \/ i \in DOMAIN executions
          BY <3>4
        <5> QED
          BY <3>3, <3>4, <3>5, <5>1, SMTT(40)
      <4> QED
        BY <3>1, <3>3, <4>1, <4>2, ZenonT(60) DEF UpdatesSound
    <3>8. \A p \in Params, i \in DOMAIN executions : Sets(i, p)' <=> Sets(i, p)
      BY <3>3, <3>4, <3>5, SMTT(40) DEF Sets
    <3>9. \A p \in Params : Sets(last, p)' <=> p = u.param
      BY <3>2, <3>3, <3>4, SMTT(40) DEF Sets, PendingUpdate
    <3>10. ASSUME NEW i \in DOMAIN executions', NEW j \in DOMAIN executions',
                  executions'[i][1] = executions'[j][1]
           PROVE  i = j
      <4>1. \A k \in DOMAIN executions' : k = last \/ k \in DOMAIN executions
        BY <3>4
      <4>2. executions'[last][1] = id
        BY <3>4
      <4>3. \A k \in DOMAIN executions : executions'[k][1] = executions[k][1] /\ executions'[k][1] # id
        BY <3>4, <3>5
      <4>4. CASE i = last \/ j = last
        BY <3>10, <4>1, <4>2, <4>3, <4>4
      <4>5. CASE i # last /\ j # last
        BY <3>10, <4>1, <4>3, <4>5 DEF CommittedByUpdates
      <4> QED
        BY <4>4, <4>5
    <3>11. ASSUME NEW p \in Params
           PROVE  NeverSet(p)' \/ \E i \in DOMAIN executions' : SetLast(i, p)'
      <4>1. CASE p = u.param
        <5>1. committed'[p] = u.value
          BY <3>1, <4>1 DEF ParamTypeOK
        <5>2. InRange(p, u.value) /\ u.executable_at >= u.proposed_at + MinDelay
          BY <4>1 DEF UpdatesSound
        <5>3. paramNow >= u.proposed_at + MinDelay
          BY <3>1, <3>2, <5>2, SMTT(40) DEF PendingUpdate
        <5>4. /\ last \in DOMAIN executions' /\ \A j \in DOMAIN executions' : j <= last
              /\ executions'[last][1] = id /\ executions'[last][2] = paramNow
          BY <3>2, <3>4
        <5>5. updates'[id].value = u.value /\ updates'[id].proposed_at = u.proposed_at
          BY <3>3
        <5>6. SetLast(last, p)'
          BY <3>9, <4>1, <5>1, <5>2, <5>3, <5>4, <5>5 DEF SetLast
        <5> QED
          BY <5>4, <5>6
      <4>2. CASE p # u.param
        <5>1. committed'[p] = committed[p]
          BY <3>1, <4>2 DEF ParamTypeOK
        <5>2. ~Sets(last, p)'
          BY <3>9, <4>2
        <5>3. \A i \in DOMAIN executions' : i = last \/ i \in DOMAIN executions
          BY <3>4
        <5>4. CASE NeverSet(p)
          <6>1. NeverSet(p)'
            BY <3>8, <5>1, <5>2, <5>3, <5>4 DEF NeverSet
          <6> QED
            BY <6>1
        <5>5. ASSUME NEW i \in DOMAIN executions, SetLast(i, p)
              PROVE  i \in DOMAIN executions' /\ SetLast(i, p)'
          <6>1. i \in DOMAIN executions' /\ executions'[i] = executions[i]
            BY <3>4
          <6>2. /\ updates'[executions[i][1]].value = updates[executions[i][1]].value
                /\ updates'[executions[i][1]].proposed_at = updates[executions[i][1]].proposed_at
            BY <3>3, <3>5
          <6>3. Sets(i, p)' /\ \A j \in DOMAIN executions' : Sets(j, p)' => j <= i
            BY <3>8, <5>2, <5>3, <5>5 DEF SetLast
          <6> QED
            BY <5>1, <5>5, <6>1, <6>2, <6>3 DEF SetLast
        <5> QED
          BY <5>4, <5>5 DEF CommittedByUpdates
      <4> QED
        BY <4>1, <4>2
    <3> QED
      BY <3>6, <3>7, <3>10, <3>11 DEF CommittedByUpdates
  <2>4. CASE ParamTick
    BY <2>4 DEF ParamTick, ParamTypeOK, UpdatesSound, CommittedByUpdates, NeverSet, SetLast, Sets
  <2>5. CASE UNCHANGED paramVars
    BY <2>5 DEF paramVars, ParamTypeOK, UpdatesSound, CommittedByUpdates, NeverSet, SetLast, Sets
  <2>6. QED
    BY <2>1, <2>2, <2>3, <2>4, <2>5 DEF ParamNext
<1>3. IInv => ParametersSound
  BY DEF ParametersSound
<1>4. QED
  BY <1>1, <1>2, <1>3, PTL DEF ParamSpec

-----------------------------------------------------------------------------
(* Votes *)

\* What is known of one proposal: its tallies count its voters, and its outcome
\* follows from them.
Counted(p) ==
  /\ p \in VotingProposal
  /\ IsFiniteSet(p.voters) /\ Total(p) = Cardinality(p.voters)
  /\ p.status \in {"Passed", "Executed"} => Total(p) >= p.quorum /\ p.votesFor > p.votesAgainst
  /\ p.status = "Rejected" => Total(p) >= p.quorum /\ p.votesFor <= p.votesAgainst
  /\ p.status = "Expired" => Over(p)

VotesCounted ==
  /\ votings \in Seq(VotingProposal) /\ votingNow \in Nat
  /\ \A id \in DOMAIN votings : Counted(votings[id])

\* A vote, on time or late, keeps a proposal counted.
LEMMA VotedCounted ==
  ASSUME votingNow \in Nat,
         NEW p, Counted(p), p.status = "Active",
         NEW voter \in Voters, NEW inFavor \in BOOLEAN, Over(p) \/ voter \notin p.voters
  PROVE  Counted(Voted(p, voter, inFavor))
<1> DEFINE q == Voted(p, voter, inFavor)
<1>1. CASE Over(p)
  <2>1. /\ q \in VotingProposal /\ q.status = "Expired"
        /\ q.votesFor = p.votesFor /\ q.votesAgainst = p.votesAgainst /\ q.voters = p.voters
        /\ q.created = p.created /\ q.deadline = p.deadline
    BY <1>1 DEF Voted, Counted, VotingProposal, ProposalStatus
  <2> QED
    BY <1>1, <2>1 DEF Counted, Total, Over
<1>2. CASE ~Over(p)
  <2>1. p \in VotingProposal
    BY DEF Counted
  <2>2. /\ q \in VotingProposal /\ q.status = "Active" /\ q.voters = p.voters \cup {voter}
        /\ q.votesFor + q.votesAgainst = p.votesFor + p.votesAgainst + 1
    <3>1. CASE inFavor
      <4>1. q = [p EXCEPT !.voters = p.voters \cup {voter}, !.votesFor = p.votesFor + 1]
        BY <1>2, <2>1, <3>1 DEF Voted, VotingProposal
      <4>2. q = [ votesFor |-> p.votesFor + 1, votesAgainst |-> p.votesAgainst,
                  voters |-> p.voters \cup {voter}, quorum |-> p.quorum,
                  deadline |-> p.deadline, created |-> p.created, status |-> p.status ]
        BY <2>1, <4>1 DEF VotingProposal
      <4>3. p.voters \cup {voter} \in SUBSET Voters /\ p.votesFor + 1 \in Nat
            /\ p.votesAgainst + 1 \in Nat /\ p.votesFor \in Nat /\ p.votesAgainst \in Nat
        BY <2>1 DEF VotingProposal
      <4> HIDE DEF q
      <4> QED
        BY <2>1, <4>2, <4>3, p.status = "Active" DEF VotingProposal
    <3>2. CASE ~inFavor
      <4>1. q = [p EXCEPT !.voters = p.voters \cup {voter}, !.votesAgainst = p.votesAgainst + 1]
        BY <1>2, <2>1, <3>2 DEF Voted, VotingProposal
      <4>2. q = [ votesFor |-> p.votesFor, votesAgainst |-> p.votesAgainst + 1,
                  voters |-> p.voters \cup {voter}, quorum |-> p.quorum,
                  deadline |-> p.deadline, created |-> p.created, status |-> p.status ]
        BY <2>1, <4>1 DEF VotingProposal
      <4>3. p.voters \cup {voter} \in SUBSET Voters /\ p.votesFor + 1 \in Nat
            /\ p.votesAgainst + 1 \in Nat /\ p.votesFor \in Nat /\ p.votesAgainst \in Nat
        BY <2>1 DEF VotingProposal
      <4> HIDE DEF q
      <4> QED
        BY <2>1, <4>2, <4>3, p.status = "Active" DEF VotingProposal
    <3> QED
      BY <3>1, <3>2
  <2>4. Total(q) = Total(p) + 1
    BY <2>2 DEF Total
  <2>5. IsFiniteSet(q.voters) /\ Cardinality(q.voters) = Cardinality(p.voters) + 1
    BY <1>2, <2>2, FS_AddElement, ZenonT(60) DEF Counted
  <2> QED
    BY <2>2, <2>4, <2>5 DEF Counted
<1> QED
  BY <1>1, <1>2

\* Closing a proposal by its votes, or executing one that passed, keeps it counted.
LEMMA ClosedCounted ==
  ASSUME votingNow \in Nat,
         NEW p, Counted(p), NEW status \in ProposalStatus,
         \/ p.status = "Active" /\ status = Outcome(p)
         \/ p.status = "Passed" /\ status = "Executed"
  PROVE  Counted([p EXCEPT !.status = status])
<1> DEFINE q == [p EXCEPT !.status = status]
<1>1. /\ q \in VotingProposal /\ q.status = status /\ q.voters = p.voters
      /\ q.votesFor = p.votesFor /\ q.votesAgainst = p.votesAgainst /\ q.quorum = p.quorum
      /\ q.created = p.created /\ q.deadline = p.deadline
  BY DEF Counted, VotingProposal
<1>2. /\ Total(p) \in Nat /\ p.quorum \in Nat /\ p.votesFor \in Nat /\ p.votesAgainst \in Nat
  <2>1. p \in VotingProposal
    BY DEF Counted
  <2>2. p.quorum \in Nat /\ p.votesFor \in Nat /\ p.votesAgainst \in Nat
    BY <2>1, VotingAssumption DEF VotingProposal
  <2> QED
    BY <2>2 DEF Total
<1>3. /\ status \in {"Passed", "Executed"} => Total(p) >= p.quorum /\ p.votesFor > p.votesAgainst
      /\ status = "Rejected" => Total(p) >= p.quorum /\ p.votesFor <= p.votesAgainst
      /\ status = "Expired" => Over(p)
  BY <1>2 DEF Outcome, Counted
<1>4. Total(q) = Total(p) /\ (Over(q) <=> Over(p))
  BY <1>1 DEF Total, Over
<1> QED
  BY <1>1, <1>3, <1>4 DEF Counted

\* A step of the component on one proposal.
OneProposal(id, p) ==
  votings' = [votings EXCEPT ![id] = p] /\ UNCHANGED votingNow

LEMMA OneProposalCounted ==
  ASSUME VotesCounted, NEW id \in DOMAIN votings, NEW p, Counted(p), OneProposal(id, p)
  PROVE  VotesCounted' /\ votings'[id] = p /\ DOMAIN votings' = DOMAIN votings
         /\ \A i \in DOMAIN votings : i # id => votings'[i] = votings[i]
<1>1. votings \in Seq(VotingProposal) /\ p \in VotingProposal
  BY DEF VotesCounted, Counted
<1>2. votings' \in Seq(VotingProposal)
  BY <1>1, Replaced DEF OneProposal
<1>3. /\ votings'[id] = p /\ DOMAIN votings' = DOMAIN votings
      /\ \A i \in DOMAIN votings : i # id => votings'[i] = votings[i]
  BY <1>1 DEF OneProposal
<1>4. \A i \in DOMAIN votings : Counted(votings'[i])
  BY <1>3 DEF VotesCounted
<1>5. \A q : Counted(q)' <=> Counted(q)
  BY DEF OneProposal, Counted, Over, Total
<1> QED
  BY <1>2, <1>3, <1>4, <1>5 DEF VotesCounted, OneProposal

LEMMA VotingStep == VotesCounted /\ [VotingNext]_votingVars => VotesCounted'
<1> SUFFICES ASSUME VotesCounted, [VotingNext]_votingVars PROVE VotesCounted'
  OBVIOUS
<1>1. ASSUME NEW quorum \in Quorums, NEW deadline \in Deadlines, CreateVoting(quorum, deadline)
      PROVE  VotesCounted'
  <2> DEFINE p == [ votesFor |-> 0, votesAgainst |-> 0, voters |-> {}, quorum |-> quorum,
                    deadline |-> deadline, created |-> votingNow, status |-> "Active" ]
  <2>1. Counted(p)
    <3>1. p \in VotingProposal
      BY DEF VotesCounted, VotingProposal, ProposalStatus
    <3> QED
      BY <3>1, FS_EmptySet DEF Counted, Total
  <2>2. votings \in Seq(VotingProposal) /\ p \in VotingProposal
    BY <2>1 DEF VotesCounted, Counted
  <2>3. votings' = Append(votings, p) /\ votingNow' = votingNow
    BY <1>1 DEF CreateVoting
  <2> HIDE DEF p
  <2>4. /\ votings' \in Seq(VotingProposal) /\ DOMAIN votings' = DOMAIN votings \cup {Len(votings) + 1}
        /\ votings'[Len(votings) + 1] = p
        /\ \A i \in DOMAIN votings : votings'[i] = votings[i]
    BY <2>2, <2>3, Appended
  <2>5. \A q : Counted(q)' <=> Counted(q)
    BY <2>3 DEF Counted, Over, Total
  <2> QED
    BY <2>1, <2>3, <2>4, <2>5 DEF VotesCounted
<1>2. ASSUME NEW id \in DOMAIN votings, NEW voter \in Voters, NEW inFavor \in BOOLEAN,
             Vote(id, voter, inFavor)
      PROVE  VotesCounted'
  <2>1. Counted(Voted(votings[id], voter, inFavor))
    BY <1>2, VotedCounted DEF Vote, VotesCounted
  <2>2. OneProposal(id, Voted(votings[id], voter, inFavor))
    BY <1>2 DEF Vote, OneProposal
  <2> QED
    BY <2>1, <2>2, OneProposalCounted
<1>3. ASSUME NEW id \in DOMAIN votings, Finalize(id) PROVE VotesCounted'
  <2> DEFINE p == [votings[id] EXCEPT !.status = Outcome(votings[id])]
  <2>1. votings[id].status = "Active" /\ Outcome(votings[id]) \in ProposalStatus
    BY <1>3 DEF Finalize, Outcome, ProposalStatus
  <2>2. Counted(p)
    BY <2>1, ClosedCounted DEF VotesCounted
  <2>3. OneProposal(id, p)
    BY <1>3 DEF Finalize, OneProposal
  <2> QED
    BY <2>2, <2>3, OneProposalCounted
<1>4. ASSUME NEW id \in DOMAIN votings, ExecuteVoting(id) PROVE VotesCounted'
  <2> DEFINE p == [votings[id] EXCEPT !.status = "Executed"]
  <2>1. votings[id].status = "Passed" /\ "Executed" \in ProposalStatus
    BY <1>4 DEF ExecuteVoting, ProposalStatus
  <2>2. Counted(p)
    BY <2>1, ClosedCounted DEF VotesCounted
  <2>3. OneProposal(id, p)
    BY <1>4 DEF ExecuteVoting, OneProposal
  <2> QED
    BY <2>2, <2>3, OneProposalCounted
<1>5. CASE VotingTick
  <2>1. votings' = votings /\ votingNow' = votingNow + 1 /\ votingNow \in Nat
    BY <1>5 DEF VotingTick, VotesCounted
  <2>2. ASSUME NEW id \in DOMAIN votings PROVE Counted(votings[id])'
    <3>1. votings[id] \in VotingProposal /\ Counted(votings[id])
      BY DEF VotesCounted, Counted
    <3>2. Over(votings[id]) => Over(votings[id])'
      <4>1. votings[id].created \in Nat /\ votings[id].deadline \in Nat
        BY <3>1, VotingAssumption DEF VotingProposal
      <4> QED
        BY <2>1, <4>1 DEF Over
    <3> QED
      BY <2>1, <3>1, <3>2 DEF Counted, Total
  <2> QED
    BY <2>1, <2>2 DEF VotesCounted
<1>6. CASE UNCHANGED votingVars
  BY <1>6 DEF votingVars, VotesCounted, Counted, Total, Over
<1> QED
  BY <1>1, <1>2, <1>3, <1>4, <1>5, <1>6 DEF VotingNext

\* One vote to a voter, outcomes that follow from the votes up to whoever
\* finalized, and no way back from an outcome, for any voters, quorums and
\* deadlines (governance/voting.rs:58-110).
THEOREM VotesDecideOutcomes == VotingSpec => VotesDecide
<1>1. VotingInit => VotesCounted
  BY DEF VotingInit, VotesCounted
<1>2. VotesCounted => VotingTypeOK /\ OutcomeFollowsVotes
  BY DEF VotesCounted, VotingTypeOK, OutcomeFollowsVotes, Counted
<1>3. VotesCounted /\ [VotingNext]_votingVars =>
        [\A id \in DOMAIN votings :
           LET p == votings[id]
               q == votings'[id]
           IN p.status # "Active" =>
                \/ q = p
                \/ p.status = "Passed" /\ q = [p EXCEPT !.status = "Executed"]]_votings
  <2> SUFFICES ASSUME VotesCounted, VotingNext, NEW i \in DOMAIN votings,
                      votings[i].status # "Active"
               PROVE  \/ votings'[i] = votings[i]
                      \/ /\ votings[i].status = "Passed"
                         /\ votings'[i] = [votings[i] EXCEPT !.status = "Executed"]
    BY DEF votingVars
  <2>1. votings \in Seq(VotingProposal)
    BY DEF VotesCounted
  <2>2. ASSUME NEW quorum \in Quorums, NEW deadline \in Deadlines, CreateVoting(quorum, deadline)
        PROVE  votings'[i] = votings[i]
    BY <2>1, <2>2 DEF CreateVoting
  <2>3. ASSUME NEW id \in DOMAIN votings, NEW voter \in Voters, NEW inFavor \in BOOLEAN,
               Vote(id, voter, inFavor)
        PROVE  votings'[i] = votings[i]
    BY <2>1, <2>3 DEF Vote
  <2>4. ASSUME NEW id \in DOMAIN votings, Finalize(id)
        PROVE  votings'[i] = votings[i]
    BY <2>1, <2>4 DEF Finalize
  <2>5. ASSUME NEW id \in DOMAIN votings, ExecuteVoting(id)
        PROVE  \/ votings'[i] = votings[i]
               \/ /\ votings[i].status = "Passed"
                  /\ votings'[i] = [votings[i] EXCEPT !.status = "Executed"]
    BY <2>1, <2>5 DEF ExecuteVoting
  <2>6. CASE VotingTick
    BY <2>6 DEF VotingTick
  <2> QED
    BY <2>2, <2>3, <2>4, <2>5, <2>6 DEF VotingNext
<1> QED
  BY <1>1, <1>2, <1>3, VotingStep, PTL DEF VotingSpec, VotesDecide, OutcomeIsFinal

-----------------------------------------------------------------------------
(* Multi-signatures *)

\* The strengthening: executions are of proposals there are.
SettingsExplained ==
  /\ MultisigTypeOK /\ SettingsFromProposals /\ FeeTierByAdmin
  /\ \A i \in DOMAIN published : published[i].id \in DOMAIN proposals

\* The first n executions stay what they were.
Kept(n) == \A i \in 1..n : Kind(i)' = Kind(i) /\ Arg(i)' = Arg(i)

\* What the executions asked for is the same after a step that keeps them.
LEMMA AskedSame ==
  ASSUME NEW n \in Nat, Kept(n), NEW v, NEW k, NEW f
  PROVE  Asked(v, k, f, n)' <=> Asked(v, k, f, n)
BY DEF Kept, Asked, IsLast

\* One more execution decides if it is of that kind, and otherwise changes nothing.
LEMMA AskedNext ==
  ASSUME NEW n \in Nat, Kept(n), NEW v, NEW k, NEW f
  PROVE  /\ Kind(n + 1)' = k /\ v = Arg(n + 1)' => Asked(v, k, f, n + 1)'
         /\ Kind(n + 1)' # k /\ Asked(v, k, f, n) => Asked(v, k, f, n + 1)'
<1>1. ASSUME Kind(n + 1)' = k, v = Arg(n + 1)' PROVE Asked(v, k, f, n + 1)'
  <2>1. n + 1 \in 1..(n + 1) /\ \A j \in 1..(n + 1) : j <= n + 1
    OBVIOUS
  <2> QED
    BY <1>1, <2>1 DEF Asked, IsLast
<1>2. ASSUME Kind(n + 1)' # k, Asked(v, k, f, n) PROVE Asked(v, k, f, n + 1)'
  <2>1. \A j \in 1..(n + 1) : j \in 1..n \/ j = n + 1
    OBVIOUS
  <2>2. 1..n \subseteq 1..(n + 1)
    OBVIOUS
  <2>3. CASE \A i \in 1..n : Kind(i) # k
    BY <1>2, <2>1, <2>2, <2>3 DEF Kept, Asked
  <2>4. CASE ~\A i \in 1..n : Kind(i) # k
    <3>1. PICK i \in 1..n : IsLast(i, {k}, n) /\ v = Arg(i)
      BY <1>2, <2>4 DEF Asked
    <3>2. IsLast(i, {k}, n + 1)' /\ v = Arg(i)' /\ Kind(i)' = k
      BY <1>2, <2>1, <2>2, <3>1 DEF IsLast, Kept
    <3> QED
      BY <2>2, <3>2 DEF Asked
  <2> QED
    BY <2>3, <2>4
<1> QED
  BY <1>1, <1>2

\* A step that executes nothing and keeps the proposals' actions keeps the settings
\* explained.
LEMMA NothingExecuted ==
  ASSUME SettingsExplained, MultisigTypeOK', UNCHANGED <<settings, published>>,
         DOMAIN proposals \subseteq DOMAIN proposals',
         \A id \in DOMAIN proposals : proposals'[id] = proposals[id],
         \A id \in DOMAIN proposals' \ DOMAIN proposals : ~proposals'[id].executed
  PROVE  SettingsExplained'
<1> DEFINE n == Len(published)
<1>1. n \in Nat /\ DOMAIN published = 1..n /\ published' = published
  BY DEF SettingsExplained, MultisigTypeOK
<1>2. Kept(n)
  BY <1>1 DEF SettingsExplained, Kept, Kind, Arg
<1>3. \A i \in 1..n : Kept(i - 1) /\ i - 1 \in Nat
  BY <1>1, <1>2 DEF Kept
<1>4. FeeTierByAdmin'
  BY <1>1, <1>2, <1>3, AskedSame DEF SettingsExplained, FeeTierByAdmin, Kept
<1>5. SettingsFromProposals'
  <2>1. /\ Asked(settings.admin, "SetAdmin", Deployer, n)
        /\ Asked(settings.treasury, "SetTreasury", None, n)
    BY DEF SettingsExplained, SettingsFromProposals
  <2>2. /\ Asked(settings.admin, "SetAdmin", Deployer, n)'
        /\ Asked(settings.treasury, "SetTreasury", None, n)'
    BY <1>1, <1>2, <2>1, AskedSame
  <2>3. settings.paused' <=> (\E i \in 1..n :
          IsLast(i, {"PauseTrading", "ResumeTrading"}, n) /\ Kind(i) = "PauseTrading")'
    BY <1>1, <1>2 DEF SettingsExplained, SettingsFromProposals, Kept, IsLast
  <2>4. \A id \in DOMAIN proposals' :
          proposals'[id].executed <=> \E i \in 1..n : published'[i].id = id
    BY <1>1 DEF SettingsExplained, SettingsFromProposals
  <2> QED
    BY <1>1, <2>2, <2>3, <2>4 DEF SettingsExplained, SettingsFromProposals
<1> QED
  BY <1>1, <1>4, <1>5 DEF SettingsExplained

\* Executing a proposal types what it changes.
LEMMA ExecuteTyped ==
  ASSUME MultisigTypeOK, NEW u \in Users, NEW id \in DOMAIN proposals, ExecuteProposal(u, id)
  PROVE  /\ MultisigTypeOK' /\ proposals[id] \in Proposal /\ id \in Nat
         /\ DOMAIN proposals' = DOMAIN proposals
         /\ \A j \in DOMAIN proposals :
              /\ proposals'[j].action = proposals[j].action
              /\ proposals'[j].executed <=> j = id \/ proposals[j].executed
         /\ published' = Append(published, [id |-> id, caller |-> u])
         /\ DOMAIN published' = 1..(Len(published) + 1) /\ DOMAIN published = 1..Len(published)
         /\ published'[Len(published) + 1] = [id |-> id, caller |-> u]
         /\ \A i \in DOMAIN published : published'[i] = published[i]
         /\ Len(published) \in Nat /\ Len(published') = Len(published) + 1
<1> DEFINE e == [id |-> id, caller |-> u]
           p == [proposals[id] EXCEPT !.executed = TRUE]
<1>1. /\ proposals \in Seq(Proposal) /\ proposals[id] \in Proposal /\ id \in Nat
      /\ published \in Seq(Execution) /\ e \in Execution
  BY DEF MultisigTypeOK, Execution
<1>2. p \in Proposal /\ p.executed /\ p.action = proposals[id].action
  BY <1>1 DEF Proposal
<1>3. /\ proposals' = [proposals EXCEPT ![id] = p] /\ published' = Append(published, e)
      /\ settings' = Applied(settings, proposals[id].action)
      /\ feeTier' = IF proposals[id].action.kind = "UpdatePoolFeeTier"
                    THEN proposals[id].action.arg ELSE feeTier
      /\ approvals' = approvals /\ config' = config
      /\ proposals[id].action.kind = "UpdatePoolFeeTier" => proposals[id].action.arg \in FeeTiers
  BY DEF ExecuteProposal, MaySetTier
<1> HIDE DEF p, e
<1>4. proposals' \in Seq(Proposal) /\ Len(proposals') = Len(proposals)
      /\ DOMAIN proposals' = DOMAIN proposals /\ proposals'[id] = p
      /\ \A j \in DOMAIN proposals : j # id => proposals'[j] = proposals[j]
  BY <1>1, <1>2, <1>3, Replaced
<1>5. published' \in Seq(Execution) /\ Len(published') = Len(published) + 1
      /\ DOMAIN published' = 1..(Len(published) + 1) /\ DOMAIN published = 1..Len(published)
      /\ published'[Len(published) + 1] = e /\ Len(published) \in Nat
      /\ \A i \in DOMAIN published : published'[i] = published[i]
  BY <1>1, <1>3, Appended
<1>6. settings' \in Settings
  <2> DEFINE a == proposals[id].action
  <2>1. a \in ProposalAction /\ settings \in Settings
    BY <1>1 DEF Proposal, MultisigTypeOK
  <2> HIDE DEF a
  <2>2. a.kind \in {"SetAdmin", "SetTreasury"} => a.arg \in Users
    BY <2>1 DEF ProposalAction
  <2>3. Applied(settings, a) \in Settings
    BY <2>1, <2>2 DEF Applied, Settings
  <2> QED
    BY <1>3, <2>3 DEF a
<1>7. MultisigTypeOK'
  BY <1>3, <1>4, <1>5, <1>6 DEF MultisigTypeOK
<1> QED
  BY <1>1, <1>2, <1>3, <1>4, <1>5, <1>7 DEF e

\* What an executed proposal leaves in the settings.
LEMMA AppliedFields ==
  ASSUME NEW s \in Settings, NEW a \in ProposalAction
  PROVE  /\ Applied(s, a).paused <=>
              \/ a.kind = "PauseTrading"
              \/ s.paused /\ a.kind # "ResumeTrading"
         /\ Applied(s, a).admin = IF a.kind = "SetAdmin" THEN a.arg ELSE s.admin
         /\ Applied(s, a).treasury = IF a.kind = "SetTreasury" THEN a.arg ELSE s.treasury
<1>1. a.kind \in {"PauseTrading", "ResumeTrading", "SetAdmin", "SetTreasury", "UpdatePoolFeeTier"}
  BY DEF ProposalAction
<1>2. CASE a.kind = "PauseTrading"
  BY <1>2 DEF Applied, Settings
<1>3. CASE a.kind = "ResumeTrading"
  BY <1>3 DEF Applied, Settings
<1>4. CASE a.kind = "SetAdmin"
  BY <1>4 DEF Applied, Settings
<1>5. CASE a.kind = "SetTreasury"
  BY <1>5 DEF Applied, Settings
<1>6. CASE a.kind = "UpdatePoolFeeTier"
  BY <1>6 DEF Applied, Settings
<1> QED
  BY <1>1, <1>2, <1>3, <1>4, <1>5, <1>6

LEMMA ExecutedExplained ==
  ASSUME SettingsExplained, NEW u \in Users, NEW id \in DOMAIN proposals, ExecuteProposal(u, id)
  PROVE  SettingsExplained'
<1>a. PICK n \in Nat : n = Len(published)
  BY DEF SettingsExplained, MultisigTypeOK
<1>b. PICK a : a = proposals[id].action
  OBVIOUS
<1>1. /\ MultisigTypeOK /\ MultisigTypeOK' /\ n \in Nat /\ DOMAIN published = 1..n
      /\ DOMAIN published' = 1..(n + 1) /\ Len(published') = n + 1
      /\ DOMAIN proposals' = DOMAIN proposals
      /\ published'[n + 1].id = id /\ published'[n + 1].caller = u
      /\ \A i \in 1..n : published'[i] = published[i]
      /\ \A j \in DOMAIN proposals :
           /\ proposals'[j].action = proposals[j].action
           /\ proposals'[j].executed <=> j = id \/ proposals[j].executed
  <2>1. MultisigTypeOK
    BY DEF SettingsExplained
  <2>2. /\ MultisigTypeOK' /\ DOMAIN proposals' = DOMAIN proposals
        /\ \A j \in DOMAIN proposals :
             /\ proposals'[j].action = proposals[j].action
             /\ proposals'[j].executed <=> j = id \/ proposals[j].executed
    BY <2>1, ExecuteTyped, ZenonT(60)
  <2>3. /\ DOMAIN published' = 1..(Len(published) + 1) /\ DOMAIN published = 1..Len(published)
        /\ published'[Len(published) + 1] = [id |-> id, caller |-> u]
        /\ \A i \in DOMAIN published : published'[i] = published[i]
        /\ Len(published') = Len(published) + 1
    BY <2>1, ExecuteTyped
  <2>4. published'[n + 1].id = id /\ published'[n + 1].caller = u
    BY <1>a, <2>3
  <2> QED
    BY <1>a, <2>1, <2>2, <2>3, <2>4
<1>2. a \in ProposalAction /\ settings \in Settings
  <2>1. proposals[id] \in Proposal /\ settings \in Settings
    BY <1>1 DEF MultisigTypeOK
  <2> QED
    BY <1>b, <2>1 DEF Proposal
<1>3. Kept(n) /\ Kind(n + 1)' = a.kind /\ Arg(n + 1)' = a.arg
  BY <1>1, <1>b DEF SettingsExplained, Kept, Kind, Arg
<1>4. /\ settings' = Applied(settings, a) /\ ~proposals[id].executed
      /\ a.kind = "UpdatePoolFeeTier" => u = settings.admin
  BY <1>b DEF ExecuteProposal, MaySetTier
<1>5. /\ Asked(settings.admin, "SetAdmin", Deployer, n)
      /\ Asked(settings.treasury, "SetTreasury", None, n)
      /\ settings.paused <=> \E i \in 1..n :
           IsLast(i, {"PauseTrading", "ResumeTrading"}, n) /\ Kind(i) = "PauseTrading"
      /\ \A j \in DOMAIN proposals :
           proposals[j].executed <=> \E i \in 1..n : published[i].id = j
      /\ \A i, j \in 1..n : published[i].id = published[j].id => i = j
  BY <1>a DEF SettingsExplained, SettingsFromProposals
<1>6. /\ settings'.paused <=>
           \/ a.kind = "PauseTrading"
           \/ settings.paused /\ a.kind # "ResumeTrading"
      /\ settings'.admin = IF a.kind = "SetAdmin" THEN a.arg ELSE settings.admin
      /\ settings'.treasury = IF a.kind = "SetTreasury" THEN a.arg ELSE settings.treasury
  BY <1>2, <1>4, AppliedFields
<1>7. \A j \in 1..(n + 1) : j \in 1..n \/ j = n + 1
  BY <1>1
<1>8. 1..n \subseteq 1..(n + 1) /\ n + 1 \in 1..(n + 1)
  BY <1>1
<1>9. Asked(settings.admin, "SetAdmin", Deployer, n + 1)'
  BY <1>1, <1>3, <1>5, <1>6, AskedNext
<1>10. Asked(settings.treasury, "SetTreasury", None, n + 1)'
  BY <1>1, <1>3, <1>5, <1>6, AskedNext
<1>11. settings'.paused <=> \E i \in 1..(n + 1) :
         IsLast(i, {"PauseTrading", "ResumeTrading"}, n + 1)' /\ Kind(i)' = "PauseTrading"
  <2> DEFINE flags == {"PauseTrading", "ResumeTrading"}
  <2>1. CASE a.kind \in flags
    <3>1. IsLast(n + 1, flags, n + 1)'
      BY <1>1, <1>3, <1>8, <2>1 DEF IsLast
    <3>2. \A i \in 1..(n + 1) : IsLast(i, flags, n + 1)' => i = n + 1
      BY <1>1, <1>3, <1>7, <1>8, <2>1 DEF IsLast
    <3>3. settings'.paused <=> a.kind = "PauseTrading"
      BY <1>6, <2>1
    <3> QED
      BY <1>3, <1>8, <3>1, <3>2, <3>3
  <2>2. CASE a.kind \notin flags
    <3>1. \A i \in 1..n : IsLast(i, flags, n + 1)' <=> IsLast(i, flags, n)
      BY <1>1, <1>3, <1>7, <1>8, <2>2 DEF IsLast, Kept
    <3>2. ~IsLast(n + 1, flags, n + 1)'
      BY <1>3, <2>2 DEF IsLast
    <3>3. \A i \in 1..n : Kind(i)' = Kind(i)
      BY <1>3 DEF Kept
    <3>4. settings'.paused <=> settings.paused
      BY <1>6, <2>2
    <3> QED
      BY <1>5, <1>7, <1>8, <3>1, <3>2, <3>3, <3>4
  <2> QED
    BY <2>1, <2>2
<1>12. \A j \in DOMAIN proposals' :
         proposals'[j].executed <=> \E i \in 1..(n + 1) : published'[i].id = j
  BY <1>1, <1>5, <1>7, <1>8, SMTT(40)
<1>13. \A i, j \in 1..(n + 1) : published'[i].id = published'[j].id => i = j
  <2>1. \A i \in 1..n : published'[i].id # id
    BY <1>1, <1>4, <1>5
  <2>2. \A i, j \in 1..n : published'[i].id = published'[j].id => i = j
    BY <1>1, <1>5
  <2> QED
    BY <1>1, <1>7, <2>1, <2>2
<1>14. SettingsFromProposals'
  BY <1>1, <1>9, <1>10, <1>11, <1>12, <1>13 DEF SettingsFromProposals
<1>15. FeeTierByAdmin'
  <2>1. ASSUME NEW i \in 1..n, Kind(i)' = "UpdatePoolFeeTier"
        PROVE  Asked(published[i].caller, "SetAdmin", Deployer, i - 1)'
    <3>1. Kept(i - 1) /\ i - 1 \in Nat /\ Kind(i) = "UpdatePoolFeeTier"
      BY <1>1, <1>3, <2>1, SMTT(40) DEF Kept
    <3>2. Asked(published[i].caller, "SetAdmin", Deployer, i - 1)
      BY <1>1, <3>1 DEF SettingsExplained, FeeTierByAdmin
    <3> QED
      BY <1>1, <3>1, <3>2, AskedSame
  <2>2. ASSUME a.kind = "UpdatePoolFeeTier"
        PROVE  Asked(published[n + 1].caller, "SetAdmin", Deployer, (n + 1) - 1)'
    <3>1. Asked(u, "SetAdmin", Deployer, n)
      BY <1>4, <1>5, <2>2
    <3>2. Asked(u, "SetAdmin", Deployer, n)'
      BY <1>1, <1>3, <3>1, AskedSame
    <3> QED
      BY <1>1, <3>2
  <2> QED
    BY <1>1, <1>3, <1>7, <2>1, <2>2 DEF FeeTierByAdmin
<1> QED
  BY <1>1, <1>7, <1>14, <1>15 DEF SettingsExplained

LEMMA MultisigStep == SettingsExplained /\ [MultisigNext]_multisigVars => SettingsExplained'
<1> SUFFICES ASSUME SettingsExplained, [MultisigNext]_multisigVars PROVE SettingsExplained'
  OBVIOUS
<1>0. MultisigTypeOK /\ proposals \in Seq(Proposal) /\ approvals \in Seq(SUBSET Users)
  BY DEF SettingsExplained, MultisigTypeOK
<1>1. ASSUME NEW signers \in SignerLists, NEW threshold \in Thresholds,
             SetMultiSigConfig(signers, threshold)
      PROVE  SettingsExplained'
  <2>1. config' \in MultiSigConfig
    BY <1>1 DEF SetMultiSigConfig, MultiSigConfig
  <2>2. MultisigTypeOK'
    BY <1>0, <1>1, <2>1 DEF SetMultiSigConfig, MultisigTypeOK
  <2> QED
    BY <1>1, <2>2, NothingExecuted DEF SetMultiSigConfig
<1>2. ASSUME NEW action \in ProposalAction, CreateProposal(action)
      PROVE  SettingsExplained'
  <2> DEFINE p == [action |-> action, executed |-> FALSE]
  <2>1. p \in Proposal /\ ~p.executed
    BY DEF Proposal
  <2>2. /\ proposals' = Append(proposals, p) /\ approvals' = Append(approvals, {})
        /\ UNCHANGED <<config, settings, feeTier, published>>
    BY <1>2 DEF CreateProposal
  <2> HIDE DEF p
  <2>3. /\ proposals' \in Seq(Proposal) /\ Len(proposals') = Len(proposals) + 1
        /\ DOMAIN proposals = 1..Len(proposals) /\ Len(proposals) \in Nat
        /\ DOMAIN proposals' = 1..(Len(proposals) + 1) /\ proposals'[Len(proposals) + 1] = p
        /\ \A i \in DOMAIN proposals : proposals'[i] = proposals[i]
    BY <1>0, <2>1, <2>2, Appended
  <2>4. approvals' \in Seq(SUBSET Users) /\ Len(approvals') = Len(approvals) + 1
    BY <1>0, <2>2
  <2>5. MultisigTypeOK'
    BY <1>0, <2>2, <2>3, <2>4 DEF MultisigTypeOK
  <2> QED
    BY <2>1, <2>2, <2>3, <2>5, NothingExecuted
<1>3. ASSUME NEW u \in Users, NEW id \in DOMAIN proposals, ApproveProposal(u, id)
      PROVE  SettingsExplained'
  <2>1. id \in DOMAIN approvals /\ approvals[id] \cup {u} \in SUBSET Users
    BY <1>0 DEF MultisigTypeOK
  <2>2. approvals' \in Seq(SUBSET Users) /\ Len(approvals') = Len(approvals)
    BY <1>0, <1>3, <2>1 DEF ApproveProposal
  <2>3. MultisigTypeOK'
    BY <1>0, <1>3, <2>2 DEF ApproveProposal, MultisigTypeOK
  <2> QED
    BY <1>3, <2>3, NothingExecuted DEF ApproveProposal
<1>4. ASSUME NEW u \in Users, NEW id \in DOMAIN proposals, ExecuteProposal(u, id)
      PROVE  SettingsExplained'
  BY <1>4, ExecutedExplained
<1>5. ASSUME NEW u \in Users, NEW tier \in Tiers, UpdatePoolFeeTier(u, tier)
      PROVE  SettingsExplained'
  <2>1. MultisigTypeOK'
    BY <1>0, <1>5 DEF UpdatePoolFeeTier, MaySetTier, MultisigTypeOK
  <2> QED
    BY <1>5, <2>1, NothingExecuted DEF UpdatePoolFeeTier
<1>6. CASE UNCHANGED multisigVars
  <2>1. MultisigTypeOK'
    BY <1>0, <1>6 DEF multisigVars, MultisigTypeOK
  <2> QED
    BY <1>6, <2>1, NothingExecuted DEF multisigVars
<1> QED
  BY <1>1, <1>2, <1>3, <1>4, <1>5, <1>6 DEF MultisigNext

\* Settings are what the executed proposals said, fee tiers come from the admin of
\* the moment, and nothing moves without a quorum of the configuration in force, for
\* any users, signer lists and thresholds (governance_system.rs:143, admin.rs:40).
THEOREM SettingsMoveByQuorum == MultisigSpec => SettingsByQuorum
<1>1. MultisigInit => SettingsExplained
  <2> SUFFICES ASSUME MultisigInit PROVE SettingsExplained
    OBVIOUS
  <2>1. /\ proposals = <<>> /\ approvals = <<>> /\ published = <<>> /\ config = None
        /\ feeTier \in FeeTiers
        /\ settings = [paused |-> FALSE, admin |-> Deployer, treasury |-> None]
    BY DEF MultisigInit, InitialSettings
  <2>2. MultisigTypeOK
    BY <2>1, MultisigAssumption DEF MultisigTypeOK, Settings
  <2>3. Len(published) = 0 /\ 1..0 = {} /\ DOMAIN published = {} /\ DOMAIN proposals = {}
    BY <2>1
  <2> QED
    BY <2>1, <2>2, <2>3 DEF SettingsExplained, SettingsFromProposals, FeeTierByAdmin, Asked, IsLast
<1>2. SettingsExplained => MultisigTypeOK /\ SettingsFromProposals /\ FeeTierByAdmin
  BY DEF SettingsExplained
<1>3. SettingsExplained /\ [MultisigNext]_multisigVars =>
        [settings' # settings =>
           \E id \in DOMAIN proposals :
             /\ ~proposals[id].executed /\ proposals'[id].executed
             /\ settings' = Applied(settings, proposals[id].action)
             /\ Cardinality(approvals[id]) >= config.threshold]_multisigVars
  <2> SUFFICES ASSUME SettingsExplained, MultisigNext, settings' # settings
               PROVE  \E id \in DOMAIN proposals :
                        /\ ~proposals[id].executed /\ proposals'[id].executed
                        /\ settings' = Applied(settings, proposals[id].action)
                        /\ Cardinality(approvals[id]) >= config.threshold
    OBVIOUS
  <2>1. PICK u \in Users, id \in DOMAIN proposals : ExecuteProposal(u, id)
    BY DEF MultisigNext, SetMultiSigConfig, CreateProposal, ApproveProposal, UpdatePoolFeeTier
  <2>2. proposals'[id].executed
    BY <2>1, ExecuteTyped DEF SettingsExplained
  <2> QED
    BY <2>1, <2>2 DEF ExecuteProposal, HasQuorum
<1> QED
  BY <1>1, <1>2, <1>3, MultisigStep, PTL
  DEF MultisigSpec, SettingsByQuorum, QuorumBeforeEffect

-----------------------------------------------------------------------------
(* Phases *)

LEMMA Ranks ==
  /\ Rank("FullAdmin") = 1 /\ Rank("PauseOnly") = 2
  /\ Rank("MultiSig") = 3 /\ Rank("DaoOnly") = 4
  /\ GovernancePhase = {"FullAdmin", "PauseOnly", "MultiSig", "DaoOnly"}
<1>1. DOMAIN Phases = 1..4 /\ Phases[1] = "FullAdmin" /\ Phases[2] = "PauseOnly"
      /\ Phases[3] = "MultiSig" /\ Phases[4] = "DaoOnly"
  BY DEF Phases
<1>2. \A i \in 1..4 : i = 1 \/ i = 2 \/ i = 3 \/ i = 4
  OBVIOUS
<1>3. GovernancePhase = {"FullAdmin", "PauseOnly", "MultiSig", "DaoOnly"}
  BY <1>1, <1>2 DEF GovernancePhase, ToSet
<1> HIDE DEF Phases
<1> QED
  BY <1>1, <1>2, <1>3 DEF Rank

\* Time only moves the schedule forward.
LEMMA PhasesForward ==
  ASSUME NEW s \in Nat, NEW t \in Nat, s <= t
  PROVE  /\ FromElapsed(s) \in GovernancePhase /\ FromElapsed(t) \in GovernancePhase
         /\ Rank(FromElapsed(s)) <= Rank(FromElapsed(t))
<1>1. /\ s \div Month \in Nat /\ t \div Month \in Nat
      /\ s \div Month <= t \div Month
  BY GovernanceAssumption, Z3
<1> QED
  BY <1>1, Ranks DEF FromElapsed

-----------------------------------------------------------------------------
(* The audit log *)

\* The strengthening: proposals are made once the multi-signature phase has begun.
LogSound ==
  /\ PhasedTypeOK /\ LogTellsTimelock /\ LogTellsProposals /\ PhasesChain
  /\ \A id \in DOMAIN sizes : Rank(FromElapsed(id.created)) >= Rank("MultiSig")

\* Event e becomes the n-th of the log.
Grows(n, e) ==
  /\ n \in Nat \ {0} /\ DOMAIN log = 1..(n - 1) /\ DOMAIN log' = 1..n
  /\ log'[n] = e /\ \A i \in DOMAIN log : log'[i] = log[i]

LEMMA LoggedGrows ==
  ASSUME log \in Seq(Event), NEW e \in Event, Logged(e)
  PROVE  log' \in Seq(Event) /\ \E n \in Nat : Grows(n, e)
<1>1. PICK n \in Nat : n = Len(log) + 1
  OBVIOUS
<1>2. log' = Append(log, e)
  BY DEF Logged
<1>3. /\ log' \in Seq(Event) /\ DOMAIN log = 1..(n - 1) /\ DOMAIN log' = 1..n
      /\ log'[n] = e /\ \A i \in DOMAIN log : log'[i] = log[i]
  BY <1>1, <1>2, Appended
<1> QED
  BY <1>1, <1>3 DEF Grows

\* An event about an operation that has the effect it tells of.
LEMMA TimelockTold ==
  ASSUME LogTellsTimelock, NEW n, NEW e, Grows(n, e), NEW op0 \in OperationId,
         e.kind \in {"TimelockQueued", "TimelockExecuted", "TimelockCancelled"}, e.op = op0,
         DOMAIN entries' = DOMAIN entries \cup {op0},
         \A op \in DOMAIN entries \ {op0} : entries'[op] = entries[op],
         entries'[op0].executed <=> e.kind = "TimelockExecuted",
         entries'[op0].cancelled <=> e.kind = "TimelockCancelled"
  PROVE  LogTellsTimelock'
<1>1. /\ \A i \in 1..n : i = n \/ i \in DOMAIN log
      /\ DOMAIN log \subseteq 1..n /\ n \in 1..n /\ \A i \in 1..n : i <= n
      /\ DOMAIN log' = 1..n
  BY DEF Grows
<1>2. \A i \in DOMAIN log, op \in OperationId : About(i, op)' <=> About(i, op)
  BY DEF Grows, About
<1>3. \A op \in OperationId : About(n, op)' <=> op = op0
  BY DEF Grows, About
<1>4. ASSUME NEW op \in OperationId, op = op0
      PROVE  /\ op \in DOMAIN entries'
             /\ \E last \in DOMAIN log' :
                  /\ About(last, op)'
                  /\ \A i \in DOMAIN log' : About(i, op)' => i <= last
                  /\ entries'[op].executed <=> log'[last].kind = "TimelockExecuted"
                  /\ entries'[op].cancelled <=> log'[last].kind = "TimelockCancelled"
  BY <1>1, <1>3, <1>4 DEF Grows
<1>5. ASSUME NEW op \in DOMAIN entries, op # op0, op \in OperationId
      PROVE  \E last \in DOMAIN log' :
               /\ About(last, op)'
               /\ \A i \in DOMAIN log' : About(i, op)' => i <= last
               /\ entries'[op].executed <=> log'[last].kind = "TimelockExecuted"
               /\ entries'[op].cancelled <=> log'[last].kind = "TimelockCancelled"
  <2>1. PICK last \in DOMAIN log :
          /\ About(last, op)
          /\ \A i \in DOMAIN log : About(i, op) => i <= last
          /\ entries[op].executed <=> log[last].kind = "TimelockExecuted"
          /\ entries[op].cancelled <=> log[last].kind = "TimelockCancelled"
    BY <1>5 DEF LogTellsTimelock
  <2>2. /\ last \in DOMAIN log' /\ About(last, op)' /\ log'[last] = log[last]
        /\ entries'[op] = entries[op] /\ ~About(n, op)'
    BY <1>1, <1>2, <1>3, <1>5, <2>1 DEF Grows
  <2>3. \A i \in DOMAIN log' : About(i, op)' => i <= last
    BY <1>1, <1>2, <1>5, <2>1, <2>2
  <2> QED
    BY <2>1, <2>2, <2>3
<1>6. ASSUME NEW op \in OperationId, op # op0, op \notin DOMAIN entries
      PROVE  op \notin DOMAIN entries' /\ \A i \in DOMAIN log' : ~About(i, op)'
  BY <1>1, <1>2, <1>3, <1>6 DEF Grows, LogTellsTimelock
<1> QED
  BY <1>4, <1>5, <1>6 DEF LogTellsTimelock

\* An event about something else, or none, leaves the timelock told.
LEMMA TimelockUntold ==
  ASSUME LogTellsTimelock, entries' = entries,
         \/ log' = log
         \/ \E n, e : /\ Grows(n, e)
                      /\ e.kind \notin {"TimelockQueued", "TimelockExecuted", "TimelockCancelled"}
  PROVE  LogTellsTimelock'
<1>1. CASE log' = log
  BY <1>1 DEF LogTellsTimelock, About
<1>2. ASSUME NEW n, NEW e, Grows(n, e),
             e.kind \notin {"TimelockQueued", "TimelockExecuted", "TimelockCancelled"}
      PROVE  LogTellsTimelock'
  <2>1. /\ \A i \in 1..n : i = n \/ i \in DOMAIN log
        /\ DOMAIN log \subseteq 1..n /\ DOMAIN log' = 1..n
    BY <1>2 DEF Grows
  <2>2. \A i \in DOMAIN log, op \in OperationId : About(i, op)' <=> About(i, op)
    BY <1>2 DEF Grows, About
  <2>3. \A op \in OperationId : ~About(n, op)'
    BY <1>2 DEF Grows, About
  <2>4. \A i \in DOMAIN log : log'[i] = log[i]
    BY <1>2 DEF Grows
  <2> QED
    BY <2>1, <2>2, <2>3, <2>4 DEF LogTellsTimelock
<1> QED
  BY <1>1, <1>2

\* What a logged event says of proposals.
Says(i, id) == Creates(i, id) \/ Runs(i, id) \/ \E by \in Guardians : Approves(i, id, by)

\* The log tells of one proposal.
ProposalTold(id, created) ==
  LET since == { i \in DOMAIN log : i > created }
  IN /\ created \in DOMAIN log /\ Creates(created, id)
     /\ \A i \in since : ~Creates(i, id)
     /\ \A by \in Guardians :
          by \in sizes[id].approvals
            <=> by = id.proposer \/ \E i \in since : Approves(i, id, by)
     /\ sizes[id].executed <=> \E i \in since : Runs(i, id)

\* A proposal the event does not speak of stays told.
LEMMA ProposalUntold ==
  ASSUME LogTellsProposals, NEW n, NEW e, Grows(n, e), NEW id \in ProposalId, ~Says(n, id)',
         id \in DOMAIN sizes' <=> id \in DOMAIN sizes,
         id \in DOMAIN sizes => sizes'[id] = sizes[id]
  PROVE  IF id \in DOMAIN sizes'
         THEN \E created \in DOMAIN log' : ProposalTold(id, created)'
         ELSE \A i \in DOMAIN log' : ~Creates(i, id)'
<1>1. /\ \A i \in 1..n : i = n \/ i \in DOMAIN log
      /\ DOMAIN log \subseteq 1..n /\ DOMAIN log' = 1..n
  BY DEF Grows
<1>2. \A i \in DOMAIN log :
        /\ Creates(i, id)' <=> Creates(i, id)
        /\ Runs(i, id)' <=> Runs(i, id)
        /\ \A by \in Guardians : Approves(i, id, by)' <=> Approves(i, id, by)
  BY DEF Grows, Creates, Runs, Approves
<1>3. ~Creates(n, id)' /\ ~Runs(n, id)' /\ \A by \in Guardians : ~Approves(n, id, by)'
  BY DEF Says
<1>4. CASE id \in DOMAIN sizes
  <2>1. PICK created \in DOMAIN log : ProposalTold(id, created)
    BY <1>4 DEF LogTellsProposals, ProposalTold
  <2>2. \A i \in DOMAIN log' : i > created => i = n \/ (i \in DOMAIN log /\ i > created)
    BY <1>1
  <2>3. ProposalTold(id, created)'
    BY <1>1, <1>2, <1>3, <1>4, <2>1, <2>2 DEF ProposalTold
  <2> QED
    BY <1>1, <1>4, <2>1, <2>3
<1>5. CASE id \notin DOMAIN sizes
  BY <1>1, <1>2, <1>3, <1>5 DEF LogTellsProposals
<1> QED
  BY <1>4, <1>5

\* An event about a proposal that has the effect it tells of.
LEMMA ProposalsTold ==
  ASSUME LogTellsProposals, NEW n, NEW e, Grows(n, e), NEW id0 \in ProposalId, e.prop = id0,
         id0.proposer \in Guardians,
         DOMAIN sizes' = DOMAIN sizes \cup {id0},
         \A id \in DOMAIN sizes \ {id0} : sizes'[id] = sizes[id],
         \/ /\ e.kind = "ProposalCreated"
            /\ ~sizes'[id0].executed /\ sizes'[id0].approvals = {id0.proposer}
         \/ /\ e.kind = "ProposalApproved" /\ id0 \in DOMAIN sizes
            /\ sizes'[id0].executed <=> sizes[id0].executed
            /\ sizes'[id0].approvals = sizes[id0].approvals \cup {e.by}
         \/ /\ e.kind = "ProposalExecuted" /\ id0 \in DOMAIN sizes
            /\ sizes'[id0].executed
            /\ sizes'[id0].approvals = sizes[id0].approvals
  PROVE  LogTellsProposals'
<1>1. /\ \A i \in 1..n : i = n \/ i \in DOMAIN log
      /\ DOMAIN log \subseteq 1..n /\ DOMAIN log' = 1..n /\ log'[n] = e
      /\ n \in 1..n /\ n \notin DOMAIN log /\ \A i \in DOMAIN log : n > i
      /\ \A i \in 1..n : ~(i > n)
  BY DEF Grows
<1>2. \A i \in DOMAIN log :
        /\ Creates(i, id0)' <=> Creates(i, id0)
        /\ Runs(i, id0)' <=> Runs(i, id0)
        /\ \A by \in Guardians : Approves(i, id0, by)' <=> Approves(i, id0, by)
  BY DEF Grows, Creates, Runs, Approves
<1>3. \A id \in ProposalId : id # id0 => ~Says(n, id)'
  BY <1>1 DEF Says, Creates, Runs, Approves
<1>4. \E created \in DOMAIN log' : ProposalTold(id0, created)'
  <2>1. CASE e.kind = "ProposalCreated"
    <3>1. ProposalTold(id0, n)'
      BY <1>1, <2>1 DEF ProposalTold, Creates
    <3> QED
      BY <1>1, <3>1
  <2>2. ASSUME e.kind # "ProposalCreated"
        PROVE  \E created \in DOMAIN log' : ProposalTold(id0, created)'
    <3>1. PICK created \in DOMAIN log : ProposalTold(id0, created)
      BY <2>2 DEF LogTellsProposals, ProposalTold
    <3>2. /\ \A i \in DOMAIN log' : i > created => i = n \/ (i \in DOMAIN log /\ i > created)
          /\ n > created /\ created \in DOMAIN log'
          /\ \A i \in DOMAIN log : i \in DOMAIN log'
      BY <1>1, <3>1
    <3>3. ~Creates(n, id0)'
      BY <1>1, <2>2 DEF Creates
    <3>4. CASE e.kind = "ProposalApproved"
      <4>1. ~Runs(n, id0)' /\ \A by \in Guardians : Approves(n, id0, by)' <=> by = e.by
        BY <1>1, <3>4 DEF Runs, Approves
      <4>2. /\ sizes'[id0].executed <=> sizes[id0].executed
            /\ sizes'[id0].approvals = sizes[id0].approvals \cup {e.by}
        BY <3>4
      <4>3. ProposalTold(id0, created)'
        BY <1>1, <1>2, <3>1, <3>2, <3>3, <4>1, <4>2 DEF ProposalTold
      <4> QED
        BY <3>2, <4>3
    <3>5. CASE e.kind = "ProposalExecuted"
      <4>1. Runs(n, id0)' /\ \A by \in Guardians : ~Approves(n, id0, by)'
        BY <1>1, <3>5 DEF Runs, Approves
      <4>2. sizes'[id0].executed /\ sizes'[id0].approvals = sizes[id0].approvals
        BY <3>5
      <4>3. ProposalTold(id0, created)'
        BY <1>1, <1>2, <3>1, <3>2, <3>3, <4>1, <4>2 DEF ProposalTold
      <4> QED
        BY <3>2, <4>3
    <3> QED
      BY <2>2, <3>4, <3>5
  <2> QED
    BY <2>1, <2>2
<1>5. ASSUME NEW id \in ProposalId
      PROVE  IF id \in DOMAIN sizes'
             THEN \E created \in DOMAIN log' : ProposalTold(id, created)'
             ELSE \A i \in DOMAIN log' : ~Creates(i, id)'
  <2>1. CASE id = id0
    BY <1>4, <2>1
  <2>2. CASE id # id0
    BY <1>3, <2>2, ProposalUntold
  <2> QED
    BY <2>1, <2>2
<1> QED
  BY <1>5 DEF LogTellsProposals, ProposalTold

\* An event about something else, or none, leaves the proposals told.
LEMMA ProposalsUntold ==
  ASSUME LogTellsProposals, sizes' = sizes,
         \/ log' = log
         \/ \E n, e : /\ Grows(n, e)
                      /\ e.kind \notin {"ProposalCreated", "ProposalApproved", "ProposalExecuted"}
  PROVE  LogTellsProposals'
<1>1. CASE log' = log
  BY <1>1 DEF LogTellsProposals, Creates, Approves, Runs
<1>2. ASSUME NEW n, NEW e, Grows(n, e),
             e.kind \notin {"ProposalCreated", "ProposalApproved", "ProposalExecuted"}
      PROVE  LogTellsProposals'
  <2>1. \A id \in ProposalId : ~Says(n, id)'
    BY <1>2 DEF Grows, Says, Creates, Runs, Approves
  <2>2. \A id \in ProposalId :
          IF id \in DOMAIN sizes'
          THEN \E created \in DOMAIN log' : ProposalTold(id, created)'
          ELSE \A i \in DOMAIN log' : ~Creates(i, id)'
    BY <1>2, <2>1, ProposalUntold
  <2> QED
    BY <2>2 DEF LogTellsProposals, ProposalTold
<1> QED
  BY <1>1, <1>2

\* A transition that goes on from the one before it.
Continues(j) ==
  /\ Rank(log[j].from) < Rank(log[j].to)
  /\ \E i \in 1..(j - 1) :
       /\ Moves(i) /\ log[i].to = log[j].from
       /\ \A k \in (i + 1)..(j - 1) : ~Moves(k)

\* Transitions logged before stay in the chain.
LEMMA StillContinues ==
  ASSUME PhasesChain, NEW n, NEW e, Grows(n, e), NEW j \in DOMAIN log \ {1}, Moves(j)
  PROVE  Continues(j)'
<1>1. Continues(j)
  BY DEF PhasesChain, Continues
<1>2. \A i \in 1..j : i \in DOMAIN log
  BY DEF Grows
<1>3. \A i \in 1..j : log'[i] = log[i] /\ (Moves(i)' <=> Moves(i))
  BY <1>2 DEF Grows, Moves
<1>4. j \in 1..j /\ 1..(j - 1) \subseteq 1..j /\ \A i \in 1..(j - 1) : (i + 1)..(j - 1) \subseteq 1..j
  BY DEF Grows
<1> QED
  BY <1>1, <1>3, <1>4 DEF Continues

LEMMA ChainKept ==
  ASSUME PhasesChain, reported' = reported, phaseNow \in Nat, phaseNow' \in Nat,
         phaseNow <= phaseNow', reported \in GovernancePhase,
         log' = log \/ \E n, e : Grows(n, e) /\ e.kind # "PhaseTransition"
  PROVE  PhasesChain'
<1>1. Rank(reported') <= Rank(Phase')
  <2>1. /\ Rank(reported) <= Rank(Phase) /\ Rank(Phase) <= Rank(Phase')
        /\ Phase \in GovernancePhase /\ Phase' \in GovernancePhase
    BY PhasesForward DEF PhasesChain, Phase
  <2> QED
    BY <2>1, Ranks
<1>2. CASE log' = log
  BY <1>1, <1>2 DEF PhasesChain, Moves
<1>3. ASSUME NEW n, NEW e, Grows(n, e), e.kind # "PhaseTransition"
      PROVE  PhasesChain'
  <2>1. /\ \A i \in 1..n : i = n \/ i \in DOMAIN log
        /\ DOMAIN log \subseteq 1..n /\ DOMAIN log' = 1..n
        /\ \A i \in DOMAIN log : log'[i] = log[i]
    BY <1>3 DEF Grows
  <2>2. ~Moves(n)' /\ \A i \in DOMAIN log : Moves(i)' <=> Moves(i)
    BY <1>3 DEF Grows, Moves
  <2>3. \A j \in DOMAIN log' \ {1} : Moves(j)' => Continues(j)'
    BY <1>3, <2>1, <2>2, StillContinues
  <2>4. \E last \in DOMAIN log' :
          /\ Moves(last)' /\ log'[last].to = reported'
          /\ \A i \in DOMAIN log' : Moves(i)' => i <= last
    BY <2>1, <2>2 DEF PhasesChain
  <2> QED
    BY <1>1, <2>3, <2>4 DEF PhasesChain, Continues
<1> QED
  BY <1>2, <1>3

LEMMA ChainMoved ==
  ASSUME PhasesChain, phaseNow \in Nat, phaseNow' = phaseNow, reported \in GovernancePhase,
         Phase # reported, reported' = Phase,
         NEW n, NEW e, Grows(n, e), e.kind = "PhaseTransition", e.from = reported, e.to = Phase
  PROVE  PhasesChain'
<1>1. /\ \A i \in 1..n : i = n \/ i \in DOMAIN log
      /\ DOMAIN log \subseteq 1..n /\ DOMAIN log' = 1..n /\ DOMAIN log = 1..(n - 1)
      /\ n \in 1..n /\ \A i \in 1..n : i <= n
      /\ log'[n] = e /\ \A i \in DOMAIN log : log'[i] = log[i]
  BY DEF Grows
<1>2. Moves(n)' /\ \A i \in DOMAIN log : Moves(i)' <=> Moves(i)
  BY <1>1 DEF Moves
<1>3. Phase \in GovernancePhase /\ Phase' = Phase
  BY PhasesForward DEF Phase
<1>4. Rank(reported) < Rank(Phase)
  <2>1. Rank(reported) <= Rank(Phase)
    BY DEF PhasesChain
  <2> QED
    BY <1>3, <2>1, Ranks
<1>5. Continues(n)'
  <2>1. PICK last \in DOMAIN log :
          /\ Moves(last) /\ log[last].to = reported
          /\ \A i \in DOMAIN log : Moves(i) => i <= last
    BY DEF PhasesChain
  <2>2. last \in 1..(n - 1) /\ Moves(last)' /\ log'[last].to = log'[n].from
    BY <1>1, <1>2, <2>1
  <2>3. \A k \in (last + 1)..(n - 1) : k \in DOMAIN log /\ ~(k <= last)
    BY <1>1, <2>2
  <2>4. \A k \in (last + 1)..(n - 1) : ~Moves(k)'
    BY <1>2, <2>1, <2>3
  <2> QED
    BY <1>1, <1>4, <2>2, <2>4 DEF Continues
<1>6. \A j \in DOMAIN log' \ {1} : Moves(j)' => Continues(j)'
  BY <1>1, <1>2, <1>5, StillContinues
<1>7. \E last \in DOMAIN log' :
        /\ Moves(last)' /\ log'[last].to = reported'
        /\ \A i \in DOMAIN log' : Moves(i)' => i <= last
  BY <1>1, <1>2
<1>8. Rank(reported') <= Rank(Phase')
  BY <1>3, Ranks
<1> QED
  BY <1>6, <1>7, <1>8 DEF PhasesChain, Continues

-----------------------------------------------------------------------------
(* The controller *)

\* What a step that logs nothing must leave alone.
LEMMA NothingLogged ==
  ASSUME LogSound, PhasedTypeOK', UNCHANGED <<entries, sizes, log, reported>>,
         phaseNow <= phaseNow'
  PROVE  LogSound'
<1>1. phaseNow \in Nat /\ phaseNow' \in Nat /\ reported \in GovernancePhase
  BY GovernanceAssumption DEF LogSound, PhasedTypeOK
<1>2. LogTellsTimelock' /\ LogTellsProposals' /\ PhasesChain'
  BY <1>1, TimelockUntold, ProposalsUntold, ChainKept DEF LogSound
<1> QED
  BY <1>2 DEF LogSound

\* An event about an operation of the timelock.
LEMMA OperationLogged ==
  ASSUME LogSound, PhasedTypeOK', UNCHANGED <<phaseNow, sizes, reported>>,
         NEW e \in Event, Logged(e), NEW op0 \in OperationId,
         e.kind \in {"TimelockQueued", "TimelockExecuted", "TimelockCancelled"}, e.op = op0,
         DOMAIN entries' = DOMAIN entries \cup {op0},
         \A op \in DOMAIN entries \ {op0} : entries'[op] = entries[op],
         entries'[op0].executed <=> e.kind = "TimelockExecuted",
         entries'[op0].cancelled <=> e.kind = "TimelockCancelled"
  PROVE  LogSound'
<1>1. phaseNow \in Nat /\ phaseNow <= phaseNow' /\ reported \in GovernancePhase
  BY GovernanceAssumption DEF LogSound, PhasedTypeOK
<1>2. PICK n \in Nat : Grows(n, e)
  BY LoggedGrows DEF LogSound, PhasedTypeOK
<1>3. LogTellsTimelock'
  BY <1>2, TimelockTold DEF LogSound
<1>4. LogTellsProposals'
  BY <1>2, ProposalsUntold DEF LogSound
<1>5. PhasesChain'
  BY <1>1, <1>2, ChainKept DEF LogSound
<1> QED
  BY <1>3, <1>4, <1>5 DEF LogSound

\* An event about a proposal.
LEMMA ProposalLogged ==
  ASSUME LogSound, PhasedTypeOK', UNCHANGED <<phaseNow, entries, reported>>,
         NEW e \in Event, Logged(e), NEW id0 \in ProposalId, e.prop = id0,
         Rank(FromElapsed(id0.created)) >= Rank("MultiSig"),
         DOMAIN sizes' = DOMAIN sizes \cup {id0},
         \A id \in DOMAIN sizes \ {id0} : sizes'[id] = sizes[id],
         \/ /\ e.kind = "ProposalCreated"
            /\ ~sizes'[id0].executed /\ sizes'[id0].approvals = {id0.proposer}
         \/ /\ e.kind = "ProposalApproved" /\ id0 \in DOMAIN sizes
            /\ sizes'[id0].executed <=> sizes[id0].executed
            /\ sizes'[id0].approvals = sizes[id0].approvals \cup {e.by}
         \/ /\ e.kind = "ProposalExecuted" /\ id0 \in DOMAIN sizes
            /\ sizes'[id0].executed
            /\ sizes'[id0].approvals = sizes[id0].approvals
  PROVE  LogSound'
<1>1. phaseNow \in Nat /\ phaseNow <= phaseNow' /\ reported \in GovernancePhase
  BY GovernanceAssumption DEF LogSound, PhasedTypeOK
<1>2. PICK n \in Nat : Grows(n, e)
  BY LoggedGrows DEF LogSound, PhasedTypeOK
<1>3. LogTellsTimelock'
  BY <1>2, TimelockUntold DEF LogSound
<1>4. LogTellsProposals'
  BY <1>2, ProposalsTold DEF LogSound, ProposalId
<1>5. PhasesChain'
  BY <1>1, <1>2, ChainKept DEF LogSound
<1>6. \A id \in DOMAIN sizes' : Rank(FromElapsed(id.created)) >= Rank("MultiSig")
  BY DEF LogSound
<1> QED
  BY <1>3, <1>4, <1>5, <1>6 DEF LogSound

\* The operations of the timelock.
LEMMA TimelockSteps ==
  ASSUME LogSound, NEW c \in Callers, NEW value \in Fees, NEW op \in OperationId
  PROVE  /\ QueueSetFeeBps(c, value) => LogSound'
         /\ op \in DOMAIN entries /\ ExecuteSetFeeBps(op, value) => LogSound'
         /\ op \in DOMAIN entries /\ CancelOperation(op) => LogSound'
<1>0. /\ PhasedTypeOK /\ phaseNow \in Times /\ log \in Seq(Event)
      /\ DOMAIN entries \subseteq OperationId
      /\ \A o \in DOMAIN entries :
           entries[o] \in Entry /\ ~(entries[o].executed /\ entries[o].cancelled)
  BY DEF LogSound, PhasedTypeOK
<1>1. ASSUME QueueSetFeeBps(c, value) PROVE LogSound'
  <2>1. PICK o : o = [payload |-> value, queued |-> phaseNow]
    OBVIOUS
  <2>2. PICK v : v = [executed |-> FALSE, cancelled |-> FALSE]
    OBVIOUS
  <2>3. PICK e : e = [kind |-> "TimelockQueued", op |-> o]
    OBVIOUS
  <2>4. o \in OperationId /\ v \in Entry /\ ~v.executed /\ ~v.cancelled
        /\ e \in Event /\ e.kind = "TimelockQueued" /\ e.op = o
    BY <1>0, <2>1, <2>2, <2>3 DEF OperationId, Entry, Event
  <2>5. /\ entries' = Put(entries, o, v) /\ Logged(e)
        /\ UNCHANGED <<phaseNow, paused, fee, maxTrade, sizes, reported>>
    BY <1>1, <2>1, <2>2, <2>3 DEF QueueSetFeeBps, contractState
  <2>6. DOMAIN entries' = DOMAIN entries \cup {o} /\ entries'[o] = v
        /\ \A i \in DOMAIN entries \ {o} : entries'[i] = entries[i]
    BY <2>5 DEF Put
  <2>7. log' \in Seq(Event)
    BY <1>0, <2>4, <2>5, LoggedGrows
  <2>8. PhasedTypeOK'
    BY <1>0, <2>4, <2>5, <2>6, <2>7 DEF PhasedTypeOK
  <2> QED
    BY <2>4, <2>5, <2>6, <2>8, OperationLogged
<1>2. ASSUME op \in DOMAIN entries, ExecuteSetFeeBps(op, value) PROVE LogSound'
  <2>1. PICK e : e = [kind |-> "TimelockExecuted", op |-> op]
    OBVIOUS
  <2>2. e \in Event /\ e.kind = "TimelockExecuted" /\ e.op = op
    BY <2>1 DEF Event
  <2>3. /\ entries' = [entries EXCEPT ![op].executed = TRUE] /\ Logged(e) /\ fee' = value
        /\ ~entries[op].executed /\ ~entries[op].cancelled
        /\ UNCHANGED <<phaseNow, paused, maxTrade, sizes, reported>>
    BY <1>2, <2>1 DEF ExecuteSetFeeBps, Ready
  <2>4. /\ DOMAIN entries' = DOMAIN entries
        /\ \A i \in DOMAIN entries \ {op} : entries'[i] = entries[i]
        /\ entries'[op] = [entries[op] EXCEPT !.executed = TRUE]
    BY <1>2, <2>3
  <2>5. entries'[op] \in Entry /\ entries'[op].executed /\ ~entries'[op].cancelled
    BY <1>0, <1>2, <2>3, <2>4 DEF Entry
  <2>6. log' \in Seq(Event)
    BY <1>0, <2>2, <2>3, LoggedGrows
  <2>7. PhasedTypeOK'
    BY <1>0, <2>3, <2>4, <2>5, <2>6 DEF PhasedTypeOK
  <2> QED
    BY <1>2, <2>2, <2>3, <2>4, <2>5, <2>7, OperationLogged
<1>3. ASSUME op \in DOMAIN entries, CancelOperation(op) PROVE LogSound'
  <2>1. PICK e : e = [kind |-> "TimelockCancelled", op |-> op]
    OBVIOUS
  <2>2. e \in Event /\ e.kind = "TimelockCancelled" /\ e.op = op
    BY <2>1 DEF Event
  <2>3. /\ entries' = [entries EXCEPT ![op].cancelled = TRUE] /\ Logged(e)
        /\ ~entries[op].executed
        /\ UNCHANGED <<phaseNow, paused, fee, maxTrade, sizes, reported>>
    BY <1>3, <2>1 DEF CancelOperation, contractState
  <2>4. /\ DOMAIN entries' = DOMAIN entries
        /\ \A i \in DOMAIN entries \ {op} : entries'[i] = entries[i]
        /\ entries'[op] = [entries[op] EXCEPT !.cancelled = TRUE]
    BY <1>3, <2>3
  <2>5. entries'[op] \in Entry /\ ~entries'[op].executed /\ entries'[op].cancelled
    BY <1>0, <1>3, <2>3, <2>4 DEF Entry
  <2>6. log' \in Seq(Event)
    BY <1>0, <2>2, <2>3, LoggedGrows
  <2>7. PhasedTypeOK'
    BY <1>0, <2>3, <2>4, <2>5, <2>6 DEF PhasedTypeOK
  <2> QED
    BY <1>3, <2>2, <2>3, <2>4, <2>5, <2>7, OperationLogged
<1> QED
  BY <1>1, <1>2, <1>3

\* The operations of the multi-signature.
LEMMA ProposalSteps ==
  ASSUME LogSound, NEW c \in Callers, NEW value \in Sizes, NEW id \in ProposalId
  PROVE  /\ ProposeMaxTradeSize(c, value) => LogSound'
         /\ id \in DOMAIN sizes /\ ApproveMaxTradeSize(id, c) => LogSound'
         /\ id \in DOMAIN sizes /\ ExecuteMaxTradeSize(id, value) => LogSound'
<1>0. /\ PhasedTypeOK /\ phaseNow \in Times /\ log \in Seq(Event)
      /\ DOMAIN sizes \subseteq ProposalId
      /\ \A i \in DOMAIN sizes :
           /\ sizes[i] \in SizeProposal
           /\ Rank(FromElapsed(i.created)) >= Rank("MultiSig")
  BY DEF LogSound, PhasedTypeOK
<1>1. ASSUME ProposeMaxTradeSize(c, value) PROVE LogSound'
  <2>1. PICK i : i = [proposer |-> c, payload |-> value, created |-> phaseNow]
    OBVIOUS
  <2>2. PICK v : v = [approvals |-> {c}, executed |-> FALSE]
    OBVIOUS
  <2>3. PICK e : e = [kind |-> "ProposalCreated", prop |-> i]
    OBVIOUS
  <2>4. /\ c \in Guardians /\ Phase \in {"MultiSig", "DaoOnly"}
        /\ sizes' = Put(sizes, i, v) /\ Logged(e)
        /\ UNCHANGED <<phaseNow, paused, fee, maxTrade, entries, reported>>
    BY <1>1, <2>1, <2>2, <2>3 DEF ProposeMaxTradeSize, contractState
  <2>5. /\ i \in ProposalId /\ i.proposer = c /\ i.created = phaseNow
        /\ v \in SizeProposal /\ ~v.executed /\ v.approvals = {c}
        /\ e \in Event /\ e.kind = "ProposalCreated" /\ e.prop = i
    BY <1>0, <2>1, <2>2, <2>3, <2>4 DEF ProposalId, SizeProposal, Event
  <2>6. DOMAIN sizes' = DOMAIN sizes \cup {i} /\ sizes'[i] = v
        /\ \A j \in DOMAIN sizes \ {i} : sizes'[j] = sizes[j]
    BY <2>4 DEF Put
  <2>7. log' \in Seq(Event)
    BY <1>0, <2>4, <2>5, LoggedGrows
  <2>8. PhasedTypeOK'
    BY <1>0, <2>4, <2>5, <2>6, <2>7 DEF PhasedTypeOK
  <2>9. Rank(FromElapsed(i.created)) >= Rank("MultiSig")
    BY <2>4, <2>5, Ranks DEF Phase
  <2> QED
    BY <2>4, <2>5, <2>6, <2>8, <2>9, ProposalLogged
<1>2. ASSUME id \in DOMAIN sizes, ApproveMaxTradeSize(id, c) PROVE LogSound'
  <2>1. PICK e : e = [kind |-> "ProposalApproved", prop |-> id, by |-> c]
    OBVIOUS
  <2>2. /\ c \in Guardians /\ sizes' = [sizes EXCEPT ![id].approvals = @ \cup {c}] /\ Logged(e)
        /\ UNCHANGED <<phaseNow, paused, fee, maxTrade, entries, reported>>
    BY <1>2, <2>1 DEF ApproveMaxTradeSize, contractState
  <2>3. e \in Event /\ e.kind = "ProposalApproved" /\ e.prop = id /\ e.by = c
    BY <2>1, <2>2 DEF Event
  <2>4. /\ DOMAIN sizes' = DOMAIN sizes
        /\ \A i \in DOMAIN sizes \ {id} : sizes'[i] = sizes[i]
        /\ sizes'[id] = [sizes[id] EXCEPT !.approvals = sizes[id].approvals \cup {c}]
    BY <1>2, <2>2
  <2>5. /\ sizes'[id] \in SizeProposal /\ (sizes'[id].executed <=> sizes[id].executed)
        /\ sizes'[id].approvals = sizes[id].approvals \cup {c}
    BY <1>0, <1>2, <2>2, <2>4 DEF SizeProposal
  <2>6. log' \in Seq(Event)
    BY <1>0, <2>2, <2>3, LoggedGrows
  <2>7. PhasedTypeOK'
    BY <1>0, <2>2, <2>4, <2>5, <2>6 DEF PhasedTypeOK
  <2> QED
    BY <1>0, <1>2, <2>2, <2>3, <2>4, <2>5, <2>7, ProposalLogged
<1>3. ASSUME id \in DOMAIN sizes, ExecuteMaxTradeSize(id, value) PROVE LogSound'
  <2>1. PICK e : e = [kind |-> "ProposalExecuted", prop |-> id]
    OBVIOUS
  <2>2. /\ sizes' = [sizes EXCEPT ![id].executed = TRUE] /\ Logged(e) /\ maxTrade' = value
        /\ UNCHANGED <<phaseNow, paused, fee, entries, reported>>
    BY <1>3, <2>1 DEF ExecuteMaxTradeSize
  <2>3. e \in Event /\ e.kind = "ProposalExecuted" /\ e.prop = id
    BY <2>1 DEF Event
  <2>4. /\ DOMAIN sizes' = DOMAIN sizes
        /\ \A i \in DOMAIN sizes \ {id} : sizes'[i] = sizes[i]
        /\ sizes'[id] = [sizes[id] EXCEPT !.executed = TRUE]
    BY <1>3, <2>2
  <2>5. /\ sizes'[id] \in SizeProposal /\ sizes'[id].executed
        /\ sizes'[id].approvals = sizes[id].approvals
    BY <1>0, <1>3, <2>4 DEF SizeProposal
  <2>6. log' \in Seq(Event)
    BY <1>0, <2>2, <2>3, LoggedGrows
  <2>7. PhasedTypeOK'
    BY <1>0, <2>2, <2>4, <2>5, <2>6 DEF PhasedTypeOK
  <2> QED
    BY <1>0, <1>3, <2>2, <2>3, <2>4, <2>5, <2>7, ProposalLogged, SMTT(40)
<1> QED
  BY <1>1, <1>2, <1>3

\* What changes the contract directly, or nothing but the clock and the log.
LEMMA OtherSteps ==
  ASSUME LogSound, NEW c \in Callers
  PROVE  /\ \A value \in BOOLEAN : SetPaused(c, value) => LogSound'
         /\ \A value \in Fees : SetFeeBpsDirect(c, value) => LogSound'
         /\ GuardianOverride(c) => LogSound'
         /\ ReportPhase => LogSound'
         /\ \A t \in Times : Advance(t) => LogSound'
         /\ UNCHANGED phasedVars => LogSound'
<1>0. /\ PhasedTypeOK /\ phaseNow \in Times /\ phaseNow \in Nat /\ log \in Seq(Event)
      /\ reported \in GovernancePhase
  BY GovernanceAssumption DEF LogSound, PhasedTypeOK
<1>1. ASSUME NEW value \in BOOLEAN, SetPaused(c, value) PROVE LogSound'
  <2>1. PhasedTypeOK'
    BY <1>0, <1>1 DEF SetPaused, PhasedTypeOK
  <2> QED
    BY <1>0, <1>1, <2>1, NothingLogged DEF SetPaused
<1>2. ASSUME NEW value \in Fees, SetFeeBpsDirect(c, value) PROVE LogSound'
  <2>1. PhasedTypeOK'
    BY <1>0, <1>2 DEF SetFeeBpsDirect, PhasedTypeOK
  <2> QED
    BY <1>0, <1>2, <2>1, NothingLogged DEF SetFeeBpsDirect
<1>3. ASSUME GuardianOverride(c) PROVE LogSound'
  <2>1. PICK e : e = [kind |-> "GuardianOverride", by |-> c]
    OBVIOUS
  <2>2. /\ c \in Guardians /\ Logged(e)
        /\ UNCHANGED <<phaseNow, paused, fee, maxTrade, entries, sizes, reported>>
    BY <1>3, <2>1 DEF GuardianOverride, contractState
  <2>3. e \in Event /\ e.kind = "GuardianOverride"
    BY <2>1, <2>2 DEF Event
  <2>4. log' \in Seq(Event) /\ \E n \in Nat : Grows(n, e)
    BY <1>0, <2>2, <2>3, LoggedGrows
  <2>5. PhasedTypeOK'
    BY <1>0, <2>2, <2>4 DEF PhasedTypeOK
  <2>6. LogTellsTimelock' /\ LogTellsProposals' /\ PhasesChain'
    BY <1>0, <2>2, <2>3, <2>4, TimelockUntold, ProposalsUntold, ChainKept DEF LogSound
  <2> QED
    BY <2>2, <2>5, <2>6 DEF LogSound
<1>4. ASSUME ReportPhase PROVE LogSound'
  <2>1. PICK e : e = [kind |-> "PhaseTransition", from |-> reported, to |-> Phase]
    OBVIOUS
  <2>2. /\ Phase # reported /\ Logged(e) /\ reported' = Phase
        /\ UNCHANGED <<phaseNow, paused, fee, maxTrade, entries, sizes>>
    BY <1>4, <2>1 DEF ReportPhase, contractState
  <2>3. Phase \in GovernancePhase
    BY <1>0, PhasesForward DEF Phase
  <2>4. e \in Event /\ e.kind = "PhaseTransition" /\ e.from = reported /\ e.to = Phase
    BY <1>0, <2>1, <2>3 DEF Event
  <2>5. log' \in Seq(Event) /\ \E n \in Nat : Grows(n, e)
    BY <1>0, <2>2, <2>4, LoggedGrows
  <2>6. PhasedTypeOK'
    BY <1>0, <2>2, <2>3, <2>5 DEF PhasedTypeOK
  <2>7. LogTellsTimelock' /\ LogTellsProposals'
    BY <2>2, <2>4, <2>5, TimelockUntold, ProposalsUntold DEF LogSound
  <2>8. PhasesChain'
    BY <1>0, <2>2, <2>4, <2>5, ChainMoved DEF LogSound
  <2> QED
    BY <2>2, <2>6, <2>7, <2>8 DEF LogSound
<1>5. ASSUME NEW t \in Times, Advance(t) PROVE LogSound'
  <2>1. PhasedTypeOK' /\ phaseNow <= phaseNow'
    BY <1>0, <1>5, GovernanceAssumption DEF Advance, contractState, PhasedTypeOK
  <2> QED
    BY <1>0, <1>5, <2>1, NothingLogged DEF Advance
<1>6. ASSUME UNCHANGED phasedVars PROVE LogSound'
  <2>1. PhasedTypeOK'
    BY <1>0, <1>6 DEF phasedVars, PhasedTypeOK
  <2> QED
    BY <1>0, <1>6, <2>1, NothingLogged DEF phasedVars
<1> QED
  BY <1>1, <1>2, <1>3, <1>4, <1>5, <1>6

LEMMA PhasedStep == LogSound /\ [PhasedNext]_phasedVars => LogSound'
<1> SUFFICES ASSUME LogSound, [PhasedNext]_phasedVars PROVE LogSound'
  OBVIOUS
<1>1. DOMAIN entries \subseteq OperationId /\ DOMAIN sizes \subseteq ProposalId
      /\ Admin \in Callers
  BY DEF LogSound, PhasedTypeOK, Callers
<1>2. CASE \E c \in Callers :
             \/ \E value \in BOOLEAN : SetPaused(c, value)
             \/ \E value \in Fees : SetFeeBpsDirect(c, value)
             \/ GuardianOverride(c)
  BY <1>2, OtherSteps
<1>3. CASE ReportPhase \/ (\E t \in Times : Advance(t)) \/ UNCHANGED phasedVars
  BY <1>1, <1>3, OtherSteps
<1>4. ASSUME NEW c \in Callers, NEW value \in Fees, QueueSetFeeBps(c, value) PROVE LogSound'
  <2>1. [payload |-> value, queued |-> phaseNow] \in OperationId
    BY DEF LogSound, PhasedTypeOK, OperationId
  <2> QED
    BY <1>4, <2>1, TimelockSteps
<1>5. ASSUME NEW op \in DOMAIN entries, NEW value \in Fees, ExecuteSetFeeBps(op, value)
      PROVE  LogSound'
  BY <1>1, <1>5, TimelockSteps
<1>6. ASSUME NEW op \in DOMAIN entries, CancelOperation(op) PROVE LogSound'
  BY <1>1, <1>6, TimelockSteps, GovernanceAssumption
<1>7. ASSUME NEW c \in Callers, NEW value \in Sizes, ProposeMaxTradeSize(c, value)
      PROVE  LogSound'
  <2>1. [proposer |-> c, payload |-> value, created |-> phaseNow] \in ProposalId
    BY <1>7 DEF ProposeMaxTradeSize, LogSound, PhasedTypeOK, ProposalId
  <2> QED
    BY <1>7, <2>1, ProposalSteps
<1>8. ASSUME NEW c \in Callers, NEW id \in DOMAIN sizes, ApproveMaxTradeSize(id, c)
      PROVE  LogSound'
  BY <1>1, <1>8, ProposalSteps, GovernanceAssumption
<1>9. ASSUME NEW id \in DOMAIN sizes, NEW value \in Sizes, ExecuteMaxTradeSize(id, value)
      PROVE  LogSound'
  BY <1>1, <1>9, ProposalSteps
<1> QED
  BY <1>2, <1>3, <1>4, <1>5, <1>6, <1>7, <1>8, <1>9 DEF PhasedNext

LEMMA PhasedStart == PhasedInit => LogSound
<1> SUFFICES ASSUME PhasedInit PROVE LogSound
  OBVIOUS
<1> DEFINE e == [kind |-> "PhaseTransition", from |-> "FullAdmin", to |-> "FullAdmin"]
<1>1. /\ phaseNow = 0 /\ paused = FALSE /\ fee = FirstFee /\ maxTrade = FirstSize
      /\ entries = <<>> /\ sizes = <<>> /\ log = <<e>> /\ reported = "FullAdmin"
  BY DEF PhasedInit
<1>2. e \in Event /\ e.kind = "PhaseTransition" /\ e.to = "FullAdmin"
      /\ "FullAdmin" \in GovernancePhase
  BY Ranks DEF Event
<1> HIDE DEF e
<1>3. /\ log \in Seq(Event) /\ DOMAIN log = {1} /\ log[1] = e
      /\ DOMAIN entries = {} /\ DOMAIN sizes = {}
  BY <1>1, <1>2
<1>4. PhasedTypeOK
  BY <1>1, <1>2, <1>3, GovernanceAssumption DEF PhasedTypeOK
<1>5. LogTellsTimelock /\ LogTellsProposals
  BY <1>2, <1>3 DEF LogTellsTimelock, LogTellsProposals, About, Creates
<1>6. PhasesChain
  <2>1. Phase \in GovernancePhase
    BY <1>1, PhasesForward DEF Phase
  <2>2. Rank(reported) <= Rank(Phase)
    BY <1>1, <2>1, Ranks
  <2>3. Moves(1) /\ log[1].to = reported /\ 1 \in DOMAIN log /\ \A i \in DOMAIN log : i <= 1
    BY <1>1, <1>2, <1>3 DEF Moves
  <2> QED
    BY <1>3, <2>2, <2>3 DEF PhasesChain
<1> QED
  BY <1>3, <1>4, <1>5, <1>6 DEF LogSound

\* The audit log, replayed, gives the timelock, the proposals and the phases, for any
\* guardians, phases' lengths and delays (governance/governance.rs:196, 365, 749).
THEOREM LogAlwaysTellsState == PhasedSpec => []LogTellsState
<1>1. LogSound => LogTellsState
  BY DEF LogSound, LogTellsState
<1> QED
  BY <1>1, PhasedStart, PhasedStep, PTL DEF PhasedSpec

\* A fee moves with the admin's full control or an operation that stood and waited, a
\* size with a quorum of guardians in a proposal of a late enough phase, for any
\* guardians, thresholds, delays and phases' lengths (governance/admin.rs:60-150).
THEOREM ChangesAreEarned == PhasedSpec => ChangesEarned
<1>1. LogSound /\ [PhasedNext]_phasedVars =>
        [fee' # fee =>
           \/ Phase = "FullAdmin"
           \/ \E op \in DOMAIN entries :
                /\ op.payload = fee' /\ phaseNow - op.queued >= Delay
                /\ ~entries[op].executed /\ ~entries[op].cancelled
                /\ entries'[op].executed]_phasedVars
  <2> SUFFICES ASSUME LogSound, PhasedNext, fee' # fee, Phase # "FullAdmin"
               PROVE  \E op \in DOMAIN entries :
                        /\ op.payload = fee' /\ phaseNow - op.queued >= Delay
                        /\ ~entries[op].executed /\ ~entries[op].cancelled
                        /\ entries'[op].executed
    OBVIOUS
  <2>1. PICK op \in DOMAIN entries, value \in Fees : ExecuteSetFeeBps(op, value)
    BY DEF PhasedNext, SetPaused, SetFeeBpsDirect, CanModifyState, QueueSetFeeBps,
           ProposeMaxTradeSize, ApproveMaxTradeSize, GuardianOverride, CancelOperation,
           ExecuteMaxTradeSize, ReportPhase, Advance, contractState
  <2>2. /\ op \in OperationId /\ entries[op] \in Entry
        /\ phaseNow \in Nat /\ op.queued \in Nat /\ Delay \in Nat
    BY GovernanceAssumption DEF LogSound, PhasedTypeOK, OperationId
  <2>3. entries'[op].executed
    BY <2>1, <2>2 DEF ExecuteSetFeeBps, Entry
  <2>4. phaseNow - op.queued >= Delay
    BY <2>1, <2>2 DEF ExecuteSetFeeBps, Ready
  <2> QED
    BY <2>1, <2>3, <2>4 DEF ExecuteSetFeeBps, Ready
<1>2. LogSound /\ [PhasedNext]_phasedVars =>
        [maxTrade' # maxTrade =>
           \E id \in DOMAIN sizes :
             /\ id.payload = maxTrade'
             /\ Rank(FromElapsed(id.created)) >= Rank("MultiSig")
             /\ Cardinality(sizes[id].approvals) >= Threshold
             /\ ~sizes[id].executed /\ sizes'[id].executed]_phasedVars
  <2> SUFFICES ASSUME LogSound, PhasedNext, maxTrade' # maxTrade
               PROVE  \E id \in DOMAIN sizes :
                        /\ id.payload = maxTrade'
                        /\ Rank(FromElapsed(id.created)) >= Rank("MultiSig")
                        /\ Cardinality(sizes[id].approvals) >= Threshold
                        /\ ~sizes[id].executed /\ sizes'[id].executed
    OBVIOUS
  <2>1. PICK id \in DOMAIN sizes, value \in Sizes : ExecuteMaxTradeSize(id, value)
    BY DEF PhasedNext, SetPaused, SetFeeBpsDirect, QueueSetFeeBps, ExecuteSetFeeBps,
           ProposeMaxTradeSize, ApproveMaxTradeSize, GuardianOverride, CancelOperation,
           ReportPhase, Advance, contractState
  <2>2. sizes[id] \in SizeProposal
    BY DEF LogSound, PhasedTypeOK
  <2>3. sizes'[id].executed
    BY <2>1, <2>2 DEF ExecuteMaxTradeSize, SizeProposal
  <2> QED
    BY <2>1, <2>3 DEF ExecuteMaxTradeSize, IsApproved, LogSound
<1> QED
  BY <1>1, <1>2, PhasedStart, PhasedStep, PTL
  DEF PhasedSpec, ChangesEarned, FeeThroughTimelock, SizeByQuorum
=============================================================================
