------------------------------- MODULE Voting -------------------------------
(* Proposals and votes of the DAO phase (counter/src/governance/voting.rs). *)
(* This code is plain Rust: what a call changes before it returns an error  *)
(* stays changed, which the vote that comes too late relies on.             *)
EXTENDS Integers, Sequences, FiniteSets

CONSTANTS
  Voters,
  Quorums,        \* quorum of new proposals
  Deadlines,      \* deadline_secs of new proposals
  VotingEnd,      \* bound: last time explored
  MaxVotings      \* bound: proposals created

ASSUME VotingAssumption ==
  /\ Quorums \subseteq Nat /\ Deadlines \subseteq Nat
  /\ VotingEnd \in Nat /\ MaxVotings \in Nat

VARIABLES
  votings,        \* the proposals; the id is the position
  votingNow       \* the time callers pass in

votingVars == <<votings, votingNow>>

-----------------------------------------------------------------------------
(* Proposals *)

ProposalStatus == {"Active", "Passed", "Rejected", "Expired", "Executed"}

VotingProposal ==
  [ votesFor : Nat, votesAgainst : Nat, voters : SUBSET Voters,
    quorum : Quorums, deadline : Deadlines, created : Nat, status : ProposalStatus ]

Total(p) == p.votesFor + p.votesAgainst
Over(p) == votingNow > p.created + p.deadline

\* A vote that comes too late is refused, and closes the proposal.
Voted(p, voter, inFavor) ==
  IF Over(p) THEN [p EXCEPT !.status = "Expired"]
  ELSE [p EXCEPT !.voters = @ \cup {voter},
                 !.votesFor = IF inFavor THEN @ + 1 ELSE @,
                 !.votesAgainst = IF inFavor THEN @ ELSE @ + 1]

\* With a quorum the outcome does not wait for the deadline.
Outcome(p) ==
  IF Total(p) < p.quorum
  THEN IF Over(p) THEN "Expired" ELSE "Active"
  ELSE IF p.votesFor > p.votesAgainst THEN "Passed" ELSE "Rejected"

-----------------------------------------------------------------------------
(* Operations *)

CreateVoting(quorum, deadline) ==
  /\ Len(votings) < MaxVotings
  /\ votings' = Append(votings,
       [ votesFor |-> 0, votesAgainst |-> 0, voters |-> {}, quorum |-> quorum,
         deadline |-> deadline, created |-> votingNow, status |-> "Active" ])
  /\ UNCHANGED votingNow

\* Mutant: the status is not looked at.
VoteAfterOutcome(id, voter, inFavor) ==
  /\ Over(votings[id]) \/ voter \notin votings[id].voters
  /\ votings' = [votings EXCEPT ![id] = Voted(@, voter, inFavor)]
  /\ UNCHANGED votingNow

Vote(id, voter, inFavor) ==
  /\ votings[id].status = "Active"
  /\ Over(votings[id]) \/ voter \notin votings[id].voters
  /\ votings' = [votings EXCEPT ![id] = Voted(@, voter, inFavor)]
  /\ UNCHANGED votingNow

Finalize(id) ==
  /\ votings[id].status = "Active"
  /\ votings' = [votings EXCEPT ![id].status = Outcome(votings[id])]
  /\ UNCHANGED votingNow

ExecuteVoting(id) ==
  /\ votings[id].status = "Passed"
  /\ votings' = [votings EXCEPT ![id].status = "Executed"]
  /\ UNCHANGED votingNow

VotingTick ==
  /\ votingNow < VotingEnd
  /\ votingNow' = votingNow + 1
  /\ UNCHANGED votings

VotingInit == votings = <<>> /\ votingNow = 0

VotingNext ==
  \/ \E quorum \in Quorums, deadline \in Deadlines : CreateVoting(quorum, deadline)
  \/ \E id \in DOMAIN votings :
        \/ \E voter \in Voters, inFavor \in BOOLEAN : Vote(id, voter, inFavor)
        \/ Finalize(id)
        \/ ExecuteVoting(id)
  \/ VotingTick

VotingSpec == VotingInit /\ [][VotingNext]_votingVars

-----------------------------------------------------------------------------
(* Properties *)

\* Type invariant, with one vote to a voter: the tallies count the voters.
VotingTypeOK ==
  /\ votings \in Seq(VotingProposal)
  /\ votingNow \in Nat
  /\ \A id \in DOMAIN votings :
       Total(votings[id]) = Cardinality(votings[id].voters)

\* A proposal that passed or was executed has a quorum and a strict majority,
\* in the votes as they stand and not only when it was finalized; a rejected
\* one has a quorum and no majority; an expired one, whoever closed it, a
\* finalizer or a vote that came too late, is past its voting period.
OutcomeFollowsVotes ==
  \A id \in DOMAIN votings :
    LET p == votings[id]
    IN /\ p.status \in {"Passed", "Executed"} =>
            Total(p) >= p.quorum /\ p.votesFor > p.votesAgainst
       /\ p.status = "Rejected" =>
            Total(p) >= p.quorum /\ p.votesFor <= p.votesAgainst
       /\ p.status = "Expired" => Over(p)

\* An outcome is final, votes included; only a passed proposal moves on, and
\* only to be executed.
OutcomeIsFinal ==
  [][\A id \in DOMAIN votings :
       LET p == votings[id]
           q == votings'[id]
       IN p.status # "Active" =>
            \/ q = p
            \/ p.status = "Passed" /\ q = [p EXCEPT !.status = "Executed"]]_votings

\* The outcome of a vote follows from one vote each, counted up to whoever
\* finalized it, and is final (voting.rs:58, 73).
VotesDecide == [](VotingTypeOK /\ OutcomeFollowsVotes) /\ OutcomeIsFinal

=============================================================================
