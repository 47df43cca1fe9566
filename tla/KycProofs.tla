----------------------------- MODULE KycProofs -----------------------------
(* Proofs about the KYC state machine, for any set of accounts, any         *)
(* configured durations and any number of overrides.                        *)
EXTENDS Kyc, TLAPS

\* The provers that a leaf which names none is given, and for how long.
USE SMTT(30), ZenonT(30)

\* The inductive invariant: the freeze flag agrees with the status, and no
\* override waits less than the minimum timelock.
IInv == TypeOK /\ FinalityConsistent /\ TimelockHonoured

-----------------------------------------------------------------------------

\* The initial state of the contract satisfies the inductive invariant: every
\* record is KYCRecord::new and the configured durations are the defaults.
LEMMA InitIInv == Init => IInv
<1> SUFFICES ASSUME Init PROVE IInv
  OBVIOUS
<1> USE AccountAssumption, DurationAssumption, NoneAssumption
<1>1. NewRecord \in KYCRecord
  BY DEF NewRecord, KYCRecord, KYCStatus, Terminal, Option
<1>2. TypeOK
  BY <1>1 DEF Init, TypeOK
<1>3. FinalityConsistent
  BY DEF Init, FinalityConsistent, NewRecord, IsFinalized, Terminal
<1>4. TimelockHonoured
  BY DEF Init, TimelockHonoured
<1> QED
  BY <1>2, <1>3, <1>4 DEF IInv

\* update_status writes a record in which finality and status agree.
LEMMA UpdateStatusIInv ==
  ASSUME IInv, NEW op \in Address, NEW user \in Users, NEW s \in KYCStatus,
         NEW r \in Option(Reasons), UpdateStatus(op, user, s, r)
  PROVE  IInv'
<1> USE AccountAssumption, DurationAssumption, NoneAssumption
<1> DEFINE rec == records[user]
           new == [ status |-> s,
                    finalizedAt |-> IF s \in Terminal THEN now ELSE rec.finalizedAt,
                    expiresAt |-> IF s # "Pending" THEN None ELSE rec.expiresAt,
                    updatedBy |-> op,
                    reason |-> IF s = "Rejected" THEN r ELSE None ]
<1>1. rec \in KYCRecord /\ now \in Nat
  BY DEF IInv, TypeOK
<1>2. new \in KYCRecord
  BY <1>1 DEF KYCRecord, Option
<1>3. records' = [records EXCEPT ![user] = new]
  BY DEF UpdateStatus, MayReview, Reviewable, Reviewed
<1>4. rec.finalizedAt = None
  BY DEF UpdateStatus, MayReview, Reviewable, Reviewed, IsFinalized
<1> HIDE DEF new
<1>5. records' \in [Users -> KYCRecord]
  BY <1>2, <1>3 DEF IInv, TypeOK
<1>6. TypeOK'
  BY <1>5 DEF IInv, TypeOK, UpdateStatus, MayReview, Reviewable, Reviewed, config
<1>7. new.status = s /\ (new.finalizedAt # None <=> s \in Terminal)
      /\ (new.reason # None => s = "Rejected")
  BY <1>1, <1>4 DEF new
<1>8. FinalityConsistent'
  BY <1>3, <1>7 DEF IInv, TypeOK, FinalityConsistent, IsFinalized
<1>9. TimelockHonoured'
  BY DEF IInv, TimelockHonoured, UpdateStatus, MayReview, Reviewable, Reviewed, config
<1> QED
  BY <1>6, <1>8, <1>9 DEF IInv

\* The two user handlers keep the invariant: neither touches finalized_at, and
\* both start from a status that is not terminal.
LEMMA UserIInv ==
  ASSUME IInv, NEW user \in Users, SubmitKyc(user) \/ ResubmitKyc(user)
  PROVE  IInv'
<1> USE AccountAssumption, DurationAssumption, NoneAssumption
<1>1. records[user] \in KYCRecord /\ now + expiry \in Nat
  BY DEF IInv, TypeOK
<1>2. records[user].finalizedAt = None
  BY DEF IInv, FinalityConsistent, IsFinalized, Terminal, SubmitKyc, ResubmitKyc
<1>3. CASE SubmitKyc(user)
  <2> DEFINE new == [records[user] EXCEPT !.status = "Pending",
                 !.updatedBy = None, !.reason = None, !.expiresAt = now + expiry]
  <2>1. new \in KYCRecord /\ new.status = "Pending"
        /\ new.finalizedAt = None /\ new.reason = None
    BY <1>1, <1>2, ZenonT(60) DEF KYCRecord, KYCStatus, Terminal, Option
  <2>2. records' = [records EXCEPT ![user] = new]
    BY <1>3 DEF SubmitKyc
  <2> HIDE DEF new
  <2>3. TypeOK'
    BY <1>3, <2>1, <2>2 DEF IInv, TypeOK, SubmitKyc, config
  <2>4. FinalityConsistent'
    BY <2>1, <2>2 DEF IInv, TypeOK, FinalityConsistent, IsFinalized, Terminal
  <2>5. TimelockHonoured'
    BY <1>3 DEF IInv, TimelockHonoured, SubmitKyc, config
  <2> QED
    BY <2>3, <2>4, <2>5 DEF IInv
<1>4. CASE ResubmitKyc(user)
  <2> DEFINE new == [records[user] EXCEPT !.status = "InReview", !.reason = None]
  <2>1. new \in KYCRecord /\ new.status = "InReview"
        /\ new.finalizedAt = None /\ new.reason = None
    BY <1>1, <1>2 DEF KYCRecord, KYCStatus, Terminal, Option
  <2>2. records' = [records EXCEPT ![user] = new]
    BY <1>4 DEF ResubmitKyc
  <2> HIDE DEF new
  <2>3. TypeOK'
    BY <1>4, <2>1, <2>2 DEF IInv, TypeOK, ResubmitKyc, config
  <2>4. FinalityConsistent'
    BY <2>1, <2>2 DEF IInv, TypeOK, FinalityConsistent, IsFinalized, Terminal
  <2>5. TimelockHonoured'
    BY <1>4 DEF IInv, TimelockHonoured, ResubmitKyc, config
  <2> QED
    BY <2>3, <2>4, <2>5 DEF IInv
<1> QED
  BY <1>3, <1>4

\* A proposal is due no earlier than the minimum timelock after it was made.
LEMMA ProposeIInv ==
  ASSUME IInv, NEW c \in Address, NEW user \in Users, NEW s \in KYCStatus,
         NEW r \in Reasons, ProposeOverride(c, user, s, r)
  PROVE  IInv'
<1> USE AccountAssumption, DurationAssumption, NoneAssumption
<1> DEFINE o == [ user |-> user, newStatus |-> s, proposedAt |-> now,
                  executableAt |-> now + timelock, reason |-> r,
                  executed |-> FALSE ]
<1>1. now \in Nat /\ timelock \in Nat /\ timelock >= MinTimelock
      /\ overrides \in Seq(GovernanceOverride)
  BY DEF IInv, TypeOK, TimelockHonoured
<1>2. o \in GovernanceOverride
  BY <1>1 DEF GovernanceOverride
<1>3. o.executableAt >= o.proposedAt + MinTimelock /\ ~o.executed
  BY <1>1
<1>4. overrides' = Append(overrides, o)
  BY DEF ProposeOverride
<1> HIDE DEF o
<1>5. overrides' \in Seq(GovernanceOverride)
  BY <1>1, <1>2, <1>4
<1>6. TypeOK'
  BY <1>5 DEF IInv, TypeOK, ProposeOverride, config
<1>7. FinalityConsistent'
  BY DEF IInv, FinalityConsistent, IsFinalized, ProposeOverride
<1>8. ASSUME NEW i \in DOMAIN overrides'
      PROVE  overrides'[i] = o \/ (i \in DOMAIN overrides /\ overrides'[i] = overrides[i])
  BY <1>1, <1>2, <1>4
<1>9. TimelockHonoured'
  BY <1>3, <1>8 DEF IInv, TimelockHonoured, ProposeOverride, config
<1> QED
  BY <1>6, <1>7, <1>9 DEF IInv

\* Executing an override rewrites status and finality together, and only once
\* the override is due.
LEMMA ExecuteIInv ==
  ASSUME IInv, NEW c \in Address, NEW id \in DOMAIN overrides,
         ExecuteOverride(c, id)
  PROVE  IInv'
<1> USE AccountAssumption, DurationAssumption, NoneAssumption
<1> DEFINE o == overrides[id]
           new == [records[o.user] EXCEPT
                     !.status = o.newStatus,
                     !.updatedBy = c,
                     !.reason = IF o.newStatus = "Rejected" THEN o.reason ELSE None,
                     !.finalizedAt = IF o.newStatus \in Terminal THEN now ELSE None]
           done == [o EXCEPT !.executed = TRUE]
<1>1. now \in Nat /\ o \in GovernanceOverride /\ records \in [Users -> KYCRecord]
      /\ overrides \in Seq(GovernanceOverride)
  BY DEF IInv, TypeOK
<1>2. o.user \in Users /\ o.newStatus \in KYCStatus /\ o.reason \in Reasons
  BY <1>1 DEF GovernanceOverride
<1>3. records[o.user] \in KYCRecord
  BY <1>1, <1>2
<1>4. /\ new \in KYCRecord
      /\ new.status = o.newStatus
      /\ new.finalizedAt # None <=> o.newStatus \in Terminal
      /\ new.reason # None => o.newStatus = "Rejected"
  BY <1>1, <1>2, <1>3, ZenonT(60) DEF KYCRecord, Option
<1>5. done \in GovernanceOverride /\ done.executableAt = o.executableAt
      /\ done.proposedAt = o.proposedAt
  BY <1>1 DEF GovernanceOverride
<1>6. records' = [records EXCEPT ![o.user] = new]
  BY DEF ExecuteOverride, Due, Overridden
<1>7. overrides' = [overrides EXCEPT ![id] = done] /\ now >= o.executableAt
  BY DEF ExecuteOverride, Due, Overridden
<1>8. UNCHANGED <<admin, operators, timelock, expiry, now>>
  BY DEF ExecuteOverride, Due, Overridden, config
<1> HIDE DEF new, done
<1>9. overrides' \in Seq(GovernanceOverride) /\ DOMAIN overrides' = DOMAIN overrides
  BY <1>1, <1>5, <1>7
<1>10. TypeOK'
  BY <1>1, <1>2, <1>4, <1>6, <1>8, <1>9 DEF IInv, TypeOK
<1>11. FinalityConsistent'
  BY <1>1, <1>2, <1>4, <1>6 DEF IInv, FinalityConsistent, IsFinalized
<1>12. TimelockHonoured'
  BY <1>1, <1>5, <1>7, <1>8, <1>9 DEF IInv, TimelockHonoured
<1> QED
  BY <1>10, <1>11, <1>12 DEF IInv

\* Configuration changes and the clock keep the invariant: a duration below
\* the minimum is refused, and time does not run backwards.
LEMMA ConfigIInv ==
  ASSUME IInv,
         \/ \E c, op \in Address : AddOperator(c, op) \/ RemoveOperator(c, op)
         \/ \E c \in Address, d \in Durations :
               SetTimelockDuration(c, d) \/ SetPendingExpiryDuration(c, d)
         \/ \E a \in Admins : SetAdmin(a)
         \/ Tick
  PROVE  IInv'
<1> USE AccountAssumption, DurationAssumption, NoneAssumption
<1>1. UNCHANGED <<records, overrides>> /\ now' \in Nat /\ now' >= now
  BY DEF IInv, TypeOK, AddOperator, RemoveOperator, SetTimelockDuration,
         SetPendingExpiryDuration, SetAdmin, Tick, config
<1>2. TypeOK'
  BY <1>1 DEF IInv, TypeOK, AddOperator, RemoveOperator, SetTimelockDuration,
         SetPendingExpiryDuration, SetAdmin, Tick, config
<1>3. FinalityConsistent'
  BY <1>1 DEF IInv, FinalityConsistent, IsFinalized
<1>4. timelock' >= MinTimelock
  BY DEF IInv, TimelockHonoured, AddOperator, RemoveOperator,
         SetTimelockDuration, SetPendingExpiryDuration, SetAdmin, Tick, config
<1>5. ASSUME NEW i \in DOMAIN overrides
      PROVE  overrides[i].executableAt \in Nat /\ now \in Nat
  <2>1. now \in Nat /\ overrides \in Seq(GovernanceOverride)
    BY DEF IInv, TypeOK
  <2>2. overrides[i] \in GovernanceOverride
    BY <2>1
  <2> QED
    BY <2>1, <2>2 DEF GovernanceOverride
<1>6. TimelockHonoured'
  BY <1>1, <1>4, <1>5 DEF IInv, TimelockHonoured
<1> QED
  BY <1>2, <1>3, <1>6 DEF IInv

\* Every contract invocation, and every tick, keeps the inductive invariant.
LEMMA NextIInv == IInv /\ [Next]_vars => IInv'
<1> SUFFICES ASSUME IInv, [Next]_vars PROVE IInv'
  OBVIOUS
<1>1. CASE UNCHANGED vars
  BY <1>1 DEF IInv, TypeOK, FinalityConsistent, IsFinalized, TimelockHonoured, vars
<1>2. CASE Next
  <2>1. ASSUME NEW op \in Address, NEW user \in Users, NEW s \in KYCStatus,
               NEW r \in Option(Reasons), UpdateStatus(op, user, s, r)
        PROVE  IInv'
    BY <2>1, UpdateStatusIInv
  <2>2. ASSUME NEW user \in Users, SubmitKyc(user) \/ ResubmitKyc(user)
        PROVE  IInv'
    BY <2>2, UserIInv
  <2>3. ASSUME NEW c \in Address, NEW user \in Users, NEW s \in KYCStatus,
               NEW r \in Reasons, ProposeOverride(c, user, s, r)
        PROVE  IInv'
    BY <2>3, ProposeIInv
  <2>4. ASSUME NEW c \in Address, NEW id \in DOMAIN overrides,
               ExecuteOverride(c, id)
        PROVE  IInv'
    BY <2>4, ExecuteIInv
  <2> QED
    BY <1>2, <2>1, <2>2, <2>3, <2>4, ConfigIInv DEF Next
<1> QED
  BY <1>1, <1>2

\* The inductive invariant holds in every reachable state.
THEOREM Invariant == Spec => []IInv
BY InitIInv, NextIInv, PTL DEF Spec

\* Every field of the contract's KYC storage keeps its type.
THEOREM TypeCorrect == Spec => []TypeOK
<1>1. IInv => TypeOK
  BY DEF IInv
<1> QED
  BY <1>1, Invariant, PTL

\* finalized_at is set exactly on the verified and rejected records.
THEOREM FinalityIsConsistent == Spec => []FinalityConsistent
<1>1. IInv => FinalityConsistent
  BY DEF IInv
<1> QED
  BY <1>1, Invariant, PTL

\* Every executed override waited at least the minimum timelock.
THEOREM TimelockIsHonoured == Spec => []TimelockHonoured
<1>1. IInv => TimelockHonoured
  BY DEF IInv
<1> QED
  BY <1>1, Invariant, PTL
-----------------------------------------------------------------------------
(* Action properties *)

\* In an override step, override id of that user is executed as Executes says.
LEMMA ExecutesOverride ==
  ASSUME IInv, NEW c \in Address, NEW id \in DOMAIN overrides,
         ExecuteOverride(c, id)
  PROVE  Executes(id) /\ \A a \in Users \ {overrides[id].user} :
                            records'[a] = records[a]
<1> USE DurationAssumption
<1> DEFINE o == overrides[id]
<1>1. overrides \in Seq(GovernanceOverride) /\ now \in Nat
      /\ records \in [Users -> KYCRecord]
  BY DEF IInv, TypeOK
<1>2. o \in GovernanceOverride
  BY <1>1
<1>3. o.proposedAt \in Nat /\ o.executableAt \in Nat
      /\ o.executableAt >= o.proposedAt + MinTimelock
  BY <1>2 DEF IInv, TimelockHonoured, GovernanceOverride
<1>4. ~o.executed /\ now >= o.executableAt
      /\ overrides' = [overrides EXCEPT ![id].executed = TRUE]
  BY DEF ExecuteOverride, Due, Overridden
<1>5. overrides'[id] = [o EXCEPT !.executed = TRUE]
  BY <1>1, <1>4
<1>6. now >= o.proposedAt + MinTimelock
  BY <1>1, <1>3, <1>4, SMTT(40)
<1>7. \A a \in Users \ {o.user} : records'[a] = records[a]
  BY <1>1 DEF ExecuteOverride, Due, Overridden
<1> QED
  BY <1>4, <1>5, <1>6, <1>7 DEF Executes

\* The status step of each handler, in one place: either nothing happens to the
\* record, or an override of its user is executed, or it was open and follows
\* one edge of the review graph, taken by someone else if it is an outcome.
LEMMA RecordStep ==
  ASSUME IInv, [Next]_vars, NEW a \in Users, records'[a] # records[a]
  PROVE  \/ \E i \in DOMAIN overrides : overrides[i].user = a /\ Executes(i)
         \/ /\ ~IsFinalized(records[a])
            /\ ~(records[a].status = "Pending" /\ IsExpired(records[a]))
            /\ <<records[a].status, records'[a].status>> \in CanTransition
            /\ records'[a].status \in Terminal => records'[a].updatedBy # a
<1> USE AccountAssumption
<1>0. records \in [Users -> KYCRecord] /\ records[a] \in KYCRecord
  BY DEF IInv, TypeOK
<1>1. ASSUME NEW op \in Address, NEW user \in Users, NEW s \in KYCStatus,
             NEW r \in Option(Reasons), UpdateStatus(op, user, s, r)
      PROVE  /\ ~IsFinalized(records[a])
             /\ ~(records[a].status = "Pending" /\ IsExpired(records[a]))
             /\ <<records[a].status, records'[a].status>> \in CanTransition
             /\ records'[a].status \in Terminal => records'[a].updatedBy # a
  <2>1. user = a
    BY <1>0, <1>1 DEF UpdateStatus, MayReview, Reviewable, Reviewed
  <2>2. records'[a].status = s /\ records'[a].updatedBy = op
    BY <1>0, <1>1, <2>1 DEF UpdateStatus, MayReview, Reviewable, Reviewed
  <2> QED
    BY <1>1, <2>1, <2>2 DEF UpdateStatus, MayReview, Reviewable, Reviewed
<1>2. ASSUME NEW user \in Users, SubmitKyc(user) \/ ResubmitKyc(user)
      PROVE  /\ ~IsFinalized(records[a])
             /\ ~(records[a].status = "Pending" /\ IsExpired(records[a]))
             /\ <<records[a].status, records'[a].status>> \in CanTransition
             /\ records'[a].status \in Terminal => records'[a].updatedBy # a
  <2>1. user = a
    BY <1>0, <1>2 DEF SubmitKyc, ResubmitKyc
  <2>2. ~IsFinalized(records[a]) /\ records[a].status # "Pending"
    BY <1>2, <2>1 DEF IInv, FinalityConsistent, Terminal, SubmitKyc, ResubmitKyc
  <2>3. <<records[a].status, records'[a].status>>
          \in {<<"Unverified", "Pending">>, <<"AdditionalInfoRequired", "InReview">>}
    <3>1. DOMAIN records[a] = {"status", "finalizedAt", "expiresAt", "updatedBy", "reason"}
      BY <1>0 DEF KYCRecord
    <3>2. CASE SubmitKyc(a)
      BY <1>0, <3>1, <3>2 DEF SubmitKyc
    <3>3. CASE ResubmitKyc(a)
      BY <1>0, <3>1, <3>3 DEF ResubmitKyc
    <3> QED
      BY <1>2, <2>1, <3>2, <3>3
  <2> QED
    BY <2>2, <2>3 DEF CanTransition, Terminal
<1>3. ASSUME NEW c \in Address, NEW id \in DOMAIN overrides,
             ExecuteOverride(c, id)
      PROVE  overrides[id].user = a /\ Executes(id)
  BY <1>3, ExecutesOverride
<1>4. CASE UNCHANGED records
  BY <1>4
<1>5. CASE Next
  BY <1>1, <1>2, <1>3, <1>4, <1>5
  DEF Next, AddOperator, RemoveOperator, SetTimelockDuration,
      SetPendingExpiryDuration, SetAdmin, ProposeOverride, Tick
<1> QED
  BY <1>4, <1>5 DEF vars

\* A verified or rejected record moves only by an override that is due.
THEOREM TerminalIsImmutable == Spec => TerminalImmutable
<1>1. IInv /\ [Next]_vars =>
        [\A a \in Users :
           IsFinalized(records[a]) /\ records'[a] # records[a] =>
             \E i \in DOMAIN overrides : overrides[i].user = a /\ Executes(i)]_vars
  BY RecordStep
<1> QED
  BY <1>1, Invariant, PTL DEF Spec, TerminalImmutable

\* Outside overrides every status change is an edge of the review graph, and
\* no account reaches an outcome by its own hand.
THEOREM ReviewFollowsGraph == Spec => ReviewGraph
<1> DEFINE Edge(a) ==
      /\ <<records[a].status, records'[a].status>> \in CanTransition
      /\ records'[a].status \in Terminal => records'[a].updatedBy # a
           Step(a) == \/ \E i \in DOMAIN overrides :
                            overrides[i].user = a /\ Executes(i)
                      \/ Edge(a)
<1>1. ASSUME IInv, [Next]_vars, NEW a \in Users,
             records'[a].status # records[a].status
      PROVE  Step(a)
  <2>1. records'[a] # records[a]
    BY <1>1
  <2> QED
    BY <1>1, <2>1, RecordStep
<1>2. IInv /\ [Next]_vars =>
        [\A a \in Users :
           records'[a].status # records[a].status => Step(a)]_vars
  <2> HIDE DEF Step
  <2> QED
    BY <1>1
<1> QED
  BY <1>2, Invariant, PTL DEF Spec, ReviewGraph

\* A pending request past its expiry moves only by an override.
THEOREM ExpiredIsStuck == Spec => ExpiredIsDeadEnd
<1>1. IInv /\ [Next]_vars =>
        [\A a \in Users :
           /\ records[a].status = "Pending" /\ IsExpired(records[a])
           /\ records'[a] # records[a]
           => \E i \in DOMAIN overrides : overrides[i].user = a /\ Executes(i)]_vars
  BY RecordStep
<1> QED
  BY <1>1, Invariant, PTL DEF Spec, ExpiredIsDeadEnd
=============================================================================
