-------------------------------- MODULE Kyc --------------------------------
(***************************************************************************)
(* The KYC state machine of the counter contract (counter/src/kyc.rs).     *)
(*                                                                         *)
(* Every address owns one KYC record.  The user opens it (submit_kyc),     *)
(* KYC operators move it along the review graph (update_status), the user  *)
(* may answer a request for information (resubmit_kyc), and the terminal   *)
(* outcomes are frozen until the admin proposes a governance override and  *)
(* executes it once its timelock has run out.  A pending request expires   *)
(* with the ledger clock, which the environment advances (Tick).           *)
(*                                                                         *)
(* Each action is one contract invocation; a failed invocation is rolled   *)
(* back by the host, so an early return is simply a disabled action.       *)
(***************************************************************************)
EXTENDS Integers, Sequences, FiniteSets

CONSTANTS
  Address,          \* the accounts: admin, operators and users alike
  Users,            \* the accounts that may own a KYC record
  Admins,           \* the accounts governance may appoint admin
  None,             \* Rust's Option::None
  Reasons,          \* rejection reasons (opaque symbols)
  Durations,        \* the durations an admin may try to configure
  MinTimelock,      \* MIN_TIMELOCK_DURATION
  DefaultTimelock,  \* DEFAULT_TIMELOCK_DURATION
  MinExpiry,        \* MIN_PENDING_EXPIRY_DURATION
  DefaultExpiry,    \* DEFAULT_PENDING_EXPIRY_DURATION
  MaxOperators,     \* MAX_OPERATORS
  MaxTime,          \* bound: last ledger timestamp explored
  MaxOverrides      \* bound: override proposals explored

ASSUME AccountAssumption ==
  Users \subseteq Address /\ Admins \subseteq Address

ASSUME DurationAssumption ==
  /\ Durations \subseteq Nat
  /\ MinTimelock \in Nat /\ DefaultTimelock \in Nat
  /\ MinTimelock <= DefaultTimelock
  /\ MinExpiry \in Nat /\ DefaultExpiry \in Nat
  /\ MinExpiry <= DefaultExpiry
  /\ MaxTime \in Nat /\ MaxOperators \in Nat /\ MaxOverrides \in Nat

ASSUME NoneAssumption ==
  None \notin Nat /\ None \notin Address /\ None \notin Reasons

VARIABLES
  admin,            \* ADMIN_KEY
  operators,        \* KYCStorageKey::Operators (a duplicate-free Vec)
  records,          \* KYCStorageKey::Record(address)
  overrides,        \* KYCStorageKey::Override(id), id = position - 1
  timelock,         \* KYCStorageKey::TimelockDuration
  expiry,           \* KYCStorageKey::PendingExpiryDuration
  now               \* env.ledger().timestamp()

config == <<admin, operators, timelock, expiry>>
vars == <<admin, operators, records, overrides, timelock, expiry, now>>

-----------------------------------------------------------------------------
(* Statuses, records and overrides *)

Terminal == {"Verified", "Rejected"}
KYCStatus == {"Unverified", "Pending", "InReview", "AdditionalInfoRequired"}
               \cup Terminal

\* The pairs for which can_transition_to answers true.
CanTransition ==
  { <<"Unverified", "Pending">>,
    <<"Pending", "InReview">>,
    <<"InReview", "AdditionalInfoRequired">>,
    <<"InReview", "Verified">>,
    <<"InReview", "Rejected">>,
    <<"AdditionalInfoRequired", "InReview">> }

Option(S) == S \cup {None}

KYCRecord == [ status : KYCStatus,
               finalizedAt : Option(Nat),
               expiresAt : Option(Nat),
               updatedBy : Option(Address),
               reason : Option(Reasons) ]

GovernanceOverride == [ user : Users,
                        newStatus : KYCStatus,
                        proposedAt : Nat,
                        executableAt : Nat,
                        reason : Reasons,
                        executed : BOOLEAN ]

NewRecord == [ status |-> "Unverified", finalizedAt |-> None,
               expiresAt |-> None, updatedBy |-> None, reason |-> None ]

IsFinalized(rec) == rec.finalizedAt # None
IsExpired(rec) == rec.expiresAt # None /\ now >= rec.expiresAt

\* The admin is always an operator.
IsOperator(a) == a = admin \/ a \in operators

\* Mutants of the guards below: a reviewer of his own record, an override that
\* does not wait.
MayReviewSelf(op, user) == IsOperator(op)
DueAtOnce(o) == now >= o.proposedAt

\* Who may review whom, and which record is open to review at all.
MayReview(op, user) == IsOperator(op) /\ op # user
Reviewable(rec) ==
  /\ ~IsFinalized(rec)
  /\ ~(rec.status = "Pending" /\ IsExpired(rec))
Due(o) == now >= o.executableAt

\* The record a review, or an executed override, leaves behind.
Reviewed(rec, op, s, r) ==
  [ status |-> s,
    finalizedAt |-> IF s \in Terminal THEN now ELSE rec.finalizedAt,
    expiresAt |-> IF s # "Pending" THEN None ELSE rec.expiresAt,
    updatedBy |-> op,
    reason |-> IF s = "Rejected" THEN r ELSE None ]

\* Mutant: finalized_at survives an override to an open status.
OverriddenStaysFinal(rec, o, by) ==
  [rec EXCEPT !.status = o.newStatus,
              !.updatedBy = by,
              !.reason = IF o.newStatus = "Rejected" THEN o.reason ELSE None,
              !.finalizedAt = IF o.newStatus \in Terminal THEN now ELSE @]

\* expires_at is not touched.
Overridden(rec, o, by) ==
  [rec EXCEPT !.status = o.newStatus,
              !.updatedBy = by,
              !.reason = IF o.newStatus = "Rejected" THEN o.reason ELSE None,
              !.finalizedAt = IF o.newStatus \in Terminal THEN now ELSE None]

-----------------------------------------------------------------------------
(* Operator and configuration management *)

AddOperator(caller, op) ==
  /\ caller = admin
  /\ Cardinality(operators) < MaxOperators
  /\ operators' = operators \cup {op}
  /\ UNCHANGED <<admin, records, overrides, timelock, expiry, now>>

RemoveOperator(caller, op) ==
  /\ caller = admin
  /\ operators' = operators \ {op}
  /\ UNCHANGED <<admin, records, overrides, timelock, expiry, now>>

SetTimelockDuration(caller, d) ==
  /\ caller = admin
  /\ d >= MinTimelock
  /\ timelock' = d
  /\ UNCHANGED <<admin, operators, records, overrides, expiry, now>>

SetPendingExpiryDuration(caller, d) ==
  /\ caller = admin
  /\ d >= MinExpiry
  /\ expiry' = d
  /\ UNCHANGED <<admin, operators, records, overrides, timelock, now>>

\* Governance may hand the contract to another admin at any time.
SetAdmin(a) ==
  /\ admin' = a
  /\ UNCHANGED <<operators, records, overrides, timelock, expiry, now>>

-----------------------------------------------------------------------------
(* The review of one record *)

UpdateStatus(op, user, s, r) ==
  /\ MayReview(op, user)
  /\ Reviewable(records[user])
  /\ <<records[user].status, s>> \in CanTransition
  /\ records' = [records EXCEPT ![user] = Reviewed(@, op, s, r)]
  /\ UNCHANGED <<config, overrides, now>>

SubmitKyc(user) ==
  /\ records[user].status = "Unverified"
  /\ records' = [records EXCEPT ![user] =
       [@ EXCEPT !.status = "Pending",
                 !.updatedBy = None,
                 !.reason = None,
                 !.expiresAt = now + expiry]]
  /\ UNCHANGED <<config, overrides, now>>

\* Mutant: a rejected user may answer as well.
ResubmitRejected(user) ==
  /\ records[user].status \in {"AdditionalInfoRequired", "Rejected"}
  /\ records' = [records EXCEPT ![user] =
       [@ EXCEPT !.status = "InReview", !.reason = None]]
  /\ UNCHANGED <<config, overrides, now>>

ResubmitKyc(user) ==
  /\ records[user].status = "AdditionalInfoRequired"
  /\ records' = [records EXCEPT ![user] =
       [@ EXCEPT !.status = "InReview", !.reason = None]]
  /\ UNCHANGED <<config, overrides, now>>

-----------------------------------------------------------------------------
(* Governance overrides *)

ProposeOverride(caller, user, s, r) ==
  /\ caller = admin
  /\ IsFinalized(records[user])
  /\ Len(overrides) < MaxOverrides
  /\ overrides' = Append(overrides,
       [ user |-> user, newStatus |-> s, proposedAt |-> now,
         executableAt |-> now + timelock, reason |-> r, executed |-> FALSE ])
  /\ UNCHANGED <<config, records, now>>

\* Only the override's own flags are consulted: the record it lands on is
\* rewritten in whatever status it has by now, and expires_at is kept.
ExecuteOverride(caller, id) ==
  LET o == overrides[id] IN
  /\ caller = admin
  /\ ~o.executed
  /\ Due(o)
  /\ records' = [records EXCEPT ![o.user] = Overridden(@, o, caller)]
  /\ overrides' = [overrides EXCEPT ![id].executed = TRUE]
  /\ UNCHANGED <<config, now>>

\* Ledgers close: the environment moves the clock forward.
Tick ==
  /\ now < MaxTime
  /\ now' = now + 1
  /\ UNCHANGED <<config, records, overrides>>

-----------------------------------------------------------------------------

Init ==
  /\ admin \in Admins
  /\ operators = {}
  /\ records = [u \in Users |-> NewRecord]
  /\ overrides = <<>>
  /\ timelock = DefaultTimelock
  /\ expiry = DefaultExpiry
  /\ now = 0

Next ==
  \/ \E c, op \in Address : AddOperator(c, op)
  \/ \E c, op \in Address : RemoveOperator(c, op)
  \/ \E c \in Address, d \in Durations : SetTimelockDuration(c, d)
  \/ \E c \in Address, d \in Durations : SetPendingExpiryDuration(c, d)
  \/ \E a \in Admins : SetAdmin(a)
  \/ \E op \in Address, user \in Users, s \in KYCStatus, r \in Option(Reasons) :
        UpdateStatus(op, user, s, r)
  \/ \E user \in Users : SubmitKyc(user)
  \/ \E user \in Users : ResubmitKyc(user)
  \/ \E c \in Address, user \in Users, s \in KYCStatus, r \in Reasons :
        ProposeOverride(c, user, s, r)
  \/ \E c \in Address, id \in DOMAIN overrides : ExecuteOverride(c, id)
  \/ Tick

Spec == Init /\ [][Next]_vars

-----------------------------------------------------------------------------
(* Properties *)

\* Type invariant.
TypeOK ==
  /\ admin \in Admins
  /\ operators \subseteq Address
  /\ records \in [Users -> KYCRecord]
  /\ overrides \in Seq(GovernanceOverride)
  /\ timelock \in Nat
  /\ expiry \in Nat
  /\ now \in Nat

\* finalized_at, which is what freezes a record, is present exactly in the
\* terminal statuses, and a rejection reason only survives on a rejected
\* record: the two fields are written by four handlers (update_status,
\* submit_kyc, resubmit_kyc, execute_override) that must agree.
FinalityConsistent ==
  \A a \in Users :
    /\ IsFinalized(records[a]) <=> records[a].status \in Terminal
    /\ records[a].reason # None => records[a].status = "Rejected"

\* No reconfiguration of the timelock shortens an override in flight: each
\* waits at least MIN_TIMELOCK_DURATION between its proposal and execution.
TimelockHonoured ==
  /\ timelock >= MinTimelock
  /\ \A i \in DOMAIN overrides :
       /\ overrides[i].executableAt >= overrides[i].proposedAt + MinTimelock
       /\ overrides[i].executed => now >= overrides[i].executableAt

\* This step executes override i, for the first and only time.
Executes(i) ==
  /\ i \in DOMAIN overrides
  /\ ~overrides[i].executed
  /\ now >= overrides[i].proposedAt + MinTimelock
  /\ overrides'[i] = [overrides[i] EXCEPT !.executed = TRUE]

\* The outcome of a finalized record moves only by executing an override of
\* that user that was proposed at least a minimum timelock ago
\* (KYCTerminalStateImmutable on every other path).
TerminalImmutable ==
  [][\A a \in Users :
       IsFinalized(records[a]) /\ records'[a] # records[a] =>
         \E i \in DOMAIN overrides : overrides[i].user = a /\ Executes(i)]_vars

\* Every other status change follows the documented transition graph, and
\* reaching an outcome through it takes a reviewer other than the user.
ReviewGraph ==
  [][\A a \in Users :
       records'[a].status # records[a].status =>
         \/ \E i \in DOMAIN overrides : overrides[i].user = a /\ Executes(i)
         \/ /\ <<records[a].status, records'[a].status>> \in CanTransition
            /\ records'[a].status \in Terminal => records'[a].updatedBy # a]_vars

\* An expired request is a dead end for the normal flow: neither the user
\* nor any operator can move the record again (submit_kyc wants Unverified,
\* update_status answers KYCRequestExpired).
ExpiredIsDeadEnd ==
  [][\A a \in Users :
       /\ records[a].status = "Pending" /\ IsExpired(records[a])
       /\ records'[a] # records[a]
       => \E i \in DOMAIN overrides : overrides[i].user = a /\ Executes(i)]_vars

-----------------------------------------------------------------------------
(* What the documentation says and the code does not do (violation runs) *)

\* kyc.rs: an override is a "request for terminal state changes".
OverrideTargetsTerminal ==
  [][\A i \in DOMAIN overrides :
       Executes(i) => IsFinalized(records[overrides[i].user])]_vars

=============================================================================
