---------------------------- MODULE AccessControl ----------------------------
\* Roles (access-control/src/lib.rs): an owner grants and revokes any role but
\* the owner's, which only moves by a transfer; an admin grants and revokes the
\* others. Who granted a role, and when, is only recorded.
EXTENDS Naturals

CONSTANTS
    Accounts,        \* addresses
    NoAccount        \* no owner yet

ASSUME AccessAssumption == NoAccount \notin Accounts

Roles == {"Owner", "Admin", "Trader", "Viewer"}
Elevated == {"Owner", "Admin"}

VARIABLES
    owner,           \* OWNER key, set once INIT is
    roles,           \* ROLES
    abdicated        \* an owner has transferred the ownership to itself

accessVars == <<owner, roles, abdicated>>

Has(u, role) == role \in roles[u]

\* Who may grant or revoke a role.
MayManage(caller, role) ==
    /\ Has(caller, "Owner") \/ Has(caller, "Admin")
    /\ role \in Elevated => Has(caller, "Owner")

AccessInit ==
    /\ owner = NoAccount /\ abdicated = FALSE
    /\ roles = [u \in Accounts |-> {}]

Initialize(u) ==
    /\ owner = NoAccount
    /\ owner' = u /\ roles' = [roles EXCEPT ![u] = {"Owner"}]
    /\ UNCHANGED abdicated

GrantRole(caller, u, role) ==
    /\ MayManage(caller, role)
    /\ roles' = [roles EXCEPT ![u] = @ \cup {role}]
    /\ UNCHANGED <<owner, abdicated>>

\* Variant with a fault: the owner's role can be revoked as any other.
RevokeAnyRole(caller, u, role) ==
    /\ MayManage(caller, role) /\ Has(u, role)
    /\ roles' = [roles EXCEPT ![u] = @ \ {role}]
    /\ UNCHANGED <<owner, abdicated>>

RevokeRole(caller, u, role) ==
    /\ MayManage(caller, role) /\ role # "Owner" /\ Has(u, role)
    /\ roles' = [roles EXCEPT ![u] = @ \ {role}]
    /\ UNCHANGED <<owner, abdicated>>

\* Grant, then revoke, then the owner key: a transfer to the caller itself ends
\* with the role revoked.
TransferOwnership(caller, u) ==
    /\ Has(caller, "Owner")
    /\ LET granted == [roles EXCEPT ![u] = @ \cup {"Owner"}]
       IN  roles' = [granted EXCEPT ![caller] = @ \ {"Owner"}]
    /\ owner' = u
    /\ abdicated' = (abdicated \/ u = caller)

AccessNext ==
    \/ \E u \in Accounts : Initialize(u)
    \/ \E caller, u \in Accounts :
          \/ \E role \in Roles : GrantRole(caller, u, role) \/ RevokeRole(caller, u, role)
          \/ TransferOwnership(caller, u)

AccessSpec == AccessInit /\ [][AccessNext]_accessVars

----------------------------------------------------------------------------
AccessTypeOK ==
    /\ owner \in Accounts \cup {NoAccount}
    /\ roles \in [Accounts -> SUBSET Roles] /\ abdicated \in BOOLEAN

\* The account under the owner key has the owner's role, however many owners were
\* granted and whoever of them transferred, as long as none transfers to itself
\* (access-control/src/lib.rs:171); before initialization nobody has a role.
OwnerCanAct ==
    IF owner = NoAccount THEN \A u \in Accounts : roles[u] = {}
    ELSE abdicated \/ Has(owner, "Owner")

\* Roles keep their types, and the owner can act.
RolesSound == AccessTypeOK /\ OwnerCanAct
=============================================================================
