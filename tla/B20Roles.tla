------------------------------ MODULE B20Roles ------------------------------
(***************************************************************************)
(* Access control of a B20 token (src/test/lib/mocks/MockB20): who holds   *)
(* which role, which role administers which, the count of default admins   *)
(* and the bootstrap window in which the factory is privileged.            *)
(*                                                                         *)
(* The factory creates a token in one transaction: it grants the first     *)
(* admin, runs the caller's initCalls as msg.sender and then closes the    *)
(* window.  Each of these calls is a step here; nobody else can call until *)
(* the window is closed, and the factory never calls afterwards.           *)
(***************************************************************************)
EXTENDS Integers, FiniteSets

CONSTANTS
  Accounts,            \* the addresses that call the token
  Factory,             \* the factory's address
  Roles,               \* the role names in use
  DEFAULT_ADMIN_ROLE   \* bytes32(0), also what an unset role admin reads as

Addresses == Accounts \union {Factory}

ASSUME RolesAssumption ==
  /\ Factory \notin Accounts
  /\ DEFAULT_ADMIN_ROLE \in Roles
  /\ IsFiniteSet(Accounts)

VARIABLES
  roles,        \* role -> the addresses that hold it
  roleAdmins,   \* role -> the role that administers it
  adminCount,   \* the stored number of default admins
  initialized,  \* TRUE once the bootstrap window is closed
  caller        \* msg.sender of the latest call, read by the properties only

roleVars == <<roles, roleAdmins, adminCount, initialized>>

RolesTypeOK ==
  /\ roles \in [Roles -> SUBSET Addresses]
  /\ roleAdmins \in [Roles -> Roles]
  /\ adminCount \in Nat
  /\ initialized \in BOOLEAN
  /\ caller \in Addresses

(* The storage of a token the factory has just planted. *)
RolesInit ==
  /\ roles = [r \in Roles |-> {}]
  /\ roleAdmins = [r \in Roles |-> DEFAULT_ADMIN_ROLE]
  /\ adminCount = 0
  /\ initialized = FALSE
  /\ caller = Factory

Callers == IF initialized THEN Accounts ELSE {Factory}

-----------------------------------------------------------------------------
(* Guards.                                                                 *)

IsPrivileged(sender) == sender = Factory /\ ~initialized

HasRole(role, account) == account \in roles[role]

RequireRole(sender, role) == IsPrivileged(sender) \/ HasRole(role, sender)

\* Mutants of RequireRoleAdmin: an adminless token is not frozen; a default
\* admin administers every role.
RequireRoleAdmin_noFreeze(sender, role) ==
  IsPrivileged(sender) \/ HasRole(roleAdmins[role], sender)
RequireRoleAdmin_superAdmin(sender, role) ==
  \/ IsPrivileged(sender)
  \/ HasRole(roleAdmins[role], sender)
  \/ HasRole(DEFAULT_ADMIN_ROLE, sender)

(* Without a default admin no role changes hands any more, even through a  *)
(* chain of custom role admins.                                            *)
RequireRoleAdmin(sender, role) ==
  \/ IsPrivileged(sender)
  \/ adminCount # 0 /\ HasRole(roleAdmins[role], sender)

\* Mutant of IsSoleAdmin: the last-admin guard is off by one.
IsSoleAdmin_offByOne(role, account) ==
  role = DEFAULT_ADMIN_ROLE /\ HasRole(role, account) /\ adminCount = 0

IsSoleAdmin(role, account) ==
  role = DEFAULT_ADMIN_ROLE /\ HasRole(role, account) /\ adminCount = 1

-----------------------------------------------------------------------------
(* Operations.                                                             *)

\* Mutant of GrantRole: granting again counts again.
GrantRole_countsTwice(sender, role, account) ==
  /\ RequireRoleAdmin(sender, role)
  /\ roles' = [roles EXCEPT ![role] = @ \union {account}]
  /\ adminCount' = IF role = DEFAULT_ADMIN_ROLE THEN adminCount + 1 ELSE adminCount
  /\ UNCHANGED <<roleAdmins, initialized>>

GrantRole(sender, role, account) ==
  /\ RequireRoleAdmin(sender, role)
  /\ roles' = [roles EXCEPT ![role] = @ \union {account}]
  /\ adminCount' = IF role = DEFAULT_ADMIN_ROLE /\ ~HasRole(role, account)
                   THEN adminCount + 1 ELSE adminCount
  /\ UNCHANGED <<roleAdmins, initialized>>


(* _revokeRole: a no-op for an account that does not hold the role. *)
RemoveRole(role, account) ==
  /\ roles' = [roles EXCEPT ![role] = @ \ {account}]
  /\ adminCount' = IF role = DEFAULT_ADMIN_ROLE /\ HasRole(role, account)
                   THEN adminCount - 1 ELSE adminCount
  /\ UNCHANGED <<roleAdmins, initialized>>

RevokeRole(sender, role, account) ==
  /\ RequireRoleAdmin(sender, role)
  /\ ~IsSoleAdmin(role, account)
  /\ RemoveRole(role, account)

RenounceRole(sender, role) ==
  /\ ~IsSoleAdmin(role, sender)
  /\ RemoveRole(role, sender)

RenounceLastAdmin(sender) ==
  /\ IsSoleAdmin(DEFAULT_ADMIN_ROLE, sender)
  /\ roles' = [roles EXCEPT ![DEFAULT_ADMIN_ROLE] = @ \ {sender}]
  /\ adminCount' = 0
  /\ UNCHANGED <<roleAdmins, initialized>>

SetRoleAdmin(sender, role, newAdminRole) ==
  /\ RequireRoleAdmin(sender, role)
  /\ roleAdmins' = [roleAdmins EXCEPT ![role] = newAdminRole]
  /\ UNCHANGED <<roles, adminCount, initialized>>

(* The last write of createB20. *)
CloseBootstrap(sender) ==
  /\ sender = Factory
  /\ ~initialized
  /\ initialized' = TRUE
  /\ UNCHANGED <<roles, roleAdmins, adminCount>>

RoleStep(sender) ==
  \/ \E role \in Roles, account \in Addresses :
       GrantRole(sender, role, account) \/ RevokeRole(sender, role, account)
  \/ \E role \in Roles : RenounceRole(sender, role)
  \/ RenounceLastAdmin(sender)
  \/ \E role, newAdminRole \in Roles : SetRoleAdmin(sender, role, newAdminRole)
  \/ CloseBootstrap(sender)

RolesNext == \E sender \in Callers : RoleStep(sender) /\ caller' = sender

RolesSpec == RolesInit /\ [][RolesNext]_<<roleVars, caller>>

-----------------------------------------------------------------------------
(* Properties.                                                             *)

(***************************************************************************)
(* The stored admin count is the number of accounts that hold              *)
(* DEFAULT_ADMIN_ROLE after any sequence of grants, repeated grants,       *)
(* revocations and renunciations; every last-admin guard reads the count.  *)
(***************************************************************************)
AdminCountExact == adminCount = Cardinality(roles[DEFAULT_ADMIN_ROLE])

(***************************************************************************)
(* Once the token is created, only its sole admin can leave it without an  *)
(* admin, and only for itself: neither another admin nor a custom admin of *)
(* DEFAULT_ADMIN_ROLE can take the last one away.                          *)
(***************************************************************************)
LastAdminLeavesByItself ==
  [][(adminCount > 0 /\ adminCount' = 0) =>
       /\ roles[DEFAULT_ADMIN_ROLE] = {caller'}
       /\ roles'[DEFAULT_ADMIN_ROLE] = {}]_<<roleVars, caller>>

(***************************************************************************)
(* A created token without an admin stays so for ever: no account gains a  *)
(* role, no role changes its admin; roles can only be renounced.           *)
(***************************************************************************)
AdminlessIsForever ==
  [][(initialized /\ adminCount = 0) =>
       /\ adminCount' = 0
       /\ roleAdmins' = roleAdmins
       /\ \A r \in Roles : /\ roles'[r] \subseteq roles[r]
                           /\ roles[r] \ roles'[r] \subseteq {caller'}
    ]_<<roleVars, caller>>

(***************************************************************************)
(* Retiring a capability: a set of roles that nobody holds and that only   *)
(* its own members administer can never be held again, whatever the        *)
(* default admins do.  With one role this is the documented way to close   *)
(* minting: revoke every holder, then make the role its own admin.         *)
(***************************************************************************)
Retired(R) == \A r \in R : roles[r] = {} /\ roleAdmins[r] \in R

RetiredRolesStayRetired ==
  [][\A R \in SUBSET {r \in Roles : roles[r] = {}} :
       (initialized /\ Retired(R)) => Retired(R)']_<<roleVars, caller>>
=============================================================================
