------------------------- MODULE RoleAdministration -------------------------
(***************************************************************************)
(* RbacService: who holds which role, and which roles hold ROLES_MANAGE,   *)
(* the one permission that lets a user change either.  JwtStrategy and     *)
(* PermissionsGuard read the caller's permissions when the request starts; *)
(* the service then carries out the change without looking at them again.  *)
(***************************************************************************)
EXTENDS Naturals

CONSTANTS
  RoleUsers,      \* users
  FirstAdmin,     \* the user seeded as SUPER_ADMIN
  OtherRoles,     \* the other roles
  RoleRequests    \* concurrent requests, repeated any number of times

ASSUME RoleAssumption == FirstAdmin \in RoleUsers /\ "SUPER_ADMIN" \notin OtherRoles

VARIABLES
  userRoles,     \* userRoles[u]: user_roles
  managing,      \* the roles that hold ROLES_MANAGE: role_permissions
  roleChange,    \* roleChange[r]: the change request r is authorised for, or NoChange
  roleOverlap,   \* history: two authorised requests overlapped
  delegated      \* history: another role has held ROLES_MANAGE

roleVars == <<userRoles, managing, roleChange, roleOverlap, delegated>>

RoleNames == OtherRoles \cup {"SUPER_ADMIN"}
RoleChanges ==
  [op : {"assign", "revoke", "grantPermission", "revokePermission"},
   actor : RoleUsers, user : RoleUsers, role : RoleNames]
NoChange == [op |-> "none"]

RoleTypeOK ==
  /\ userRoles \in [RoleUsers -> SUBSET RoleNames]
  /\ managing \subseteq RoleNames
  /\ roleChange \in [RoleRequests -> RoleChanges \cup {NoChange}]
  /\ roleOverlap \in BOOLEAN
  /\ delegated \in BOOLEAN

\* The seed: ROLES_MANAGE is SUPER_ADMIN's alone.
RoleInit ==
  /\ userRoles = [u \in RoleUsers |-> IF u = FirstAdmin THEN {"SUPER_ADMIN"} ELSE {}]
  /\ managing = {"SUPER_ADMIN"}
  /\ roleChange = [r \in RoleRequests |-> NoChange]
  /\ roleOverlap = FALSE
  /\ delegated = FALSE

MayManage(u) == userRoles[u] \cap managing # {}

\* Mutant: any signed-in user may change roles.
AuthorizeAnyone(r, change) ==
  /\ roleChange[r] = NoChange
  /\ roleChange' = [roleChange EXCEPT ![r] = change]
  /\ roleOverlap' = (roleOverlap \/ \E q \in RoleRequests : roleChange[q] # NoChange)
  /\ UNCHANGED <<userRoles, managing, delegated>>

\* The guards: the caller's roles and permissions as they are now.
Authorize(r, change) ==
  /\ roleChange[r] = NoChange
  /\ MayManage(change.actor)
  /\ roleChange' = [roleChange EXCEPT ![r] = change]
  /\ roleOverlap' = (roleOverlap \/ \E q \in RoleRequests : roleChange[q] # NoChange)
  /\ UNCHANGED <<userRoles, managing, delegated>>

EndChange(r) == roleChange' = [roleChange EXCEPT ![r] = NoChange]

\* One's own SUPER_ADMIN role is out of reach of assignRole and revokeRole.
OwnSuperAdmin(change) == change.role = "SUPER_ADMIN" /\ change.actor = change.user

AssignRole(r) ==
  LET change == roleChange[r] IN
  /\ change.op = "assign"
  /\ ~OwnSuperAdmin(change)
  /\ userRoles' = [userRoles EXCEPT ![change.user] = @ \cup {change.role}]
  /\ EndChange(r)
  /\ UNCHANGED <<managing, roleOverlap, delegated>>

\* Mutant: a super admin may give up the role.
RevokeAnyRole(r) ==
  LET change == roleChange[r] IN
  /\ change.op = "revoke"
  /\ userRoles' = [userRoles EXCEPT ![change.user] = @ \ {change.role}]
  /\ EndChange(r)
  /\ UNCHANGED <<managing, roleOverlap, delegated>>

RevokeRole(r) ==
  LET change == roleChange[r] IN
  /\ change.op = "revoke"
  /\ ~OwnSuperAdmin(change)
  /\ userRoles' = [userRoles EXCEPT ![change.user] = @ \ {change.role}]
  /\ EndChange(r)
  /\ UNCHANGED <<managing, roleOverlap, delegated>>

\* grantPermission with ROLES_MANAGE.
GrantPermission(r) ==
  LET change == roleChange[r] IN
  /\ change.op = "grantPermission"
  /\ managing' = managing \cup {change.role}
  /\ delegated' = (delegated \/ change.role # "SUPER_ADMIN")
  /\ EndChange(r)
  /\ UNCHANGED <<userRoles, roleOverlap>>

RevokePermission(r) ==
  LET change == roleChange[r] IN
  /\ change.op = "revokePermission"
  /\ change.role # "SUPER_ADMIN"
  /\ managing' = managing \ {change.role}
  /\ EndChange(r)
  /\ UNCHANGED <<userRoles, roleOverlap, delegated>>

\* The service refuses the change, or the request dies.
RefuseChange(r) ==
  /\ roleChange[r] # NoChange
  /\ EndChange(r)
  /\ UNCHANGED <<userRoles, managing, roleOverlap, delegated>>

RoleNext ==
  \E r \in RoleRequests :
    \/ \E change \in RoleChanges : Authorize(r, change)
    \/ AssignRole(r) \/ RevokeRole(r)
    \/ GrantPermission(r) \/ RevokePermission(r)
    \/ RefuseChange(r)

RoleSpec == RoleInit /\ [][RoleNext]_roleVars
-----------------------------------------------------------------------------
(* Properties.                                                             *)

\* While only SUPER_ADMIN manages roles and no two requests overlap, there is
\* always a super admin, who can undo any change: the ability to manage roles
\* is never lost ("nothing short of a direct database write can undo it").
SomeoneManagesRoles ==
  ~roleOverlap /\ ~delegated => \E u \in RoleUsers : MayManage(u)

\* "it must always hold every permission", whatever overlaps.
SuperAdminManages == "SUPER_ADMIN" \in managing

\* JwtStrategy: "revoking a role takes effect on the very next request" -
\* unless requests overlap, roles and permissions change only for a request
\* whose caller may still manage them.
ChangesAreAuthorised ==
  [][~roleOverlap' /\ <<userRoles, managing>>' # <<userRoles, managing>>
       => \E r \in RoleRequests :
            roleChange'[r] # roleChange[r] /\ MayManage(roleChange[r].actor)]_roleVars
=============================================================================
