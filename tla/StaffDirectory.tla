---------------------------- MODULE StaffDirectory ----------------------------
(*************************************************************************)
(* The staff of one merchant, or of the platform, their roles and what   *)
(* the roles grant: StaffManagementService, AccessManagementService and  *)
(* the guard that lets their requests through.                           *)
(*                                                                       *)
(* The transactions that may take an owner away are several steps: each  *)
(* statement sees what others have committed by then (READ COMMITTED),   *)
(* and only the locks it takes keep them out.  The other transactions    *)
(* are one step that waits for those locks.  What they do to sessions is *)
(* in StaffSessions; names, addresses and audit rows are left out, and   *)
(* so are staff members that are locked, which nothing in the code makes *)
(* them.                                                                 *)
(*************************************************************************)
EXTENDS Integers, FiniteSets

CONSTANTS
  StaffRows,        (* Staff members there may be.                        *)
  Founder,          (* The owner that the merchant is created with.       *)
  CustomRoles,      (* Roles that staff define.                           *)
  OwnerRole,        (* tenant_owner, or platform_super_admin.             *)
  AdminRequests,    (* Requests that change staff, in progress at a time. *)
  MaxStaffVersion,  (* Bound on the versions of rows.                     *)
  NoAdminRequest

ASSUME FounderAssumption == Founder \in StaffRows
ASSUME StaffAssumption == IsFiniteSet(StaffRows)
ASSUME OwnerRoleAssumption == OwnerRole \notin CustomRoles

VARIABLES
  staffRow,      (* tenant_staff: status and version, "none" before the insert. *)
  roleRow,       (* roles: status and version; the owner's is_system.           *)
  grants,        (* role_permissions: the roles that may manage staff.          *)
  assigned,      (* subject_roles: pairs of staff member and role.              *)
  adminRequest   (* Where each request is, and what it was sent.                *)

directoryVars == <<staffRow, roleRow, grants, assigned, adminRequest>>

Roles == CustomRoles \cup {OwnerRole}

DirectoryTypeOK ==
  /\ staffRow \in [StaffRows -> [status: {"none", "active", "disabled"}, version: Nat]]
  /\ roleRow \in [Roles -> [status: {"none", "active", "disabled"}, version: Nat]]
  /\ grants \subseteq Roles
  /\ assigned \subseteq StaffRows \X Roles
  /\ adminRequest \in [AdminRequests -> {NoAdminRequest} \cup
       [step: {"authorized", "locked", "checked"}, kind: {"role", "status", "remove"},
        target: StaffRows, role: Roles, status: {"active", "disabled"}, version: Nat]]

\* MerchantService.create inserts the owner, its role, and their assignment.
DirectoryInit ==
  /\ staffRow = [s \in StaffRows |->
       [status |-> IF s = Founder THEN "active" ELSE "none", version |-> 0]]
  /\ roleRow = [r \in Roles |->
       [status |-> IF r = OwnerRole THEN "active" ELSE "none", version |-> 0]]
  /\ grants = {OwnerRole}
  /\ assigned = {<<Founder, OwnerRole>>}
  /\ adminRequest = [q \in AdminRequests |-> NoAdminRequest]

-----------------------------------------------------------------------------
(* The guard and the locks.                                              *)

Exists(s)    == staffRow[s].status # "none"
IsActive(s)  == staffRow[s].status = "active"
RolesOf(s)   == {r \in Roles : <<s, r>> \in assigned}

\* loadPrincipal: the permissions of the active roles of an active staff member.
MayManage(s) == IsActive(s) /\ \E r \in RolesOf(s) \cap grants : roleRow[r].status = "active"

Working(q) == adminRequest[q] # NoAdminRequest /\ adminRequest[q].step # "authorized"

\* Mutant: the protected role is read without a lock.
LocksStaffOnly(x) == IF x.kind = "remove" /\ x.role # OwnerRole THEN {} ELSE {x.target}

\* The rows a request locks: the owner's role (lockProtectedRole, and
\* assertProtectedRoleRemovalAllowed if it is that role which is removed), the
\* staff member, and the role that is given.
LocksOf(x) ==
  CASE x.kind = "role"   -> {OwnerRole, x.target, x.role}
    [] x.kind = "status" -> {OwnerRole, x.target}
    [] x.kind = "remove" -> IF x.role = OwnerRole THEN {OwnerRole, x.target} ELSE {}

Held == UNION {LocksOf(adminRequest[q]) : q \in {p \in AdminRequests : Working(p)}}

-----------------------------------------------------------------------------
(* updateProfile with a role, updateStatus, and removeStaffRole.         *)

\* The guard has let the request through, whose page showed the target's
\* present version; nobody changes their own role or status.
Authorize(q, kind, actor, target, role, status) ==
  /\ adminRequest[q] = NoAdminRequest
  /\ MayManage(actor) /\ actor # target
  /\ Exists(target)
  /\ adminRequest' = [adminRequest EXCEPT ![q] =
       [step |-> "authorized", kind |-> kind, target |-> target, role |-> role,
        status |-> status, version |-> staffRow[target].version]]
  /\ UNCHANGED <<staffRow, roleRow, grants, assigned>>

\* The transaction begins and has its locks; the version still has to be that
\* of the page, and a role that is given active.
LockRows(q) ==
  LET x == adminRequest[q] IN
  /\ x # NoAdminRequest
  /\ x.step = "authorized"
  /\ LocksOf(x) \cap Held = {}
  /\ adminRequest' = [adminRequest EXCEPT ![q] =
       IF /\ x.kind # "remove" => staffRow[x.target].version = x.version
          /\ x.kind = "role" => roleRow[x.role].status = "active"
       THEN [x EXCEPT !.step = "locked"] ELSE NoAdminRequest]
  /\ UNCHANGED <<staffRow, roleRow, grants, assigned>>

ActiveOwners == {s \in StaffRows : IsActive(s) /\ OwnerRole \in RolesOf(s)}

\* Whether the request may take the owner's role from somebody who acts by it:
\* the removal of it does not ask whether the staff member had it.
EndsOwnership(x) ==
  /\ IsActive(x.target)
  /\ CASE x.kind = "role"   -> x.target \in ActiveOwners /\ x.role # OwnerRole
       [] x.kind = "status" -> x.target \in ActiveOwners /\ x.status # "active"
       [] x.kind = "remove" -> x.role = OwnerRole

\* assertProtectedAssignmentPreserved: the last active owner must be retained.
CheckOwners(q) ==
  LET x == adminRequest[q] IN
  /\ x # NoAdminRequest
  /\ x.step = "locked"
  /\ adminRequest' = [adminRequest EXCEPT ![q] =
       IF EndsOwnership(x) /\ Cardinality(ActiveOwners) <= 1
       THEN NoAdminRequest ELSE [x EXCEPT !.step = "checked"]]
  /\ UNCHANGED <<staffRow, roleRow, grants, assigned>>

\* replaceAssignments: the role that is given is the only one.
CommitChange(q) ==
  LET x == adminRequest[q]
      s == x.target
  IN
  /\ x # NoAdminRequest
  /\ x.step = "checked"
  /\ x.kind # "remove" => staffRow[s].version < MaxStaffVersion
  /\ staffRow' = IF x.kind = "remove" THEN staffRow
       ELSE [staffRow EXCEPT ![s].version = @ + 1,
                             ![s].status = IF x.kind = "status" THEN x.status ELSE @]
  /\ assigned' = CASE x.kind = "role"   -> {a \in assigned : a[1] # s} \cup {<<s, x.role>>}
                   [] x.kind = "status" -> assigned
                   [] x.kind = "remove" -> assigned \ {<<s, x.role>>}
  /\ adminRequest' = [adminRequest EXCEPT ![q] = NoAdminRequest]
  /\ UNCHANGED <<roleRow, grants>>

\* The process stops, or a lock is waited for too long.
AbortChange(q) ==
  /\ adminRequest[q] # NoAdminRequest
  /\ adminRequest' = [adminRequest EXCEPT ![q] = NoAdminRequest]
  /\ UNCHANGED <<staffRow, roleRow, grants, assigned>>

-----------------------------------------------------------------------------
(* The other changes.                                                    *)

CreateStaff(actor, s, role) ==
  /\ MayManage(actor)
  /\ ~Exists(s)
  /\ roleRow[role].status = "active" /\ role \notin Held
  /\ staffRow' = [staffRow EXCEPT ![s].status = "active"]
  /\ assigned' = assigned \cup {<<s, role>>}
  /\ UNCHANGED <<roleRow, grants, adminRequest>>

\* updateProfile without a role, and resetPassword.
EditStaff(actor, s) ==
  /\ MayManage(actor)
  /\ Exists(s) /\ s \notin Held
  /\ staffRow[s].version < MaxStaffVersion
  /\ staffRow' = [staffRow EXCEPT ![s].version = @ + 1]
  /\ UNCHANGED <<roleRow, grants, assigned, adminRequest>>

\* The foreign key waits for whoever has the role locked.
AssignStaffRole(actor, s, role) ==
  /\ MayManage(actor)
  /\ Exists(s)
  /\ roleRow[role].status = "active" /\ role \notin Held
  /\ assigned' = assigned \cup {<<s, role>>}
  /\ UNCHANGED <<staffRow, roleRow, grants, adminRequest>>

CreateRole(actor, role, granted) ==
  /\ MayManage(actor)
  /\ roleRow[role].status = "none"
  /\ roleRow' = [roleRow EXCEPT ![role].status = "active"]
  /\ grants' = IF granted THEN grants \cup {role} ELSE grants
  /\ UNCHANGED <<staffRow, assigned, adminRequest>>

\* assertMutableRole: a system role cannot be modified.
Mutable(role) ==
  /\ role # OwnerRole /\ roleRow[role].status # "none" /\ role \notin Held
  /\ roleRow[role].version < MaxStaffVersion

UpdateRole(actor, role, status) ==
  /\ MayManage(actor) /\ Mutable(role)
  /\ roleRow' = [roleRow EXCEPT ![role].status = status, ![role].version = @ + 1]
  /\ UNCHANGED <<staffRow, grants, assigned, adminRequest>>

ReplaceRolePermissions(actor, role, granted) ==
  /\ MayManage(actor) /\ Mutable(role)
  /\ roleRow' = [roleRow EXCEPT ![role].version = @ + 1]
  /\ grants' = IF granted THEN grants \cup {role} ELSE grants \ {role}
  /\ UNCHANGED <<staffRow, assigned, adminRequest>>

-----------------------------------------------------------------------------
DirectoryNext ==
  \/ \E q \in AdminRequests :
       \/ LockRows(q) \/ CheckOwners(q) \/ CommitChange(q) \/ AbortChange(q)
       \/ \E actor, s \in StaffRows :
            \/ \E r \in Roles : \/ Authorize(q, "role", actor, s, r, "active")
                                \/ Authorize(q, "remove", actor, s, r, "active")
            \/ \E to \in {"active", "disabled"} :
                 Authorize(q, "status", actor, s, OwnerRole, to)
  \/ \E actor, s \in StaffRows :
       \/ EditStaff(actor, s)
       \/ \E r \in Roles : CreateStaff(actor, s, r) \/ AssignStaffRole(actor, s, r)
  \/ \E actor \in StaffRows, r \in CustomRoles :
       \/ \E granted \in BOOLEAN :
            CreateRole(actor, r, granted) \/ ReplaceRolePermissions(actor, r, granted)
       \/ \E to \in {"active", "disabled"} : UpdateRole(actor, r, to)

DirectorySpec == DirectoryInit /\ [][DirectoryNext]_directoryVars

-----------------------------------------------------------------------------
(* Properties.                                                           *)

\* The merchant, or the platform, is never left without somebody who can manage
\* it: whatever two owners do to each other at the same time, an owner stays
\* active, and the role still grants what it is for.
AnOwnerRemains == ActiveOwners # {} /\ \A s \in ActiveOwners : MayManage(s)
=============================================================================
