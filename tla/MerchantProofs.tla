--------------------------- MODULE MerchantProofs ---------------------------
(*************************************************************************)
(* Proofs about a merchant's own administration: StaffDirectory,         *)
(* VerificationCodes and MerchantSites.                                  *)
(*************************************************************************)
EXTENDS StaffDirectory, VerificationCodes, MerchantSites, FiniteSetTheorems, TLAPS

-----------------------------------------------------------------------------
(* Staff and roles: an owner remains.                                    *)

\* Its role is active, and lets an owner manage the merchant.
OwnerRoleStands == roleRow[OwnerRole].status = "active" /\ OwnerRole \in grants

\* What one request has locked, no other has.
RequestsExclude ==
  \A p, q \in AdminRequests :
    Working(p) /\ Working(q) /\ p # q =>
      LocksOf(adminRequest[p]) \cap LocksOf(adminRequest[q]) = {}

\* A request is for staff there are, and one that was checked leaves another owner
\* where it takes one away.
RequestStands(q) ==
  adminRequest[q] # NoAdminRequest =>
    LET x == adminRequest[q] IN
    /\ Exists(x.target)
    /\ x.step = "checked" /\ EndsOwnership(x) => \E s \in ActiveOwners : s # x.target

RequestsStand == \A q \in AdminRequests : RequestStands(q)

OwnerInv ==
  /\ DirectoryTypeOK /\ OwnerRoleStands /\ ActiveOwners # {}
  /\ RequestsExclude /\ RequestsStand

LEMMA AnotherOfTwo ==
  ASSUME NEW S, IsFiniteSet(S), ~(Cardinality(S) <= 1), NEW t
  PROVE  \E s \in S : s # t
<1> SUFFICES ASSUME S \subseteq {t} PROVE FALSE
  OBVIOUS
<1>1. IsFiniteSet({t}) /\ Cardinality({t}) = 1
  BY FS_Singleton
<1>2. Cardinality(S) \in Nat /\ Cardinality(S) <= 1
  BY <1>1, FS_Subset, FS_CardinalityType
<1> QED BY <1>2

LEMMA OwnersAreFinite == IsFiniteSet(ActiveOwners)
  BY StaffAssumption, FS_Subset DEF ActiveOwners

\* A request that could take away an owner holds the owner's role.
LEMMA OwnersAreLocked ==
  ASSUME DirectoryTypeOK, NEW q \in AdminRequests, adminRequest[q] # NoAdminRequest
  PROVE  adminRequest[q].kind # "remove" \/ adminRequest[q].role = OwnerRole
           <=> OwnerRole \in LocksOf(adminRequest[q])
  BY DEF DirectoryTypeOK, LocksOf

LEMMA OwnerInitially == DirectoryInit => OwnerInv
<1> SUFFICES ASSUME DirectoryInit PROVE OwnerInv
  OBVIOUS
<1> USE FounderAssumption, OwnerRoleAssumption DEF DirectoryInit
<1>1. DirectoryTypeOK
  BY DEF DirectoryTypeOK, Roles
<1>2. OwnerRoleStands
  BY DEF OwnerRoleStands, Roles
<1>3. Founder \in ActiveOwners
  BY DEF ActiveOwners, IsActive, RolesOf, Roles
<1>4. RequestsExclude /\ RequestsStand
  BY DEF RequestsExclude, RequestsStand, RequestStands, Working
<1> QED BY <1>1, <1>2, <1>3, <1>4 DEF OwnerInv

\* The other changes make owners but unmake none, and make none while the owner's
\* role is held.
LEMMA OthersKeepOwners ==
  ASSUME OwnerInv, UNCHANGED adminRequest, DirectoryTypeOK', OwnerRoleStands',
         \A s \in StaffRows : IsActive(s) => IsActive(s)',
         \A s \in StaffRows : Exists(s) => Exists(s)' /\ (IsActive(s)' => IsActive(s)),
         assigned \subseteq assigned',
         OwnerRole \in Held =>
           \A s \in StaffRows : <<s, OwnerRole>> \in assigned' => <<s, OwnerRole>> \in assigned
  PROVE  OwnerInv'
<1> USE DEF OwnerInv
<1>1. ActiveOwners \subseteq ActiveOwners'
  BY DEF ActiveOwners, RolesOf
<1>2. RequestsExclude'
  BY ZenonT(60) DEF RequestsExclude, Working, LocksOf
<1>3. ASSUME NEW q \in AdminRequests, adminRequest[q] # NoAdminRequest
      PROVE  RequestStands(q)'
  <2> DEFINE x == adminRequest[q]
  <2>1. x.target \in StaffRows /\ x.role \in Roles /\ x.kind \in {"role", "status", "remove"}
    BY <1>3 DEF DirectoryTypeOK
  <2>2. Exists(x.target)'
    BY <1>3, <2>1 DEF RequestsStand, RequestStands
  <2>3. ASSUME x.step = "checked", EndsOwnership(x)' PROVE EndsOwnership(x)
    <3>1. IsActive(x.target)
      BY <1>3, <2>1, <2>3 DEF RequestsStand, RequestStands, EndsOwnership
    <3>2. CASE x.kind = "remove"
      BY <2>3, <3>1, <3>2 DEF EndsOwnership
    <3>3. CASE x.kind # "remove"
      <4>1. OwnerRole \in Held
        BY <1>3, <2>3, <3>3, OwnersAreLocked DEF Held, Working
      <4> QED BY <2>1, <2>3, <3>1, <3>3, <4>1 DEF EndsOwnership, ActiveOwners, RolesOf
    <3> QED BY <3>2, <3>3
  <2> QED BY <1>1, <1>3, <2>2, <2>3 DEF RequestsStand, RequestStands
<1> QED BY <1>1, <1>2, <1>3 DEF RequestsStand, RequestStands

LEMMA OtherChangesStep ==
  ASSUME OwnerInv,
         \/ \E actor, s \in StaffRows :
              \/ EditStaff(actor, s)
              \/ \E r \in Roles : CreateStaff(actor, s, r) \/ AssignStaffRole(actor, s, r)
         \/ \E actor \in StaffRows, r \in CustomRoles :
              \/ \E granted \in BOOLEAN :
                   CreateRole(actor, r, granted) \/ ReplaceRolePermissions(actor, r, granted)
              \/ \E to \in {"active", "disabled"} : UpdateRole(actor, r, to)
  PROVE  OwnerInv'
<1> USE OwnerRoleAssumption DEF OwnerInv
<1>1. ASSUME NEW actor \in StaffRows, NEW s \in StaffRows, EditStaff(actor, s) PROVE OwnerInv'
  <2>1. DirectoryTypeOK' /\ OwnerRoleStands'
    BY <1>1 DEF EditStaff, DirectoryTypeOK, OwnerRoleStands
  <2>2. \A t \in StaffRows : staffRow'[t].status = staffRow[t].status
    BY <1>1 DEF EditStaff, DirectoryTypeOK
  <2> QED BY <1>1, <2>1, <2>2, OthersKeepOwners DEF EditStaff, IsActive, Exists
<1>2. ASSUME NEW actor \in StaffRows, NEW s \in StaffRows, NEW r \in Roles,
             CreateStaff(actor, s, r)
      PROVE  OwnerInv'
  <2>1. DirectoryTypeOK' /\ OwnerRoleStands'
    BY <1>2 DEF CreateStaff, DirectoryTypeOK, OwnerRoleStands
  <2>2. /\ \A t \in StaffRows \ {s} : staffRow'[t] = staffRow[t]
        /\ ~Exists(s) /\ ~IsActive(s)
    BY <1>2 DEF CreateStaff, DirectoryTypeOK, Exists, IsActive
  <2> QED BY <1>2, <2>1, <2>2, OthersKeepOwners DEF CreateStaff, IsActive, Exists
<1>3. ASSUME NEW actor \in StaffRows, NEW s \in StaffRows, NEW r \in Roles,
             AssignStaffRole(actor, s, r)
      PROVE  OwnerInv'
  <2>1. DirectoryTypeOK' /\ OwnerRoleStands'
    BY <1>3 DEF AssignStaffRole, DirectoryTypeOK, OwnerRoleStands
  <2> QED BY <1>3, <2>1, OthersKeepOwners DEF AssignStaffRole, IsActive, Exists
<1>4. ASSUME NEW actor \in StaffRows, NEW r \in CustomRoles, NEW granted \in BOOLEAN,
             CreateRole(actor, r, granted) \/ ReplaceRolePermissions(actor, r, granted)
      PROVE  OwnerInv'
  <2>1. DirectoryTypeOK' /\ OwnerRoleStands'
    BY <1>4 DEF CreateRole, ReplaceRolePermissions, DirectoryTypeOK, OwnerRoleStands, Roles
  <2>2. UNCHANGED <<staffRow, assigned, adminRequest>>
    BY <1>4 DEF CreateRole, ReplaceRolePermissions
  <2> QED BY <2>1, <2>2, OthersKeepOwners DEF IsActive, Exists
<1>5. ASSUME NEW actor \in StaffRows, NEW r \in CustomRoles, NEW to \in {"active", "disabled"},
             UpdateRole(actor, r, to)
      PROVE  OwnerInv'
  <2>1. DirectoryTypeOK' /\ OwnerRoleStands'
    BY <1>5 DEF UpdateRole, DirectoryTypeOK, OwnerRoleStands, Roles
  <2> QED BY <1>5, <2>1, OthersKeepOwners DEF UpdateRole, IsActive, Exists
<1> QED BY <1>1, <1>2, <1>3, <1>4, <1>5

\* A request's own steps but the last one change no row.
LEMMA RequestStep ==
  ASSUME OwnerInv, NEW q \in AdminRequests,
         UNCHANGED <<staffRow, roleRow, grants, assigned>>,
         DirectoryTypeOK',
         \A p \in AdminRequests \ {q} : adminRequest'[p] = adminRequest[p],
         RequestStands(q)',
         Working(q)' => \/ LocksOf(adminRequest'[q]) \cap Held = {}
                        \/ Working(q) /\ LocksOf(adminRequest'[q]) = LocksOf(adminRequest[q])
  PROVE  OwnerInv'
<1> USE DEF OwnerInv
<1>1. OwnerRoleStands' /\ ActiveOwners' = ActiveOwners /\ ActiveOwners # {}
  BY DEF OwnerRoleStands, ActiveOwners, IsActive, RolesOf
<1>2. ASSUME NEW p \in AdminRequests, p # q
      PROVE  RequestStands(p)'
  BY <1>1, <1>2 DEF RequestsStand, RequestStands, EndsOwnership, Exists, IsActive
<1>3. \A p \in AdminRequests : Working(p) => LocksOf(adminRequest[p]) \subseteq Held
  BY DEF Held
<1>4. ASSUME NEW p \in AdminRequests, p # q, Working(p)', Working(q)'
      PROVE  LocksOf(adminRequest'[p]) \cap LocksOf(adminRequest'[q]) = {}
  <2>1. Working(p) /\ adminRequest'[p] = adminRequest[p]
    BY <1>4 DEF Working
  <2> QED BY <1>3, <1>4, <2>1 DEF RequestsExclude
<1>5. RequestsExclude'
  <2>1. ASSUME NEW p \in AdminRequests, NEW r \in AdminRequests, p # q, r # q, p # r,
               Working(p)', Working(r)'
        PROVE  LocksOf(adminRequest'[p]) \cap LocksOf(adminRequest'[r]) = {}
    BY <2>1 DEF RequestsExclude, Working
  <2> QED BY ZenonT(60), <1>4, <2>1 DEF RequestsExclude, LocksOf
<1> QED BY <1>1, <1>2, <1>5 DEF RequestsStand

LEMMA RequestsStep ==
  ASSUME OwnerInv, NEW q \in AdminRequests,
         \/ LockRows(q) \/ CheckOwners(q) \/ AbortChange(q)
         \/ \E actor, s \in StaffRows :
              \/ \E r \in Roles : \/ Authorize(q, "role", actor, s, r, "active")
                                  \/ Authorize(q, "remove", actor, s, r, "active")
              \/ \E to \in {"active", "disabled"} :
                   Authorize(q, "status", actor, s, OwnerRole, to)
  PROVE  OwnerInv'
<1> USE DEF OwnerInv
<1>1. ASSUME NEW actor \in StaffRows, NEW s \in StaffRows, NEW r \in Roles,
             NEW k \in {"role", "status", "remove"}, NEW to \in {"active", "disabled"},
             Authorize(q, k, actor, s, r, to)
      PROVE  OwnerInv'
  <2>1. DirectoryTypeOK'
    BY <1>1 DEF Authorize, DirectoryTypeOK
  <2>2. /\ adminRequest'[q].step = "authorized" /\ adminRequest'[q].target = s
        /\ \A p \in AdminRequests \ {q} : adminRequest'[p] = adminRequest[p]
        /\ UNCHANGED <<staffRow, roleRow, grants, assigned>> /\ Exists(s)
    BY <1>1 DEF Authorize, DirectoryTypeOK
  <2>3. RequestStands(q)' /\ ~Working(q)'
    BY <2>2 DEF RequestStands, Working, Exists
  <2> QED BY <2>1, <2>2, <2>3, RequestStep
<1>2. CASE LockRows(q)
  <2> DEFINE x == adminRequest[q]
  <2>1. /\ x # NoAdminRequest /\ x.step = "authorized" /\ LocksOf(x) \cap Held = {}
        /\ adminRequest'[q] = [x EXCEPT !.step = "locked"] \/ adminRequest'[q] = NoAdminRequest
        /\ \A p \in AdminRequests \ {q} : adminRequest'[p] = adminRequest[p]
        /\ UNCHANGED <<staffRow, roleRow, grants, assigned>>
    BY <1>2 DEF LockRows, DirectoryTypeOK
  <2>2. DirectoryTypeOK'
    BY <1>2 DEF LockRows, DirectoryTypeOK
  <2>3. adminRequest'[q] # NoAdminRequest =>
          /\ adminRequest'[q].step = "locked" /\ adminRequest'[q].target = x.target
          /\ adminRequest'[q].kind = x.kind /\ adminRequest'[q].role = x.role
    BY <2>1 DEF DirectoryTypeOK
  <2>4. RequestStands(q)'
    BY <2>1, <2>3 DEF RequestsStand, RequestStands, Exists
  <2>5. Working(q)' => LocksOf(adminRequest'[q]) \cap Held = {}
    BY <2>1, <2>3 DEF Working, LocksOf
  <2> QED BY <2>1, <2>2, <2>4, <2>5, RequestStep
<1>3. CASE CheckOwners(q)
  <2> DEFINE x == adminRequest[q]
  <2>1. /\ x # NoAdminRequest /\ x.step = "locked"
        /\ \/ adminRequest'[q] = NoAdminRequest
           \/ /\ adminRequest'[q] = [x EXCEPT !.step = "checked"]
              /\ EndsOwnership(x) => ~(Cardinality(ActiveOwners) <= 1)
        /\ \A p \in AdminRequests \ {q} : adminRequest'[p] = adminRequest[p]
        /\ UNCHANGED <<staffRow, roleRow, grants, assigned>>
    BY <1>3 DEF CheckOwners, DirectoryTypeOK
  <2>2. DirectoryTypeOK'
    BY <1>3 DEF CheckOwners, DirectoryTypeOK
  <2>3. adminRequest'[q] # NoAdminRequest =>
          /\ adminRequest'[q].target = x.target /\ adminRequest'[q].status = x.status
          /\ adminRequest'[q].kind = x.kind /\ adminRequest'[q].role = x.role
    BY <2>1 DEF DirectoryTypeOK
  <2>4. EndsOwnership(x) /\ adminRequest'[q] # NoAdminRequest
          => \E s \in ActiveOwners : s # x.target
    BY <2>1, OwnersAreFinite, AnotherOfTwo
  <2>5. RequestStands(q)'
    BY <2>1, <2>3, <2>4
    DEF RequestsStand, RequestStands, Exists, EndsOwnership, ActiveOwners, IsActive, RolesOf
  <2>6. Working(q)' => Working(q) /\ LocksOf(adminRequest'[q]) = LocksOf(x)
    BY <2>1, <2>3 DEF Working, LocksOf
  <2> QED BY <2>1, <2>2, <2>5, <2>6, RequestStep
<1>4. CASE AbortChange(q)
  <2>1. DirectoryTypeOK' /\ RequestStands(q)' /\ ~Working(q)'
    BY <1>4 DEF AbortChange, DirectoryTypeOK, RequestStands, Working
  <2> QED BY <1>4, <2>1, RequestStep DEF AbortChange, DirectoryTypeOK
<1> QED BY <1>1, <1>2, <1>3, <1>4 DEF Roles

\* Who takes an owner away does so alone, and left another one.
LEMMA CommitStep == ASSUME OwnerInv, NEW q \in AdminRequests, CommitChange(q) PROVE OwnerInv'
<1> USE DEF OwnerInv
<1> DEFINE x == adminRequest[q]
           s == x.target
<1>1. /\ x # NoAdminRequest /\ x.step = "checked"
      /\ staffRow' = IF x.kind = "remove" THEN staffRow
           ELSE [staffRow EXCEPT ![s].version = @ + 1,
                                 ![s].status = IF x.kind = "status" THEN x.status ELSE @]
      /\ assigned' = CASE x.kind = "role"   -> {a \in assigned : a[1] # s} \cup {<<s, x.role>>}
                       [] x.kind = "status" -> assigned
                       [] x.kind = "remove" -> assigned \ {<<s, x.role>>}
      /\ adminRequest' = [adminRequest EXCEPT ![q] = NoAdminRequest]
      /\ UNCHANGED <<roleRow, grants>>
  BY DEF CommitChange
<1>2. /\ x.step = "checked" /\ x.kind \in {"role", "status", "remove"} /\ s \in StaffRows
      /\ x.role \in Roles /\ x.status \in {"active", "disabled"}
      /\ Exists(s)
      /\ EndsOwnership(x) => \E t \in ActiveOwners : t # s
  BY <1>1 DEF DirectoryTypeOK, RequestsStand, RequestStands
<1>3. DirectoryTypeOK' /\ OwnerRoleStands'
  <2>1. CASE x.kind = "role"
    BY <1>1, <1>2, <2>1 DEF DirectoryTypeOK, OwnerRoleStands
  <2>2. CASE x.kind = "status"
    BY <1>1, <1>2, <2>2 DEF DirectoryTypeOK, OwnerRoleStands
  <2>3. CASE x.kind = "remove"
    BY <1>1, <1>2, <2>3 DEF DirectoryTypeOK, OwnerRoleStands
  <2> QED BY <1>2, <2>1, <2>2, <2>3
<1>4. /\ \A t \in StaffRows \ {s} : staffRow'[t] = staffRow[t]
      /\ \A t \in StaffRows, r \in Roles :
           t # s => (<<t, r>> \in assigned' <=> <<t, r>> \in assigned)
      /\ staffRow'[s].status =
           IF x.kind = "status" THEN x.status ELSE staffRow[s].status
  BY <1>1, <1>2 DEF DirectoryTypeOK
<1>5. \A t \in StaffRows : t # s => (t \in ActiveOwners' <=> t \in ActiveOwners)
  BY <1>4 DEF ActiveOwners, IsActive, RolesOf, Roles
<1>6. ~EndsOwnership(x) /\ s \in ActiveOwners => s \in ActiveOwners'
  <2> SUFFICES ASSUME ~EndsOwnership(x), s \in ActiveOwners PROVE s \in ActiveOwners'
    OBVIOUS
  <2>1. CASE x.kind = "role"
    BY <1>1, <1>2, <1>4, <2>1 DEF EndsOwnership, ActiveOwners, IsActive, RolesOf, Roles
  <2>2. CASE x.kind = "status"
    BY <1>1, <1>2, <1>4, <2>2 DEF EndsOwnership, ActiveOwners, IsActive, RolesOf, Roles
  <2>3. CASE x.kind = "remove"
    BY <1>1, <1>2, <1>4, <2>3 DEF EndsOwnership, ActiveOwners, IsActive, RolesOf, Roles
  <2> QED BY <1>2, <2>1, <2>2, <2>3
<1>7. ActiveOwners' # {}
  BY <1>2, <1>5, <1>6 DEF ActiveOwners
<1>8. /\ \A p \in AdminRequests \ {q} : adminRequest'[p] = adminRequest[p]
      /\ adminRequest'[q] = NoAdminRequest
  BY <1>1 DEF DirectoryTypeOK
<1>9. RequestsExclude'
  BY ZenonT(60), <1>8 DEF RequestsExclude, Working, LocksOf
<1>10. ASSUME NEW p \in AdminRequests, adminRequest'[p] # NoAdminRequest
       PROVE  RequestStands(p)'
  <2> DEFINE y == adminRequest[p]
  <2>1. p # q /\ adminRequest'[p] = y /\ y # NoAdminRequest
    BY <1>8, <1>10
  <2>2. /\ y.target \in StaffRows /\ y.kind \in {"role", "status", "remove"}
        /\ y.role \in Roles /\ Exists(y.target)
        /\ y.step = "checked" /\ EndsOwnership(y) => \E t \in ActiveOwners : t # y.target
    BY <2>1 DEF DirectoryTypeOK, RequestsStand, RequestStands
  <2>3. Exists(y.target)'
    BY <1>2, <1>4, <2>1, <2>2 DEF Exists
  <2>4. CASE OwnerRole \in LocksOf(x)
    <3>1. y.step = "checked" => OwnerRole \notin LocksOf(y)
      BY <1>1, <2>1, <2>4 DEF RequestsExclude, Working
    <3>2. y.step = "checked" => y.kind = "remove" /\ y.role # OwnerRole
      BY <2>1, <3>1, OwnersAreLocked
    <3>3. ASSUME y.step = "checked" PROVE ~EndsOwnership(y)'
      BY <2>1, <3>2, <3>3 DEF EndsOwnership
    <3> QED BY <2>1, <2>3, <3>3 DEF RequestStands
  <2>5. CASE OwnerRole \notin LocksOf(x)
    <3>1. x.kind = "remove" /\ x.role # OwnerRole
      BY <1>1, <2>5, OwnersAreLocked
    <3>2. staffRow' = staffRow /\ assigned' = assigned \ {<<s, x.role>>}
      BY <1>1, <3>1
    <3>3. ActiveOwners' = ActiveOwners
      BY <3>1, <3>2 DEF ActiveOwners, IsActive, RolesOf
    <3>4. EndsOwnership(y)' => EndsOwnership(y)
      BY <2>1, <3>2, <3>3 DEF EndsOwnership, IsActive
    <3> QED BY <2>1, <2>2, <2>3, <3>3, <3>4 DEF RequestStands
  <2> QED BY <2>4, <2>5
<1> QED BY <1>3, <1>7, <1>9, <1>10 DEF RequestsStand, RequestStands

LEMMA OwnerStep == OwnerInv /\ [DirectoryNext]_directoryVars => OwnerInv'
<1> SUFFICES ASSUME OwnerInv, [DirectoryNext]_directoryVars PROVE OwnerInv'
  OBVIOUS
<1>1. CASE UNCHANGED directoryVars
  <2>1. DirectoryTypeOK' /\ OwnerRoleStands'
    BY <1>1 DEF directoryVars, OwnerInv, DirectoryTypeOK, OwnerRoleStands
  <2> QED BY <1>1, <2>1, OthersKeepOwners DEF directoryVars, IsActive, Exists
<1> QED BY <1>1, OtherChangesStep, RequestsStep, CommitStep DEF DirectoryNext

\* Of any number of staff, roles and requests at one time: an owner remains, and may
\* manage the merchant.
THEOREM OwnerRemains == DirectorySpec => []AnOwnerRemains
<1>1. OwnerInv => AnOwnerRemains
  BY DEF OwnerInv, OwnerRoleStands, AnOwnerRemains, ActiveOwners, MayManage, RolesOf
<1> QED BY <1>1, OwnerInitially, OwnerStep, PTL DEF DirectorySpec

\* The rows of staff and roles, and what requests remember, keep their types.
THEOREM DirectoryTypes == DirectorySpec => []DirectoryTypeOK
<1>1. OwnerInv => DirectoryTypeOK
  BY DEF OwnerInv
<1> QED BY <1>1, OwnerInitially, OwnerStep, PTL DEF DirectorySpec

-----------------------------------------------------------------------------
(* Verification codes and the channel that sends them.                   *)

\* Workers that may yet give the provider a message.
Busy       == {"claimed", "checked", "answered"}
Sending(j) == { w \in Couriers : courier[w].step \in {"claimed", "checked"} /\ courier[w].job = j }

ChannelStands ==
  /\ channel.active => channel.test = "passed"
  /\ channel.test = "passed" => channel.secret \in proven

\* A worker has the credentials of the version its job is pinned to, as long as that is
\* the channel's; and what the provider accepted with them, they are proven by.
CourierStands(w) ==
  courier[w].step \in Busy =>
    /\ courier[w].job \in Mail /\ mail[courier[w].job].status # "none"
    /\ mail[courier[w].job].version = channel.version => courier[w].secret = channel.secret
    /\ courier[w].step = "answered" /\ courier[w].answer = "accepted" /\ courier[w].job \in Trials =>
         courier[w].secret \in proven

\* Every message given to the provider, and every worker that may give it one more, is
\* one of a counted attempt or of the claim that is open.
OpenClaims(j) == IF mail[j].status \in {"processing", "erased"} THEN 1 ELSE 0
SendStands(j) ==
  /\ mail[j].version <= channel.version
  /\ mail[j].status = "none" => mail[j].attempts = 0
  /\ mail[j].status \in {"pending", "retry", "processing"} => mail[j].attempts < MaxSends
  /\ copies[j] + Cardinality(Sending(j)) <= mail[j].attempts + OpenClaims(j)
  /\ copies[j] + Cardinality(Sending(j)) <= MaxSends

CodeInv ==
  /\ CodeTypeOK /\ ChannelStands
  /\ \A c \in Codes : code[c].status = "none" => mail[c].status = "none"
  /\ \A w \in Couriers : CourierStands(w)
  /\ \A j \in Mail : SendStands(j)

MailRow    == [status: {"none", "pending", "processing", "retry", "sent",
                        "dead_letter", "expired", "erased"},
               attempts: Nat, lock: Couriers \cup {NoCourier}, version: Nat]
ChannelRow == [version: Nat, active: BOOLEAN, test: {"none", "passed", "failed"}, secret: Nat]
CourierRow == [step: {"off", "idle", "claimed", "checked", "answered"},
               job: Mail \cup {NoCourier}, secret: Nat,
               answer: {"none", "accepted", "unclear", "refused", "changed"}]

LEMMA SendingIsFinite == \A j : IsFiniteSet(Sending(j)) /\ Cardinality(Sending(j)) \in Nat
<1>1. \A j : IsFiniteSet(Sending(j))
  BY MailAssumption, FS_Subset DEF Sending
<1> QED BY <1>1, FS_CardinalityType

LEMMA CodeInitially == CodeInit => CodeInv
<1> SUFFICES ASSUME CodeInit PROVE CodeInv
  OBVIOUS
<1> USE DEF CodeInit
<1>1. CodeTypeOK
  BY MailAssumption, SendsAssumption DEF CodeTypeOK, NoMail, OffDuty, NoTask
<1>2. \A w \in Couriers : courier[w].step = "off"
  BY DEF OffDuty, NoTask
<1>3. \A j : Sending(j) = {}
  BY <1>2 DEF Sending
<1>c. \A j : Cardinality(Sending(j)) = 0
  BY <1>3, FS_EmptySet
<1>4. \A j \in Mail : SendStands(j)
  BY <1>c, SendsAssumption DEF SendStands, NoMail, OpenClaims
<1>5. \A w \in Couriers : CourierStands(w)
  BY <1>2 DEF CourierStands, Busy
<1>6. ChannelStands /\ \A c \in Codes : mail[c].status = "none"
  BY DEF ChannelStands, Mail, NoMail
<1> QED BY <1>1, <1>4, <1>5, <1>6 DEF CodeInv

LEMMA CodeTypes ==
  ASSUME CodeInv
  PROVE  /\ channel \in ChannelRow
         /\ mail \in [Mail -> MailRow]
         /\ courier \in [Couriers -> CourierRow]
         /\ code \in [Codes -> [status: {"none", "open", "used", "erased"}, guesses: 0 .. MaxGuesses]]
         /\ copies \in [Mail -> Nat] /\ proven \subseteq Nat
         /\ \A w \in Couriers : CourierStands(w) /\ courier[w] \in CourierRow
         /\ \A j \in Mail : SendStands(j) /\ mail[j] \in MailRow
BY DEF CodeInv, CodeTypeOK, ChannelRow, MailRow, CourierRow

\* The messages keep their version or are new of the channel's; an attempt is counted
\* when a claim ends; nobody is given a message anew.
MailKept(j) ==
  /\ mail'[j] \in MailRow
  /\ mail'[j].status = "none" <=> mail[j].status = "none"
  /\ mail'[j].version = mail[j].version
  /\ \/ mail'[j] = mail[j]
     \/ /\ mail'[j].attempts = mail[j].attempts
        /\ mail'[j].status = mail[j].status
     \/ /\ mail[j].status = "processing" /\ mail'[j].attempts = mail[j].attempts + 1
        /\ mail'[j].status \in {"sent", "retry", "expired", "dead_letter"}
        /\ mail'[j].status = "retry" => mail[j].attempts + 1 < MaxSends
     \/ /\ mail'[j].attempts = mail[j].attempts
        /\ mail[j].status \in {"pending", "retry"} /\ mail'[j].status = "expired"
     \/ mail'[j].attempts = mail[j].attempts /\ mail'[j].status = "erased"

LEMMA MailStands ==
  ASSUME CodeInv, NEW j \in Mail, MailKept(j), copies'[j] = copies[j], channel' \in ChannelRow,
         channel.version <= channel'.version, Sending(j)' = Sending(j)
  PROVE  SendStands(j)'
<1>1. SendStands(j) /\ mail[j] \in MailRow /\ channel \in ChannelRow /\ copies[j] \in Nat
  BY CodeTypes
<1>2. Cardinality(Sending(j)) \in Nat
  BY SendingIsFinite
<1> DEFINE n == Cardinality(Sending(j))
<1>3. /\ mail[j].version <= channel.version
      /\ mail[j].status = "none" => mail[j].attempts = 0
      /\ mail[j].status \in {"pending", "retry", "processing"} => mail[j].attempts < MaxSends
      /\ copies[j] + n <= mail[j].attempts + OpenClaims(j)
      /\ copies[j] + n <= MaxSends
  BY <1>1 DEF SendStands
<1>4. Cardinality(Sending(j)') = n
  OBVIOUS
<1> HIDE DEF n
<1>5. n \in Nat
  BY <1>2 DEF n
<1>6. mail'[j].version <= channel'.version
  BY <1>1, <1>3 DEF MailKept, MailRow, ChannelRow
<1>7. mail'[j].status \in {"pending", "retry", "processing"} => mail'[j].attempts < MaxSends
  BY <1>1, <1>3 DEF MailKept, MailRow
<1>8. mail'[j].status = "none" => mail'[j].attempts = 0
  BY <1>1, <1>3 DEF MailKept, MailRow
<1>9. copies[j] + n <= mail'[j].attempts + OpenClaims(j)'
  BY <1>1, <1>3, <1>5 DEF MailKept, MailRow, OpenClaims
<1> QED BY <1>3, <1>4, <1>6, <1>7, <1>8, <1>9 DEF SendStands
\* A worker that does nothing meanwhile: what it holds of an old version no longer counts.
LEMMA CourierStays ==
  ASSUME CodeInv, NEW w \in Couriers, courier'[w] = courier[w], channel' \in ChannelRow,
         \A j \in Mail : mail[j].status # "none" =>
           mail'[j].status # "none" /\ mail'[j].version = mail[j].version,
         channel.version <= channel'.version,
         channel'.version = channel.version => channel'.secret = channel.secret,
         proven \subseteq proven'
  PROVE  CourierStands(w)'
<1>1. CourierStands(w)
  BY CodeTypes
<1>2. SUFFICES ASSUME courier[w].step \in Busy
               PROVE  CourierStands(w)'
  BY DEF CourierStands
<1> DEFINE j == courier[w].job
<1>3. /\ j \in Mail /\ mail[j].status # "none"
      /\ mail[j].version = channel.version => courier[w].secret = channel.secret
      /\ courier[w].step = "answered" /\ courier[w].answer = "accepted" /\ j \in Trials =>
           courier[w].secret \in proven
  BY <1>1, <1>2 DEF CourierStands
<1>4. mail[j].version \in Nat /\ mail[j].version <= channel.version /\ channel.version \in Nat
      /\ channel'.version \in Nat
  BY <1>3, CodeTypes DEF SendStands, MailRow, ChannelRow
<1>5. mail'[j].status # "none" /\ mail'[j].version = mail[j].version
  BY <1>3
<1>6. mail'[j].version = channel'.version => courier[w].secret = channel'.secret
  BY <1>3, <1>4, <1>5
<1>7. courier'[w].job = j
  OBVIOUS
<1> QED BY <1>3, <1>5, <1>6, <1>7 DEF CourierStands

-----------------------------------------------------------------------------
(* Staff, customers and time: no worker does anything.                   *)

NewVersion(new) ==
  /\ channel' \in ChannelRow /\ channel'.version = channel.version + 1
  /\ channel'.active = new.active /\ channel'.test = new.test /\ channel'.secret = new.secret

LEMMA ChannelChanges ==
  ASSUME CodeInv, NEW new \in ChannelRow, ChangeChannel(new)
  PROVE  NewVersion(new)
<1>1. channel \in ChannelRow
  BY CodeTypes
<1>2. channel.version + 1 \in Nat
  BY <1>1 DEF ChannelRow
<1> QED BY <1>2 DEF ChangeChannel, NewVersion, ChannelRow

\* A new message, pinned to the channel's version.
Enqueued(j) ==
  /\ mail[j].status = "none"
  /\ mail' = [mail EXCEPT ![j] = [NoMail EXCEPT !.status = "pending", !.version = channel'.version]]

\* All but at most one message stay; nobody works.
LEMMA NobodyWorks ==
  ASSUME CodeInv, channel' \in ChannelRow, channel.version <= channel'.version,
         channel'.version = channel.version => channel'.secret = channel.secret,
         UNCHANGED <<courier, proven, copies>>,
         \A j \in Mail : MailKept(j) \/ Enqueued(j)
  PROVE  /\ \A w \in Couriers : CourierStands(w)'
         /\ \A j \in Mail : SendStands(j)'
<1>t. mail \in [Mail -> MailRow] /\ channel'.version \in Nat
  BY CodeTypes DEF ChannelRow
<1>0. \A j : Sending(j)' = Sending(j)
  BY DEF Sending
<1>1. ASSUME NEW j \in Mail PROVE SendStands(j)'
  <2>1. CASE MailKept(j)
    BY <1>0, <2>1, MailStands
  <2>2. CASE Enqueued(j)
    <3>1. mail'[j].status = "pending" /\ mail'[j].version = channel'.version /\ mail'[j].attempts = 0
      BY <1>t, <2>2 DEF Enqueued, NoMail
    <3>2. SendStands(j) /\ copies[j] \in Nat /\ mail[j].status = "none" /\ Cardinality(Sending(j)) \in Nat
      BY CodeTypes, SendingIsFinite, <2>2 DEF Enqueued
    <3>3. copies[j] + Cardinality(Sending(j)) = 0
      BY <3>2 DEF SendStands, OpenClaims
    <3>4. copies'[j] + Cardinality(Sending(j)') = 0
      BY <1>0, <3>3
    <3> QED BY <1>t, <3>1, <3>4, SendsAssumption DEF SendStands, OpenClaims
  <2> QED BY <2>1, <2>2
<1>2. \A j \in Mail : mail[j].status # "none" =>
        mail'[j].status # "none" /\ mail'[j].version = mail[j].version
  BY DEF MailKept, Enqueued
<1> QED BY <1>1, <1>2, CourierStays

LEMMA MailStays == ASSUME CodeInv, NEW j \in Mail, mail'[j] = mail[j] PROVE MailKept(j)
BY CodeTypes DEF MailKept

LEMMA StaffKeep ==
  ASSUME CodeInv,
         UpsertChannel \/ (\E t \in Trials : TestChannel(t)) \/ \E a \in BOOLEAN : SetChannelStatus(a)
  PROVE  CodeInv'
<1>t. channel \in ChannelRow /\ mail \in [Mail -> MailRow]
  BY CodeTypes
<1>1. CASE UpsertChannel
  <2> DEFINE new == [channel EXCEPT !.active = FALSE, !.test = "none", !.secret = @ + 1]
  <2>a. channel.secret + 1 \in Nat
    BY <1>t DEF ChannelRow
  <2>1. new \in ChannelRow /\ new.active = FALSE /\ new.test = "none"
    BY <1>t, <2>a DEF ChannelRow
  <2>2. ChangeChannel(new)
    BY <1>1 DEF UpsertChannel
  <2> HIDE DEF new
  <2>3. NewVersion(new)
    BY <2>1, <2>2, ChannelChanges
  <2>4. channel.version <= channel'.version /\ channel'.version # channel.version /\ channel' \in ChannelRow
    BY <1>t, <2>3 DEF NewVersion, ChannelRow
  <2>5. \A j \in Mail : MailKept(j)
    BY <1>1, MailStays DEF UpsertChannel
  <2>6. UNCHANGED <<mail, pastDue, oldLocks, courier, code, proven, copies, courierStops>>
    BY <1>1 DEF UpsertChannel
  <2>7. (\A w \in Couriers : CourierStands(w)') /\ \A j \in Mail : SendStands(j)'
    BY <2>4, <2>5, <2>6, NobodyWorks
  <2> QED BY <2>1, <2>3, <2>6, <2>7 DEF CodeInv, CodeTypeOK, ChannelStands, NewVersion, ChannelRow
<1>2. ASSUME NEW t \in Trials, TestChannel(t) PROVE CodeInv'
  <2> DEFINE new == [channel EXCEPT !.active = FALSE, !.test = "none"]
  <2>1. new \in ChannelRow /\ new.active = FALSE /\ new.test = "none"
    BY <1>t DEF ChannelRow
  <2>2. ChangeChannel(new)
    BY <1>2 DEF TestChannel
  <2> HIDE DEF new
  <2>3. NewVersion(new)
    BY <2>1, <2>2, ChannelChanges
  <2>4. channel.version <= channel'.version /\ channel'.version # channel.version /\ channel' \in ChannelRow
        /\ channel'.version \in Nat
    BY <1>t, <2>3 DEF NewVersion, ChannelRow
  <2>5. Enqueued(t) /\ \A j \in Mail \ {t} : mail'[j] = mail[j]
    BY <1>2, <1>t DEF TestChannel, Enqueued
  <2>6. UNCHANGED <<pastDue, oldLocks, courier, code, proven, copies, courierStops>>
    BY <1>2 DEF TestChannel
  <2>7. (\A w \in Couriers : CourierStands(w)') /\ \A j \in Mail : SendStands(j)'
    BY <2>4, <2>5, <2>6, MailStays, NobodyWorks
  <2>8. mail' \in [Mail -> MailRow]
    <3>1. [NoMail EXCEPT !.status = "pending", !.version = channel'.version] \in MailRow
      BY <2>4 DEF NoMail, MailRow
    <3> QED BY <3>1, <2>5, <1>t DEF Enqueued
  <2>9. \A c \in Codes : code'[c].status = "none" => mail'[c].status = "none"
    BY <2>5, <2>6, MailAssumption DEF CodeInv, Mail
  <2> QED BY <2>1, <2>3, <2>6, <2>7, <2>8, <2>9
       DEF CodeInv, CodeTypeOK, ChannelStands, NewVersion, ChannelRow, MailRow
<1>3. ASSUME NEW a \in BOOLEAN, SetChannelStatus(a) PROVE CodeInv'
  <2> DEFINE new == [channel EXCEPT !.active = a]
  <2>1. new \in ChannelRow /\ new.active = a /\ new.test = channel.test /\ new.secret = channel.secret
    BY <1>t DEF ChannelRow
  <2>2. ChangeChannel(new) /\ (a => channel.test = "passed")
    BY <1>3 DEF SetChannelStatus
  <2> HIDE DEF new
  <2>3. NewVersion(new)
    BY <2>1, <2>2, ChannelChanges
  <2>4. channel.version <= channel'.version /\ channel'.version # channel.version /\ channel' \in ChannelRow
    BY <1>t, <2>3 DEF NewVersion, ChannelRow
  <2>5. \A j \in Mail : MailKept(j)
    BY <1>3, MailStays DEF SetChannelStatus
  <2>6. UNCHANGED <<mail, pastDue, oldLocks, courier, code, proven, copies, courierStops>>
    BY <1>3 DEF SetChannelStatus
  <2>7. (\A w \in Couriers : CourierStands(w)') /\ \A j \in Mail : SendStands(j)'
    BY <2>4, <2>5, <2>6, NobodyWorks
  <2> QED BY <2>1, <2>2, <2>3, <2>6, <2>7 DEF CodeInv, CodeTypeOK, ChannelStands, NewVersion, ChannelRow
<1> QED BY <1>1, <1>2, <1>3
CodeRow == [status: {"none", "open", "used", "erased"}, guesses: 0 .. MaxGuesses]

LEMMA CustomersKeep ==
  ASSUME CodeInv,
         \/ \E c \in Codes : CreateCode(c) \/ EraseCode(c) \/ \E right \in BOOLEAN : VerifyCode(c, right)
         \/ \E j \in Mail : MailExpires(j) \/ LockAges(j)
  PROVE  CodeInv'
<1>t. /\ channel \in ChannelRow /\ mail \in [Mail -> MailRow] /\ code \in [Codes -> CodeRow]
      /\ channel.version \in Nat
  BY CodeTypes DEF CodeRow, ChannelRow
<1>u. UNCHANGED <<channel, courier, proven, copies, courierStops>>
  BY DEF CreateCode, EraseCode, VerifyCode, MailExpires, LockAges
<1>k. ASSUME code' \in [Codes -> CodeRow], mail' \in [Mail -> MailRow],
             pastDue' \subseteq Mail, oldLocks' \subseteq Mail,
             \A j \in Mail : MailKept(j) \/ Enqueued(j),
             \A c \in Codes : code'[c].status = "none" => mail'[c].status = "none"
      PROVE  CodeInv'
  <2>1. (\A w \in Couriers : CourierStands(w)') /\ \A j \in Mail : SendStands(j)'
    BY <1>k, <1>t, <1>u, NobodyWorks
  <2> QED BY <1>k, <1>u, <2>1 DEF CodeInv, CodeTypeOK, ChannelStands, CodeRow, MailRow
<1>0. pastDue \subseteq Mail /\ oldLocks \subseteq Mail
      /\ \A c \in Codes : code[c].status = "none" => mail[c].status = "none"
  BY DEF CodeInv, CodeTypeOK
<1>1. ASSUME NEW c \in Codes, CreateCode(c) PROVE CodeInv'
  <2>1. code' \in [Codes -> CodeRow] /\ code[c].status = "none" /\ code'[c].status = "open"
        /\ \A d \in Codes \ {c} : code'[d] = code[d]
    BY <1>1, <1>t DEF CreateCode, CodeRow
  <2>2. UNCHANGED <<pastDue, oldLocks>>
    BY <1>1 DEF CreateCode
  <2>3. CASE UNCHANGED mail
    BY <1>k, <1>0, <1>t, <2>1, <2>2, <2>3, MailStays
  <2>4. CASE mail' = [mail EXCEPT ![c] = [NoMail EXCEPT !.status = "pending", !.version = channel.version]]
    <3>1. [NoMail EXCEPT !.status = "pending", !.version = channel.version] \in MailRow
      BY <1>t DEF NoMail, MailRow
    <3>2. mail' \in [Mail -> MailRow] /\ \A j \in Mail \ {c} : mail'[j] = mail[j]
      BY <1>t, <2>4, <3>1 DEF Mail
    <3>3. Enqueued(c)
      BY <1>0, <1>u, <2>1, <2>4 DEF Enqueued
    <3>4. \A d \in Codes : code'[d].status = "none" => mail'[d].status = "none"
      BY <1>0, <2>1, <3>2 DEF Mail
    <3> QED BY <1>k, <1>0, <2>1, <2>2, <3>2, <3>3, <3>4, MailStays
  <2> QED BY <1>1, <2>3, <2>4 DEF CreateCode, EnqueueCode
<1>2. ASSUME NEW c \in Codes, EraseCode(c) PROVE CodeInv'
  <2>1. code' \in [Codes -> CodeRow] /\ code[c].status # "none" /\ code'[c].status = "erased"
        /\ \A d \in Codes \ {c} : code'[d] = code[d]
    BY <1>2, <1>t DEF EraseCode, CodeRow
  <2>2. pastDue' = pastDue /\ oldLocks' \subseteq Mail
    BY <1>2, <1>0 DEF EraseCode
  <2>3. /\ mail' \in [Mail -> MailRow]
        /\ mail'[c].status = IF mail[c].status = "none" THEN "none" ELSE "erased"
        /\ mail'[c].attempts = mail[c].attempts /\ mail'[c].version = mail[c].version
        /\ \A j \in Mail \ {c} : mail'[j] = mail[j]
    BY <1>2, <1>t DEF EraseCode, MailRow, Mail
  <2>4. MailKept(c)
    BY <2>3, <1>t DEF MailKept, Mail
  <2>5. \A d \in Codes : code'[d].status = "none" => mail'[d].status = "none"
    BY <1>0, <2>1, <2>3 DEF Mail
  <2> QED BY <1>k, <1>0, <2>1, <2>2, <2>3, <2>4, <2>5, MailStays
<1>3. ASSUME NEW c \in Codes, NEW right \in BOOLEAN, VerifyCode(c, right) PROVE CodeInv'
  <2>1. code[c] \in CodeRow /\ code[c].guesses + 1 \in 0 .. MaxGuesses /\ code[c].status = "open"
    BY <1>3, <1>t, SendsAssumption DEF VerifyCode, CodeRow
  <2>2. code' \in [Codes -> CodeRow] /\ code'[c].status # "none"
        /\ \A d \in Codes \ {c} : code'[d] = code[d]
    BY <1>3, <1>t, <2>1 DEF VerifyCode, CodeRow
  <2>3. UNCHANGED <<mail, pastDue, oldLocks>>
    BY <1>3 DEF VerifyCode
  <2> QED BY <1>k, <1>0, <1>t, <2>2, <2>3, MailStays
<1>4. ASSUME NEW j \in Mail, MailExpires(j) \/ LockAges(j) PROVE CodeInv'
  <2>1. UNCHANGED <<mail, code>> /\ pastDue' \subseteq Mail /\ oldLocks' \subseteq Mail
    BY <1>4, <1>0 DEF MailExpires, LockAges
  <2> QED BY <1>k, <1>0, <1>t, <2>1, MailStays
<1> QED BY <1>1, <1>2, <1>3, <1>4

-----------------------------------------------------------------------------
(* Workers.                                                              *)

\* What a worker does to its own state, the messages and the channel.
WorkerKept(w) ==
  /\ courier' = [courier EXCEPT ![w] = courier'[w]] /\ courier'[w] \in CourierRow
  /\ mail' \in [Mail -> MailRow]
  /\ channel' \in ChannelRow /\ channel'.version = channel.version /\ channel'.secret = channel.secret
  /\ copies' \in [Mail -> Nat] /\ proven \subseteq proven' /\ proven' \subseteq Nat
  /\ oldLocks' \subseteq Mail /\ courierStops' \in Nat
  /\ UNCHANGED <<pastDue, code>>
  /\ \A j \in Mail : mail'[j].version = mail[j].version /\ (mail'[j].status = "none" <=> mail[j].status = "none")
  /\ ChannelStands' /\ CourierStands(w)'

LEMMA WorkersKeep ==
  ASSUME CodeInv, NEW w \in Couriers, WorkerKept(w), \A j \in Mail : SendStands(j)'
  PROVE  CodeInv'
<1>t. courier \in [Couriers -> CourierRow] /\ channel.version \in Nat
  BY CodeTypes DEF ChannelRow
<1>1. courier' \in [Couriers -> CourierRow]
  BY <1>t DEF WorkerKept
<1>2. ASSUME NEW v \in Couriers PROVE CourierStands(v)'
  <2>1. CASE v = w
    BY <2>1 DEF WorkerKept
  <2>2. CASE v # w
    <3>1. courier'[v] = courier[v]
      BY <1>t, <2>2 DEF WorkerKept
    <3>2. /\ \A j \in Mail : mail[j].status # "none" =>
                mail'[j].status # "none" /\ mail'[j].version = mail[j].version
          /\ channel.version <= channel'.version /\ channel' \in ChannelRow
          /\ channel'.secret = channel.secret /\ proven \subseteq proven'
      BY <1>t DEF WorkerKept
    <3> QED BY <3>1, <3>2, CourierStays
  <2> QED BY <2>1, <2>2
<1>3. CodeTypeOK'
  BY <1>1 DEF CodeInv, CodeTypeOK, WorkerKept, CourierRow, MailRow, ChannelRow
<1>4. \A c \in Codes : code'[c].status = "none" => mail'[c].status = "none"
  BY DEF CodeInv, WorkerKept, Mail
<1> QED BY <1>2, <1>3, <1>4 DEF CodeInv, WorkerKept

\* A worker that claims or looks at nothing it may yet send.
LEMMA SendingStays ==
  ASSUME CodeInv, NEW w \in Couriers, courier' = [courier EXCEPT ![w] = courier'[w]],
         courier'[w].step \in {"claimed", "checked"} <=> courier[w].step \in {"claimed", "checked"},
         courier[w].step \in {"claimed", "checked"} => courier'[w].job = courier[w].job
  PROVE  \A j : Sending(j)' = Sending(j)
BY CodeTypes DEF Sending

LEMMA SendingEnds ==
  ASSUME CodeInv, NEW w \in Couriers, NEW j, j = courier[w].job,
         courier' = [courier EXCEPT ![w] = courier'[w]],
         courier[w].step \in {"claimed", "checked"},
         courier'[w].step \notin {"claimed", "checked"}
  PROVE  /\ \A i : i # j => Sending(i)' = Sending(i)
         /\ Cardinality(Sending(j)') = Cardinality(Sending(j)) - 1
<1>1. /\ \A i : i # j => Sending(i)' = Sending(i)
      /\ w \in Sending(j) /\ Sending(j)' = Sending(j) \ {w}
  BY CodeTypes DEF Sending
<1>2. Cardinality(Sending(j) \ {w}) = Cardinality(Sending(j)) - 1
  BY <1>1, SendingIsFinite, FS_RemoveElement
<1> QED BY <1>1, <1>2

LEMMA SendingBegins ==
  ASSUME CodeInv, NEW w \in Couriers, NEW j \in Mail, courier' = [courier EXCEPT ![w] = courier'[w]],
         courier[w].step = "idle", courier'[w].step = "claimed", courier'[w].job = j
  PROVE  /\ \A i : i # j => Sending(i)' = Sending(i)
         /\ Cardinality(Sending(j)') = Cardinality(Sending(j)) + 1
<1>1. /\ \A i : i # j => Sending(i)' = Sending(i)
      /\ w \notin Sending(j) /\ Sending(j)' = Sending(j) \cup {w}
  BY CodeTypes DEF Sending
<1>2. Cardinality(Sending(j) \cup {w}) = Cardinality(Sending(j)) + 1
  BY <1>1, SendingIsFinite, FS_AddElement
<1> QED BY <1>1, <1>2
\* Fewer messages may yet be sent, or as many.
LEMMA MailStandsBy ==
  ASSUME CodeInv, NEW j \in Mail, MailKept(j), copies'[j] \in Nat, channel' \in ChannelRow,
         channel.version <= channel'.version,
         copies'[j] + Cardinality(Sending(j)') <= copies[j] + Cardinality(Sending(j)),
         Cardinality(Sending(j)') \in Nat
  PROVE  SendStands(j)'
<1>1. SendStands(j) /\ mail[j] \in MailRow /\ channel \in ChannelRow /\ copies[j] \in Nat
  BY CodeTypes
<1> DEFINE n == copies[j] + Cardinality(Sending(j))
           m == copies'[j] + Cardinality(Sending(j)')
<1>2. n \in Nat /\ m \in Nat /\ m <= n
  BY <1>1, SendingIsFinite
<1>3. /\ mail[j].version <= channel.version
      /\ mail[j].status = "none" => mail[j].attempts = 0
      /\ mail[j].status \in {"pending", "retry", "processing"} => mail[j].attempts < MaxSends
      /\ n <= mail[j].attempts + OpenClaims(j)
      /\ n <= MaxSends
  BY <1>1 DEF SendStands
<1> HIDE DEF n, m
<1>6. mail'[j].version <= channel'.version
  BY <1>1, <1>3 DEF MailKept, MailRow, ChannelRow
<1>7. mail'[j].status \in {"pending", "retry", "processing"} => mail'[j].attempts < MaxSends
  BY <1>1, <1>3 DEF MailKept, MailRow
<1>8. mail'[j].status = "none" => mail'[j].attempts = 0
  BY <1>1, <1>3 DEF MailKept, MailRow
<1>9. m <= mail'[j].attempts + OpenClaims(j)' /\ m <= MaxSends
  BY <1>1, <1>2, <1>3, SendsAssumption DEF MailKept, MailRow, OpenClaims
<1> QED BY <1>6, <1>7, <1>8, <1>9 DEF SendStands, m

\* The end of a claim, for good or until the next.
LEMMA ReturnedIsKept ==
  ASSUME CodeInv, NEW j \in Mail, mail[j].status = "processing", NEW retryable \in BOOLEAN,
         mail'[j] = ReturnedMail(j, retryable)
  PROVE  MailKept(j)
<1>1. mail[j] \in MailRow
  BY CodeTypes
<1>2. /\ mail'[j].attempts = mail[j].attempts + 1 /\ mail'[j].lock = NoCourier
      /\ mail'[j].version = mail[j].version
      /\ mail'[j].status \in {"retry", "expired", "dead_letter"}
      /\ mail'[j].status = "retry" => mail[j].attempts + 1 < MaxSends
  BY <1>1 DEF ReturnedMail, MailRow
<1>3. mail'[j] \in MailRow
  <2>1. mail[j].attempts + 1 \in Nat
    BY <1>1 DEF MailRow
  <2> QED BY <1>1, <1>2, <2>1 DEF ReturnedMail, MailRow
<1> QED BY <1>2, <1>3 DEF MailKept

\* What the failure of tests makes of the channel.
LEMMA UntestedIsDisabled ==
  ASSUME CodeInv, NEW js, DisableUntested(js), UNCHANGED proven
  PROVE  /\ channel' \in ChannelRow /\ channel'.version = channel.version
         /\ channel'.secret = channel.secret /\ ChannelStands'
BY CodeTypes DEF DisableUntested, ChannelRow, CodeInv, ChannelStands

LEMMA StartKeeps ==
  ASSUME CodeInv, NEW w \in Couriers, StartCourier(w)
  PROVE  CodeInv'
<1> DEFINE stale == { j \in oldLocks : mail[j].status = "processing" }
<1>1. /\ courier[w].step = "off" /\ courier' = [courier EXCEPT ![w] = NoTask]
      /\ mail' = [j \in Mail |-> IF j \in stale THEN ReturnedMail(j, TRUE) ELSE mail[j]]
      /\ DisableUntested(stale)
      /\ oldLocks' = oldLocks \ stale
      /\ UNCHANGED <<pastDue, code, proven, copies, courierStops>>
  BY DEF StartCourier
<1>2. \A j \in stale : mail[j].status = "processing"
  OBVIOUS
<1> HIDE DEF stale
<1>t. /\ courier \in [Couriers -> CourierRow] /\ channel \in ChannelRow /\ copies \in [Mail -> Nat]
      /\ oldLocks \subseteq Mail /\ courierStops \in Nat /\ proven \subseteq Nat
  BY CodeTypes DEF CodeInv, CodeTypeOK
<1>3. courier'[w] = NoTask /\ courier' = [courier EXCEPT ![w] = courier'[w]] /\ NoTask \in CourierRow
      /\ courier'[w].step = "idle"
  BY <1>1, <1>t DEF NoTask, CourierRow
<1>4. \A j \in Mail : MailKept(j)
  BY <1>1, <1>2, ReturnedIsKept, MailStays
<1>5. /\ channel' \in ChannelRow /\ channel'.version = channel.version
      /\ channel'.secret = channel.secret /\ ChannelStands'
  BY <1>1, UntestedIsDisabled
<1>6. \A j : Sending(j)' = Sending(j)
  BY <1>1, <1>3, SendingStays
<1>7. channel.version <= channel'.version
  BY <1>5, <1>t DEF ChannelRow
<1>8. \A j \in Mail : SendStands(j)'
  BY <1>1, <1>4, <1>5, <1>6, <1>7, MailStands
<1>9. mail' \in [Mail -> MailRow]
  BY <1>1, <1>4 DEF MailKept
<1>10. CourierStands(w)'
  BY <1>3 DEF CourierStands, Busy
<1>11. WorkerKept(w)
  BY <1>1, <1>t, <1>3, <1>4, <1>5, <1>9, <1>10 DEF WorkerKept, MailKept
<1> QED BY <1>8, <1>11, WorkersKeep

\* The first statement of claim, for the messages it does not claim.
LEMMA ExpiredIsKept ==
  ASSUME CodeInv, NEW j \in Mail, mail'[j] = ExpiredMail(j)
  PROVE  MailKept(j)
<1>1. mail[j] \in MailRow
  BY CodeTypes
<1> QED BY <1>1 DEF ExpiredMail, WaitingMail, MailKept, MailRow

LEMMA ClaimsKeep ==
  ASSUME CodeInv, NEW w \in Couriers, (\E j \in Mail : ClaimMail(w, j)) \/ ClaimNothing(w)
  PROVE  CodeInv'
<1>t. /\ courier \in [Couriers -> CourierRow] /\ channel \in ChannelRow /\ copies \in [Mail -> Nat]
      /\ oldLocks \subseteq Mail /\ courierStops \in Nat /\ proven \subseteq Nat
      /\ ChannelStands /\ channel.version \in Nat /\ channel.secret \in Nat
  BY CodeTypes DEF CodeInv, CodeTypeOK, ChannelRow
<1>u. UNCHANGED <<channel, pastDue, oldLocks, code, proven, copies, courierStops>>
  BY DEF ClaimMail, ClaimNothing
<1>1. CASE ClaimNothing(w)
  <2>1. UNCHANGED courier /\ mail' = [i \in Mail |-> ExpiredMail(i)]
    BY <1>1 DEF ClaimNothing
  <2>2. \A j \in Mail : MailKept(j)
    BY <2>1, ExpiredIsKept
  <2>3. mail' \in [Mail -> MailRow]
    BY <2>1, <2>2 DEF MailKept
  <2>4. (\A v \in Couriers : CourierStands(v)') /\ \A j \in Mail : SendStands(j)'
    BY <1>t, <1>u, <2>1, <2>2, NobodyWorks
  <2>5. \A c \in Codes : code'[c].status = "none" => mail'[c].status = "none"
    BY <1>u, <2>2 DEF CodeInv, MailKept, Mail
  <2> QED BY <1>u, <2>1, <2>3, <2>4, <2>5 DEF CodeInv, CodeTypeOK, ChannelStands, MailRow
<1>2. ASSUME NEW j \in Mail, ClaimMail(w, j) PROVE CodeInv'
  <2>1. /\ courier[w].step = "idle" /\ WaitingMail(j)
        /\ mail' = [i \in Mail |-> IF i = j THEN [mail[j] EXCEPT !.status = "processing", !.lock = w]
                                  ELSE ExpiredMail(i)]
        /\ courier' = [courier EXCEPT ![w] =
              [step |-> "claimed", job |-> j, secret |-> channel.secret, answer |-> "none"]]
    BY <1>2 DEF ClaimMail
  <2>2. /\ courier'[w] \in CourierRow /\ courier'[w].step = "claimed" /\ courier'[w].job = j
        /\ courier'[w].secret = channel.secret
        /\ courier' = [courier EXCEPT ![w] = courier'[w]]
    BY <1>t, <2>1 DEF CourierRow
  <2>3. \A i \in Mail \ {j} : MailKept(i)
    BY <2>1, ExpiredIsKept
  <2>4. mail[j] \in MailRow /\ SendStands(j) /\ copies[j] \in Nat
    BY CodeTypes
  <2>5. /\ mail'[j] \in MailRow /\ mail'[j].status = "processing"
        /\ mail'[j].attempts = mail[j].attempts /\ mail'[j].version = mail[j].version
        /\ mail[j].status \in {"pending", "retry"}
    BY <2>1, <2>4 DEF MailRow, WaitingMail
  <2>6. /\ \A i : i # j => Sending(i)' = Sending(i)
        /\ Cardinality(Sending(j)') = Cardinality(Sending(j)) + 1
    BY <2>1, <2>2, SendingBegins
  <2>7. \A i \in Mail \ {j} : SendStands(i)'
    BY <1>t, <1>u, <2>3, <2>6, MailStands
  <2>8. SendStands(j)'
    <3>1. /\ mail[j].version <= channel.version /\ mail[j].attempts < MaxSends
          /\ copies[j] + Cardinality(Sending(j)) <= mail[j].attempts
      BY <2>4, <2>5 DEF SendStands, OpenClaims, MailRow
    <3>2. Cardinality(Sending(j)) \in Nat /\ mail[j].attempts \in Nat
      BY SendingIsFinite, <2>4 DEF MailRow
    <3> DEFINE n == Cardinality(Sending(j))
               m == Cardinality(Sending(j)')
    <3>3. m = n + 1 /\ n \in Nat /\ copies[j] + n <= mail[j].attempts
      BY <2>6, <3>1, <3>2
    <3> HIDE DEF n, m
    <3>4. copies'[j] + m <= mail'[j].attempts + 1 /\ copies'[j] + m <= MaxSends
      BY <1>u, <2>4, <2>5, <3>1, <3>2, <3>3, SendsAssumption
    <3> QED BY <1>u, <2>5, <3>1, <3>4 DEF SendStands, OpenClaims, m
  <2>9. mail' \in [Mail -> MailRow]
    BY <2>1, <2>3, <2>5 DEF MailKept
  <2>10. CourierStands(w)'
    BY <1>u, <2>2, <2>5 DEF CourierStands, Busy
  <2>11. WorkerKept(w)
    BY <1>t, <1>u, <2>2, <2>3, <2>5, <2>9, <2>10 DEF WorkerKept, MailKept, ChannelStands
  <2> QED BY <2>7, <2>8, <2>11, WorkersKeep
<1> QED BY <1>1, <1>2
LEMMA CheckKeeps ==
  ASSUME CodeInv, NEW w \in Couriers, CheckMail(w)
  PROVE  CodeInv'
<1>t. /\ courier \in [Couriers -> CourierRow] /\ courier[w] \in CourierRow /\ channel \in ChannelRow
      /\ copies \in [Mail -> Nat] /\ mail \in [Mail -> MailRow]
      /\ oldLocks \subseteq Mail /\ courierStops \in Nat /\ proven \subseteq Nat
      /\ ChannelStands /\ channel.version \in Nat /\ CourierStands(w)
  BY CodeTypes DEF CodeInv, CodeTypeOK, ChannelRow
<1>u. UNCHANGED <<channel, mail, pastDue, oldLocks, code, proven, copies, courierStops>>
      /\ courier[w].step = "claimed"
  BY DEF CheckMail
<1> DEFINE j == courier[w].job
<1>1. /\ courier' = [courier EXCEPT ![w] = courier'[w]] /\ courier'[w] \in CourierRow
      /\ courier'[w].job = j /\ courier'[w].secret = courier[w].secret
      /\ \/ courier'[w].step = "checked"
         \/ courier'[w].step = "answered" /\ courier'[w].answer = "changed"
  BY <1>t DEF CheckMail, CourierRow
<1>2. CourierStands(w)'
  BY <1>t, <1>u, <1>1 DEF CourierStands, Busy
<1>3. j \in Mail
  BY <1>t, <1>u DEF CourierStands, Busy
<1>4. WorkerKept(w)
  BY <1>t, <1>u, <1>1, <1>2 DEF WorkerKept, ChannelStands
<1>5. CASE courier'[w].step = "checked"
  <2>1. \A i : Sending(i)' = Sending(i)
    BY <1>u, <1>1, <1>5, SendingStays
  <2>2. \A i \in Mail : SendStands(i)'
    BY <1>t, <1>u, <2>1, MailStays, MailStands
  <2> QED BY <1>4, <2>2, WorkersKeep
<1>6. CASE courier'[w].step = "answered"
  <2>1. /\ \A i : i # j => Sending(i)' = Sending(i)
        /\ \A i : i = j => Cardinality(Sending(i)') = Cardinality(Sending(i)) - 1
    BY <1>u, <1>1, <1>6, SendingEnds
  <2>2. ASSUME NEW i \in Mail PROVE SendStands(i)'
    <3>1. CASE i # j
      BY <1>t, <1>u, <2>1, <3>1, MailStays, MailStands
    <3>2. CASE i = j
      <4>1. Cardinality(Sending(i)') = Cardinality(Sending(i)) - 1
        BY <2>1, <3>2
      <4>2. IsFiniteSet(Sending(i)')
        BY MailAssumption, FS_Subset DEF Sending
      <4>3. Cardinality(Sending(i)') \in Nat
        BY <4>2, FS_CardinalityType
      <4>4. copies'[i] + Cardinality(Sending(i)') <= copies[i] + Cardinality(Sending(i)) /\ copies'[i] \in Nat
        BY <1>t, <1>u, <4>1, SendingIsFinite
      <4> QED BY <1>t, <1>u, <4>3, <4>4, MailStays, MailStandsBy
    <3> QED BY <3>1, <3>2
  <2> QED BY <1>4, <2>2, WorkersKeep
<1> QED BY <1>1, <1>5, <1>6

LEMMA SendKeeps ==
  ASSUME CodeInv, NEW w \in Couriers, NEW answer \in {"accepted", "unclear", "refused"},
         NEW given \in BOOLEAN, SendMail(w, answer, given)
  PROVE  CodeInv'
<1>t. /\ courier \in [Couriers -> CourierRow] /\ courier[w] \in CourierRow /\ channel \in ChannelRow
      /\ copies \in [Mail -> Nat] /\ mail \in [Mail -> MailRow]
      /\ oldLocks \subseteq Mail /\ courierStops \in Nat /\ proven \subseteq Nat
      /\ ChannelStands /\ channel.version \in Nat /\ CourierStands(w)
  BY CodeTypes DEF CodeInv, CodeTypeOK, ChannelRow
<1>u. UNCHANGED <<channel, mail, pastDue, oldLocks, code, courierStops>>
      /\ courier[w].step = "checked"
  BY DEF SendMail
<1> DEFINE j == courier[w].job
<1>1. /\ courier' = [courier EXCEPT ![w] = courier'[w]] /\ courier'[w] \in CourierRow
      /\ courier'[w].job = j /\ courier'[w].secret = courier[w].secret
      /\ courier'[w].step = "answered" /\ courier'[w].answer = answer
  BY <1>t DEF SendMail, CourierRow
<1>2. j \in Mail /\ courier[w].secret \in Nat
  BY <1>t, <1>u DEF CourierStands, Busy, CourierRow
<1>3. /\ proven \subseteq proven' /\ proven' \subseteq Nat
      /\ answer = "accepted" /\ j \in Trials => courier[w].secret \in proven'
  BY <1>t, <1>2 DEF SendMail
<1>4. CourierStands(w)'
  BY <1>t, <1>u, <1>1, <1>3 DEF CourierStands, Busy
<1>5. /\ copies' \in [Mail -> Nat] /\ \A i \in Mail \ {j} : copies'[i] = copies[i]
      /\ copies'[j] <= copies[j] + 1
  BY <1>t, <1>2 DEF SendMail
<1>6. WorkerKept(w)
  BY <1>t, <1>u, <1>1, <1>3, <1>4, <1>5 DEF WorkerKept, ChannelStands
<1>7. /\ \A i : i # j => Sending(i)' = Sending(i)
      /\ \A i : i = j => Cardinality(Sending(i)') = Cardinality(Sending(i)) - 1
  BY <1>u, <1>1, SendingEnds
<1>8. ASSUME NEW i \in Mail PROVE SendStands(i)'
  <3>1. CASE i # j
    BY <1>t, <1>u, <1>5, <1>7, <3>1, MailStays, MailStands
  <3>2. CASE i = j
    <4>1. Cardinality(Sending(i)') = Cardinality(Sending(i)) - 1
      BY <1>7, <3>2
    <4>2. IsFiniteSet(Sending(i)')
      BY MailAssumption, FS_Subset DEF Sending
    <4>3. Cardinality(Sending(i)') \in Nat
      BY <4>2, FS_CardinalityType
    <4>4. copies'[i] + Cardinality(Sending(i)') <= copies[i] + Cardinality(Sending(i)) /\ copies'[i] \in Nat
      BY <1>t, <1>5, <3>2, <4>1, SendingIsFinite
    <4> QED BY <1>t, <1>u, <4>3, <4>4, MailStays, MailStandsBy
  <3> QED BY <3>1, <3>2
<1> QED BY <1>6, <1>8, WorkersKeep

\* A report of a test that passed proves the credentials in use, if it is of the version in use.
LEMMA ReportKeeps ==
  ASSUME CodeInv, NEW w \in Couriers, ReportMail(w)
  PROVE  CodeInv'
<1>t. /\ courier \in [Couriers -> CourierRow] /\ courier[w] \in CourierRow /\ channel \in ChannelRow
      /\ copies \in [Mail -> Nat] /\ mail \in [Mail -> MailRow]
      /\ oldLocks \subseteq Mail /\ courierStops \in Nat /\ proven \subseteq Nat
      /\ ChannelStands /\ channel.version \in Nat /\ CourierStands(w)
  BY CodeTypes DEF CodeInv, CodeTypeOK, ChannelRow
<1> DEFINE j == courier[w].job
<1>1. /\ courier[w].step = "answered"
      /\ \/ courier[w].answer = "accepted" /\ SucceedMail(w, j)
         \/ courier[w].answer # "accepted" /\ FailMail(w, j, courier[w].answer = "unclear")
      /\ oldLocks' = { i \in oldLocks : mail'[i].status = "processing" }
      /\ courier' = [courier EXCEPT ![w] = NoTask]
      /\ UNCHANGED <<pastDue, code, proven, copies, courierStops>>
  BY DEF ReportMail
<1>2. courier'[w] = NoTask /\ courier' = [courier EXCEPT ![w] = courier'[w]] /\ NoTask \in CourierRow
      /\ courier'[w].step = "idle"
  BY <1>1, <1>t DEF NoTask, CourierRow
<1>3. /\ j \in Mail /\ mail[j] \in MailRow
      /\ mail[j].version = channel.version => courier[w].secret = channel.secret
      /\ courier[w].answer = "accepted" /\ j \in Trials => courier[w].secret \in proven
  BY <1>t, <1>1 DEF CourierStands, Busy
<1> HIDE DEF j
<1>4. /\ mail' \in [Mail -> MailRow] /\ \A i \in Mail : MailKept(i)
      /\ channel' \in ChannelRow /\ channel'.version = channel.version
      /\ channel'.secret = channel.secret /\ ChannelStands'
  <2>0. CASE UNCHANGED <<mail, channel>>
    BY <1>t, <1>1, <2>0, MailStays DEF ChannelStands
  <2>1. CASE courier[w].answer = "accepted" /\ HoldsMail(w, j) /\ SucceedMail(w, j) /\ j \notin pastDue
    <3>1. /\ mail' = [mail EXCEPT ![j].status = "sent", ![j].attempts = @ + 1, ![j].lock = NoCourier]
          /\ channel' = IF j \in Trials /\ mail[j].version = channel.version
                        THEN [channel EXCEPT !.test = "passed"] ELSE channel
          /\ mail[j].status = "processing"
      BY <2>1 DEF SucceedMail, HoldsMail
    <3>2. mail[j].attempts + 1 \in Nat
      BY <1>3 DEF MailRow
    <3>3. /\ mail'[j].status = "sent" /\ mail'[j].attempts = mail[j].attempts + 1
          /\ mail'[j].version = mail[j].version
          /\ mail'[j] \in MailRow
          /\ \A i \in Mail \ {j} : mail'[i] = mail[i]
          /\ mail' = [mail EXCEPT ![j] = mail'[j]]
      BY <1>t, <1>3, <3>1, <3>2 DEF MailRow
    <3>4. mail' \in [Mail -> MailRow] /\ \A i \in Mail : MailKept(i)
      BY <1>t, <3>1, <3>3, MailStays DEF MailKept
    <3>5. /\ channel' \in ChannelRow /\ channel'.version = channel.version
          /\ channel'.secret = channel.secret /\ ChannelStands'
      BY <1>t, <1>1, <1>3, <2>1, <3>1 DEF ChannelRow, ChannelStands
    <3> QED BY <3>4, <3>5
  <2>2. CASE HoldsMail(w, j) /\ FailMail(w, j, courier[w].answer = "unclear")
    <3>1. /\ mail' = [mail EXCEPT ![j] = ReturnedMail(j, courier[w].answer = "unclear")]
          /\ DisableUntested({j}) /\ mail[j].status = "processing"
      BY <2>2 DEF FailMail, HoldsMail
    <3>2. mail'[j] = ReturnedMail(j, courier[w].answer = "unclear") /\ \A i \in Mail \ {j} : mail'[i] = mail[i]
      BY <1>t, <1>3, <3>1
    <3>3. \A i \in Mail : MailKept(i)
      BY <1>3, <3>1, <3>2, ReturnedIsKept, MailStays
    <3>4. mail' \in [Mail -> MailRow]
      BY <1>t, <3>1, <3>3 DEF MailKept
    <3> QED BY <1>1, <3>1, <3>3, <3>4, UntestedIsDisabled
  <2> QED BY <1>1, <2>0, <2>1, <2>2 DEF SucceedMail, FailMail
<1>5. \A i : Sending(i)' = Sending(i)
  BY <1>1, <1>2, SendingStays
<1>6. channel.version <= channel'.version
  BY <1>4, <1>t DEF ChannelRow
<1>7. \A i \in Mail : SendStands(i)'
  BY <1>1, <1>4, <1>5, <1>6, MailStands
<1>8. CourierStands(w)'
  BY <1>2 DEF CourierStands, Busy
<1>9. WorkerKept(w)
  BY <1>1, <1>t, <1>2, <1>4, <1>8 DEF WorkerKept, MailKept
<1> QED BY <1>7, <1>9, WorkersKeep

LEMMA CrashKeeps ==
  ASSUME CodeInv, NEW w \in Couriers, CrashCourier(w)
  PROVE  CodeInv'
<1>t. /\ courier \in [Couriers -> CourierRow] /\ courier[w] \in CourierRow /\ channel \in ChannelRow
      /\ copies \in [Mail -> Nat] /\ mail \in [Mail -> MailRow]
      /\ oldLocks \subseteq Mail /\ courierStops \in Nat /\ proven \subseteq Nat
      /\ ChannelStands /\ channel.version \in Nat /\ CourierStands(w)
  BY CodeTypes DEF CodeInv, CodeTypeOK, ChannelRow
<1> DEFINE j == courier[w].job
<1>1. /\ courier' = [courier EXCEPT ![w] = OffDuty]
      /\ mail' = [i \in Mail |-> [mail[i] EXCEPT !.lock = IF @ = w THEN NoCourier ELSE @]]
      /\ courierStops' = courierStops + 1
      /\ UNCHANGED <<channel, pastDue, oldLocks, code, proven, copies>>
  BY DEF CrashCourier
<1>2. courier'[w] = OffDuty /\ courier' = [courier EXCEPT ![w] = courier'[w]] /\ OffDuty \in CourierRow
      /\ courier'[w].step = "off"
  BY <1>1, <1>t DEF OffDuty, NoTask, CourierRow
<1>3. \A i \in Mail : MailKept(i)
  <2> SUFFICES ASSUME NEW i \in Mail PROVE MailKept(i)
    OBVIOUS
  <2>1. mail[i] \in MailRow
    BY <1>t
  <2>2. /\ mail'[i] \in MailRow /\ mail'[i].status = mail[i].status
        /\ mail'[i].attempts = mail[i].attempts /\ mail'[i].version = mail[i].version
    BY <1>1, <2>1 DEF MailRow
  <2> QED BY <2>2 DEF MailKept
<1>4. mail' \in [Mail -> MailRow]
  BY <1>1, <1>3 DEF MailKept
<1>5. WorkerKept(w)
  BY <1>1, <1>t, <1>2, <1>3, <1>4 DEF WorkerKept, MailKept, ChannelStands, CourierStands, Busy
<1>6. CASE courier[w].step \in {"claimed", "checked"}
  <2>1. /\ \A i : i # j => Sending(i)' = Sending(i)
        /\ \A i : i = j => Cardinality(Sending(i)') = Cardinality(Sending(i)) - 1
    BY <1>2, <1>6, SendingEnds
  <2>2. ASSUME NEW i \in Mail PROVE SendStands(i)'
    <3>1. CASE i # j
      BY <1>t, <1>1, <1>3, <2>1, <3>1, MailStands
    <3>2. CASE i = j
      <4>1. Cardinality(Sending(i)') = Cardinality(Sending(i)) - 1
        BY <2>1, <3>2
      <4>2. IsFiniteSet(Sending(i)')
        BY MailAssumption, FS_Subset DEF Sending
      <4>3. Cardinality(Sending(i)') \in Nat
        BY <4>2, FS_CardinalityType
      <4>4. copies'[i] + Cardinality(Sending(i)') <= copies[i] + Cardinality(Sending(i)) /\ copies'[i] \in Nat
        BY <1>t, <1>1, <4>1, SendingIsFinite
      <4> QED BY <1>t, <1>1, <1>3, <4>3, <4>4, MailStandsBy
    <3> QED BY <3>1, <3>2
  <2> QED BY <1>5, <2>2, WorkersKeep
<1>7. CASE courier[w].step \notin {"claimed", "checked"}
  <2>1. \A i : Sending(i)' = Sending(i)
    BY <1>2, <1>7, SendingStays
  <2>2. \A i \in Mail : SendStands(i)'
    BY <1>t, <1>1, <1>3, <2>1, MailStands
  <2> QED BY <1>5, <2>2, WorkersKeep
<1> QED BY <1>6, <1>7

LEMMA CodeInvKept == CodeInv /\ [CodeNext]_codeVars => CodeInv'
<1> SUFFICES ASSUME CodeInv, [CodeNext]_codeVars PROVE CodeInv'
  OBVIOUS
<1>1. ASSUME NEW w \in Couriers,
             \/ StartCourier(w) \/ ClaimNothing(w) \/ CheckMail(w) \/ ReportMail(w) \/ CrashCourier(w)
             \/ \E j \in Mail : ClaimMail(w, j)
             \/ \E a \in {"accepted", "unclear", "refused"}, g \in BOOLEAN : SendMail(w, a, g)
      PROVE  CodeInv'
  BY <1>1, StartKeeps, ClaimsKeep, CheckKeeps, SendKeeps, ReportKeeps, CrashKeeps
<1>2. CASE UNCHANGED codeVars
  <2>1. \A j : Sending(j)' = Sending(j)
    BY <1>2 DEF codeVars, Sending
  <2>2. \A j \in Mail : SendStands(j)'
    BY <1>2, <2>1 DEF codeVars, CodeInv, SendStands, OpenClaims
  <2> QED BY <1>2, <2>2 DEF codeVars, CodeInv, CodeTypeOK, ChannelStands, CourierStands
<1> QED BY <1>1, <1>2, StaffKeep, CustomersKeep DEF CodeNext

\* A channel in use is one whose present credentials took a test message, and a customer is
\* sent a code at most as often as attempts were counted, and MaxSends times.
THEOREM CodesSparing == CodeSpec => []CodesArriveSparingly
<1>1. ASSUME CodeInv PROVE CodesArriveSparingly
  <2>1. ActiveIsProven
    BY <1>1 DEF CodeInv, ChannelStands, ActiveIsProven
  <2>2. ASSUME NEW j \in Mail
        PROVE  copies[j] <= MaxSends /\ copies[j] <= mail[j].attempts + OpenClaims(j)
    <3>1. SendStands(j) /\ copies[j] \in Nat /\ mail[j].attempts \in Nat /\ Cardinality(Sending(j)) \in Nat
      BY <1>1, CodeTypes, SendingIsFinite DEF MailRow
    <3> QED BY <3>1, SendsAssumption DEF SendStands, OpenClaims
  <2> QED BY <2>1, <2>2 DEF CodesArriveSparingly, SentSparingly, OpenClaims
<1> QED BY <1>1, CodeInitially, CodeInvKept, PTL DEF CodeSpec

\* The rows of channel, challenges and jobs, and what workers remember, have their types.
THEOREM CodesTyped == CodeSpec => []CodeTypeOK
<1>1. CodeInv => CodeTypeOK
  BY DEF CodeInv
<1> QED BY <1>1, CodeInitially, CodeInvKept, PTL DEF CodeSpec

-----------------------------------------------------------------------------
(* Domains and the directory: locks exclude, and versions tell what was seen. *)

\* A request that has locked its domain, and whether it has.
LockedSteps == {"locked", "clearing", "cleared", "updated"}

\* No two requests have locked one domain.
HostLocksExclude ==
  \A q, r \in SiteEditors : q # r => HostLocks(q) \cap HostLocks(r) = {}

\* The version a request was shown tells whether the row is as it was shown, once it
\* has locked the row it is; it clears others to take their place; and it proves a
\* domain whose record was seen.
EditStands(q) ==
  LET x == siteEdit[q] IN
  x # NoSiteEdit =>
    /\ x.step = "settings" =>
         /\ x.shown.version <= siteRow.version
         /\ x.shown.version = siteRow.version => x.shown = siteRow
    /\ x.step # "settings" =>
         /\ hostRow[x.host].made /\ x.shown.version <= hostRow[x.host].version
         /\ x.shown.version = hostRow[x.host].version => x.shown = hostRow[x.host]
    /\ x.step \in LockedSteps => x.shown.version = hostRow[x.host].version
    /\ x.kind = "verify" /\ x.step \notin {"page", "settings"} => x.host \in recordSeen
    /\ x.others # {} => x.primary = "yes"
    /\ x.shown.version < MaxHostVersion

\* What was true of a host the last time it changed is no tick old, nor is what
\* a look-up under way was told.
AnswersStand ==
  /\ \A h \in Hosts : answerAge[h][ResolveHost(h)] = 0
  /\ \A v \in Visitors : lookup[v] # NoLookup => answerAge[lookup[v].host][lookup[v].answer] = 0
  /\ \A p \in Processes, h \in Hosts : hostCache[p][h].left > 0 => hostCache[p][h].answer # "none"

\* A primary domain is one that was made.
MadeIfPrimary == \A h \in Hosts : hostRow[h].primary => hostRow[h].made

EditsStand ==
  HostLocksExclude /\ ProvenIfVerified /\ MadeIfPrimary /\ \A q \in SiteEditors : EditStands(q)

SitesInv == SitesTypeOK /\ EditsStand /\ AnswersStand /\ AnswersAreRecent

LEMMA SitesInitially == SitesInit => SitesInv
<1> SUFFICES ASSUME SitesInit PROVE SitesInv
  OBVIOUS
<1> USE SitesAssumption
<1>1. NoHost \in HostRows
  BY DEF NoHost, HostRows
<1>2. [NoHost EXCEPT !.made = TRUE, !.verified = TRUE, !.primary = TRUE] \in HostRows
  <2>1. \A r \in HostRows :
          [r EXCEPT !.made = TRUE, !.verified = TRUE, !.primary = TRUE] \in HostRows
    BY DEF HostRows
  <2> QED BY <1>1, <2>1
<1>3. hostRow \in [Hosts -> HostRows] /\ siteRow \in SiteRows
  BY <1>1, <1>2 DEF SitesInit, SiteRows
<1>4. NoHostEntry \in [answer: HostAnswers \cup {"none"}, left: 0 .. PositiveLife]
  BY DEF NoHostEntry
<1>5. answerAge \in [Hosts -> [HostAnswers -> 0 .. PositiveLife + 1]]
  BY DEF SitesInit
<1>6. SitesTypeOK
  BY <1>3, <1>4, <1>5 DEF SitesInit, SitesTypeOK
<1>7. \A h \in Hosts : ResolveHost(h) = IF h = HomeHost THEN "active" ELSE "unknown"
  BY DEF SitesInit, ResolveHost, NoHost
<1>8. AnswersStand
  BY <1>7 DEF SitesInit, AnswersStand, HostAnswers, NoHostEntry
<1>9. AnswersAreRecent
  BY DEF SitesInit, AnswersAreRecent, NoHostEntry
<1>10. EditsStand
  BY DEF SitesInit, EditsStand, HostLocksExclude, HostLocks, ProvenIfVerified, MadeIfPrimary, EditStands, NoHost
<1> QED BY <1>6, <1>8, <1>9, <1>10 DEF SitesInv

-----------------------------------------------------------------------------
\* The answers.

LEMMA AnswerTypes ==
  ASSUME SitesTypeOK, NEW h \in Hosts PROVE ResolveHost(h) \in HostAnswers
  BY DEF SitesTypeOK, ResolveHost, HostAnswers, SiteRows

\* A change of domains or of the merchant is a change of what is true now.
LEMMA RefreshKeeps ==
  ASSUME SitesInv, AnswersRefreshed, UNCHANGED <<hostCache, lookup>>,
         hostRow' \in [Hosts -> HostRows], siteRow' \in SiteRows
  PROVE  /\ answerAge' \in [Hosts -> [HostAnswers -> 0 .. PositiveLife + 1]]
         /\ AnswersStand' /\ AnswersAreRecent'
<1> USE SitesAssumption
<1>1. \A h \in Hosts : ResolveHost(h)' \in HostAnswers
  BY DEF ResolveHost, HostAnswers, SiteRows
<1>2. answerAge \in [Hosts -> [HostAnswers -> 0 .. PositiveLife + 1]]
  BY DEF SitesInv, SitesTypeOK
<1>3. \A h \in Hosts, a \in HostAnswers :
        answerAge'[h][a] = IF a = ResolveHost(h)' THEN 0 ELSE answerAge[h][a]
  BY <1>1, <1>2 DEF AnswersRefreshed
<1>4. answerAge' \in [Hosts -> [HostAnswers -> 0 .. PositiveLife + 1]]
  <2>1. 0 \in 0 .. PositiveLife + 1
    OBVIOUS
  <2>2. \A h \in Hosts :
          [answerAge[h] EXCEPT ![ResolveHost(h)'] = 0] \in [HostAnswers -> 0 .. PositiveLife + 1]
    BY <1>2, <2>1, Zenon
  <2> QED BY <2>2, Zenon DEF AnswersRefreshed
<1>5. \A h \in Hosts, a \in HostAnswers : answerAge'[h][a] <= answerAge[h][a]
  BY <1>2, <1>3
<1>6. AnswersStand'
  <2>1. \A v \in Visitors : lookup[v] # NoLookup => lookup[v].host \in Hosts /\ lookup[v].answer \in HostAnswers
    BY DEF SitesInv, SitesTypeOK, LookupRow
  <2> QED BY <1>1, <1>3, <2>1 DEF SitesInv, AnswersStand
<1>7. AnswersAreRecent'
  <2> SUFFICES ASSUME NEW p \in Processes, NEW h \in Hosts, hostCache[p][h].left > 0
               PROVE  answerAge'[h][hostCache[p][h].answer] <=
                        (IF hostCache[p][h].answer = "unknown" THEN NegativeLife ELSE PositiveLife)
                        - hostCache[p][h].left
    BY DEF AnswersAreRecent
  <2> DEFINE entry == hostCache[p][h]
  <2>1. entry \in [answer: HostAnswers \cup {"none"}, left: 0 .. PositiveLife]
    BY DEF SitesInv, SitesTypeOK
  <2>2. entry.answer \in HostAnswers
    BY <2>1 DEF SitesInv, AnswersStand
  <2>3. answerAge[h][entry.answer] <=
          (IF entry.answer = "unknown" THEN NegativeLife ELSE PositiveLife) - entry.left
    BY DEF SitesInv, AnswersAreRecent
  <2>4. answerAge[h][entry.answer] \in Int /\ answerAge'[h][entry.answer] \in Int
    BY <1>2, <1>4, <2>2
  <2>5. answerAge'[h][entry.answer] <= answerAge[h][entry.answer]
    BY <1>5, <2>2
  <2>6. entry.left \in Int
    BY <2>1
  <2> HIDE DEF entry
  <2>7. answerAge'[h][entry.answer] <=
          (IF entry.answer = "unknown" THEN NegativeLife ELSE PositiveLife) - entry.left
    BY <2>3, <2>4, <2>5, <2>6
  <2> QED BY <2>7 DEF entry
<1> QED BY <1>4, <1>6, <1>7

\* Where neither changes, nor what is remembered, the same is true.
LEMMA AnswersStay ==
  ASSUME AnswersStand, AnswersAreRecent, LookupsStay, UNCHANGED <<hostRow, siteRow>>
  PROVE  AnswersStand' /\ AnswersAreRecent'
  BY DEF LookupsStay, lookupVars, AnswersStand, AnswersAreRecent, ResolveHost

-----------------------------------------------------------------------------
\* The requests of staff.

LEMMA EditFields ==
  ASSUME SitesTypeOK, NEW q \in SiteEditors, siteEdit[q] # NoSiteEdit
  PROVE  /\ siteEdit[q] \in SiteEditRow
         /\ siteEdit[q].host \in Hosts /\ siteEdit[q].others \subseteq Hosts
         /\ siteEdit[q].shown.version \in 0 .. MaxHostVersion
         /\ hostRow[siteEdit[q].host] \in HostRows
         /\ hostRow[siteEdit[q].host].version \in 0 .. MaxHostVersion
<1>1. siteEdit[q] \in SiteEditRow
  BY DEF SitesTypeOK
<1>2. siteEdit[q].host \in Hosts /\ siteEdit[q].others \subseteq Hosts
        /\ siteEdit[q].shown \in HostRows \cup SiteRows
  BY <1>1 DEF SiteEditRow
<1>3. hostRow[siteEdit[q].host] \in HostRows
  BY <1>2 DEF SitesTypeOK
<1>4. \A r \in HostRows : r.version \in 0 .. MaxHostVersion
  BY DEF HostRows
<1>5. \A r \in SiteRows : r.version \in 0 .. MaxHostVersion
  BY DEF SiteRows
<1> QED BY <1>1, <1>2, <1>3, <1>4, <1>5

\* One request goes on, and nothing else changes.
EditGoesOn(q) ==
  /\ UNCHANGED <<hostRow, siteRow>> /\ recordSeen \subseteq recordSeen' /\ recordSeen' \subseteq Hosts
  /\ txtRecord' \subseteq Hosts
  /\ siteEdit' \in [SiteEditors -> SiteEditRow \cup {NoSiteEdit}]
  /\ \A r \in SiteEditors \ {q} : siteEdit'[r] = siteEdit[r]
  /\ \A h \in HostLocks(q)' : h \in HostLocks(q) \/ ~HostLocked(h)
  /\ EditStands(q)'

LEMMA EditKeeps ==
  ASSUME SitesInv, NEW q \in SiteEditors, EditGoesOn(q)
  PROVE  EditsStand' /\ UNCHANGED <<hostRow, siteRow>>
<1>1. \A r \in SiteEditors \ {q} : HostLocks(r)' = HostLocks(r) /\ EditStands(r)'
  <2> SUFFICES ASSUME NEW r \in SiteEditors \ {q}
               PROVE  HostLocks(r)' = HostLocks(r) /\ EditStands(r)'
    OBVIOUS
  <2>1. siteEdit'[r] = siteEdit[r] /\ EditStands(r)
    BY DEF EditGoesOn, SitesInv, EditsStand
  <2>2. HostLocks(r)' = HostLocks(r)
    BY <2>1 DEF HostLocks
  <2>3. hostRow' = hostRow /\ siteRow' = siteRow /\ recordSeen \subseteq recordSeen'
    BY DEF EditGoesOn
  <2> QED BY <2>1, <2>2, <2>3 DEF EditStands
<1>2. HostLocksExclude'
  BY <1>1 DEF EditGoesOn, HostLocksExclude, HostLocked, SitesInv, EditsStand
<1>3. ProvenIfVerified' /\ MadeIfPrimary'
  BY DEF EditGoesOn, SitesInv, EditsStand, ProvenIfVerified, MadeIfPrimary
<1>4. \A r \in SiteEditors : EditStands(r)'
  BY <1>1 DEF EditGoesOn
<1> QED BY <1>2, <1>3, <1>4 DEF EditsStand, EditGoesOn

\* One request becomes another record, which stands.
LEMMA EditBecomes ==
  ASSUME SitesInv, NEW q \in SiteEditors, NEW new \in SiteEditRow \cup {NoSiteEdit},
         siteEdit' = [siteEdit EXCEPT ![q] = new]
  PROVE  /\ siteEdit' \in [SiteEditors -> SiteEditRow \cup {NoSiteEdit}]
         /\ \A r \in SiteEditors \ {q} : siteEdit'[r] = siteEdit[r]
         /\ siteEdit'[q] = new
  BY DEF SitesInv, SitesTypeOK

LEMMA DropKeeps ==
  ASSUME SitesInv, NEW q \in SiteEditors, siteEdit' = [siteEdit EXCEPT ![q] = NoSiteEdit],
         UNCHANGED <<hostRow, siteRow, txtRecord, recordSeen>>
  PROVE  EditGoesOn(q)
<1>1. siteEdit'[q] = NoSiteEdit
  BY EditBecomes
<1>2. HostLocks(q)' = {} /\ EditStands(q)'
  BY <1>1 DEF HostLocks, EditStands
<1> QED BY <1>2, EditBecomes DEF EditGoesOn, SitesInv, SitesTypeOK

LEMMA BeginKeeps ==
  ASSUME SitesInv, NEW q \in SiteEditors, NEW h \in Hosts, NEW x \in SiteEditRow,
         x.step = "page", x.others = {}, BeginSiteEdit(q, h, x)
  PROVE  EditGoesOn(q)
<1> DEFINE new == [x EXCEPT !.host = h, !.shown = hostRow[h]]
<1>1. hostRow[h] \in HostRows
  BY DEF SitesInv, SitesTypeOK
<1>2. new \in SiteEditRow
  BY <1>1 DEF SiteEditRow
<1>3. new.step = "page" /\ new.host = h /\ new.shown = hostRow[h] /\ new.others = {}
  BY DEF SiteEditRow
<1>4. siteEdit' = [siteEdit EXCEPT ![q] = new] /\ hostRow[h].made
      /\ hostRow[h].version < MaxHostVersion
  BY DEF BeginSiteEdit
<1>5. hostRow[h].version \in Int
  BY <1>1 DEF HostRows
<1> HIDE DEF new
<1>6. siteEdit'[q] = new
  BY <1>2, <1>4, EditBecomes
<1>7. HostLocks(q)' = {}
  BY <1>3, <1>6 DEF HostLocks
<1>8. UNCHANGED <<hostRow, siteRow, txtRecord, recordSeen>>
  BY DEF BeginSiteEdit
<1>9. EditStands(q)'
  BY <1>3, <1>4, <1>5, <1>6, <1>8 DEF EditStands, LockedSteps
<1> QED BY <1>2, <1>4, <1>7, <1>8, <1>9, EditBecomes DEF EditGoesOn, SitesInv, SitesTypeOK

LEMMA PageIsARow ==
  /\ NewSiteEdit \in SiteEditRow /\ NewSiteEdit.step = "page" /\ NewSiteEdit.others = {}
  /\ NewSiteEdit.kind = "update"
<1>1. NoHost \in HostRows
  BY SitesAssumption DEF NoHost, HostRows
<1> QED BY <1>1, SitesAssumption DEF NewSiteEdit, SiteEditRow

LEMMA BeginningsKeep ==
  ASSUME SitesInv, NEW q \in SiteEditors, NEW h \in Hosts,
         \/ BeginVerification(q, h)
         \/ \E tls \in {"active", "failed"} : BeginTls(q, h, tls)
         \/ \E enabled, primary \in {"yes", "no", "same"} : BeginUpdate(q, h, enabled, primary)
  PROVE  EditGoesOn(q)
<1> DEFINE Base == NewSiteEdit
<1>0. Base \in SiteEditRow /\ Base.step = "page" /\ Base.others = {}
  BY PageIsARow
<1> HIDE DEF Base
<1>1. CASE BeginVerification(q, h)
  <2>1. PICK p \in Processes :
          BeginSiteEdit(q, h, [Base EXCEPT !.kind = "verify", !.process = p])
    BY <1>1 DEF BeginVerification, Base
  <2> DEFINE x == [Base EXCEPT !.kind = "verify", !.process = p]
  <2>2. x \in SiteEditRow /\ x.step = "page" /\ x.others = {}
    BY <1>0 DEF SiteEditRow
  <2>3. BeginSiteEdit(q, h, x)
    BY <2>1
  <2> HIDE DEF x
  <2> QED BY <2>2, <2>3, BeginKeeps
<1>2. CASE \E tls \in {"active", "failed"} : BeginTls(q, h, tls)
  <2>1. PICK tls \in {"active", "failed"}, p \in Processes :
          BeginSiteEdit(q, h, [Base EXCEPT !.kind = "tls", !.tls = tls, !.process = p])
    BY <1>2 DEF BeginTls, Base
  <2> DEFINE x == [Base EXCEPT !.kind = "tls", !.tls = tls, !.process = p]
  <2>2. x \in SiteEditRow /\ x.step = "page" /\ x.others = {}
    BY <1>0 DEF SiteEditRow
  <2>3. BeginSiteEdit(q, h, x)
    BY <2>1
  <2> HIDE DEF x
  <2> QED BY <2>2, <2>3, BeginKeeps
<1>3. CASE \E enabled, primary \in {"yes", "no", "same"} : BeginUpdate(q, h, enabled, primary)
  <2>1. PICK enabled \in {"yes", "no", "same"}, primary \in {"yes", "no", "same"},
             p \in Processes :
          BeginSiteEdit(q, h, [Base EXCEPT !.enabled = enabled, !.primary = primary, !.process = p])
    BY <1>3 DEF BeginUpdate, Base
  <2> DEFINE x == [Base EXCEPT !.enabled = enabled, !.primary = primary, !.process = p]
  <2>2. x \in SiteEditRow /\ x.step = "page" /\ x.others = {}
    BY <1>0 DEF SiteEditRow
  <2>3. BeginSiteEdit(q, h, x)
    BY <2>1
  <2> HIDE DEF x
  <2> QED BY <2>2, <2>3, BeginKeeps
<1> QED BY <1>1, <1>2, <1>3

LEMMA SettingsKeep ==
  ASSUME SitesInv, NEW q \in SiteEditors, BeginSettings(q) PROVE EditGoesOn(q)
<1> DEFINE new == [NewSiteEdit EXCEPT !.step = "settings", !.shown = siteRow]
<1>1. siteRow \in SiteRows
  BY DEF SitesInv, SitesTypeOK
<1>2. \A x \in SiteEditRow :
        /\ [x EXCEPT !.step = "settings", !.shown = siteRow] \in SiteEditRow
        /\ [x EXCEPT !.step = "settings", !.shown = siteRow].step = "settings"
        /\ [x EXCEPT !.step = "settings", !.shown = siteRow].shown = siteRow
        /\ [x EXCEPT !.step = "settings", !.shown = siteRow].others = x.others
  BY ZenonT(60), <1>1 DEF SiteEditRow
<1>3. new \in SiteEditRow /\ new.step = "settings" /\ new.shown = siteRow /\ new.others = {}
  BY <1>2, PageIsARow
<1>4. siteEdit' = [siteEdit EXCEPT ![q] = new] /\ siteRow.version < MaxHostVersion
  BY DEF BeginSettings
<1>5. siteRow.version \in Int
  BY <1>1 DEF SiteRows
<1> HIDE DEF new
<1>6. siteEdit'[q] = new
  BY <1>3, <1>4, EditBecomes
<1>7. HostLocks(q)' = {}
  BY <1>3, <1>6 DEF HostLocks
<1>8. UNCHANGED <<hostRow, siteRow, txtRecord, recordSeen>>
  BY DEF BeginSettings
<1>9. EditStands(q)'
  BY <1>3, <1>4, <1>5, <1>6, <1>8 DEF EditStands, LockedSteps
<1> QED BY <1>3, <1>4, <1>7, <1>8, <1>9, EditBecomes DEF EditGoesOn, SitesInv, SitesTypeOK

\* A request takes a step, or locks what nobody has locked.
LEMMA StepsKeep ==
  ASSUME SitesInv, NEW q \in SiteEditors, siteEdit[q] # NoSiteEdit,
         NEW step \in {"proven", "locked", "clearing", "cleared", "updated"},
         NEW others \in SUBSET Hosts,
         siteEdit' = [siteEdit EXCEPT ![q] = [@ EXCEPT !.step = step, !.others = others]],
         UNCHANGED <<hostRow, siteRow, txtRecord>>,
         recordSeen \subseteq recordSeen' /\ recordSeen' \subseteq Hosts,
         siteEdit[q].step # "settings",
         siteEdit[q].kind = "verify" => siteEdit[q].host \in recordSeen',
         step # "proven" => siteEdit[q].shown.version = hostRow[siteEdit[q].host].version,
         step \in {"locked", "clearing", "cleared", "updated"} =>
           siteEdit[q].host \in HostLocks(q) \/ ~HostLocked(siteEdit[q].host),
         step \in {"cleared", "updated"} =>
           \A h \in others : h \in HostLocks(q) \/ ~HostLocked(h),
         others # {} => siteEdit[q].primary = "yes"
  PROVE  /\ EditGoesOn(q)
         /\ siteEdit'[q].host = siteEdit[q].host
<1> DEFINE x == siteEdit[q]
           new == [x EXCEPT !.step = step, !.others = others]
<1>1. x \in SiteEditRow /\ x.host \in Hosts
  BY EditFields DEF SitesInv
<1> HIDE DEF x
<1>2. new \in SiteEditRow
  BY <1>1 DEF SiteEditRow
<1>3. /\ new.step = step /\ new.others = others /\ new.host = x.host /\ new.kind = x.kind
      /\ new.shown = x.shown /\ new.primary = x.primary
  BY <1>1 DEF SiteEditRow
<1>4. siteEdit' = [siteEdit EXCEPT ![q] = new]
  BY DEF x
<1> HIDE DEF new
<1>5. siteEdit'[q] = new
  BY <1>2, <1>4, EditBecomes
<1>6. EditStands(q)
  BY DEF SitesInv, EditsStand
<1>7. EditStands(q)'
  BY <1>3, <1>5, <1>6 DEF EditStands, LockedSteps, x
<1>8. \A h \in HostLocks(q)' : h \in HostLocks(q) \/ ~HostLocked(h)
  BY <1>3, <1>5 DEF HostLocks, x
<1>9. siteEdit'[q].host = siteEdit[q].host
  BY <1>3, <1>5 DEF x
<1>10. hostRow' = hostRow /\ siteRow' = siteRow /\ txtRecord' \subseteq Hosts
  BY DEF SitesInv, SitesTypeOK
<1> QED BY <1>2, <1>4, <1>7, <1>8, <1>9, <1>10, EditBecomes DEF EditGoesOn

LEMMA RequestsKeep ==
  ASSUME SitesInv, NEW q \in SiteEditors,
         LookUpRecord(q) \/ LockDomain(q) \/ BeginClearing(q) \/ FinishClearing(q)
  PROVE  EditGoesOn(q)
<1>0. siteEdit[q] # NoSiteEdit
  BY DEF LookUpRecord, LockDomain, BeginClearing, FinishClearing
<1> DEFINE x == siteEdit[q]
<1>1. x \in SiteEditRow /\ x.host \in Hosts /\ x.others \subseteq Hosts
  BY <1>0, EditFields DEF SitesInv
<1>2. EditStands(q) /\ recordSeen \subseteq Hosts
  BY DEF SitesInv, EditsStand, SitesTypeOK
<1>3. CASE LookUpRecord(q)
  <2>1. siteEdit' = [siteEdit EXCEPT ![q] = [@ EXCEPT !.step = "proven", !.others = x.others]]
    BY <1>1, <1>3 DEF LookUpRecord, SiteEditRow
  <2>2. /\ recordSeen' = recordSeen \cup {x.host}
        /\ UNCHANGED <<hostRow, siteRow, txtRecord>> /\ x.step = "page"
    BY <1>3 DEF LookUpRecord
  <2>3. x.others # {} => x.primary = "yes"
    BY <1>0, <1>2 DEF EditStands
  <2> QED BY <1>0, <1>1, <1>2, <2>1, <2>2, <2>3, StepsKeep
<1>4. CASE LockDomain(q) /\ HostChangeAllowed(x, hostRow[x.host])
  <2>1. siteEdit' = [siteEdit EXCEPT ![q] = [@ EXCEPT !.step = "locked", !.others = x.others]]
    BY <1>1, <1>4 DEF LockDomain, SiteEditRow
  <2>2. /\ UNCHANGED <<hostRow, siteRow, txtRecord, recordSeen>> /\ ~HostLocked(x.host)
        /\ x.step = IF x.kind = "verify" THEN "proven" ELSE "page"
    BY <1>4 DEF LockDomain
  <2>3. hostRow[x.host].version = x.shown.version
    BY <1>4 DEF HostChangeAllowed
  <2>4. /\ x.others # {} => x.primary = "yes"
        /\ x.kind = "verify" => x.host \in recordSeen
    BY <1>0, <1>2, <2>2 DEF EditStands
  <2> QED BY <1>0, <1>1, <1>2, <2>1, <2>2, <2>3, <2>4, StepsKeep
<1>5. CASE LockDomain(q) /\ ~HostChangeAllowed(x, hostRow[x.host])
  <2>1. siteEdit' = [siteEdit EXCEPT ![q] = NoSiteEdit]
    BY <1>5 DEF LockDomain
  <2> QED BY <1>5, <2>1, DropKeeps DEF LockDomain
<1>6. CASE BeginClearing(q)
  <2> DEFINE others == {h \in Hosts \ {x.host} : hostRow[h].primary}
  <2>1. siteEdit' = [siteEdit EXCEPT ![q] = [@ EXCEPT !.step = "clearing", !.others = others]]
    BY <1>6 DEF BeginClearing
  <2>2. /\ UNCHANGED <<hostRow, siteRow, txtRecord, recordSeen>>
        /\ x.step = "locked" /\ x.primary = "yes"
    BY <1>6 DEF BeginClearing
  <2>3. /\ x.host \in HostLocks(q) /\ hostRow[x.host].version = x.shown.version
        /\ x.kind = "verify" => x.host \in recordSeen
    BY <1>0, <1>2, <2>2 DEF HostLocks, EditStands, LockedSteps
  <2>4. others \in SUBSET Hosts
    OBVIOUS
  <2> HIDE DEF others
  <2> QED BY <1>0, <1>2, <2>1, <2>2, <2>3, <2>4, StepsKeep
<1>7. CASE FinishClearing(q)
  <2> DEFINE others == {h \in x.others : hostRow[h].primary}
  <2>1. siteEdit' = [siteEdit EXCEPT ![q] = [@ EXCEPT !.step = "cleared", !.others = others]]
    BY <1>7 DEF FinishClearing
  <2>2. /\ UNCHANGED <<hostRow, siteRow, txtRecord, recordSeen>>
        /\ x.step = "clearing" /\ \A h \in others : ~HostLocked(h)
    BY <1>7 DEF FinishClearing
  <2>3. /\ x.host \in HostLocks(q) /\ hostRow[x.host].version = x.shown.version
        /\ x.kind = "verify" => x.host \in recordSeen
        /\ others # {} => x.primary = "yes"
    BY <1>0, <1>2, <2>2 DEF HostLocks, EditStands, LockedSteps
  <2>4. others \in SUBSET Hosts
    BY <1>1
  <2> HIDE DEF others
  <2> QED BY <1>0, <1>2, <2>1, <2>2, <2>3, <2>4, StepsKeep
<1> QED BY <1>3, <1>4, <1>5, <1>6, <1>7

\* Forgetting a host leaves nothing that is too old.
LEMMA UpdateKeeps ==
  ASSUME SitesInv, NEW q \in SiteEditors, UpdateDomain(q) PROVE SitesInv'
<1> DEFINE x == siteEdit[q]
<1>0. siteEdit[q] # NoSiteEdit
  BY DEF UpdateDomain
<1>1. x \in SiteEditRow /\ x.host \in Hosts /\ x.others \subseteq Hosts
  BY <1>0, EditFields DEF SitesInv
<1>2. EditStands(q) /\ recordSeen \subseteq Hosts
  BY DEF SitesInv, EditsStand, SitesTypeOK
<1>3. siteEdit' = [siteEdit EXCEPT ![q] = [@ EXCEPT !.step = "updated", !.others = x.others]]
  BY <1>1 DEF UpdateDomain, SiteEditRow
<1>4. /\ UNCHANGED <<hostRow, siteRow, txtRecord, recordSeen, lookup, answerAge>>
      /\ x.step \in {"cleared", "locked"} /\ (x.step = "locked" => x.primary # "yes")
  BY DEF UpdateDomain
<1>5. /\ x.host \in HostLocks(q) /\ hostRow[x.host].version = x.shown.version
      /\ x.kind = "verify" => x.host \in recordSeen
      /\ x.others # {} => x.primary = "yes"
  BY <1>0, <1>2, <1>4 DEF HostLocks, EditStands, LockedSteps
<1>6. \A h \in x.others : h \in HostLocks(q)
  BY <1>0, <1>4, <1>5 DEF HostLocks
<1>7. EditGoesOn(q)
  BY <1>0, <1>1, <1>2, <1>3, <1>4, <1>5, <1>6, StepsKeep
<1>8. EditsStand' /\ UNCHANGED <<hostRow, siteRow>>
  BY <1>7, EditKeeps
<1> DEFINE Entry == [answer: HostAnswers \cup {"none"}, left: 0 .. PositiveLife]
<1>9. hostCache \in [Processes -> [Hosts -> Entry]]
  BY DEF SitesInv, SitesTypeOK
<1>10. NoHostEntry \in Entry /\ NoHostEntry.left = 0
  BY SitesAssumption DEF NoHostEntry
<1>11. hostCache' = [hostCache EXCEPT ![x.process] = [@ EXCEPT ![x.host] = NoHostEntry]]
  BY DEF UpdateDomain
<1> HIDE DEF Entry, x
<1>12. \A p \in Processes : [hostCache[p] EXCEPT ![x.host] = NoHostEntry] \in [Hosts -> Entry]
  BY <1>9, <1>10
<1>13. hostCache' \in [Processes -> [Hosts -> Entry]]
  BY <1>9, <1>11, <1>12
<1>14. \A p \in Processes, h \in Hosts :
         hostCache'[p][h] = NoHostEntry \/ hostCache'[p][h] = hostCache[p][h]
  BY <1>1, <1>9, <1>11
<1>15. SitesTypeOK'
  BY <1>4, <1>7, <1>13 DEF EditGoesOn, SitesInv, SitesTypeOK, Entry
<1>16. AnswersStand'
  <2>1. \A h \in Hosts : ResolveHost(h)' = ResolveHost(h)
    BY <1>4 DEF ResolveHost
  <2> QED BY <1>4, <1>10, <1>14, <2>1 DEF SitesInv, AnswersStand
<1>17. AnswersAreRecent'
  BY <1>4, <1>10, <1>14 DEF SitesInv, AnswersAreRecent
<1> QED BY <1>8, <1>15, <1>16, <1>17 DEF SitesInv

\* A row that is written has what the next request needs of a row.
LEMMA WrittenRows ==
  ASSUME NEW row \in HostRows, NEW x \in SiteEditRow
  PROVE  /\ row.version + 1 <= MaxHostVersion => HostWritten(x, row) \in HostRows
         /\ row.version + 1 <= MaxHostVersion => PrimaryTaken(row) \in HostRows
         /\ HostWritten(x, row).version = row.version + 1
         /\ HostWritten(x, row).made = row.made /\ HostWritten(x, row).custom = row.custom
         /\ HostWritten(x, row).verified <=> row.verified \/ x.kind = "verify"
         /\ x.primary = "yes" => HostWritten(x, row).primary
         /\ x.primary = "same" => HostWritten(x, row).primary = row.primary
         /\ PrimaryTaken(row).version = row.version + 1
         /\ PrimaryTaken(row).made = row.made /\ PrimaryTaken(row).custom = row.custom
         /\ PrimaryTaken(row).verified = row.verified /\ ~PrimaryTaken(row).primary
<1> USE SitesAssumption
<1>1. row.version \in 0 .. MaxHostVersion /\ row.tls \in {"pending", "provisioning", "active", "failed", "disabled"}
  BY DEF HostRows
<1>2. x.tls \in {"active", "failed"}
  BY DEF SiteEditRow
<1> DEFINE tls == CASE x.kind = "tls"       -> x.tls
                   [] x.kind = "verify"    -> "provisioning"
                   [] x.enabled = "yes"    -> IF row.verified THEN "provisioning" ELSE "pending"
                   [] x.enabled = "no"    -> "disabled"
                   [] OTHER                -> row.tls
           verified == row.verified \/ x.kind = "verify"
           enabled == IF x.enabled = "same" THEN row.enabled ELSE x.enabled = "yes"
           primary == IF x.primary = "same" THEN row.primary ELSE x.primary = "yes"
<1>3. tls \in {"pending", "provisioning", "active", "failed", "disabled"}
  BY <1>1, <1>2
<1>4. verified \in BOOLEAN /\ enabled \in BOOLEAN /\ primary \in BOOLEAN
  BY DEF HostRows
<1>5. HostWritten(x, row) =
        [row EXCEPT !.version = row.version + 1, !.verified = verified, !.tls = tls,
                    !.enabled = enabled, !.primary = primary]
  BY DEF HostWritten, HostRows
<1>6. row.version + 1 \in Nat
  BY <1>1
<1> HIDE DEF tls, enabled, verified, primary
<1>7. HostWritten(x, row) =
        [made |-> row.made, custom |-> row.custom, verified |-> verified, tls |-> tls,
         primary |-> primary, enabled |-> enabled, version |-> row.version + 1]
  BY <1>5 DEF HostRows
<1>8. PrimaryTaken(row) =
        [made |-> row.made, custom |-> row.custom, verified |-> row.verified, tls |-> row.tls,
         primary |-> FALSE, enabled |-> row.enabled, version |-> row.version + 1]
  <2>1. PrimaryTaken(row) = [row EXCEPT !.primary = FALSE, !.version = row.version + 1]
    BY DEF PrimaryTaken, HostRows
  <2> QED BY <2>1 DEF HostRows
<1>9. row.made \in BOOLEAN /\ row.custom \in BOOLEAN /\ row.verified \in BOOLEAN /\ row.enabled \in BOOLEAN
  BY DEF HostRows
<1>10. row.version + 1 <= MaxHostVersion => row.version + 1 \in 0 .. MaxHostVersion
  BY <1>6
<1>11. row.version + 1 <= MaxHostVersion =>
         HostWritten(x, row) \in HostRows /\ PrimaryTaken(row) \in HostRows
  BY <1>1, <1>3, <1>4, <1>7, <1>8, <1>9, <1>10 DEF HostRows
<1>12. /\ HostWritten(x, row).version = row.version + 1
       /\ HostWritten(x, row).made = row.made /\ HostWritten(x, row).custom = row.custom
       /\ HostWritten(x, row).verified = verified /\ HostWritten(x, row).primary = primary
  BY <1>7
<1>13. /\ PrimaryTaken(row).version = row.version + 1
       /\ PrimaryTaken(row).made = row.made /\ PrimaryTaken(row).custom = row.custom
       /\ PrimaryTaken(row).verified = row.verified /\ ~PrimaryTaken(row).primary
  BY <1>8
<1>14. HostWritten(x, row).verified <=> row.verified \/ x.kind = "verify"
  BY <1>12 DEF verified
<1>15. /\ x.primary = "yes" => HostWritten(x, row).primary
       /\ x.primary = "same" => HostWritten(x, row).primary = row.primary
  BY <1>12 DEF primary
<1> QED BY <1>11, <1>12, <1>13, <1>14, <1>15

\* Rows are changed: domains only by who has locked them, or to a version shown to nobody.
LEMMA RowsChange ==
  ASSUME SitesInv,
         hostRow' \in [Hosts -> HostRows], siteRow' \in SiteRows,
         UNCHANGED <<txtRecord, recordSeen, hostCache, lookup>>, AnswersRefreshed,
         siteEdit' \in [SiteEditors -> SiteEditRow \cup {NoSiteEdit}],
         \A r \in SiteEditors : siteEdit'[r] = siteEdit[r] \/ siteEdit'[r] = NoSiteEdit,
         \A r \in SiteEditors : siteEdit'[r] # NoSiteEdit =>
           /\ siteEdit[r].step = "settings" =>
                siteRow' = siteRow \/ siteRow'.version > siteRow.version
           /\ siteEdit[r].step # "settings" =>
                \/ hostRow'[siteEdit[r].host] = hostRow[siteEdit[r].host]
                \/ /\ hostRow'[siteEdit[r].host].made
                   /\ hostRow'[siteEdit[r].host].version > hostRow[siteEdit[r].host].version
                   /\ siteEdit[r].host \notin HostLocks(r),
         ProvenIfVerified', MadeIfPrimary'
  PROVE  SitesInv'
<1>1. \A r \in SiteEditors : HostLocks(r)' = HostLocks(r) \/ HostLocks(r)' = {}
  BY DEF HostLocks
<1>2. HostLocksExclude'
  BY <1>1 DEF HostLocksExclude, SitesInv, EditsStand
<1>3. ASSUME NEW r \in SiteEditors PROVE EditStands(r)'
  <2>1. CASE siteEdit'[r] = NoSiteEdit
    BY <2>1 DEF EditStands
  <2>2. CASE siteEdit'[r] = siteEdit[r] /\ siteEdit'[r] # NoSiteEdit
    <3> DEFINE x == siteEdit[r]
    <3>1. /\ x \in SiteEditRow /\ x.host \in Hosts /\ x.shown.version \in 0 .. MaxHostVersion
          /\ hostRow[x.host].version \in 0 .. MaxHostVersion
      BY <2>2, EditFields DEF SitesInv
    <3>2. hostRow'[x.host].version \in 0 .. MaxHostVersion
      BY <3>1 DEF HostRows
    <3>3. siteRow.version \in 0 .. MaxHostVersion /\ siteRow'.version \in 0 .. MaxHostVersion
      BY DEF SitesInv, SitesTypeOK, SiteRows
    <3>4. EditStands(r) /\ recordSeen' = recordSeen
      BY DEF SitesInv, EditsStand
    <3>5. x.step = "settings" =>
            /\ x.shown.version <= siteRow'.version
            /\ x.shown.version = siteRow'.version => x.shown = siteRow'
      BY <2>2, <3>1, <3>3, <3>4, SitesAssumption DEF EditStands
    <3>6. x.step # "settings" =>
            /\ hostRow'[x.host].made /\ x.shown.version <= hostRow'[x.host].version
            /\ x.shown.version = hostRow'[x.host].version => x.shown = hostRow'[x.host]
      BY <2>2, <3>1, <3>2, <3>4, SitesAssumption DEF EditStands
    <3>7. x.step \in LockedSteps => x.shown.version = hostRow'[x.host].version
      <4>1. x.step \in LockedSteps => x.host \in HostLocks(r)
        BY <2>2 DEF LockedSteps, HostLocks
      <4> QED BY <2>2, <3>4, <4>1 DEF EditStands, LockedSteps
    <3> QED BY <2>2, <3>4, <3>5, <3>6, <3>7 DEF EditStands
  <2> QED BY <2>1, <2>2
<1>4. EditsStand'
  BY <1>2, <1>3 DEF EditsStand
<1>5. /\ answerAge' \in [Hosts -> [HostAnswers -> 0 .. PositiveLife + 1]]
      /\ AnswersStand' /\ AnswersAreRecent'
  BY RefreshKeeps
<1> QED BY <1>4, <1>5 DEF SitesInv, SitesTypeOK

LEMMA CreateKeeps ==
  ASSUME SitesInv, NEW h \in Hosts, NEW custom \in BOOLEAN, CreateDomain(h, custom)
  PROVE  SitesInv'
<1> DEFINE new == [NoHost EXCEPT !.made = TRUE, !.custom = custom, !.verified = ~custom]
<1>1. NoHost \in HostRows
  BY SitesAssumption DEF NoHost, HostRows
<1>2. \A row \in HostRows :
        LET made == [row EXCEPT !.made = TRUE, !.custom = custom, !.verified = ~custom]
        IN  made \in HostRows /\ made.custom = custom /\ made.verified = ~custom /\ made.made
  BY DEF HostRows
<1>3. new \in HostRows /\ new.custom = custom /\ new.verified = ~custom /\ new.made
  BY <1>1, <1>2
<1>4. hostRow' = [hostRow EXCEPT ![h] = new]
  BY DEF CreateDomain
<1> HIDE DEF new
<1>5. /\ hostRow' \in [Hosts -> HostRows] /\ hostRow'[h] = new
      /\ \A k \in Hosts \ {h} : hostRow'[k] = hostRow[k]
  BY <1>3, <1>4 DEF SitesInv, SitesTypeOK
<1>6. ~hostRow[h].made /\ AnswersRefreshed
      /\ UNCHANGED <<siteRow, txtRecord, recordSeen, siteEdit, hostCache, lookup>>
  BY DEF CreateDomain
<1>7. siteRow \in SiteRows /\ siteEdit \in [SiteEditors -> SiteEditRow \cup {NoSiteEdit}]
  BY DEF SitesInv, SitesTypeOK
<1>8. ASSUME NEW r \in SiteEditors, siteEdit[r] # NoSiteEdit, siteEdit[r].step # "settings"
      PROVE  hostRow'[siteEdit[r].host] = hostRow[siteEdit[r].host]
  <2>1. siteEdit[r].host \in Hosts
    BY <1>8, EditFields DEF SitesInv
  <2>2. hostRow[siteEdit[r].host].made
    BY <1>8 DEF SitesInv, EditsStand, EditStands
  <2> QED BY <1>5, <1>6, <2>1, <2>2
<1>9. ProvenIfVerified' /\ MadeIfPrimary'
  BY <1>3, <1>5, <1>6 DEF ProvenIfVerified, MadeIfPrimary, SitesInv, EditsStand
<1> QED BY <1>5, <1>6, <1>7, <1>8, <1>9, RowsChange

LEMMA UpdateSettingsKeeps ==
  ASSUME SitesInv, NEW q \in SiteEditors, NEW new \in SiteRows, UpdateSettings(q, new)
  PROVE  /\ SitesInv' /\ hostRow' = hostRow /\ siteRow = siteEdit[q].shown
         /\ \A r \in SiteEditors \ {q} : siteEdit'[r] = siteEdit[r]
<1>1. /\ siteEdit[q] # NoSiteEdit /\ siteEdit[q].step = "settings"
      /\ siteRow.version = siteEdit[q].shown.version
      /\ siteRow' = [new EXCEPT !.version = siteRow.version + 1]
      /\ siteEdit' = [siteEdit EXCEPT ![q] = NoSiteEdit]
      /\ UNCHANGED <<hostRow, txtRecord, recordSeen, hostCache, lookup>> /\ AnswersRefreshed
  BY DEF UpdateSettings
<1>2. siteRow \in SiteRows /\ siteRow.version \in 0 .. MaxHostVersion
  BY DEF SitesInv, SitesTypeOK, SiteRows
<1>3. EditStands(q)
  BY DEF SitesInv, EditsStand
<1>4. siteRow = siteEdit[q].shown
  BY <1>1, <1>3 DEF EditStands
<1>5. /\ siteRow' \in SiteRows /\ siteRow'.version = siteRow.version + 1
  <2>1. siteRow.version + 1 \in 0 .. MaxHostVersion
    BY <1>1, <1>2, <1>3, SitesAssumption DEF EditStands
  <2>2. \A version \in 0 .. MaxHostVersion :
          [new EXCEPT !.version = version] \in SiteRows /\ [new EXCEPT !.version = version].version = version
    BY DEF SiteRows
  <2> QED BY <1>1, <2>1, <2>2
<1>6. /\ siteEdit' \in [SiteEditors -> SiteEditRow \cup {NoSiteEdit}] /\ siteEdit'[q] = NoSiteEdit
      /\ \A r \in SiteEditors \ {q} : siteEdit'[r] = siteEdit[r]
  BY <1>1, EditBecomes
<1>7. siteRow'.version > siteRow.version
  BY <1>2, <1>5
<1>8. ProvenIfVerified' /\ MadeIfPrimary'
  BY <1>1 DEF SitesInv, EditsStand, ProvenIfVerified, MadeIfPrimary
<1>9. hostRow' \in [Hosts -> HostRows]
  BY <1>1 DEF SitesInv, SitesTypeOK
<1> QED BY <1>1, <1>4, <1>5, <1>6, <1>7, <1>8, <1>9, RowsChange

LEMMA CommitKeeps ==
  ASSUME SitesInv, NEW q \in SiteEditors, CommitDomain(q)
  PROVE  /\ SitesInv' /\ siteRow' = siteRow /\ siteEdit[q] # NoSiteEdit
         /\ hostRow[siteEdit[q].host] = siteEdit[q].shown
         /\ siteEdit[q].primary = "yes" => hostRow'[siteEdit[q].host].primary
         /\ siteEdit[q].primary = "same" =>
              \A h \in Hosts : hostRow'[h].primary = hostRow[h].primary
         /\ \A r \in SiteEditors \ {q} : siteEdit'[r] = siteEdit[r]
<1> DEFINE x == siteEdit[q]
           Row(h) == IF h = x.host THEN HostWritten(x, hostRow[h])
                     ELSE IF h \in x.others THEN PrimaryTaken(hostRow[h]) ELSE hostRow[h]
<1>1. /\ x # NoSiteEdit /\ x.step = "updated"
      /\ hostRow' = [h \in Hosts |-> Row(h)] /\ HostsAdmitted(hostRow')
      /\ siteEdit' = [siteEdit EXCEPT ![q] = NoSiteEdit]
      /\ UNCHANGED <<siteRow, txtRecord, recordSeen, hostCache, lookup>> /\ AnswersRefreshed
  BY DEF CommitDomain
<1>2. /\ x \in SiteEditRow /\ x.host \in Hosts /\ x.others \subseteq Hosts
      /\ x.shown.version \in 0 .. MaxHostVersion
  BY <1>1, EditFields DEF SitesInv
<1>3. EditStands(q)
  BY DEF SitesInv, EditsStand
<1>4. x.shown = hostRow[x.host]
  BY <1>1, <1>3 DEF EditStands, LockedSteps
<1>5. \A h \in Hosts : hostRow'[h] = Row(h) /\ hostRow[h] \in HostRows
  BY <1>1 DEF SitesInv, SitesTypeOK
<1> HIDE DEF x
<1>6. \A h \in Hosts : hostRow'[h].version <= MaxHostVersion
  BY <1>1 DEF HostsAdmitted
<1>7. hostRow' \in [Hosts -> HostRows]
  <2>1. \A h \in Hosts : Row(h) \in HostRows
    BY SMTT(60), <1>2, <1>5, <1>6, WrittenRows
  <2> QED BY <1>1, <2>1
<1>8. /\ siteEdit' \in [SiteEditors -> SiteEditRow \cup {NoSiteEdit}] /\ siteEdit'[q] = NoSiteEdit
      /\ \A r \in SiteEditors \ {q} : siteEdit'[r] = siteEdit[r]
  BY <1>1, EditBecomes
<1>9. HostLocks(q) = {x.host} \cup x.others
  BY <1>1 DEF HostLocks, x
<1>10. ASSUME NEW h \in Hosts, hostRow'[h] # hostRow[h]
       PROVE  /\ h \in HostLocks(q) /\ hostRow'[h].made = hostRow[h].made
              /\ hostRow'[h].version > hostRow[h].version
  <2>1. hostRow[h].version \in 0 .. MaxHostVersion
    BY <1>5 DEF HostRows
  <2>2. CASE h = x.host
    BY <1>2, <1>5, <1>9, <2>1, <2>2, WrittenRows
  <2>3. CASE h # x.host /\ h \in x.others
    BY <1>2, <1>5, <1>9, <2>1, <2>3, WrittenRows
  <2>4. CASE h # x.host /\ h \notin x.others
    BY <1>5, <1>10, <2>4
  <2> QED BY <2>2, <2>3, <2>4
<1>11. ASSUME NEW r \in SiteEditors, r # q, siteEdit[r] # NoSiteEdit, siteEdit[r].step # "settings"
       PROVE  \/ hostRow'[siteEdit[r].host] = hostRow[siteEdit[r].host]
              \/ /\ hostRow'[siteEdit[r].host].made
                 /\ hostRow'[siteEdit[r].host].version > hostRow[siteEdit[r].host].version
                 /\ siteEdit[r].host \notin HostLocks(r)
  <2>1. siteEdit[r].host \in Hosts
    BY <1>11, EditFields DEF SitesInv
  <2>2. hostRow[siteEdit[r].host].made
    BY <1>11 DEF SitesInv, EditsStand, EditStands
  <2>3. HostLocks(q) \cap HostLocks(r) = {}
    BY <1>11 DEF SitesInv, EditsStand, HostLocksExclude
  <2> QED BY <1>10, <2>1, <2>2, <2>3
<1>12. ProvenIfVerified'
  <2>1. x.kind = "verify" => x.host \in recordSeen
    BY <1>1, <1>3 DEF EditStands, x
  <2>2. \A h \in Hosts : hostRow[h].verified /\ hostRow[h].custom => h \in recordSeen
    BY DEF SitesInv, EditsStand, ProvenIfVerified
  <2>3. \A h \in Hosts :
          /\ hostRow'[h].custom <=> hostRow[h].custom
          /\ hostRow'[h].verified => hostRow[h].verified \/ (h = x.host /\ x.kind = "verify")
    <3> SUFFICES ASSUME NEW h \in Hosts
                 PROVE  /\ hostRow'[h].custom <=> hostRow[h].custom
                        /\ hostRow'[h].verified =>
                             hostRow[h].verified \/ (h = x.host /\ x.kind = "verify")
      OBVIOUS
    <3>1. CASE h = x.host
      <4>1. hostRow'[h] = HostWritten(x, hostRow[h]) /\ hostRow[h] \in HostRows
        BY <1>5, <3>1
      <4>2. /\ HostWritten(x, hostRow[h]).made = hostRow[h].made
            /\ HostWritten(x, hostRow[h]).custom = hostRow[h].custom
            /\ HostWritten(x, hostRow[h]).verified <=> hostRow[h].verified \/ x.kind = "verify"
        BY <1>2, <4>1, WrittenRows
      <4> QED BY <3>1, <4>1, <4>2
    <3>2. CASE h # x.host /\ h \in x.others
      BY <1>2, <1>5, <3>2, WrittenRows
    <3>3. CASE h # x.host /\ h \notin x.others
      BY <1>5, <3>3
    <3> QED BY <3>1, <3>2, <3>3
  <2> QED BY <1>1, <2>1, <2>2, <2>3 DEF ProvenIfVerified
<1>13. siteRow' \in SiteRows /\ siteRow' = siteRow
  BY <1>1 DEF SitesInv, SitesTypeOK
<1>14. MadeIfPrimary'
  <2>1. hostRow[x.host].made
    BY <1>1, <1>3 DEF EditStands, x
  <2>2. \A h \in Hosts : hostRow[h].primary => hostRow[h].made
    BY DEF SitesInv, EditsStand, MadeIfPrimary
  <2>3. \A h \in Hosts :
          /\ hostRow'[h].made <=> hostRow[h].made
          /\ hostRow'[h].primary => hostRow[h].primary \/ h = x.host
    <3> SUFFICES ASSUME NEW h \in Hosts
                 PROVE  /\ hostRow'[h].made <=> hostRow[h].made
                        /\ hostRow'[h].primary => hostRow[h].primary \/ h = x.host
      OBVIOUS
    <3>1. CASE h = x.host
      <4>1. hostRow'[h] = HostWritten(x, hostRow[h]) /\ hostRow[h] \in HostRows
        BY <1>5, <3>1
      <4>2. /\ HostWritten(x, hostRow[h]).made = hostRow[h].made
            /\ HostWritten(x, hostRow[h]).custom = hostRow[h].custom
            /\ HostWritten(x, hostRow[h]).verified <=> hostRow[h].verified \/ x.kind = "verify"
        BY <1>2, <4>1, WrittenRows
      <4> QED BY <3>1, <4>1, <4>2
    <3>2. CASE h # x.host /\ h \in x.others
      BY <1>2, <1>5, <3>2, WrittenRows
    <3>3. CASE h # x.host /\ h \notin x.others
      BY <1>5, <3>3
    <3> QED BY <3>1, <3>2, <3>3
  <2> QED BY <2>1, <2>2, <2>3 DEF MadeIfPrimary
<1>15. SitesInv'
  BY <1>1, <1>7, <1>8, <1>11, <1>12, <1>13, <1>14, RowsChange
<1>16. x.primary = "yes" => hostRow'[x.host].primary
  BY <1>2, <1>5, WrittenRows
<1>17. x.primary = "same" => \A h \in Hosts : hostRow'[h].primary = hostRow[h].primary
  <2>1. x.primary = "same" => x.others = {}
    BY <1>1, <1>3 DEF EditStands, x
  <2> QED BY <1>2, <1>5, <2>1, WrittenRows
<1> QED BY <1>1, <1>4, <1>8, <1>13, <1>15, <1>16, <1>17 DEF x

-----------------------------------------------------------------------------
\* The directory.

LEMMA EditsStay == ASSUME EditsStand, UNCHANGED hostVars PROVE EditsStand'
  BY DEF hostVars, EditsStand, HostLocksExclude, HostLocks, ProvenIfVerified, MadeIfPrimary, EditStands

CacheRow == [answer: HostAnswers \cup {"none"}, left: 0 .. PositiveLife]

\* What a process remembers changes only to less, or to what is true now.
LEMMA CacheKeeps ==
  ASSUME SitesInv, UNCHANGED hostVars, answerAge' = answerAge,
         hostCache' \in [Processes -> [Hosts -> CacheRow]],
         lookup' \in [Visitors -> LookupRow \cup {NoLookup}],
         \A v \in Visitors :
           \/ lookup'[v] \in {lookup[v], NoLookup}
           \/ lookup'[v].host \in Hosts /\ lookup'[v].answer = ResolveHost(lookup'[v].host),
         \A p \in Processes, h \in Hosts :
           \/ hostCache'[p][h] = hostCache[p][h]
           \/ hostCache'[p][h] = NoHostEntry
           \/ /\ hostCache'[p][h].answer \in HostAnswers
              /\ answerAge[h][hostCache'[p][h].answer] = 0
              /\ hostCache'[p][h].left = IF hostCache'[p][h].answer = "unknown"
                                         THEN NegativeLife ELSE PositiveLife
  PROVE  SitesInv'
<1>1. EditsStand'
  BY EditsStay DEF SitesInv
<1>2. SitesTypeOK'
  BY DEF SitesInv, SitesTypeOK, hostVars, CacheRow
<1>3. \A h \in Hosts : ResolveHost(h)' = ResolveHost(h)
  BY DEF ResolveHost, hostVars
<1>4. AnswersStand'
  <2>1. \A h \in Hosts : answerAge'[h][ResolveHost(h)'] = 0
    BY <1>3 DEF SitesInv, AnswersStand
  <2>2. ASSUME NEW v \in Visitors, lookup'[v] # NoLookup
        PROVE  answerAge'[lookup'[v].host][lookup'[v].answer] = 0
    BY <2>2 DEF SitesInv, AnswersStand
  <2>3. ASSUME NEW p \in Processes, NEW h \in Hosts, hostCache'[p][h].left > 0
        PROVE  hostCache'[p][h].answer # "none"
    BY <2>3 DEF SitesInv, AnswersStand, NoHostEntry, HostAnswers
  <2> QED BY <2>1, <2>2, <2>3 DEF AnswersStand
<1>5. AnswersAreRecent'
  <2> SUFFICES ASSUME NEW p \in Processes, NEW h \in Hosts, hostCache'[p][h].left > 0
               PROVE  answerAge'[h][hostCache'[p][h].answer] <=
                        (IF hostCache'[p][h].answer = "unknown" THEN NegativeLife ELSE PositiveLife)
                        - hostCache'[p][h].left
    BY DEF AnswersAreRecent
  <2>1. CASE hostCache'[p][h] = hostCache[p][h]
    BY <2>1 DEF SitesInv, AnswersAreRecent
  <2>2. CASE hostCache'[p][h] = NoHostEntry
    BY <2>2 DEF NoHostEntry
  <2>3. CASE /\ answerAge[h][hostCache'[p][h].answer] = 0
             /\ hostCache'[p][h].left = IF hostCache'[p][h].answer = "unknown"
                                        THEN NegativeLife ELSE PositiveLife
    BY <2>3, SitesAssumption
  <2> QED BY <2>1, <2>2, <2>3
<1> QED BY <1>1, <1>2, <1>4, <1>5 DEF SitesInv

LEMMA MissKeeps ==
  ASSUME SitesInv, NEW v \in Visitors, NEW h \in Hosts, NEW p \in Processes, HostMiss(v, h, p)
  PROVE  SitesInv'
<1> DEFINE new == [step |-> "read", host |-> h, process |-> p, answer |-> ResolveHost(h)]
<1>1. new \in LookupRow /\ new.host = h /\ new.answer = ResolveHost(h)
  BY AnswerTypes DEF SitesInv, LookupRow
<1>2. /\ hostCache' = [hostCache EXCEPT ![p] = [@ EXCEPT ![h] = NoHostEntry]]
      /\ lookup' = [lookup EXCEPT ![v] = new]
      /\ answerAge' = answerAge /\ UNCHANGED hostVars
  BY DEF HostMiss
<1> HIDE DEF new
<1>3. hostCache \in [Processes -> [Hosts -> CacheRow]] /\ NoHostEntry \in CacheRow
  BY SitesAssumption DEF SitesInv, SitesTypeOK, CacheRow, NoHostEntry
<1>4. [hostCache[p] EXCEPT ![h] = NoHostEntry] \in [Hosts -> CacheRow]
  BY <1>3
<1>5. /\ hostCache' \in [Processes -> [Hosts -> CacheRow]]
      /\ \A r \in Processes, k \in Hosts :
           hostCache'[r][k] = hostCache[r][k] \/ hostCache'[r][k] = NoHostEntry
  BY <1>2, <1>3, <1>4
<1>6. /\ lookup' \in [Visitors -> LookupRow \cup {NoLookup}]
      /\ \A w \in Visitors : lookup'[w] = lookup[w] \/ (w = v /\ lookup'[w] = new)
  BY <1>1, <1>2 DEF SitesInv, SitesTypeOK
<1> QED BY <1>1, <1>2, <1>5, <1>6, CacheKeeps

LEMMA StoreKeeps ==
  ASSUME SitesInv, NEW v \in Visitors, StoreAnswer(v) PROVE SitesInv'
<1> DEFINE h == lookup[v].host
           p == lookup[v].process
           entry == [answer |-> lookup[v].answer,
                     left |-> IF lookup[v].answer = "unknown" THEN NegativeLife ELSE PositiveLife]
<1>1. lookup[v] # NoLookup /\ lookup[v] \in LookupRow
  BY DEF StoreAnswer, NoLookup, SitesInv, SitesTypeOK
<1>2. h \in Hosts /\ p \in Processes /\ lookup[v].answer \in HostAnswers
  BY <1>1 DEF LookupRow
<1>3. entry.answer = lookup[v].answer /\ answerAge[h][entry.answer] = 0
  BY <1>1 DEF SitesInv, AnswersStand
<1>4. entry.left = (IF entry.answer = "unknown" THEN NegativeLife ELSE PositiveLife) /\ entry \in CacheRow
  BY <1>2, SitesAssumption DEF CacheRow
<1>5. PICK gone \in SUBSET HostsRemembered(p) :
        hostCache' = [hostCache EXCEPT ![p] =
          [k \in Hosts |-> IF k = h THEN entry ELSE IF k \in gone THEN NoHostEntry ELSE hostCache[p][k]]]
  BY DEF StoreAnswer
<1>6. lookup' = [lookup EXCEPT ![v] = NoLookup] /\ answerAge' = answerAge /\ UNCHANGED hostVars
  BY DEF StoreAnswer
<1> HIDE DEF entry, h, p
<1>7. hostCache \in [Processes -> [Hosts -> CacheRow]] /\ NoHostEntry \in CacheRow
  BY SitesAssumption DEF SitesInv, SitesTypeOK, CacheRow, NoHostEntry
<1>8. [k \in Hosts |-> IF k = h THEN entry ELSE IF k \in gone THEN NoHostEntry ELSE hostCache[p][k]]
        \in [Hosts -> CacheRow]
  BY <1>2, <1>4, <1>7
<1>9. /\ hostCache' \in [Processes -> [Hosts -> CacheRow]]
      /\ \A r \in Processes, k \in Hosts :
           hostCache'[r][k] \in {hostCache[r][k], NoHostEntry} \/ (k = h /\ hostCache'[r][k] = entry)
  BY <1>2, <1>5, <1>7, <1>8
<1>10. /\ lookup' \in [Visitors -> LookupRow \cup {NoLookup}]
       /\ \A w \in Visitors : lookup'[w] \in {lookup[w], NoLookup}
  BY <1>6 DEF SitesInv, SitesTypeOK
<1>11. entry.answer \in HostAnswers
  BY <1>2, <1>3
<1> QED BY <1>3, <1>4, <1>6, <1>9, <1>10, <1>11, CacheKeeps

LEMMA TickKeeps == ASSUME SitesInv, DirectoryTick PROVE SitesInv'
<1> USE SitesAssumption
<1> DEFINE Left(p, h) == IF hostCache[p][h].left = 0 THEN 0 ELSE hostCache[p][h].left - 1
           Age(h, a) == IF a = ResolveHost(h) THEN 0
                        ELSE answerAge[h][a] + (IF answerAge[h][a] > PositiveLife THEN 0 ELSE 1)
<1>1. hostCache \in [Processes -> [Hosts -> CacheRow]]
  BY DEF SitesInv, SitesTypeOK, CacheRow
<1>2. answerAge \in [Hosts -> [HostAnswers -> 0 .. PositiveLife + 1]]
  BY DEF SitesInv, SitesTypeOK
<1>3. \A p \in Processes, h \in Hosts : hostCache'[p][h] = [hostCache[p][h] EXCEPT !.left = Left(p, h)]
  BY <1>1 DEF DirectoryTick, CacheRow
<1>4. \A p \in Processes, h \in Hosts : hostCache[p][h] \in CacheRow /\ hostCache[p][h].left \in 0 .. PositiveLife
  BY <1>1 DEF CacheRow
<1>5. \A p \in Processes, h \in Hosts : Left(p, h) \in 0 .. PositiveLife
  BY <1>4
<1>6. ASSUME NEW c \in CacheRow, NEW n
      PROVE  [c EXCEPT !.left = n].left = n /\ [c EXCEPT !.left = n].answer = c.answer
  BY DEF CacheRow
<1>7. \A p \in Processes, h \in Hosts :
         hostCache'[p][h].left = Left(p, h) /\ hostCache'[p][h].answer = hostCache[p][h].answer
  <2> SUFFICES ASSUME NEW p \in Processes, NEW h \in Hosts
               PROVE  /\ hostCache'[p][h].left = Left(p, h)
                      /\ hostCache'[p][h].answer = hostCache[p][h].answer
    OBVIOUS
  <2> DEFINE c == hostCache[p][h]
             n == Left(p, h)
  <2>1. c \in CacheRow
    BY <1>4
  <2>2. hostCache'[p][h] = [c EXCEPT !.left = n]
    BY <1>3
  <2> HIDE DEF c, n
  <2>3. hostCache'[p][h].left = n /\ hostCache'[p][h].answer = c.answer
    BY <1>6, <2>1, <2>2
  <2> QED BY <2>3 DEF c, n
<1>8. answerAge' = [h \in Hosts |-> [a \in HostAnswers |-> Age(h, a)]]
  BY DEF DirectoryTick
<1>9. \A h \in Hosts, a \in HostAnswers : Age(h, a) \in 0 .. PositiveLife + 1
  BY <1>2
<1>10. \A h \in Hosts, a \in HostAnswers : Age(h, a) <= answerAge[h][a] + 1
  BY <1>2
<1>11. \A h \in Hosts : Age(h, ResolveHost(h)) = 0
  OBVIOUS
<1>12. \A p \in Processes, h \in Hosts :
         hostCache'[p][h].left > 0 => /\ hostCache[p][h].left > 0
                                      /\ hostCache'[p][h].left = hostCache[p][h].left - 1
  <2> SUFFICES ASSUME NEW p \in Processes, NEW h \in Hosts, hostCache'[p][h].left > 0
               PROVE  hostCache[p][h].left > 0 /\ hostCache'[p][h].left = hostCache[p][h].left - 1
    OBVIOUS
  <2>1. hostCache'[p][h].left = Left(p, h)
    BY <1>7
  <2> QED BY <1>4, <2>1
<1>13. \A p \in Processes, h \in Hosts : hostCache'[p][h].answer = hostCache[p][h].answer
  BY <1>7
<1>14. hostCache' \in [Processes -> [Hosts -> CacheRow]]
  <2> DEFINE Row(p, h) == [hostCache[p][h] EXCEPT !.left = Left(p, h)]
  <2>1. \A p \in Processes, h \in Hosts : Row(p, h) \in CacheRow
    BY <1>4, <1>5 DEF CacheRow
  <2>2. hostCache' = [p \in Processes |-> [h \in Hosts |-> Row(p, h)]]
    BY DEF DirectoryTick
  <2> HIDE DEF Row
  <2> QED BY <2>1, <2>2
<1>15. \A h \in Hosts, a \in HostAnswers : answerAge'[h][a] = Age(h, a)
  BY <1>8
<1>16. answerAge' \in [Hosts -> [HostAnswers -> 0 .. PositiveLife + 1]]
  BY <1>8, <1>9
<1> HIDE DEF Left, Age
<1>17. UNCHANGED hostVars /\ lookup' = lookup /\ \A v \in Visitors : lookup[v].step = "none"
  BY DEF DirectoryTick
<1>18. EditsStand'
  BY <1>17, EditsStay DEF SitesInv
<1>19. SitesTypeOK'
  BY <1>14, <1>16, <1>17 DEF SitesInv, SitesTypeOK, hostVars, CacheRow
<1>20. AnswersStand'
  <2>1. \A h \in Hosts : ResolveHost(h)' = ResolveHost(h) /\ ResolveHost(h) \in HostAnswers
    BY <1>17, AnswerTypes DEF ResolveHost, hostVars, SitesInv
  <2>2. \A v \in Visitors : lookup'[v] = NoLookup
    BY <1>17 DEF SitesInv, SitesTypeOK, LookupRow
  <2> QED BY <1>11, <1>12, <1>13, <1>15, <2>1, <2>2 DEF SitesInv, AnswersStand
<1>21. AnswersAreRecent'
  <2> SUFFICES ASSUME NEW p \in Processes, NEW h \in Hosts, hostCache'[p][h].left > 0
               PROVE  answerAge'[h][hostCache'[p][h].answer] <=
                        (IF hostCache'[p][h].answer = "unknown" THEN NegativeLife ELSE PositiveLife)
                        - hostCache'[p][h].left
    BY DEF AnswersAreRecent
  <2> DEFINE a == hostCache[p][h].answer
             life == IF a = "unknown" THEN NegativeLife ELSE PositiveLife
  <2>1. hostCache[p][h].left > 0 /\ hostCache'[p][h].left = hostCache[p][h].left - 1
    BY <1>12
  <2>2. a \in HostAnswers
    BY <1>4, <2>1 DEF CacheRow, SitesInv, AnswersStand
  <2>3. answerAge[h][a] <= life - hostCache[p][h].left
    BY <2>1 DEF SitesInv, AnswersAreRecent
  <2>4. answerAge'[h][a] <= answerAge[h][a] + 1
    BY <1>10, <1>15, <2>2
  <2>5. answerAge'[h][a] \in Int /\ answerAge[h][a] \in Int /\ hostCache[p][h].left \in Int
    BY <1>2, <1>4, <1>16, <2>2
  <2>6. life \in Int
    OBVIOUS
  <2>7. hostCache'[p][h].answer = a
    BY <1>13
  <2> HIDE DEF a, life
  <2>8. answerAge'[h][a] <= life - (hostCache[p][h].left - 1)
    BY <2>3, <2>4, <2>5, <2>6
  <2> QED BY <2>1, <2>7, <2>8 DEF life
<1> QED BY <1>18, <1>19, <1>20, <1>21 DEF SitesInv

-----------------------------------------------------------------------------
LEMMA HostsKeep == ASSUME SitesInv, HostsNext PROVE SitesInv'
<1> USE DEF HostsNext
<1>1. ASSUME NEW h \in Hosts, ChangeRecord(h) PROVE SitesInv'
  <2>1. UNCHANGED <<hostRow, siteRow, recordSeen, siteEdit>> /\ LookupsStay /\ txtRecord' \subseteq Hosts
    BY <1>1 DEF ChangeRecord, SitesInv, SitesTypeOK
  <2>2. EditsStand'
    BY <2>1 DEF SitesInv, EditsStand, HostLocksExclude, HostLocks, ProvenIfVerified, MadeIfPrimary, EditStands
  <2>3. SitesTypeOK'
    BY <2>1 DEF SitesInv, SitesTypeOK, LookupsStay, lookupVars
  <2> QED BY <2>1, <2>2, <2>3, AnswersStay DEF SitesInv
<1>2. ASSUME NEW q \in SiteEditors, EditGoesOn(q), LookupsStay PROVE SitesInv'
  <2>1. EditsStand' /\ UNCHANGED <<hostRow, siteRow>>
    BY <1>2, EditKeeps
  <2>2. SitesTypeOK'
    BY <1>2, <2>1 DEF EditGoesOn, SitesInv, SitesTypeOK, LookupsStay, lookupVars
  <2> QED BY <1>2, <2>1, <2>2, AnswersStay DEF SitesInv
<1>3. ASSUME NEW q \in SiteEditors, AbandonEdit(q) PROVE EditGoesOn(q) /\ LookupsStay
  BY <1>3, DropKeeps DEF AbandonEdit, DropSiteEdit
<1>4. ASSUME NEW q \in SiteEditors, NEW h \in Hosts,
             \/ BeginVerification(q, h)
             \/ \E tls \in {"active", "failed"} : BeginTls(q, h, tls)
             \/ \E enabled, primary \in {"yes", "no", "same"} : BeginUpdate(q, h, enabled, primary)
      PROVE  EditGoesOn(q) /\ LookupsStay
  BY <1>4, BeginningsKeep DEF BeginVerification, BeginTls, BeginUpdate, BeginSiteEdit
<1>5. ASSUME NEW q \in SiteEditors,
             LookUpRecord(q) \/ LockDomain(q) \/ BeginClearing(q) \/ FinishClearing(q)
      PROVE  EditGoesOn(q) /\ LookupsStay
  BY <1>5, RequestsKeep DEF LookUpRecord, LockDomain, BeginClearing, FinishClearing
<1>6. ASSUME NEW q \in SiteEditors, BeginSettings(q) PROVE EditGoesOn(q) /\ LookupsStay
  BY <1>6, SettingsKeep DEF BeginSettings
<1> QED BY <1>1, <1>2, <1>3, <1>4, <1>5, <1>6, CreateKeeps, UpdateKeeps, CommitKeeps, UpdateSettingsKeeps

LEMMA SitesStep == SitesInv /\ [SitesNext]_sitesVars => SitesInv'
<1> SUFFICES ASSUME SitesInv, [SitesNext]_sitesVars PROVE SitesInv'
  OBVIOUS
<1>1. ASSUME UNCHANGED sitesVars PROVE SitesInv'
  <2>1. UNCHANGED hostVars /\ UNCHANGED <<hostCache, lookup, answerAge>>
    BY <1>1 DEF sitesVars, lookupVars
  <2>2. EditsStand'
    BY <2>1, EditsStay DEF SitesInv
  <2>3. AnswersStand' /\ AnswersAreRecent'
    BY <2>1, AnswersStay DEF SitesInv, LookupsStay, lookupVars, hostVars
  <2>4. SitesTypeOK'
    BY <2>1 DEF SitesInv, SitesTypeOK, hostVars
  <2> QED BY <2>2, <2>3, <2>4 DEF SitesInv
<1>2. CASE LookupNext
  <2>1. ASSUME NEW v \in Visitors, NEW h \in Hosts, NEW p \in Processes, HostHit(v, h, p)
        PROVE  SitesInv'
    BY <1>1, <2>1 DEF HostHit
  <2> QED BY <1>2, <2>1, MissKeeps, StoreKeeps, TickKeeps DEF LookupNext
<1> QED BY <1>1, <1>2, HostsKeep DEF SitesNext

\* The requests that end in one step: the one that commits its change, or none that
\* changes a row.
LEMMA OwnedStep ==
  SitesInv /\ [SitesNext]_sitesVars => [ChangesSeeThePresent /\ PrimaryRemains /\ ProvenIfVerified']_sitesVars
<1> SUFFICES ASSUME SitesInv, SitesNext
             PROVE  ChangesSeeThePresent /\ PrimaryRemains /\ ProvenIfVerified'
  OBVIOUS
<1>1. ProvenIfVerified'
  BY SitesStep DEF SitesInv, EditsStand
<1>2. CASE UNCHANGED <<hostRow, siteRow>>
  BY <1>1, <1>2 DEF ChangesSeeThePresent, PrimaryRemains
<1>3. ASSUME NEW h \in Hosts, NEW custom \in BOOLEAN, CreateDomain(h, custom)
      PROVE  ChangesSeeThePresent /\ PrimaryRemains
  <2>1. siteEdit' = siteEdit /\ \A k \in Hosts \ {h} : hostRow'[k] = hostRow[k]
    BY <1>3 DEF CreateDomain, SitesInv, SitesTypeOK
  <2>2. \A k \in Hosts : hostRow[k].primary => k # h
    BY <1>3 DEF CreateDomain, SitesInv, EditsStand, MadeIfPrimary
  <2> QED BY <2>1, <2>2 DEF ChangesSeeThePresent, PrimaryRemains
<1>4. ASSUME NEW q \in SiteEditors, NEW new \in SiteRows, UpdateSettings(q, new)
      PROVE  ChangesSeeThePresent /\ PrimaryRemains
  <2>1. /\ hostRow' = hostRow /\ siteRow = siteEdit[q].shown
        /\ \A r \in SiteEditors \ {q} : siteEdit'[r] = siteEdit[r]
    BY <1>4, UpdateSettingsKeeps
  <2> QED BY <2>1 DEF ChangesSeeThePresent, PrimaryRemains
<1>5. ASSUME NEW q \in SiteEditors, CommitDomain(q)
      PROVE  ChangesSeeThePresent /\ PrimaryRemains
  <2>1. /\ siteRow' = siteRow /\ siteEdit[q] # NoSiteEdit
        /\ hostRow[siteEdit[q].host] = siteEdit[q].shown
        /\ siteEdit[q].primary = "yes" => hostRow'[siteEdit[q].host].primary
        /\ siteEdit[q].primary = "same" =>
             \A h \in Hosts : hostRow'[h].primary = hostRow[h].primary
        /\ \A r \in SiteEditors \ {q} : siteEdit'[r] = siteEdit[r]
    BY <1>5, CommitKeeps
  <2>2. ChangesSeeThePresent
    BY <2>1 DEF ChangesSeeThePresent
  <2>3. siteEdit'[q] = NoSiteEdit
    BY <1>5 DEF CommitDomain, SitesInv, SitesTypeOK
  <2>4. siteEdit[q] \in SiteEditRow /\ siteEdit[q].host \in Hosts
    BY <2>1, EditFields DEF SitesInv
  <2>5. siteEdit[q].primary \in {"same", "yes", "no"}
    BY <2>4 DEF SiteEditRow
  <2>6. CASE siteEdit[q].primary = "same"
    <3>1. \A h \in Hosts : hostRow[h].primary => hostRow'[h].primary
      BY <2>1, <2>6
    <3> QED BY <2>2, <3>1, Zenon DEF PrimaryRemains
  <2>7. CASE siteEdit[q].primary = "yes"
    <3>1. hostRow'[siteEdit[q].host].primary
      BY <2>1, <2>7
    <3> QED BY <2>2, <2>4, <3>1, Zenon DEF PrimaryRemains
  <2>8. CASE siteEdit[q].primary = "no"
    BY <2>1, <2>2, <2>3, <2>8, Zenon DEF PrimaryRemains
  <2> QED BY <2>2, <2>5, <2>6, <2>7, <2>8
<1>6. CASE LookupNext
  <2>1. UNCHANGED hostVars
    BY <1>6 DEF LookupNext, HostHit, HostMiss, StoreAnswer, DirectoryTick, sitesVars
  <2> QED BY <1>2, <2>1 DEF hostVars
<1>7. ASSUME HostsNext,
             ~\E q \in SiteEditors : CommitDomain(q) \/ \E new \in SiteRows : UpdateSettings(q, new),
             ~\E h \in Hosts, custom \in BOOLEAN : CreateDomain(h, custom)
      PROVE  UNCHANGED <<hostRow, siteRow>>
  BY ZenonT(60), <1>7 DEF HostsNext, ChangeRecord, BeginVerification, BeginTls, BeginUpdate, BeginSiteEdit,
              LookUpRecord, LockDomain, BeginClearing, FinishClearing, UpdateDomain, AbandonEdit,
              DropSiteEdit, BeginSettings
<1> QED BY <1>1, <1>2, <1>3, <1>4, <1>5, <1>6, <1>7 DEF SitesNext

\* Of any number of hosts, requests and processes: whatever a process answers of a host,
\* the database did not longer ago than it has remembered it.
THEOREM AnswersRecent == SitesSpec => []AnswersAreRecent
<1>1. SitesInv => AnswersAreRecent
  BY DEF SitesInv
<1> QED BY <1>1, SitesInitially, SitesStep, PTL DEF SitesSpec

\* Every change of a domain or of the merchant is made by somebody who saw the row as it
\* is, a primary domain is not lost but on request, and a domain of the merchant's own is
\* verified only if its record was seen.
THEOREM DomainsOwned == SitesSpec => DomainsAreOwned
  BY SitesInitially, SitesStep, OwnedStep, PTL DEF SitesSpec, DomainsAreOwned

\* The rows of domains and of the merchant, requests, caches and look-ups keep their types.
THEOREM SitesTyped == SitesSpec => []SitesTypeOK
<1>1. SitesInv => SitesTypeOK
  BY DEF SitesInv
<1> QED BY <1>1, SitesInitially, SitesStep, PTL DEF SitesSpec

=============================================================================
