---------------------------- MODULE AccessProofs ----------------------------
(***************************************************************************)
(* The guards, the tables and the seed script for every number of users,   *)
(* requests, roles and permissions.  Three lemmas say what the queries and *)
(* the upserts return; then each part of IInv is shown to be preserved.    *)
(***************************************************************************)
EXTENDS Access, TLAPS

-----------------------------------------------------------------------------
(* The tables.                                                             *)

\* A new row gets an id that no row has.
LEMMA FreshRow ==
    ASSUME NEW table, NEW n, HasRoom(table)
    PROVE  Fresh(table, n) \in RowsNamed(table, None)
<1>1. \E id \in RowsNamed(table, None) : n \in RowsNamed(table, None) => id = n
  BY DEF HasRoom
<1> QED  BY <1>1 DEF Fresh

\* An upsert by name writes the row of that name or a new one, no other.
LEMMA UpsertRow ==
    ASSUME NEW table, NEW n, CanUpsert(table, n)
    PROVE  /\ UpsertId(table, n) \in DOMAIN table
           /\ table[UpsertId(table, n)].name \in {n, None}
<1>1. CASE RowsNamed(table, n) = {}
  <2>1. Fresh(table, n) \in RowsNamed(table, None)
    BY <1>1, FreshRow DEF CanUpsert
  <2> QED  BY <1>1, <2>1 DEF UpsertId, RowsNamed
<1>2. CASE RowsNamed(table, n) # {}
  <2>1. UpsertId(table, n) \in RowsNamed(table, n)
    BY <1>2 DEF UpsertId
  <2> QED  BY <2>1 DEF RowsNamed
<1> QED  BY <1>1, <1>2

\* The query behind RolesGuard returns the names of the roles that are held.
LEMMA RolesQuery ==
    ASSUME TypeOK, NEW u \in Users, NEW n
    PROVE  n \in findUserRoleNames(u) <=> HoldsRole(u, n)
<1>1. accounts[u].roles \subseteq RoleIds
  BY DEF TypeOK, Account
<1> QED  BY <1>1 DEF findUserRoleNames, HoldsRole

\* The query behind PermissionsGuard returns the permissions that are held.
LEMMA PermissionsQuery ==
    ASSUME TypeOK, NEW u \in Users, NEW n
    PROVE  n \in findUserPermissionNames(u) <=> HoldsPermission(u, n)
<1>1. accounts[u].roles \subseteq RoleIds
  BY DEF TypeOK, Account
<1> QED  BY <1>1 DEF findUserPermissionNames, HoldsPermission

-----------------------------------------------------------------------------
(* Types.                                                                  *)

LEMMA InitTypeOK == Init => TypeOK
<1> SUFFICES ASSUME Init PROVE TypeOK
  OBVIOUS
<1>1. seed \in SeedRun
  BY SeedsAssumption DEF Init, SeedRun, SeedStages, NothingUpserted
<1> QED
  BY <1>1 DEF Init, TypeOK, NoRole, NoPermission, Stages, Answers, Account, Role,
              Permission, Asking

\* History: the facts are what they are called.
LEMMA ObserveTypeOK ==
    ASSUME seen \in [Requests -> SUBSET FactNames], Observe
    PROVE  seen' \in [Requests -> SUBSET FactNames]
<1>1. ASSUME NEW r \in Requests PROVE Facts(r)' \subseteq FactNames
  BY DEF Facts, FactNames
<1> QED  BY <1>1 DEF Observe

\* A step of a request's control leaves it at a stage, with an answer or none.
LEMMA ControlTypeOK ==
    ASSUME TypeOK, NEW r \in Requests,
           NEW s \in Stages, NEW a \in Answers,
           Goto(r, s) \/ End(r, a)
    PROVE  stage' \in [Requests -> Stages] /\ answer' \in [Requests -> Answers]
BY DEF TypeOK, Goto, End, Stages

LEMMA StepTypeOK == TypeOK /\ SeedRecords /\ Next => TypeOK'
<1> SUFFICES ASSUME TypeOK, SeedRecords, Next PROVE TypeOK'
  OBVIOUS
<1> USE DEF tables
<1>0. seen' \in [Requests -> SUBSET FactNames]
  BY ObserveTypeOK DEF TypeOK, Next
<1>1. ASSUME NEW r \in Requests, Arrive(r) PROVE TypeOK'
  <2>1. request' \in [Requests -> Asking]
    BY <1>1 DEF TypeOK, Arrive, Asking
  <2> QED  BY <1>0, <1>1, <2>1 DEF TypeOK, Arrive, Goto, Stages
<1>2. ASSUME NEW r \in Requests, Guard(r) PROVE TypeOK'
  <2>1. CASE JwtAuthGuard(r)
    BY <1>0, <2>1 DEF TypeOK, JwtAuthGuard, Goto, End, Stages, Answers
  <2>2. CASE RolesGuard(r)
    BY <1>0, <2>2 DEF TypeOK, RolesGuard, Goto, End, Stages, Answers
  <2>3. CASE PermissionsGuard(r)
    BY <1>0, <2>3 DEF TypeOK, PermissionsGuard, HandlerStage, Goto, End, Stages, Answers
  <2> QED  BY <1>2, <2>1, <2>2, <2>3 DEF Guard
<1>3. ASSUME NEW r \in Requests, Handle(r) PROVE TypeOK'
  <2> "done" \in Answers /\ "not_found" \in Answers /\ "conflict" \in Answers
      /\ "write" \in Stages
    BY DEF Answers, Stages
  <2> USE DEF Edited
  <2>1. CASE LookUpUser(r)
    <3>1. stage' \in [Requests -> Stages] /\ answer' \in [Requests -> Answers]
      BY <2>1, ControlTypeOK DEF LookUpUser
    <3> QED  BY <1>0, <2>1, <3>1 DEF TypeOK, LookUpUser
  <2>2. CASE Show(r)
    <3>1. stage' \in [Requests -> Stages] /\ answer' \in [Requests -> Answers]
      BY <2>2, ControlTypeOK DEF Show
    <3> QED  BY <1>0, <2>2, <3>1 DEF TypeOK, Show
  <2>3. CASE UpdateUser(r)
    <3>1. stage' \in [Requests -> Stages] /\ answer' \in [Requests -> Answers]
      BY <2>3, ControlTypeOK DEF UpdateUser
    <3>2. accounts' \in [Users -> Account]
      <4>1. PICK active \in BOOLEAN, ids \in SUBSET RoleIds :
                accounts' = [accounts EXCEPT ![request[r].target] =
                   [status |-> IF active THEN "active" ELSE "inactive", roles |-> ids]]
        BY <2>3 DEF UpdateUser
      <4>2. [status |-> IF active THEN "active" ELSE "inactive", roles |-> ids] \in Account
        BY DEF Account
      <4> QED  BY <4>1, <4>2 DEF TypeOK
    <3> QED  BY <1>0, <2>3, <3>1, <3>2 DEF TypeOK, UpdateUser
  <2>4. CASE DeactivateUser(r)
    <3>1. stage' \in [Requests -> Stages] /\ answer' \in [Requests -> Answers]
      BY <2>4, ControlTypeOK DEF DeactivateUser
    <3>2. accounts' \in [Users -> Account]
      BY <2>4 DEF DeactivateUser, TypeOK, Account
    <3> QED  BY <1>0, <2>4, <3>1, <3>2 DEF TypeOK, DeactivateUser
  <2>5. CASE CreateRole(r)
    <3>1. stage' \in [Requests -> Stages] /\ answer' \in [Requests -> Answers]
      BY <2>5, ControlTypeOK DEF CreateRole
    <3>2. roles' \in [RoleIds -> Role] /\ edited' \in {"never", "before", "since"}
      BY <2>5 DEF CreateRole, TypeOK, Role
    <3> QED  BY <1>0, <2>5, <3>1, <3>2 DEF TypeOK, CreateRole
  <2>6. CASE UpdateRole(r)
    <3>1. stage' \in [Requests -> Stages] /\ answer' \in [Requests -> Answers]
      BY <2>6, ControlTypeOK DEF UpdateRole
    <3>2. roles' \in [RoleIds -> Role] /\ edited' \in {"never", "before", "since"}
      BY <2>6 DEF UpdateRole, TypeOK, Role
    <3> QED  BY <1>0, <2>6, <3>1, <3>2 DEF TypeOK, UpdateRole
  <2>7. CASE CreatePermission(r)
    <3>1. stage' \in [Requests -> Stages] /\ answer' \in [Requests -> Answers]
      BY <2>7, ControlTypeOK DEF CreatePermission
    <3>2. /\ permissions' \in [PermissionIds -> Permission]
          /\ edited' \in {"never", "before", "since"}
      BY <2>7 DEF CreatePermission, TypeOK, Permission
    <3> QED  BY <1>0, <2>7, <3>1, <3>2 DEF TypeOK, CreatePermission
  <2>8. CASE UpdatePermission(r)
    <3>1. stage' \in [Requests -> Stages] /\ answer' \in [Requests -> Answers]
      BY <2>8, ControlTypeOK DEF UpdatePermission
    <3>2. /\ permissions' \in [PermissionIds -> Permission]
          /\ edited' \in {"never", "before", "since"}
      BY <2>8 DEF UpdatePermission, TypeOK, Permission
    <3> QED  BY <1>0, <2>8, <3>1, <3>2 DEF TypeOK, UpdatePermission
  <2> QED  BY <1>3, <2>1, <2>2, <2>3, <2>4, <2>5, <2>6, <2>7, <2>8 DEF Handle
<1>4. ASSUME NEW u \in Users, Register(u) PROVE TypeOK'
  <2>1. RowsNamed(roles, "user") \subseteq RoleIds
    BY DEF RowsNamed, TypeOK
  <2>2. accounts' \in [Users -> Account]
    BY <1>4, <2>1 DEF Register, TypeOK, Account
  <2> QED  BY <1>0, <1>4, <2>2 DEF TypeOK, Register
<1>5. CASE Seed
  <2> SUFFICES ASSUME TRUE
               PROVE  /\ accounts' \in [Users -> Account]
                      /\ roles' \in [RoleIds -> Role]
                      /\ permissions' \in [PermissionIds -> Permission]
                      /\ seed' \in SeedRun
                      /\ edited' \in {"never", "before", "since"}
                      /\ UNCHANGED <<request, stage, answer>>
    BY <1>0 DEF TypeOK
  <2>1. CASE SeedStarts
    <3>1. seed.runs + 1 \in 0..MaxSeeds
      BY <2>1, SeedsAssumption DEF TypeOK, SeedStarts, SeedRun
    <3> QED  BY <2>1, <3>1 DEF TypeOK, SeedStarts, SeedRun, SeedStages
  <2>2. ASSUME NEW n \in SeededPermissions, SeedPermission(n)
        PROVE  /\ permissions' \in [PermissionIds -> Permission]
               /\ seed' \in SeedRun
               /\ UNCHANGED <<accounts, roles, request, stage, answer, edited>>
    <3> DEFINE id == UpsertId(permissions, n)
    <3>1. id \in PermissionIds
      BY <2>2, UpsertRow DEF SeedPermission, TypeOK
    <3>2. /\ permissions' = [permissions EXCEPT ![id] = [name |-> n, active |-> TRUE]]
          /\ Upserted(n, id)
          /\ UNCHANGED <<accounts, roles, request, stage, answer, edited>>
      BY <2>2 DEF SeedPermission
    <3> HIDE DEF id
    <3>3. [name |-> n, active |-> TRUE] \in Permission
      BY NamesAssumption DEF Permission
    <3>4. seed' \in SeedRun
      BY <3>1, <3>2 DEF Upserted, TypeOK, SeedRun, SeedStages
    <3> QED  BY <3>1, <3>2, <3>3, <3>4 DEF TypeOK
  <2>3. ASSUME NEW n \in RoleNames, NEW ps \in SUBSET SeededPermissions,
               CanUpsert(roles, n), SeedRole(UpsertId(roles, n), n, ps),
               seed.stage \in {"adminRole", "userRole"}
        PROVE  UpsertId(roles, n) \in RoleIds /\ roles' \in [RoleIds -> Role]
    <3> DEFINE id == UpsertId(roles, n)
               row == [name |-> n, active |-> TRUE,
                       permissions |-> {seed.ids[p] : p \in ps}]
    <3>1. id \in RoleIds
      BY <2>3, UpsertRow DEF TypeOK
    <3>2. roles' = [roles EXCEPT ![id] = row]
      BY <2>3 DEF SeedRole
    <3>3. row \in Role
      <4>1. \A p \in SeededPermissions : seed.ids[p] \in PermissionIds
        BY <2>3 DEF SeedRecords, TypeOK, SeedRun
      <4> QED  BY <4>1 DEF Role
    <3> HIDE DEF id, row
    <3>4. roles' \in [RoleIds -> Role]
      BY <3>1, <3>2, <3>3 DEF TypeOK
    <3> QED  BY <3>1, <3>4 DEF id
  <2>4. CASE SeedAdminRole
    <3>1. UpsertId(roles, "admin") \in RoleIds /\ roles' \in [RoleIds -> Role]
      BY <2>3, <2>4, NamesAssumption DEF SeedAdminRole
    <3> QED  BY <2>4, <3>1 DEF TypeOK, SeedAdminRole, SeedRun, SeedStages
  <2>5. CASE SeedUserRole
    <3>1. roles' \in [RoleIds -> Role]
      BY <2>3, <2>5, NamesAssumption DEF SeedUserRole
    <3> QED  BY <2>5, <3>1 DEF TypeOK, SeedUserRole, SeedRun, SeedStages
  <2>6. CASE SeedAdminUser
    <3>1. seed.adminRole \in RoleIds
      BY <2>6 DEF TypeOK, SeedAdminUser, SeedRecords, SeedRun
    <3>2. accounts' \in [Users -> Account]
      BY <2>6, <3>1, AdminAssumption DEF TypeOK, SeedAdminUser, Account
    <3> QED  BY <2>6, <3>2
             DEF TypeOK, SeedAdminUser, SeedEnds, NothingUpserted, SeedRun, SeedStages
  <2>7. CASE SeedCrashes
    BY <2>7 DEF TypeOK, SeedCrashes, SeedEnds, NothingUpserted, SeedRun, SeedStages
  <2> QED  BY <1>5, <2>1, <2>2, <2>4, <2>5, <2>6, <2>7 DEF Seed, TypeOK
<1> QED  BY <1>1, <1>2, <1>3, <1>4, <1>5 DEF Next

-----------------------------------------------------------------------------
(* Requests.                                                               *)

\* No request forgets what it has seen, and none overlooks what is the case.
LEMMA StepSeen ==
    ASSUME TypeOK, Next
    PROVE  /\ \A r \in Requests : seen[r] \subseteq seen'[r]
           /\ Witnessed'
<1>1. Observe
  BY DEF Next
<1> QED  BY <1>1 DEF Observe, Witnessed

\* What the control state of one request says, as one formula.
RequestOK(r) ==
    /\ stage[r] \in {"roles", "permissions", "lookup", "write"} => "active" \in seen[r]
    /\ stage[r] \in {"permissions", "lookup", "write"} => "role" \in seen[r]
    /\ stage[r] \in {"lookup", "write"} => "permissions" \in seen[r]
    /\ InFlight(r) => request[r].user \in Users /\ request[r].op \in Operations
    /\ InFlight(r) /\ request[r].op \in UserOperations => request[r].target \in Users
    /\ answer[r] # "none" => stage[r] = "answered"
    /\ answer[r] \notin {"none", "unauthorized", "forbidden"} =>
           {"active", "role", "permissions"} \subseteq seen[r]
    /\ answer[r] = "unauthorized" => "inactive" \in seen[r]
    /\ answer[r] = "forbidden" => {"no role", "no permissions"} \cap seen[r] # {}

RequestInv == Passed /\ Asked /\ AnswerMeansAnswered /\ GrantedForCause /\ RefusedForCause

LEMMA RequestInvSplit == RequestInv <=> \A r \in Requests : RequestOK(r)
BY DEF RequestInv, RequestOK, Passed, Asked, AnswerMeansAnswered, GrantedForCause,
       RefusedForCause

\* A request whose control state stays is as well off as before.
LEMMA RequestStays ==
    ASSUME NEW r \in Requests, RequestOK(r), seen[r] \subseteq seen'[r],
           stage'[r] = stage[r], answer'[r] = answer[r], request'[r] = request[r]
    PROVE  RequestOK(r)'
BY DEF RequestOK, InFlight

\* A guard lets through, and turns away, for what the request has seen.
LEMMA StepGuard ==
    ASSUME TypeOK, Witnessed, NEW r \in Requests, RequestOK(r),
           seen[r] \subseteq seen'[r], Guard(r)
    PROVE  RequestOK(r)'
<1> DEFINE u == request[r].user
           op == request[r].op
<1>1. InFlight(r) /\ answer[r] = "none" /\ request' = request
  BY DEF Guard, JwtAuthGuard, RolesGuard, PermissionsGuard, InFlight, RequestOK
<1>2. u \in Users /\ op \in Operations /\ Facts(r) \subseteq seen[r]
  BY <1>1 DEF RequestOK, Witnessed
<1>3. CASE JwtAuthGuard(r)
  <2>1. IF Active(u) THEN "active" \in seen[r] ELSE "inactive" \in seen[r]
    BY <1>2 DEF Facts
  <2> QED  BY <1>1, <1>3, <2>1
           DEF JwtAuthGuard, Goto, End, RequestOK, InFlight, TypeOK
<1>4. CASE RolesGuard(r)
  <2>1. (Endpoint[op].roles = {} \/ Endpoint[op].roles \cap findUserRoleNames(u) # {})
           <=> HoldsARole(u, op)
    BY <1>2, RolesQuery DEF HoldsARole
  <2>2. IF HoldsARole(u, op) THEN "role" \in seen[r] ELSE "no role" \in seen[r]
    BY <1>2 DEF Facts
  <2> QED  BY <1>1, <1>4, <2>1, <2>2
           DEF RolesGuard, Goto, End, RequestOK, InFlight, TypeOK
<1>5. CASE PermissionsGuard(r)
  <2>1. Endpoint[op].permissions \subseteq findUserPermissionNames(u)
           <=> HoldsPermissions(u, op)
    BY <1>2, PermissionsQuery DEF HoldsPermissions
  <2>2. IF HoldsPermissions(u, op) THEN "permissions" \in seen[r]
        ELSE "no permissions" \in seen[r]
    BY <1>2 DEF Facts
  <2> QED  BY <1>1, <1>5, <2>1, <2>2
           DEF PermissionsGuard, HandlerStage, Goto, End, RequestOK, InFlight, TypeOK
<1> QED  BY <1>3, <1>4, <1>5 DEF Guard

\* Handlers answer requests that have passed their guards.
LEMMA StepHandle ==
    ASSUME TypeOK, NEW r \in Requests, RequestOK(r),
           seen[r] \subseteq seen'[r], Handle(r)
    PROVE  RequestOK(r)'
<1>1. /\ stage[r] \in {"lookup", "write"} /\ request' = request
      /\ \/ Goto(r, "write")
         \/ \E result \in {"done", "not_found", "conflict"} : End(r, result)
  BY DEF Handle, LookUpUser, Show, UpdateUser, DeactivateUser, CreateRole, UpdateRole,
         CreatePermission, UpdatePermission, Ask
<1>2. {"active", "role", "permissions"} \subseteq seen'[r] /\ answer[r] = "none"
  BY <1>1 DEF RequestOK
<1> QED  BY <1>1, <1>2 DEF Goto, End, RequestOK, InFlight, TypeOK

LEMMA StepRequests ==
    TypeOK /\ Witnessed /\ RequestInv /\ Next => RequestInv'
<1> SUFFICES ASSUME TypeOK, Witnessed, RequestInv, Next, NEW r \in Requests
             PROVE  RequestOK(r)'
  BY DEF RequestInv, RequestOK, Passed, Asked, AnswerMeansAnswered, GrantedForCause,
         RefusedForCause
<1>0. RequestOK(r) /\ seen[r] \subseteq seen'[r]
  BY RequestInvSplit, StepSeen
<1>1. ASSUME NEW q \in Requests, Arrive(q) PROVE RequestOK(r)'
  <2>1. CASE q = r
    <3>1. PICK u \in Users, op \in Operations, t \in Users :
              request'[r] = [user |-> u, op |-> op,
                             target |-> IF op \in UserOperations THEN t ELSE None]
      BY <1>1, <2>1 DEF Arrive, TypeOK
    <3>2. stage'[r] = "jwt" /\ answer'[r] = "none"
      BY <1>0, <1>1, <2>1 DEF Arrive, Goto, RequestOK, TypeOK
    <3> QED  BY <3>1, <3>2 DEF RequestOK, InFlight
  <2>2. CASE q # r
    BY <1>0, <1>1, <2>2, RequestStays DEF Arrive, Goto, TypeOK
  <2> QED  BY <2>1, <2>2
<1>2. ASSUME NEW q \in Requests, Guard(q) PROVE RequestOK(r)'
  <2>1. CASE q = r
    BY <1>0, <1>2, <2>1, StepGuard
  <2>2. CASE q # r
    <3>1. stage'[r] = stage[r] /\ answer'[r] = answer[r] /\ request'[r] = request[r]
      BY <1>2, <2>2 DEF Guard, JwtAuthGuard, RolesGuard, PermissionsGuard, Goto, End, TypeOK
    <3> QED  BY <1>0, <3>1, RequestStays
  <2> QED  BY <2>1, <2>2
<1>3. ASSUME NEW q \in Requests, Handle(q) PROVE RequestOK(r)'
  <2>1. CASE q = r
    BY <1>0, <1>3, <2>1, StepHandle
  <2>2. CASE q # r
    <3>1. stage'[r] = stage[r] /\ answer'[r] = answer[r] /\ request'[r] = request[r]
      BY <1>3, <2>2
         DEF Handle, LookUpUser, Show, UpdateUser, DeactivateUser, CreateRole,
             UpdateRole, CreatePermission, UpdatePermission, Goto, End, TypeOK
    <3> QED  BY <1>0, <3>1, RequestStays
  <2> QED  BY <2>1, <2>2
<1>4. CASE (\E u \in Users : Register(u)) \/ Seed
  <2>1. UNCHANGED <<stage, answer, request>>
    BY <1>4 DEF Register, Seed, SeedStarts, SeedPermission, SeedAdminRole,
                SeedUserRole, SeedAdminUser, SeedCrashes
  <2> QED  BY <1>0, <2>1, RequestStays
<1> QED  BY <1>1, <1>2, <1>3, <1>4 DEF Next

-----------------------------------------------------------------------------
(* The seed script.                                                        *)

SeedInv == SeedUpserts /\ SeedRecords /\ SeedAdminRoleReady /\ SeedRestoresAdmin

\* Every administrative endpoint asks for the role "admin", or for none.
LEMMA EndpointRoles ==
    ASSUME NEW op \in Operations
    PROVE  Endpoint[op].roles \in {{}, {"admin"}}
BY OperationsAssumption DEF Endpoint, Requires

\* Steps that touch neither the script nor the tables it relies on.
LEMMA SeedUntouched ==
    ASSUME SeedInv, UNCHANGED <<roles, permissions, seed, edited>>,
           accounts'[Admin] = accounts[Admin]
    PROVE  SeedInv'
<1>1. SeedUpserts' /\ SeedRecords' /\ SeedAdminRoleReady'
  BY DEF SeedInv, SeedUpserts, SeedRecords, SeedAdminRoleReady, SeedRests
<1>2. \A op \in Operations : MayCall(Admin, op)' <=> MayCall(Admin, op)
  BY DEF MayCall, Active, HoldsARole, HoldsRole, HoldsPermissions, HoldsPermission
<1> QED  BY <1>1, <1>2 DEF SeedInv, SeedRestoresAdmin

\* After a handler's edit, nothing is claimed of the script but its own state.
LEMMA SeedAfterEdit ==
    ASSUME SeedInv, edited' = "since", UNCHANGED seed
    PROVE  SeedInv'
BY DEF SeedInv, SeedUpserts, SeedRecords, SeedAdminRoleReady, SeedRestoresAdmin, SeedRests

\* The upsert of one permission leaves the rows of the others as they are.
LEMMA StepSeedPermission ==
    ASSUME TypeOK, SeedInv, NEW n \in SeededPermissions, SeedPermission(n)
    PROVE  SeedInv'
<1> DEFINE id == UpsertId(permissions, n)
           row == [name |-> n, active |-> TRUE]
<1>1. id \in PermissionIds /\ permissions[id].name \in {n, None}
  BY UpsertRow DEF SeedPermission, TypeOK
<1>2. /\ permissions' = [permissions EXCEPT ![id] = row]
      /\ Upserted(n, id)
      /\ seed.stage = "permissions" /\ edited' = edited /\ roles' = roles
  BY DEF SeedPermission
<1> HIDE DEF id
<1>3. /\ seed'.ids = [seed.ids EXCEPT ![n] = id]
      /\ seed'.adminRole = seed.adminRole
      /\ seed'.stage \in {"permissions", "adminRole"}
      /\ seed'.stage = "adminRole" => \A m \in SeededPermissions \ {n} : seed.ids[m] # None
  BY <1>2 DEF Upserted, TypeOK, SeedRun
<1>4. SeedUpserts'
  <2> SUFFICES ASSUME edited # "since", NEW m \in SeededPermissions,
                      seed'.ids[m] # None
               PROVE  permissions'[seed'.ids[m]] = [name |-> m, active |-> TRUE]
    BY <1>2 DEF SeedUpserts
  <2>1. CASE m = n
    BY <1>1, <1>2, <1>3, <2>1 DEF TypeOK, SeedRun
  <2>2. CASE m # n
    <3>1. seed'.ids[m] = seed.ids[m] /\ seed.ids[m] \in PermissionIds
      BY <1>3, <2>2 DEF TypeOK, SeedRun
    <3>2. permissions[seed.ids[m]] = [name |-> m, active |-> TRUE]
      BY <3>1 DEF SeedInv, SeedUpserts
    <3>3. seed.ids[m] # id
      <4>1. m # None
        BY NamesAssumption, NoneAssumption
      <4> QED  BY <1>1, <2>2, <3>2, <4>1
    <3> QED  BY <1>2, <3>1, <3>2, <3>3 DEF TypeOK
  <2> QED  BY <2>1, <2>2
<1>5. SeedRecords'
  <2>1. \A m \in SeededPermissions : seed'.stage = "adminRole" => seed'.ids[m] # None
    BY <1>1, <1>3, NoneAssumption DEF TypeOK, SeedRun
  <2> QED  BY <1>3, <2>1 DEF SeedRecords, SeedRests
<1>6. SeedAdminRoleReady' /\ SeedRestoresAdmin'
  BY <1>3 DEF SeedAdminRoleReady, SeedRestoresAdmin
<1> QED  BY <1>4, <1>5, <1>6 DEF SeedInv

LEMMA StepSeedAdminRole ==
    ASSUME TypeOK, SeedInv, SeedAdminRole
    PROVE  SeedInv'
<1> DEFINE id == UpsertId(roles, "admin")
<1>1. id \in RoleIds
  BY UpsertRow DEF SeedAdminRole, TypeOK
<1>2. /\ roles' = [roles EXCEPT ![id] =
              [name |-> "admin", active |-> TRUE,
               permissions |-> {seed.ids[p] : p \in SeededPermissions}]]
      /\ seed' = [seed EXCEPT !.stage = "userRole", !.adminRole = id]
      /\ seed.stage = "adminRole"
      /\ UNCHANGED <<permissions, edited>>
  BY DEF SeedAdminRole, SeedRole
<1> HIDE DEF id
<1>3. seed'.stage = "userRole" /\ seed'.adminRole = id /\ seed'.ids = seed.ids
  BY <1>2 DEF TypeOK, SeedRun
<1>4. SeedUpserts'
  BY <1>2, <1>3 DEF SeedInv, SeedUpserts
<1>5. SeedRecords'
  BY <1>1, <1>2, <1>3, NoneAssumption DEF SeedInv, SeedRecords, SeedRests
<1>6. SeedAdminRoleReady'
  BY <1>1, <1>2, <1>3 DEF SeedAdminRoleReady, TypeOK
<1>7. SeedRestoresAdmin'
  BY <1>3 DEF SeedRestoresAdmin
<1> QED  BY <1>4, <1>5, <1>6, <1>7 DEF SeedInv

\* The role "user" is not the role "admin".
LEMMA StepSeedUserRole ==
    ASSUME TypeOK, SeedInv, SeedUserRole
    PROVE  SeedInv'
<1> DEFINE id == UpsertId(roles, "user")
<1>1. id \in RoleIds /\ roles[id].name \in {"user", None}
  BY UpsertRow DEF SeedUserRole, TypeOK
<1>2. /\ roles' = [roles EXCEPT ![id] =
              [name |-> "user", active |-> TRUE,
               permissions |-> {seed.ids[p] : p \in ProfilePermissions}]]
      /\ seed' = [seed EXCEPT !.stage = "adminUser"]
      /\ seed.stage = "userRole"
      /\ UNCHANGED <<permissions, edited>>
  BY DEF SeedUserRole, SeedRole
<1> HIDE DEF id
<1>3. seed'.stage = "adminUser" /\ seed'.adminRole = seed.adminRole /\ seed'.ids = seed.ids
  BY <1>2 DEF TypeOK, SeedRun
<1>4. SeedUpserts'
  BY <1>2, <1>3 DEF SeedInv, SeedUpserts
<1>5. SeedRecords'
  BY <1>2, <1>3 DEF SeedInv, SeedRecords, SeedRests
<1>6. SeedAdminRoleReady'
  <2>1. "admin" # None
    BY NamesAssumption, NoneAssumption
  <2>2. edited # "since" => roles[seed.adminRole].name = "admin"
    BY <1>2 DEF SeedInv, SeedAdminRoleReady
  <2>3. edited # "since" => seed.adminRole # id
    BY <1>1, <2>1, <2>2
  <2>4. seed.adminRole \in RoleIds
    BY <1>2 DEF SeedInv, SeedRecords, TypeOK, SeedRun
  <2> QED  BY <1>2, <1>3, <2>3, <2>4 DEF SeedInv, SeedAdminRoleReady, TypeOK
<1>7. SeedRestoresAdmin'
  BY <1>3 DEF SeedRestoresAdmin
<1> QED  BY <1>4, <1>5, <1>6, <1>7 DEF SeedInv

\* The last step of the script gives the administrator the role it has made.
LEMMA StepSeedAdminUser ==
    ASSUME TypeOK, SeedInv, SeedAdminUser
    PROVE  SeedInv'
<1>1. /\ accounts' = [accounts EXCEPT ![Admin] =
              [status |-> "active", roles |-> {seed.adminRole}]]
      /\ seed'.stage = "done" /\ seed'.ids = NothingUpserted
      /\ seed.stage = "adminUser"
      /\ UNCHANGED <<roles, permissions, edited>>
  BY DEF SeedAdminUser, SeedEnds, TypeOK, SeedRun
<1>2. SeedUpserts' /\ SeedRecords' /\ SeedAdminRoleReady'
  BY <1>1 DEF SeedUpserts, SeedRecords, SeedAdminRoleReady, NothingUpserted, SeedRests
<1>3. SeedRestoresAdmin'
  <2> SUFFICES ASSUME edited # "since", NEW op \in Operations
               PROVE  MayCall(Admin, op)'
    BY <1>1 DEF SeedRestoresAdmin
  <2>1. /\ seed.adminRole \in RoleIds
        /\ roles[seed.adminRole] =
              [name |-> "admin", active |-> TRUE,
               permissions |-> {seed.ids[n] : n \in SeededPermissions}]
    BY <1>1 DEF SeedInv, SeedRecords, SeedAdminRoleReady, TypeOK, SeedRun
  <2>2. accounts'[Admin].status = "active" /\ accounts'[Admin].roles = {seed.adminRole}
    BY <1>1, AdminAssumption DEF TypeOK
  <2>3. HoldsARole(Admin, op)'
    BY <1>1, <2>1, <2>2, EndpointRoles DEF HoldsARole, HoldsRole, Active
  <2>4. ASSUME NEW n \in Endpoint[op].permissions PROVE HoldsPermission(Admin, n)'
    <3>1. n \in SeededPermissions
      BY NamesAssumption
    <3>2. /\ seed.ids[n] \in PermissionIds
          /\ permissions[seed.ids[n]] = [name |-> n, active |-> TRUE]
      BY <1>1, <3>1 DEF SeedInv, SeedRecords, SeedUpserts, TypeOK, SeedRun
    <3> QED  BY <1>1, <2>1, <2>2, <3>1, <3>2 DEF HoldsPermission, Active
  <2> QED  BY <2>2, <2>3, <2>4 DEF MayCall, HoldsPermissions, Active
<1> QED  BY <1>2, <1>3 DEF SeedInv

LEMMA StepSeedInv == TypeOK /\ SeedInv /\ Next => SeedInv'
<1> SUFFICES ASSUME TypeOK, SeedInv, Next PROVE SeedInv'
  OBVIOUS
<1>1. ASSUME NEW r \in Requests, Arrive(r) \/ Guard(r) PROVE SeedInv'
  BY <1>1, SeedUntouched
     DEF Arrive, Guard, JwtAuthGuard, RolesGuard, PermissionsGuard, tables
<1>2. ASSUME NEW r \in Requests, Handle(r) PROVE SeedInv'
  <2>1. seed' = seed /\ (edited' = "since" \/ UNCHANGED <<tables, edited>>)
    BY <1>2 DEF Handle, LookUpUser, Show, UpdateUser, DeactivateUser, CreateRole,
                UpdateRole, CreatePermission, UpdatePermission, Edited, tables
  <2> QED  BY <2>1, SeedUntouched, SeedAfterEdit DEF tables
<1>3. ASSUME NEW u \in Users, Register(u) PROVE SeedInv'
  <2>1. CASE u = Admin
    <3>1. \A op \in Operations : ~ MayCall(Admin, op)
      BY <1>3, <2>1 DEF Register, MayCall, Active
    <3>2. SeedUpserts' /\ SeedRecords' /\ SeedAdminRoleReady'
      BY <1>3 DEF Register, SeedInv, SeedUpserts, SeedRecords, SeedAdminRoleReady, SeedRests
    <3>3. SeedRestoresAdmin'
      BY <1>3, <3>1 DEF Register, SeedInv, SeedRestoresAdmin
    <3> QED  BY <3>2, <3>3 DEF SeedInv
  <2>2. CASE u # Admin
    BY <1>3, <2>2, SeedUntouched, AdminAssumption DEF Register, TypeOK
  <2> QED  BY <2>1, <2>2
<1>4. CASE SeedStarts
  <2>1. /\ SeedRests /\ seed'.stage = "permissions" /\ seed'.ids = seed.ids
    BY <1>4 DEF SeedStarts, TypeOK, SeedRun
  <2>2. seed'.ids = NothingUpserted
    BY <2>1 DEF SeedInv, SeedRecords
  <2> QED  BY <2>1, <2>2 DEF SeedInv, SeedUpserts, SeedRecords, SeedAdminRoleReady,
                             SeedRestoresAdmin, SeedRests, NothingUpserted
<1>5. CASE SeedCrashes
  <2>1. seed'.stage = "failed" /\ seed'.ids = NothingUpserted
    BY <1>5 DEF SeedCrashes, SeedEnds, TypeOK, SeedRun
  <2> QED  BY <2>1 DEF SeedInv, SeedUpserts, SeedRecords, SeedAdminRoleReady,
                       SeedRestoresAdmin, SeedRests, NothingUpserted
<1> QED
  BY <1>1, <1>2, <1>3, <1>4, <1>5, StepSeedPermission, StepSeedAdminRole,
     StepSeedUserRole, StepSeedAdminUser DEF Next, Seed

-----------------------------------------------------------------------------
(* Before the first edit.                                                  *)

LEMMA StepPlainUsers ==
    ASSUME TypeOK, SeedInv, PlainUsers, Next
    PROVE  PlainUsers'
<1> SUFFICES ASSUME edited' = "never" PROVE PlainUsers'
  BY DEF PlainUsers
<1> "user" # None /\ "admin" # None /\ \A n \in ProfilePermissions : n # None
  BY NamesAssumption, NoneAssumption
<1>0. ASSUME UNCHANGED tables, edited = "never" PROVE PlainUsers'
  BY <1>0 DEF PlainUsers, RowsNamed, tables
<1>1. ASSUME NEW r \in Requests, Arrive(r) \/ Guard(r) \/ Handle(r) PROVE PlainUsers'
  <2>1. UNCHANGED tables /\ edited = "never"
    BY <1>1 DEF Arrive, Guard, JwtAuthGuard, RolesGuard, PermissionsGuard, Handle,
                LookUpUser, Show, UpdateUser, DeactivateUser, CreateRole, UpdateRole,
                CreatePermission, UpdatePermission, Edited, tables
  <2> QED  BY <1>0, <2>1
<1>2. ASSUME NEW u \in Users, Register(u) PROVE PlainUsers'
  <2>1. /\ roles' = roles /\ permissions' = permissions /\ edited = "never"
        /\ accounts' = [accounts EXCEPT ![u] =
               [status |-> "active", roles |-> RowsNamed(roles, "user")]]
    BY <1>2 DEF Register
  <2>2. ASSUME NEW v \in Users \ {Admin}
        PROVE  accounts'[v].roles \subseteq RowsNamed(roles, "user")
    BY <2>1 DEF PlainUsers, TypeOK
  <2> QED  BY <2>1, <2>2 DEF PlainUsers, RowsNamed
<1>3. CASE SeedStarts \/ SeedCrashes
  <2>1. UNCHANGED tables /\ edited = "never"
    BY <1>3 DEF SeedStarts, SeedCrashes, tables
  <2> QED  BY <1>0, <2>1
<1>4. ASSUME NEW n \in SeededPermissions, SeedPermission(n) PROVE PlainUsers'
  <2> DEFINE id == UpsertId(permissions, n)
  <2>1. id \in PermissionIds /\ permissions[id].name \in {n, None}
    BY <1>4, UpsertRow DEF SeedPermission, TypeOK
  <2>2. /\ permissions' = [permissions EXCEPT ![id] = [name |-> n, active |-> TRUE]]
        /\ roles' = roles /\ accounts' = accounts /\ edited = "never"
    BY <1>4 DEF SeedPermission
  <2> HIDE DEF id
  <2>3. ASSUME NEW p \in PermissionIds, permissions[p].name # None
        PROVE  permissions'[p].name = permissions[p].name
    BY <2>1, <2>2, <2>3 DEF TypeOK
  <2>4. ASSUME NEW row \in RowsNamed(roles, "user"), NEW p \in roles[row].permissions
        PROVE  permissions'[p].name \in ProfilePermissions
    <3>1. p \in PermissionIds
      BY DEF RowsNamed, TypeOK, Role
    <3>2. permissions[p].name \in ProfilePermissions
      BY <2>2 DEF PlainUsers
    <3> QED  BY <2>3, <3>1, <3>2
  <2> QED  BY <2>2, <2>4 DEF PlainUsers, RowsNamed
<1>5. CASE SeedAdminRole
  <2> DEFINE id == UpsertId(roles, "admin")
  <2>1. id \in RoleIds /\ roles[id].name \in {"admin", None}
    BY <1>5, UpsertRow DEF SeedAdminRole, TypeOK
  <2>2. PICK ps : roles' = [roles EXCEPT ![id] =
              [name |-> "admin", active |-> TRUE, permissions |-> ps]]
    BY <1>5 DEF SeedAdminRole, SeedRole
  <2>3. permissions' = permissions /\ accounts' = accounts /\ edited = "never"
    BY <1>5 DEF SeedAdminRole
  <2> HIDE DEF id
  <2>4. RowsNamed(roles, "user")' = RowsNamed(roles, "user")
    BY <2>1, <2>2 DEF RowsNamed, TypeOK
  <2>5. \A row \in RowsNamed(roles, "user") : roles'[row] = roles[row]
    BY <2>1, <2>2 DEF RowsNamed, TypeOK
  <2> QED  BY <2>3, <2>4, <2>5 DEF PlainUsers
<1>6. CASE SeedUserRole
  <2> DEFINE id == UpsertId(roles, "user")
             ps == {seed.ids[p] : p \in ProfilePermissions}
  <2>1. id \in RoleIds
    BY <1>6, UpsertRow DEF SeedUserRole, TypeOK
  <2>2. roles' = [roles EXCEPT ![id] =
              [name |-> "user", active |-> TRUE, permissions |-> ps]]
    BY <1>6 DEF SeedUserRole, SeedRole
  <2>3. permissions' = permissions /\ accounts' = accounts /\ edited = "never"
    BY <1>6 DEF SeedUserRole
  <2>4. ASSUME NEW p \in ps PROVE permissions[p].name \in ProfilePermissions
    <3>1. PICK n \in ProfilePermissions : p = seed.ids[n]
      OBVIOUS
    <3>2. n \in SeededPermissions /\ seed.ids[n] # None
      BY <1>6, NamesAssumption DEF SeedUserRole, SeedInv, SeedRecords
    <3>3. permissions[seed.ids[n]] = [name |-> n, active |-> TRUE]
      <4>1. edited # "since"
        BY <2>3
      <4> QED  BY <3>2, <4>1 DEF SeedInv, SeedUpserts
    <3>4. permissions[seed.ids[n]].name = n
      BY <3>3
    <3> QED  BY <3>1, <3>4
  <2> HIDE DEF id, ps
  <2>5. RowsNamed(roles, "user")' = RowsNamed(roles, "user") \cup {id}
    BY <2>1, <2>2 DEF RowsNamed, TypeOK
  <2>6. ASSUME NEW row \in RowsNamed(roles, "user")', NEW p \in roles'[row].permissions
        PROVE  permissions[p].name \in ProfilePermissions
    <3>1. CASE row = id
      BY <2>1, <2>2, <2>4, <3>1 DEF TypeOK
    <3>2. CASE row # id
      <4>1. row \in RowsNamed(roles, "user") /\ row \in RoleIds
        BY <2>5, <3>2 DEF RowsNamed, TypeOK
      <4>2. roles'[row] = roles[row]
        BY <2>2, <3>2, <4>1 DEF TypeOK
      <4> QED  BY <2>3, <4>1, <4>2 DEF PlainUsers
    <3> QED  BY <3>1, <3>2
  <2> QED  BY <2>3, <2>5, <2>6 DEF PlainUsers
<1>7. CASE SeedAdminUser
  <2>1. /\ roles' = roles /\ permissions' = permissions /\ edited = "never"
        /\ \A u \in Users \ {Admin} : accounts'[u] = accounts[u]
    BY <1>7 DEF SeedAdminUser, TypeOK
  <2> QED  BY <2>1 DEF PlainUsers, RowsNamed
<1> QED  BY <1>1, <1>2, <1>3, <1>4, <1>5, <1>6, <1>7 DEF Next, Seed

-----------------------------------------------------------------------------
(* The theorems.                                                           *)

LEMMA IInvSplit == IInv <=> TypeOK /\ Witnessed /\ RequestInv /\ SeedInv /\ PlainUsers
BY DEF IInv, RequestInv, SeedInv

LEMMA InitIInv == Init => IInv
<1> SUFFICES ASSUME Init PROVE IInv
  OBVIOUS
<1>1. TypeOK
  BY InitTypeOK
<1>2. Witnessed /\ RequestInv
  BY DEF Init, Witnessed, RequestInv, Passed, Asked, AnswerMeansAnswered,
         GrantedForCause, RefusedForCause, InFlight
<1>3. SeedInv
  BY DEF Init, SeedInv, SeedUpserts, SeedRecords, SeedAdminRoleReady, SeedRestoresAdmin,
         SeedRests, NothingUpserted
<1>4. PlainUsers
  <2>1. "user" # None
    BY NamesAssumption, NoneAssumption
  <2> QED  BY <2>1 DEF Init, PlainUsers, RowsNamed, NoRole
<1> QED  BY <1>1, <1>2, <1>3, <1>4, IInvSplit

LEMMA StepIInv == IInv /\ [Next]_vars => IInv'
<1> SUFFICES ASSUME IInv, [Next]_vars PROVE IInv'
  OBVIOUS
<1>1. CASE Next
  <2>1. TypeOK /\ Witnessed /\ RequestInv /\ SeedInv /\ PlainUsers
    BY IInvSplit
  <2>2. TypeOK'
    BY <1>1, <2>1, StepTypeOK DEF SeedInv
  <2>3. Witnessed' /\ RequestInv'
    BY <1>1, <2>1, StepSeen, StepRequests
  <2>4. SeedInv' /\ PlainUsers'
    BY <1>1, <2>1, StepSeedInv, StepPlainUsers
  <2> QED  BY <2>2, <2>3, <2>4 DEF IInv, RequestInv, SeedInv
<1>2. CASE UNCHANGED vars
  <2>1. TypeOK'
    BY <1>2 DEF IInv, TypeOK, vars
  <2>2. Witnessed'
    <3>1. \A r \in Requests : Facts(r)' = Facts(r)
      BY <1>2 DEF vars, Facts, Active, HoldsARole, HoldsRole, HoldsPermissions,
                  HoldsPermission
    <3> QED  BY <1>2, <3>1 DEF IInv, Witnessed, InFlight, vars
  <2>3. RequestInv'
    BY <1>2 DEF IInv, RequestInv, vars, Passed, Asked, InFlight, AnswerMeansAnswered,
                GrantedForCause, RefusedForCause
  <2>4. SeedInv'
    BY <1>2, SeedUntouched DEF IInv, SeedInv, vars
  <2>5. PlainUsers'
    BY <1>2 DEF IInv, PlainUsers, RowsNamed, vars
  <2> QED  BY <2>1, <2>2, <2>3, <2>4, <2>5 DEF IInv, RequestInv, SeedInv
<1> QED  BY <1>1, <1>2

\* The tables, the requests' histories and the seed script always agree.
THEOREM Invariance == Spec => []IInv
BY InitIInv, StepIInv, PTL DEF Spec

\* Every variable of the access model always has its type.
THEOREM TypeCorrect == Spec => []TypeOK
<1>1. IInv => TypeOK
  BY DEF IInv
<1> QED  BY <1>1, Invariance, PTL

\* Whoever has passed the guards was active, had a required role and had every
\* required permission, each at some moment of the request.
THEOREM AccessIsGrantedForCause == Spec => []GrantedForCause
<1>1. IInv => GrantedForCause
  BY DEF IInv
<1> QED  BY <1>1, Invariance, PTL

\* Whoever was turned away was inactive, or lacked the roles or a permission, at
\* some moment of the request.
THEOREM AccessIsRefusedForCause == Spec => []RefusedForCause
<1>1. IInv => RefusedForCause
  BY DEF IInv
<1> QED  BY <1>1, Invariance, PTL

\* A seed run that ends restores the administrator, whatever came before it.
THEOREM SeedIsRestoring == Spec => []SeedRestoresAdmin
<1>1. IInv => SeedRestoresAdmin
  BY DEF IInv
<1> QED  BY <1>1, Invariance, PTL

\* Before the first edit nobody but the seeded administrator has power.
THEOREM FirstAdministrator == Spec => []OnlySeededAdmin
<1>1. IInv => OnlySeededAdmin
  <2> SUFFICES ASSUME TypeOK, PlainUsers, edited = "never", NEW u \in Users \ {Admin}
               PROVE  /\ ~ HoldsRole(u, "admin")
                      /\ \A n \in PermissionNames \ ProfilePermissions :
                             ~ HoldsPermission(u, n)
    BY DEF IInv, OnlySeededAdmin
  <2>1. accounts[u].roles \subseteq RowsNamed(roles, "user")
    BY DEF PlainUsers
  <2>2. ~ HoldsRole(u, "admin")
    BY <2>1 DEF HoldsRole, RowsNamed
  <2>3. ASSUME NEW n \in PermissionNames, HoldsPermission(u, n)
        PROVE  n \in ProfilePermissions
    BY <2>1, <2>3 DEF HoldsPermission, PlainUsers
  <2> QED  BY <2>2, <2>3
<1> QED  BY <1>1, Invariance, PTL
=============================================================================
