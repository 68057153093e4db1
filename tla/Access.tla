------------------------------- MODULE Access -------------------------------
(***************************************************************************)
(* Who may do what: the pipeline JwtAuthGuard, RolesGuard, PermissionsGuard,*)
(* handler, over the tables User, Role and Permission, while administrators*)
(* change those tables and the seed script runs beside them.               *)
(*                                                                         *)
(* Every guard is one query at READ COMMITTED, and every handler a lookup  *)
(* and one write, so a step is one statement.  An endpoint is what its     *)
(* decorators require; a row is its unique name and its active flag, a role*)
(* with its permissions, an account with its roles.  Rows of Role and      *)
(* Permission are never deleted.                                           *)
(***************************************************************************)
EXTENDS Integers

CONSTANTS
    Users,              \* accounts, registered or not
    Admin,              \* the account of SEED_ADMIN_EMAIL
    Requests,           \* HTTP requests with an access token
    Operations,         \* the endpoints that are called
    RoleIds,            \* bound: rows of Role
    RoleNames,          \* the names a role may be given
    PermissionIds,      \* bound: rows of Permission
    PermissionNames,    \* the names a permission may be given
    SeededPermissions,  \* the names the seed script upserts
    ProfilePermissions, \* those of them that start with "profile:"
    MaxSeeds,           \* bound: runs of the seed script
    None                \* no name, no id, no user

\* What @Roles and @RequirePermissions demand of an endpoint.
Requires(rs, ps) == [roles |-> rs, permissions |-> ps]

Endpoint ==
    [getMe            |-> Requires({}, {}),
     updateMe         |-> Requires({}, {}),
     listUsers        |-> Requires({"admin"}, {"users:read"}),
     getUser          |-> Requires({"admin"}, {"users:read"}),
     updateUser       |-> Requires({"admin"}, {"users:write"}),
     deactivateUser   |-> Requires({"admin"}, {"users:write"}),
     listRoles        |-> Requires({"admin"}, {"roles:read"}),
     createRole       |-> Requires({"admin"}, {"roles:write"}),
     updateRole       |-> Requires({"admin"}, {"roles:write"}),
     listPermissions  |-> Requires({"admin"}, {"permissions:read"}),
     createPermission |-> Requires({"admin"}, {"permissions:write"}),
     updatePermission |-> Requires({"admin"}, {"permissions:write"})]

Listings == {"listUsers", "listRoles", "listPermissions"}

\* Handlers that look the user up first, their own or the one in the path.
UserOperations == {"getMe", "updateMe", "getUser", "updateUser", "deactivateUser"}

ASSUME AdminAssumption == Admin \in Users
ASSUME OperationsAssumption == Operations \subseteq DOMAIN Endpoint
ASSUME NamesAssumption ==
    /\ {"admin", "user"} \subseteq RoleNames
    /\ SeededPermissions \subseteq PermissionNames
    /\ ProfilePermissions \subseteq SeededPermissions
    /\ \A op \in Operations : Endpoint[op].permissions \subseteq SeededPermissions
ASSUME SeedsAssumption == MaxSeeds \in Nat
ASSUME NoneAssumption ==
    /\ None \notin Users /\ None \notin RoleIds /\ None \notin PermissionIds
    /\ None \notin RoleNames /\ None \notin PermissionNames

VARIABLES
    accounts,    \* each account: absent, active or inactive, and its roles
    roles,       \* the rows of Role
    permissions, \* the rows of Permission
    request,     \* what each request was asked for, by whom, about whom
    stage,       \* where each request stands
    answer,      \* how each request ended
    seen,        \* history: what was the case at some moment of the request
    seed,        \* the seed script
    edited       \* history: "never" by a handler, "before" or "since" the
                 \* current run of the seed script began

vars == <<accounts, roles, permissions, request, stage, answer, seen, seed, edited>>

tables == <<accounts, roles, permissions>>

Answers == {"none", "unauthorized", "forbidden", "not_found", "conflict", "done"}

Stages == {"idle", "jwt", "roles", "permissions", "lookup", "write", "answered"}

SeedStages == {"idle", "permissions", "adminRole", "userRole", "adminUser",
               "done", "failed"}

FactNames == {"active", "inactive", "role", "no role",
              "permissions", "no permissions"}

NoRole == [name |-> None, active |-> FALSE, permissions |-> {}]

NoPermission == [name |-> None, active |-> FALSE]

NothingUpserted == [n \in SeededPermissions |-> None]

Account == [status : {"absent", "active", "inactive"}, roles : SUBSET RoleIds]

Role == [name : RoleNames \cup {None}, active : BOOLEAN,
         permissions : SUBSET PermissionIds]

Permission == [name : PermissionNames \cup {None}, active : BOOLEAN]

Asking == [user : Users \cup {None}, op : Operations \cup {None},
           target : Users \cup {None}]

SeedRun == [stage : SeedStages, runs : 0..MaxSeeds,
            ids : [SeededPermissions -> PermissionIds \cup {None}],
            adminRole : RoleIds \cup {None}]

TypeOK ==
    /\ accounts \in [Users -> Account]
    /\ roles \in [RoleIds -> Role]
    /\ permissions \in [PermissionIds -> Permission]
    /\ request \in [Requests -> Asking]
    /\ stage \in [Requests -> Stages]
    /\ answer \in [Requests -> Answers]
    /\ seen \in [Requests -> SUBSET FactNames]
    /\ seed \in SeedRun
    /\ edited \in {"never", "before", "since"}

\* A migrated database before its first seed.
Init ==
    /\ accounts = [u \in Users |-> [status |-> "absent", roles |-> {}]]
    /\ roles = [id \in RoleIds |-> NoRole]
    /\ permissions = [id \in PermissionIds |-> NoPermission]
    /\ request = [r \in Requests |-> [user |-> None, op |-> None, target |-> None]]
    /\ stage = [r \in Requests |-> "idle"]
    /\ answer = [r \in Requests |-> "none"]
    /\ seen = [r \in Requests |-> {}]
    /\ seed = [stage |-> "idle", runs |-> 0, ids |-> NothingUpserted,
               adminRole |-> None]
    /\ edited = "never"

-----------------------------------------------------------------------------
(***************************************************************************)
(* The tables.                                                             *)
(***************************************************************************)
RowsNamed(table, n) == {id \in DOMAIN table : table[id].name = n}

\* P2002 for any row but the one that is written.
NameTaken(table, id, n) == RowsNamed(table, n) \ {id} # {}

HasRoom(table) == RowsNamed(table, None) # {}

\* A new row's cuid means nothing.  Taking the row's name for it when that is
\* free spares TLC the states that differ in the choice alone.
Fresh(table, n) ==
    CHOOSE id \in RowsNamed(table, None) : n \in RowsNamed(table, None) => id = n

Exists(table, id) == table[id].name # None

\* The row an upsert by name updates or creates.
UpsertId(table, n) ==
    IF RowsNamed(table, n) = {} THEN Fresh(table, n)
    ELSE CHOOSE id \in RowsNamed(table, n) : TRUE

CanUpsert(table, n) == RowsNamed(table, n) # {} \/ HasRoom(table)

Active(u) == accounts[u].status = "active"

\* The active roles of an active user.
findUserRoleNames(u) ==
    {roles[id].name :
        id \in {id \in accounts[u].roles : roles[id].active /\ Active(u)}}

\* Variant: permissions that have been switched off still count.
findUserPermissionNames_AnyFlag(u) ==
    {permissions[p].name :
        p \in {p \in PermissionIds :
                  \E id \in accounts[u].roles :
                      roles[id].active /\ p \in roles[id].permissions /\ Active(u)}}

\* Variant: `every` for `some`, all roles that grant it must be the user's.
findUserPermissionNames_Every(u) ==
    {permissions[p].name :
        p \in {p \in PermissionIds :
                  /\ permissions[p].active
                  /\ \A id \in RoleIds :
                        p \in roles[id].permissions =>
                            roles[id].active /\ id \in accounts[u].roles /\ Active(u)}}

\* The active permissions of an active user's active roles.
findUserPermissionNames(u) ==
    {permissions[p].name :
        p \in {p \in PermissionIds :
                  /\ permissions[p].active
                  /\ \E id \in accounts[u].roles :
                        /\ roles[id].active
                        /\ p \in roles[id].permissions
                        /\ Active(u)}}

-----------------------------------------------------------------------------
(***************************************************************************)
(* What a request could rely on, said without the queries.                 *)
(***************************************************************************)
HoldsRole(u, n) ==
    /\ Active(u)
    /\ \E id \in RoleIds :
          id \in accounts[u].roles /\ roles[id].active /\ roles[id].name = n

HoldsPermission(u, n) ==
    /\ Active(u)
    /\ \E id \in RoleIds, p \in PermissionIds :
          /\ id \in accounts[u].roles /\ roles[id].active
          /\ p \in roles[id].permissions
          /\ permissions[p].active /\ permissions[p].name = n

HoldsARole(u, op) ==
    Endpoint[op].roles = {} \/ \E n \in Endpoint[op].roles : HoldsRole(u, n)

HoldsPermissions(u, op) ==
    \A n \in Endpoint[op].permissions : HoldsPermission(u, n)

MayCall(u, op) == Active(u) /\ HoldsARole(u, op) /\ HoldsPermissions(u, op)

Facts(r) ==
    LET u == request[r].user
        op == request[r].op
    IN  {IF Active(u) THEN "active" ELSE "inactive",
         IF HoldsARole(u, op) THEN "role" ELSE "no role",
         IF HoldsPermissions(u, op) THEN "permissions" ELSE "no permissions"}

InFlight(r) == stage[r] \notin {"idle", "answered"}

\* History: in every state, each request in flight takes note of the facts.
Observe ==
    seen' = [r \in Requests |-> IF InFlight(r)' THEN seen[r] \cup Facts(r)'
                                ELSE seen[r]]

-----------------------------------------------------------------------------
(***************************************************************************)
(* Requests and their guards.                                              *)
(***************************************************************************)
Goto(r, s) == stage' = [stage EXCEPT ![r] = s] /\ UNCHANGED answer

End(r, result) ==
    /\ stage' = [stage EXCEPT ![r] = "answered"]
    /\ answer' = [answer EXCEPT ![r] = result]

\* AuthService.register's insert; it connects the role named "user", and fails
\* as a whole when there is none or the email is taken.
Register(u) ==
    /\ accounts[u].status = "absent"
    /\ RowsNamed(roles, "user") # {}
    /\ accounts' = [accounts EXCEPT ![u] =
                       [status |-> "active", roles |-> RowsNamed(roles, "user")]]
    /\ UNCHANGED <<roles, permissions, request, stage, answer, seed, edited>>

\* A request of the bearer of an access token of u.
Arrive(r) ==
    /\ stage[r] = "idle"
    /\ \E u \in Users, op \in Operations, t \in Users :
          /\ accounts[u].status # "absent"
          /\ op \in {"getMe", "updateMe"} => t = u
          /\ request' = [request EXCEPT ![r] =
                [user |-> u, op |-> op,
                 target |-> IF op \in UserOperations THEN t ELSE None]]
    /\ Goto(r, "jwt")
    /\ UNCHANGED <<tables, seed, edited>>

JwtAuthGuard(r) ==
    /\ stage[r] = "jwt"
    /\ IF Active(request[r].user) THEN Goto(r, "roles") ELSE End(r, "unauthorized")
    /\ UNCHANGED <<tables, request, seed, edited>>

\* Some of the roles of @Roles, if there are any.
RolesGuard(r) ==
    LET required == Endpoint[request[r].op].roles
    IN  /\ stage[r] = "roles"
        /\ IF \/ required = {}
              \/ required \cap findUserRoleNames(request[r].user) # {}
           THEN Goto(r, "permissions")
           ELSE End(r, "forbidden")
        /\ UNCHANGED <<tables, request, seed, edited>>

HandlerStage(r) == IF request[r].op \in UserOperations THEN "lookup" ELSE "write"

\* Every permission of @RequirePermissions.
PermissionsGuard(r) ==
    /\ stage[r] = "permissions"
    /\ IF Endpoint[request[r].op].permissions
             \subseteq findUserPermissionNames(request[r].user)
       THEN Goto(r, HandlerStage(r))
       ELSE End(r, "forbidden")
    /\ UNCHANGED <<tables, request, seed, edited>>

-----------------------------------------------------------------------------
(***************************************************************************)
(* Handlers.  A field a body leaves out keeps its value.                   *)
(***************************************************************************)
Ask(r, s, op) == stage[r] = s /\ request[r].op = op

\* ensureUserExists, or the lookup of a profile.
LookUpUser(r) ==
    /\ stage[r] = "lookup"
    /\ IF accounts[request[r].target].status = "absent" THEN End(r, "not_found")
       ELSE Goto(r, "write")
    /\ UNCHANGED <<tables, request, seed, edited>>

\* Listings and profiles change nothing this module models.
Show(r) ==
    /\ stage[r] = "write"
    /\ request[r].op \in Listings \cup {"getMe", "updateMe", "getUser"}
    /\ End(r, "done")
    /\ UNCHANGED <<tables, request, seed, edited>>

Edited == edited' = "since"

\* Roles are named by ids the client has been shown.
UpdateUser(r) ==
    /\ Ask(r, "write", "updateUser")
    /\ \E active \in BOOLEAN, ids \in SUBSET {id \in RoleIds : Exists(roles, id)} :
          accounts' = [accounts EXCEPT ![request[r].target] =
              [status |-> IF active THEN "active" ELSE "inactive", roles |-> ids]]
    /\ End(r, "done") /\ Edited
    /\ UNCHANGED <<roles, permissions, request, seed>>

DeactivateUser(r) ==
    /\ Ask(r, "write", "deactivateUser")
    /\ accounts' = [accounts EXCEPT ![request[r].target].status = "inactive"]
    /\ End(r, "done") /\ Edited
    /\ UNCHANGED <<roles, permissions, request, seed>>

CreateRole(r) ==
    /\ Ask(r, "write", "createRole")
    /\ \E n \in RoleNames, active \in BOOLEAN :
          IF RowsNamed(roles, n) # {}
          THEN End(r, "conflict") /\ UNCHANGED <<roles, edited>>
          ELSE /\ HasRoom(roles)
               /\ roles' = [roles EXCEPT ![Fresh(roles, n)] =
                     [name |-> n, active |-> active, permissions |-> {}]]
               /\ End(r, "done") /\ Edited
    /\ UNCHANGED <<accounts, permissions, request, seed>>

UpdateRole(r) ==
    /\ Ask(r, "write", "updateRole")
    /\ \E id \in RoleIds, n \in RoleNames, active \in BOOLEAN :
          IF ~ Exists(roles, id)
          THEN End(r, "not_found") /\ UNCHANGED <<roles, edited>>
          ELSE IF NameTaken(roles, id, n)
          THEN End(r, "conflict") /\ UNCHANGED <<roles, edited>>
          ELSE /\ roles' = [roles EXCEPT ![id].name = n, ![id].active = active]
               /\ End(r, "done") /\ Edited
    /\ UNCHANGED <<accounts, permissions, request, seed>>

CreatePermission(r) ==
    /\ Ask(r, "write", "createPermission")
    /\ \E n \in PermissionNames, active \in BOOLEAN :
          IF RowsNamed(permissions, n) # {}
          THEN End(r, "conflict") /\ UNCHANGED <<permissions, edited>>
          ELSE /\ HasRoom(permissions)
               /\ permissions' = [permissions EXCEPT ![Fresh(permissions, n)] =
                     [name |-> n, active |-> active]]
               /\ End(r, "done") /\ Edited
    /\ UNCHANGED <<accounts, roles, request, seed>>

UpdatePermission(r) ==
    /\ Ask(r, "write", "updatePermission")
    /\ \E id \in PermissionIds, n \in PermissionNames, active \in BOOLEAN :
          IF ~ Exists(permissions, id)
          THEN End(r, "not_found") /\ UNCHANGED <<permissions, edited>>
          ELSE IF NameTaken(permissions, id, n)
          THEN End(r, "conflict") /\ UNCHANGED <<permissions, edited>>
          ELSE /\ permissions' = [permissions EXCEPT ![id] =
                                     [name |-> n, active |-> active]]
               /\ End(r, "done") /\ Edited
    /\ UNCHANGED <<accounts, roles, request, seed>>

-----------------------------------------------------------------------------
(***************************************************************************)
(* The seed script: upserts one after another, no transaction around them. *)
(* The permissions are upserted in parallel.  It may stop anywhere and is  *)
(* run again, but not beside itself.                                       *)
(***************************************************************************)
SeedRests == seed.stage \in {"idle", "done", "failed"}

SeedStarts ==
    /\ SeedRests /\ seed.runs < MaxSeeds
    /\ seed' = [seed EXCEPT !.stage = "permissions", !.runs = @ + 1]
    /\ edited' = IF edited = "never" THEN "never" ELSE "before"
    /\ UNCHANGED <<tables, request, stage, answer>>

\* Variant: the script does not wait for all of its upserts.
Upserted_NotAwaited(n, id) ==
    seed' = [seed EXCEPT !.ids[n] = id, !.stage = "adminRole"]

\* The record of the upsert, and whether Promise.all is through.
Upserted(n, id) ==
    seed' = [seed EXCEPT
        !.ids[n] = id,
        !.stage = IF \A m \in SeededPermissions \ {n} : seed.ids[m] # None
                  THEN "adminRole" ELSE @]

\* Variant: a permission that exists is left as it is.
SeedPermission_Untouched(n) ==
    LET id == UpsertId(permissions, n)
    IN  /\ seed.stage = "permissions" /\ seed.ids[n] = None
        /\ CanUpsert(permissions, n)
        /\ permissions' = [permissions EXCEPT ![id] =
               IF @.name = n THEN @ ELSE [name |-> n, active |-> TRUE]]
        /\ Upserted(n, id)
        /\ UNCHANGED <<accounts, roles, request, stage, answer, edited>>

SeedPermission(n) ==
    LET id == UpsertId(permissions, n)
    IN  /\ seed.stage = "permissions" /\ seed.ids[n] = None
        /\ CanUpsert(permissions, n)
        /\ permissions' = [permissions EXCEPT ![id] = [name |-> n, active |-> TRUE]]
        /\ Upserted(n, id)
        /\ UNCHANGED <<accounts, roles, request, stage, answer, edited>>

SeedRole(id, n, ps) ==
    roles' = [roles EXCEPT ![id] = [name |-> n, active |-> TRUE,
                                    permissions |-> {seed.ids[p] : p \in ps}]]

SeedAdminRole ==
    LET id == UpsertId(roles, "admin")
    IN  /\ seed.stage = "adminRole" /\ CanUpsert(roles, "admin")
        /\ SeedRole(id, "admin", SeededPermissions)
        /\ seed' = [seed EXCEPT !.stage = "userRole", !.adminRole = id]
        /\ UNCHANGED <<accounts, permissions, request, stage, answer, edited>>

\* Variant: the filter on the profile permissions is forgotten.
SeedUserRole_EveryPermission ==
    /\ seed.stage = "userRole" /\ CanUpsert(roles, "user")
    /\ SeedRole(UpsertId(roles, "user"), "user", SeededPermissions)
    /\ seed' = [seed EXCEPT !.stage = "adminUser"]
    /\ UNCHANGED <<accounts, permissions, request, stage, answer, edited>>

SeedUserRole ==
    /\ seed.stage = "userRole" /\ CanUpsert(roles, "user")
    /\ SeedRole(UpsertId(roles, "user"), "user", ProfilePermissions)
    /\ seed' = [seed EXCEPT !.stage = "adminUser"]
    /\ UNCHANGED <<accounts, permissions, request, stage, answer, edited>>

SeedEnds(result) ==
    seed' = [seed EXCEPT !.stage = result, !.ids = NothingUpserted,
                         !.adminRole = None]

SeedAdminUser ==
    /\ seed.stage = "adminUser"
    /\ accounts' = [accounts EXCEPT ![Admin] =
                       [status |-> "active", roles |-> {seed.adminRole}]]
    /\ SeedEnds("done")
    /\ UNCHANGED <<roles, permissions, request, stage, answer, edited>>

SeedCrashes ==
    /\ ~ SeedRests
    /\ SeedEnds("failed")
    /\ UNCHANGED <<tables, request, stage, answer, edited>>

Guard(r) == JwtAuthGuard(r) \/ RolesGuard(r) \/ PermissionsGuard(r)

Handle(r) ==
    \/ LookUpUser(r) \/ Show(r) \/ UpdateUser(r) \/ DeactivateUser(r)
    \/ CreateRole(r) \/ UpdateRole(r) \/ CreatePermission(r) \/ UpdatePermission(r)

Seed ==
    \/ SeedStarts \/ (\E n \in SeededPermissions : SeedPermission(n))
    \/ SeedAdminRole \/ SeedUserRole \/ SeedAdminUser \/ SeedCrashes

Next ==
    /\ \/ \E r \in Requests : Arrive(r) \/ Guard(r) \/ Handle(r)
       \/ \E u \in Users : Register(u)
       \/ Seed
    /\ Observe

Spec == Init /\ [][Next]_vars

-----------------------------------------------------------------------------
(***************************************************************************)
(* Correctness.                                                            *)
(***************************************************************************)

\* "Guards load active roles/permissions from the database on each request":
\* a request that has passed its guards was, at some moment since it arrived,
\* that of an active account, of one that held a required role while role and
\* account were active, and of one that held every required permission.  The
\* three moments may differ: each guard reads for itself.
GrantedForCause ==
    \A r \in Requests :
        stage[r] \in {"lookup", "write"} \/ answer[r] \notin {"none", "unauthorized",
                                                              "forbidden"} =>
            {"active", "role", "permissions"} \subseteq seen[r]

\* A request is turned away only if, at some moment since it arrived, the
\* account was inactive or lacked the roles or a permission.
RefusedForCause ==
    \A r \in Requests :
        /\ answer[r] = "unauthorized" => "inactive" \in seen[r]
        /\ answer[r] = "forbidden" =>
               {"no role", "no permissions"} \cap seen[r] # {}

\* A run of the seed that reaches its end leaves an administrator who may call
\* everything, whatever earlier runs that stopped halfway and earlier edits
\* have left behind, unless an administrator edits during or after the run.
SeedRestoresAdmin ==
    seed.stage = "done" /\ edited # "since" =>
        \A op \in Operations : MayCall(Admin, op)

\* Until an administrator has changed something, the seeded administrator is
\* the only account with the role "admin" or with more than the permissions on
\* its own profile, at every point of every run of the seed script.
OnlySeededAdmin ==
    edited = "never" =>
        \A u \in Users \ {Admin} :
            /\ ~ HoldsRole(u, "admin")
            /\ \A n \in PermissionNames \ ProfilePermissions :
                   ~ HoldsPermission(u, n)
-----------------------------------------------------------------------------
(***************************************************************************)
(* The inductive invariant behind them.                                    *)
(***************************************************************************)

\* Each request in flight has taken note of what is the case.
Witnessed == \A r \in Requests : InFlight(r) => Facts(r) \subseteq seen[r]

\* Each guard that was passed was passed for a reason.
Passed ==
    \A r \in Requests :
        /\ stage[r] \in {"roles", "permissions", "lookup", "write"} =>
               "active" \in seen[r]
        /\ stage[r] \in {"permissions", "lookup", "write"} => "role" \in seen[r]
        /\ stage[r] \in {"lookup", "write"} => "permissions" \in seen[r]

\* A request is in flight for somebody and for something.
Asked ==
    \A r \in Requests :
        /\ InFlight(r) => request[r].user \in Users /\ request[r].op \in Operations
        /\ InFlight(r) /\ request[r].op \in UserOperations =>
               request[r].target \in Users

AnswerMeansAnswered ==
    \A r \in Requests : answer[r] # "none" => stage[r] = "answered"

\* What the current run of the seed has written so far is as it wrote it.
SeedUpserts ==
    edited # "since" =>
        \A n \in SeededPermissions :
            seed.ids[n] # None =>
                permissions[seed.ids[n]] = [name |-> n, active |-> TRUE]

SeedRecords ==
    /\ seed.stage \in {"adminRole", "userRole", "adminUser"} =>
           \A n \in SeededPermissions : seed.ids[n] # None
    /\ seed.stage = "adminUser" \/ seed.stage = "userRole" =>
           seed.adminRole # None
    /\ SeedRests => seed.ids = NothingUpserted

SeedAdminRoleReady ==
    seed.stage \in {"userRole", "adminUser"} /\ edited # "since" =>
        roles[seed.adminRole] =
            [name |-> "admin", active |-> TRUE,
             permissions |-> {seed.ids[n] : n \in SeededPermissions}]

\* Registered accounts have the role "user" only, and it grants little.
PlainUsers ==
    edited = "never" =>
        /\ \A u \in Users \ {Admin} : accounts[u].roles \subseteq RowsNamed(roles, "user")
        /\ \A id \in RowsNamed(roles, "user") : \A p \in roles[id].permissions :
               permissions[p].name \in ProfilePermissions

IInv ==
    /\ TypeOK
    /\ Witnessed /\ Passed /\ Asked /\ AnswerMeansAnswered
    /\ GrantedForCause /\ RefusedForCause
    /\ SeedUpserts /\ SeedRecords /\ SeedAdminRoleReady /\ SeedRestoresAdmin
    /\ PlainUsers
=============================================================================
