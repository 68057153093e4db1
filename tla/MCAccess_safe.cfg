SPECIFICATION Spec
CONSTANTS
    Users = {admin, u1}
    Requests = {r1, r2}
    admin = admin
    u1 = u1
    r1 = r1
    r2 = r2
    Admin = admin
    Operations = {"updateMe", "updateUser", "deactivateUser", "createRole", "updateRole", "createPermission", "updatePermission"}
    RoleIds = {"admin", "user", "3rd"}
    RoleNames = {"admin", "user", "other"}
    PermissionIds = {"users:write", "roles:write", "permissions:write", "4th"}
    PermissionNames = {"users:write", "roles:write", "permissions:write", "other:write"}
    SeededPermissions = {"users:write", "roles:write", "permissions:write"}
    ProfilePermissions = {}
    MaxSeeds = 2
    None = None
SYMMETRY Symmetry
CHECK_DEADLOCK FALSE
INVARIANTS
    TypeOK
    IInv
    GrantedForCause
    RefusedForCause
    SeedRestoresAdmin
    OnlySeededAdmin
