SPECIFICATION Spec
CONSTANTS
    None = None
    Requests <- MCRequests
    Starts <- MCStarts
    Nodes = {1, 2, 3, 4, 5, 6, 7, 8}
    Stores = {1, 2}
    Codes = {"r", "a", "b", "s", "h", "x", "y", "n3"}
    Users = {"u1", "u2", "u3"}
    Emails = {"e1", "e2", "e3"}
    Subs = {"s1", "s2", "s3"}
    Tenants = {"t1", "t2", "t3"}
    Docs = {"d1", "d2", "d3"}
    Modules = {"ADMIN", "m"}
    Names = {"n1", "n2", "n3"}
    Providers = {"p1", "p2"}
    RoleIds = {"super", "a", "b", "old", "manager"}
    TenantRoles = {"manager"}
    SuperAdmin = "super"
    Archived = {"old"}
    FULL_TREE_THRESHOLD = 3
    DEFAULT_DEPTH = 2
    PAYLOAD_CAP = 2
    MAX_REDUCTIONS = 1
    Perms <- MCPerms
    AuditIds <- MCAuditIds
    Override <- MCOverride
    Grants <- MCGrants
    SeedNodes <- MCNodes
    SeedStores <- MCStores
    SeedUsers <- MCUsers
    SeedIdentities <- MCIdentities
    SeedTenants <- MCTenants
    SeedSections <- MCSections
    SeedDocs <- MCDocs
    SeedModules <- MCModules
CHECK_DEADLOCK FALSE
INVARIANTS
    OrgTreeIsSound
    UsersAreBound
    TenantsAreSound
    OverrideIsHeld
    MirrorIsFaithful
    AuditIsTrue
    RowsAreLegal
    ReadsAgree
PROPERTIES
    TenantsAreIsolated
