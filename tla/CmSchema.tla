------------------------------ MODULE CmSchema ------------------------------
(* The schema of Customer Master's database (migrations/versions): the      *)
(* enumerations, the foreign keys and the checks that tie a status to its   *)
(* columns, over the rows the requests leave.  The unique indexes and the   *)
(* triggers on roles refuse writes; they are guards of the actions that     *)
(* make those (InsertUser, AcceptInvitation, InsertNode, WriteRole, ...)    *)
(* and are not stated again here.  The formats and the lengths of texts are *)
(* left out.                                                                *)
EXTENDS Access

(* SQL's foreign key: NULL refers to nothing.                               *)
ForeignKey(value, rows) == value = None \/ rows[value] # None

ck_tenants(row) ==
    /\ row.status \in TenantStatus
    /\ row.suspended <=> row.status = "SUSPENDED"

ck_tenant_users(row) ==
    /\ row.status \in UserStatus
    /\ row.sub = None <=> row.status = "INVITED"
    /\ row.accepted <=> row.status # "INVITED"
    /\ row.suspended <=> row.status = "SUSPENDED"

ck_org_nodes(row) ==
    /\ row.status \in OrgNodeStatus
    /\ row.type = TENANT <=> row.parent = None
    /\ row.parent # None => nodes[row.parent] # None /\ nodes[row.parent].tenant = row.tenant
    /\ row.archived <=> row.status = "ARCHIVED"

ck_stores(row) ==
    /\ row.status \in StoreStatus
    /\ row.closed <=> row.status = "CLOSED"

ck_tenant_module_access(t, m) ==
    /\ modules[t][m] \in {"ENABLED", "DISABLED", None}
    /\ modules[t][m] # None => tenants[t] # None

OnboardingTables(t) == sections[t] # {} => tenants[t] # None

tenant_documents(row) ==
    ForeignKey(row.tenant, tenants) /\ row.status \in {"PENDING_REVIEW", "VERIFIED", "REJECTED"}

-----------------------------------------------------------------------------
(* The assignments of roles, in two tables since 3e05299cb533.              *)
platform_user_role_assignments == {[platform_user |-> r, role |-> r] : r \in held}
tenant_user_role_assignments ==
    UNION {{[tenant_user |-> u, tenant |-> users[u].tenant, node |-> a.node, role |-> a.role]
            : a \in users[u].roles} : u \in Here(users)}

enforce_tenant_role_audience(role) == role \in TenantRoles

(* The composite keys: the user, the node and the assignment are of one     *)
(* tenant.                                                                  *)
SameTenant(row) ==
    /\ users[row.tenant_user] # None /\ users[row.tenant_user].tenant = row.tenant
    /\ nodes[row.node] # None /\ nodes[row.node].tenant = row.tenant

(* Before, there was one table, with NULLs, under a policy that shows a     *)
(* tenant's rows to that tenant's sessions only and the others to PLATFORM  *)
(* sessions.                                                                *)
user_role_assignments(row) ==
    /\ (row.platform_user = None) # (row.tenant_user = None)
    /\ (row.tenant = None) = (row.node = None)
    /\ (row.platform_user = None) = (row.tenant # None)
OldPolicy(row, tenant_id, user_type) ==
    IF row.tenant = None THEN user_type = "PLATFORM" ELSE row.tenant = tenant_id

(* The downgrade copies the rows of both tables back, ...                   *)
downgrade ==
    {[platform_user |-> r.platform_user, tenant_user |-> None, role |-> r.role,
      tenant |-> None, node |-> None] : r \in platform_user_role_assignments}
    \cup
    {[platform_user |-> None, tenant_user |-> r.tenant_user, role |-> r.role,
      tenant |-> r.tenant, node |-> r.node] : r \in tenant_user_role_assignments}

(* ... and the upgrade copies the platform's rows in a PLATFORM session,    *)
(* and then the rows of one tenant after the other as that tenant.          *)
upgrade_platform(old) ==
    {[platform_user |-> r.platform_user, role |-> r.role]
     : r \in {r \in old : OldPolicy(r, None, "PLATFORM") /\ r.platform_user # None}}
upgrade_tenants(old) ==
    UNION {{[tenant_user |-> r.tenant_user, tenant |-> r.tenant, node |-> r.node, role |-> r.role]
            : r \in {r \in old : /\ OldPolicy(r, t, "PLATFORM")
                                 /\ r.tenant_user # None /\ r.tenant = t}}
           : t \in Here(tenants)}

-----------------------------------------------------------------------------
AssignmentsAreLegal ==
    \A row \in tenant_user_role_assignments :
        enforce_tenant_role_audience(row.role) /\ SameTenant(row)

SplitIsLossless ==
    /\ \A row \in downgrade : user_role_assignments(row)
    /\ upgrade_platform(downgrade) = platform_user_role_assignments
    /\ upgrade_tenants(downgrade) = tenant_user_role_assignments

(* The checks and the foreign keys of the schema, which guard nothing in    *)
(* the model, hold of what the handlers write, whatever the interleaving:   *)
(* the columns that belong to a status change with it although the status   *)
(* was read statements before (transition in tenants.py, stores.py and      *)
(* tenant_users.py, accept_invitation), and a row refers to rows that exist *)
(* and are of its tenant, the user, the node and the role of an assignment  *)
(* too, which were validated before they were written (_validate_roles,     *)
(* _validate_org_nodes).  Uniqueness and the trigger on the permissions of  *)
(* a role are not claimed here: there the handlers do rely on the schema    *)
(* (tenant_users.py:499-506, 905-909).  The split of the assignments, there *)
(* and back, loses no row.                                                  *)
RowsAreLegal ==
    /\ \A t \in Here(tenants) : ck_tenants(tenants[t])
    /\ \A u \in Here(users) : ck_tenant_users(users[u]) /\ ForeignKey(users[u].tenant, tenants)
    /\ \A n \in Here(nodes) : ck_org_nodes(nodes[n]) /\ ForeignKey(nodes[n].tenant, tenants)
    /\ \A s \in Here(stores) : ck_stores(stores[s]) /\ ForeignKey(stores[s].node, nodes)
    /\ \A t \in Tenants : OnboardingTables(t) /\ \A m \in Modules : ck_tenant_module_access(t, m)
    /\ \A d \in Here(docs) : tenant_documents(docs[d])
    /\ AssignmentsAreLegal
    /\ SplitIsLossless
=============================================================================
