----------------------------- MODULE RoleReads -----------------------------
(* The endpoints of Customer Master that read roles, permissions,           *)
(* assignments and platform users (routers/v1/rbac.py, role_assignments.py, *)
(* platform_users.py, me.py), and what all the reads have in common.  The   *)
(* tables of roles have no row policy: the handlers filter by audience.     *)
EXTENDS CmReads

_audience_filter_for(by) == IF by.type = "TENANT" THEN "TENANT" ELSE None

AudienceOf(r) == IF r \in TenantRoles THEN "TENANT" ELSE "PLATFORM"
RoleStatusOf(r) == IF r \in Archived THEN "ARCHIVED" ELSE "ACTIVE"

(* The assignments a session sees: one table has a row policy.              *)
VisibleAssignments(by) == {a \in tenant_user_role_assignments : a.tenant \in Visible(by)}

_user_count_subquery(by, r) ==
    Cardinality({a \in platform_user_role_assignments : a.role = r})
        + Cardinality({a \in VisibleAssignments(by) : a.role = r})

(* Without a status, the ACTIVE roles.                                      *)
list_grouped(by, audience, status) ==
    [block \in {"PLATFORM", "TENANT"} |->
        IF ~Given(audience, block) THEN {}
        ELSE {[role |-> r, user_count |-> _user_count_subquery(by, r)]
              : r \in {r \in RoleIds : /\ AudienceOf(r) = block
                                       /\ RoleStatusOf(r) = IF status = None THEN "ACTIVE" ELSE status}}]

get_role_by_id(by, r, audience) ==
    IF Given(audience, AudienceOf(r)) THEN [role |-> r, user_count |-> _user_count_subquery(by, r)]
    ELSE None

_select_permissions_with_labels(r, only_held, exclude_global) ==
    {p \in Perms : /\ p \in rolePerms[r] <=> only_held
                   /\ exclude_global => p \notin GlobalOf(Perms)}

get_detail_by_id(by, r, audience) ==
    IF get_role_by_id(by, r, audience) = None THEN None
    ELSE [user_count |-> get_role_by_id(by, r, audience).user_count,
          permissions |-> _select_permissions_with_labels(r, TRUE, FALSE),
          available |-> _select_permissions_with_labels(r, FALSE, AudienceOf(r) = "TENANT")]

list_roles(by, status) == list_grouped(by, _audience_filter_for(by), status)
get_role(by, r) == get_detail_by_id(by, r, _audience_filter_for(by))
list_permissions_for_role(r) == rolePerms[r] \cap Perms
list_role_permissions(by, r) ==
    IF get_role_by_id(by, r, _audience_filter_for(by)) = None THEN None
    ELSE list_permissions_for_role(r)

list_permissions(scope) == {p \in Perms : Given(scope, p[3])}

(* The grid: a column per ACTIVE role, a row per permission.                *)
get_matrix(audience) ==
    [roles |-> {r \in RoleIds \ Archived : Given(audience, AudienceOf(r))}, permissions |-> Perms,
     grants |-> {g \in RoleIds \X Perms :
                    /\ g[1] \notin Archived /\ Given(audience, AudienceOf(g[1]))
                    /\ g[2] \in rolePerms[g[1]]}]
get_permission_matrix(by) ==
    LET matrix == get_matrix(_audience_filter_for(by))
    IN [p \in matrix.permissions |-> [r \in matrix.roles |-> <<r, p>> \in matrix.grants]]

-----------------------------------------------------------------------------
(* Assignments, in two blocks.  A filter that only one block has empties    *)
(* the other.                                                               *)
NoFilter == [role |-> None, platform_user |-> None, tenant_user |-> None, tenant |-> None, node |-> None]

list_platform_assignments(f) ==
    {a \in platform_user_role_assignments :
        Given(f.role, a.role) /\ Given(f.platform_user, a.platform_user)}
list_tenant_assignments(by, f) ==
    {a \in VisibleAssignments(by) :
        /\ Given(f.role, a.role) /\ Given(f.tenant_user, a.tenant_user)
        /\ Given(f.tenant, a.tenant) /\ Given(f.node, a.node)}

(* The rows an assignment refers to, read under the same session.  One that *)
(* is missing is a KeyError: a 500.                                         *)
_hydrate_platform_items(rows) ==
    {[user |-> a.platform_user, role |-> a.role, audience |-> AudienceOf(a.role)] : a \in rows}
Hydratable(by, a) ==
    /\ a.tenant \in Visible(by) /\ users[a.tenant_user] # None
    /\ users[a.tenant_user].tenant \in Visible(by) /\ a.node \in NodesOf(a.tenant)
_hydrate_tenant_items(by, rows) ==
    IF \A a \in rows : Hydratable(by, a)
    THEN {[user |-> a.tenant_user, email |-> users[a.tenant_user].email, tenant |-> a.tenant,
           code |-> nodes[a.node].code, role |-> a.role] : a \in rows}
    ELSE None

list_role_assignments(by, f) ==
    IF ~Allowed(by, View("USERS", "TENANT")) THEN None
    ELSE [platform |-> IF f.tenant_user # None \/ f.node # None \/ by.type = "TENANT" THEN {}
                       ELSE _hydrate_platform_items(list_platform_assignments(f)),
          tenant |-> IF f.platform_user # None THEN {}
                     ELSE _hydrate_tenant_items(by, list_tenant_assignments(by, f))]

(* A platform user is named after its role.                                 *)
list_platform_users(by) ==
    IF Allowed(by, View("USERS", "GLOBAL")) THEN {[user |-> r, roles |-> {r}] : r \in held} ELSE None
get_platform_user(by, u) ==
    IF Allowed(by, View("USERS", "GLOBAL")) /\ u \in held THEN [user |-> u, roles |-> {u}] ELSE None

get_me_permissions(by) == get_permissions_for_user(by)
get_me_can_do(by, perm, anchor) == has_permission(by, perm, anchor)

-----------------------------------------------------------------------------
(* Everyone who may call.                                                   *)
Readers ==
    {Caller("PLATFORM", r, None) : r \in held} \cup {Caller("TENANT", u, users[u].tenant) : u \in Here(users)}

Or(answer, nothing) == IF answer = None THEN nothing ELSE answer

(* A list shows every row its caller can open, as the detail view shows it, *)
(* and no row of another tenant; a platform user can open what it lists.    *)
ListsMatchDetails ==
    \A by \in Readers :
        LET us == list_tenant_users(by, None, None)
            ss == list_stores(by, None, None)
            ts == list_tenants(by)
        IN /\ \A u \in Users : get_tenant_user(by, u) # None => us # None /\ get_tenant_user(by, u) \in us
           /\ \A s \in Stores : get_store(by, s) # None => ss # None /\ get_store(by, s) \in ss
           /\ ts # None => \A t \in Here(tenants) : get_tenant(by, t) \in ts
           /\ by.type = "PLATFORM" =>
                 /\ \A row \in Or(us, {}) : get_tenant_user(by, row.user) = row
                 /\ \A row \in Or(ss, {}) : get_store(by, row.store) = row
                 /\ \A row \in Or(list_platform_users(by), {}) : get_platform_user(by, row.user) = row
           /\ by.type = "TENANT" =>
                 /\ \A row \in Or(us, {}) \cup Or(ss, {}) : row.tenant = by.tenant
                 /\ list_my_channels(by) \in {None, {}, {by.tenant}}
                 /\ list_platform_channels(by) = None /\ list_platform_users(by) = None

(* The dashboards, the module screens and the lists count the same rows.    *)
CountsAgree ==
    \A by \in Readers : Allowed(by, View("TENANTS", "TENANT")) =>
        LET matrix == get_matrix_of_modules(by, None) IN
        /\ get_fleet_stats(by).users_active = Cardinality(list_users(by, None, "ACTIVE"))
        /\ get_fleet_stats(by).stores_total = Cardinality(list_store_rows(by, None, None))
        /\ \A s \in TenantStatus :
              /\ get_fleet_stats(by).tenants[s] = Cardinality(DOMAIN get_matrix_of_modules(by, s))
              /\ get_fleet_stats(by).tenants[s] = Cardinality(list_by_status(by, s))
        /\ get_tenants_stats(by) # None =>
              get_tenants_stats(by) = [total_tenants |-> Cardinality(list_tenants(by)),
                                       total_stores |-> get_fleet_stats(by).stores_total]
        /\ get_governance_stats(by).modules_enabled =
              Cardinality({x \in (DOMAIN matrix) \X Modules : matrix[x[1]][x[2]] = "ENABLED"})
        /\ \A m \in Modules : list_modules(by)[m].enabled_count <= list_modules(by)[m].total
        /\ \A row \in list_my_modules(by) : matrix[by.tenant][row.module] = row.status

(* An org tree, at any depth, is cut level by level: a node's children are  *)
(* all loaded or none is, and can be fetched; what is not below another     *)
(* loaded node is at the top, or below a node that is closed.               *)
TreesAreWhole ==
    ~raced => \A by \in Readers, t \in Here(tenants), depth \in {None, 1, 2} :
        LET tree == get_org_tree(by, t, depth) IN tree # None =>
            /\ \A n \in DOMAIN tree.children :
                  LET fetched == get_node_children(by, t, n) IN
                  /\ fetched # None /\ Cardinality(fetched) = tree.child_count[n]
                  /\ tree.loaded_children[n] # "partial"
                  /\ tree.loaded_children[n] = "all" => {c.node : c \in fetched} = tree.children[n]
            /\ \A n \in tree.roots :
                  nodes[n].parent = Root(t) \/ nodes[nodes[n].parent].status # "ACTIVE"
            /\ ~tree.truncated /\ depth = None /\ tree.total <= FULL_TREE_THRESHOLD =>
                  Cardinality(DOMAIN tree.children) = tree.total

(* The ancestors of a node, and the node, by the parent links.              *)
Ancestry(n) ==
    LET above[m \in Nodes] ==
            {m} \cup (IF nodes[m].parent = None THEN {} ELSE above[nodes[m].parent])
    IN above[n]

Wider == [GLOBAL |-> {"GLOBAL"}, TENANT |-> {"GLOBAL", "TENANT"}, STORE |-> {"GLOBAL", "TENANT", "STORE"}]
Grants_any(role, perm) == \E s \in Wider[perm[3]] : <<perm[1], perm[2], s>> \in rolePerms[role]

(* The gate compares ltree paths; it answers as the tree itself would, that *)
(* is, a tenant user may act at a node exactly if it was given a role there *)
(* or above.  GET /me/permissions and GET /me/can-do tell what the gate     *)
(* does.                                                                    *)
GateFollowsTree ==
    \A by \in Readers, perm \in Perms :
        /\ get_me_can_do(by, perm, None) <=>
              \E g \in get_me_permissions(by) : Satisfies({g.perm}, perm)
        /\ by.type = "TENANT" /\ ~raced => \A n \in NodesOf(by.tenant) :
              get_me_can_do(by, perm, get_org_node_anchor(Session(by), by.tenant, n)) <=>
                 /\ modules[by.tenant][ADMIN] = "ENABLED"
                 /\ \E a \in users[by.user].roles : a.node \in Ancestry(n) /\ Grants_any(a.role, perm)

(* The wizard's state says ready exactly when completing would not be       *)
(* refused for anything missing, and its sections can be opened.            *)
WizardIsRight ==
    \A t \in Here(tenants) :
        /\ LET state == get_onboarding_state(t) IN
           /\ {"legal", "billing", "contacts"} \subseteq state.present
           /\ state.all_verified /\ state.auth0_organization /\ state.admin_invited
           <=> NothingMissing(t)
        /\ \A by \in Readers : LET state == get_onboarding(by, t) IN state # None =>
              /\ "legal" \in state.present <=> get_legal_profile(by, t) # None
              /\ "billing" \in state.present <=> get_billing_profile(by, t) # None
              /\ "tax" \in state.present <=> get_tax_registrations(by, t) # {}
              /\ "contacts" \in state.present <=> get_contacts(by, t) # {}
              /\ state.all_verified => \A d \in list_documents(by, t) :
                    docs[d].status = "VERIFIED" /\ get_document_download_url(by, t, d) = d

(* The role screens agree, every assignment they count can be shown, and    *)
(* what a screen offers to grant is not refused for its scope.              *)
RoleScreensAgree ==
    \A by \in Readers :
        LET assignments == list_role_assignments(by, NoFilter)
            grid == get_permission_matrix(by) IN
        /\ assignments # None => assignments.tenant # None
        /\ \A r \in RoleIds : LET detail == get_role(by, r) IN detail # None =>
              /\ list_role_permissions(by, r) = detail.permissions
              /\ detail.permissions \cap detail.available = {}
              /\ enforce_role_audience_scope_coherence(r, detail.available)
              /\ detail.permissions \cup detail.available \subseteq list_permissions(None)
              /\ assignments # None =>
                    detail.user_count =
                        Cardinality({a \in assignments.platform : a.role = r})
                            + Cardinality({a \in assignments.tenant : a.role = r})
        /\ \A block \in {"PLATFORM", "TENANT"} : \A row \in list_roles(by, None)[block] :
              LET granted == list_role_permissions(by, row.role)
              IN \A p \in Perms : grid[p][row.role] <=> p \in granted

(* What Customer Master shows is one story, whoever looks and whenever:     *)
(* lists and details, counts, trees and their lazily loaded children, the   *)
(* permissions shown and the permissions enforced, the wizard and the check *)
(* at its end (routers/v1 GET endpoints, auth/permissions.py).              *)
ReadsAgree ==
    /\ ListsMatchDetails /\ CountsAgree /\ TreesAreWhole
    /\ GateFollowsTree /\ WizardIsRight /\ RoleScreensAgree
=============================================================================
