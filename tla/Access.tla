------------------------------- MODULE Access -------------------------------
(* The permission gate of Customer Master (auth/permissions.py,             *)
(* auth/anchor_deps.py) and the endpoints behind it (routers/v1).  A        *)
(* permission is a triple <<resource, action, scope>> of the module ADMIN.  *)
(* The gate is a statement of the request's transaction: what it read may   *)
(* be gone when the handler writes.                                         *)
EXTENDS TenantLifecycle, RoleEdits

ADMIN == "ADMIN"

_SCOPE_CASCADE_ORDER ==
    <<"GLOBAL", "TENANT", "BUSINESS_UNIT", "HQ", "COUNTRY", "REGION", "STORE", "DEPARTMENT">>

(* permission_scope_enum.                                                   *)
PermissionScope == {"GLOBAL", "TENANT", "STORE"}

(* A grant at a scope satisfies a check at every scope below it.            *)
satisfying_scopes(requested) ==
    LET at == CHOOSE i \in DOMAIN _SCOPE_CASCADE_ORDER : _SCOPE_CASCADE_ORDER[i] = requested
    IN {_SCOPE_CASCADE_ORDER[i] : i \in 1..at}

_satisfying_scopes_for_sql(requested) == satisfying_scopes(requested) \cap PermissionScope

Satisfies(perms, perm) ==
    \E s \in _satisfying_scopes_for_sql(perm[3]) : <<perm[1], perm[2], s>> \in perms

(* A platform user is named after the role it holds.  Neither query looks   *)
(* at the status of the role or of the user.                                *)
_has_permission_platform(by, perm) == by.user \in held /\ Satisfies(rolePerms[by.user], perm)

(* As _has_permission_tenant below, with the two sides of <@ swapped.       *)
_has_permission_tenant_Swapped(by, perm, anchor) ==
    /\ users[by.user] # None
    /\ modules[users[by.user].tenant][ADMIN] = "ENABLED"
    /\ \E a \in users[by.user].roles :
          /\ Satisfies(rolePerms[a.role], perm)
          /\ anchor # None => _is_descendant(nodes[a.node].path, anchor)

(* The assignment's node must be at or above the target.                    *)
_has_permission_tenant(by, perm, anchor) ==
    /\ users[by.user] # None
    /\ modules[users[by.user].tenant][ADMIN] = "ENABLED"
    /\ \E a \in users[by.user].roles :
          /\ Satisfies(rolePerms[a.role], perm)
          /\ anchor # None => _is_descendant(anchor, nodes[a.node].path)

has_permission(by, perm, anchor) ==
    IF by.type = "PLATFORM" THEN _has_permission_platform(by, perm)
    ELSE _has_permission_tenant(by, perm, anchor)

(* GET /me/permissions: the caller's grants, each with its anchor.          *)
_get_permissions_platform(by) ==
    {[perm |-> p, anchor |-> None] : p \in IF by.user \in held THEN rolePerms[by.user] ELSE {}}

_get_permissions_tenant(by) ==
    IF users[by.user] = None \/ modules[users[by.user].tenant][ADMIN] # "ENABLED" THEN {}
    ELSE UNION {{[perm |-> p, anchor |-> nodes[a.node].path] : p \in rolePerms[a.role]} :
                a \in users[by.user].roles}

get_permissions_for_user(by) ==
    IF by.type = "PLATFORM" THEN _get_permissions_platform(by) ELSE _get_permissions_tenant(by)

-----------------------------------------------------------------------------
(* The anchors: None stands for the 404 of a row that is missing or that    *)
(* the caller's session does not see.                                       *)
get_tenant_anchor(q, t) ==
    IF NodesOf(t) # {} /\ Sees(q, t) THEN nodes[Root(t)].path ELSE None

get_org_node_anchor(q, t, n) ==
    IF n \in NodesOf(t) /\ Sees(q, t) THEN nodes[n].path ELSE None

get_store_anchor(q, s) ==
    IF stores[s] = None THEN None ELSE get_tenant_anchor(q, nodes[stores[s].node].tenant)

get_tenant_user_anchor(q, u) ==
    IF users[u] = None THEN None ELSE get_tenant_anchor(q, users[u].tenant)

_check_audience(q, audience) == audience \in {None, q.by.type}

(* The gate, without and with an anchor.                                    *)
require(q, perm, audience) ==
    _check_audience(q, audience) /\ has_permission(q.by, perm, None)
require_at(q, perm, anchor, audience) ==
    anchor # None /\ _check_audience(q, audience) /\ has_permission(q.by, perm, anchor)

-----------------------------------------------------------------------------
(* The endpoints that write, one definition each: which requests are        *)
(* theirs, and who may send them.                                           *)

ConfigureTenants(q) == require(q, <<"TENANTS", "CONFIGURE", "GLOBAL">>, "PLATFORM")
OverrideTenants(q) == require(q, <<"TENANTS", "OVERRIDE", "GLOBAL">>, "PLATFORM")

create_tenant(q) == q.op = "create_tenant" /\ ConfigureTenants(q)
patch_tenant(q) == q.op = "update_tenant" /\ ConfigureTenants(q)
suspend_tenant(q) == q.op = "transition_tenant" /\ q.status = "SUSPENDED" /\ OverrideTenants(q)
activate_tenant(q) == q.op = "transition_tenant" /\ q.status = "ACTIVE" /\ OverrideTenants(q)
complete_tenant_onboarding(q) == q.op = "complete_onboarding" /\ ConfigureTenants(q)
provision_tenant_auth0(q) == q.op = "provision_tenant" /\ ConfigureTenants(q)

PutSection(q, section) == q.op = "put_section" /\ q.section = section /\ ConfigureTenants(q)
put_legal_profile(q) == PutSection(q, "legal")
put_tax_registrations(q) == PutSection(q, "tax")
put_billing_profile(q) == PutSection(q, "billing")
put_contacts(q) == PutSection(q, "contacts")
patch_onboarding(q) == q.op = "patch_onboarding" /\ ConfigureTenants(q)

create_document_upload_url(q) == q.op = "create_document" /\ ConfigureTenants(q)
verify_document(q) == q.op = "review_document" /\ q.status = "VERIFIED" /\ ConfigureTenants(q)
reject_document(q) == q.op = "review_document" /\ q.status = "REJECTED" /\ ConfigureTenants(q)
delete_document(q) == q.op = "delete_document" /\ ConfigureTenants(q)

OverrideModules(q) ==
    require_at(q, <<"TENANTS", "OVERRIDE", "GLOBAL">>, get_tenant_anchor(q, q.tenant), "PLATFORM")
enable_module_for_tenant(q) == q.op = "enable_module" /\ OverrideModules(q)
disable_module_for_tenant(q) == q.op = "disable_module" /\ OverrideModules(q)

(* The tenant of a new user or store is in the body: the gate has no anchor *)
(* and only the row policies tell tenants apart.                            *)
ConfigureUsers == <<"USERS", "CONFIGURE", "TENANT">>
create_tenant_user(q) == q.op = "create_user" /\ require(q, ConfigureUsers, None)

_raise_if_self_edit(q) == q.by.type = "TENANT" /\ q.by.user = q.user

ConfigureUser(q) ==
    require_at(q, ConfigureUsers, get_tenant_user_anchor(q, q.user), None) /\ ~_raise_if_self_edit(q)
patch_tenant_user(q) == q.op = "patch_user" /\ ConfigureUser(q)
suspend_tenant_user(q) == q.op = "transition_user" /\ q.status = "SUSPENDED" /\ ConfigureUser(q)
activate_tenant_user(q) == q.op = "transition_user" /\ q.status = "ACTIVE" /\ ConfigureUser(q)

ProvisionUsers(q) == require(q, <<"USERS", "CONFIGURE", "GLOBAL">>, "PLATFORM")
provision_tenant_user_auth0(q) == q.op = "provision_user" /\ ProvisionUsers(q)
send_invitation(q) == q.op = "send_invitation" /\ ProvisionUsers(q)

ConfigureStores == <<"STORES", "CONFIGURE", "TENANT">>
create_store(q) == q.op = "create_store" /\ require(q, ConfigureStores, None)
ConfigureStore(q) == require_at(q, ConfigureStores, get_store_anchor(q, q.store), None)
patch_store(q) == q.op = "update_store" /\ ConfigureStore(q)
set_store_status(q) == q.op = "transition_store" /\ ConfigureStore(q)

ConfigureTree(q) ==
    require_at(q, <<"ORG_NODES", "CONFIGURE", "TENANT">>, get_tenant_anchor(q, q.tenant), None)
add_org_node(q) == q.op = "add_node" /\ ConfigureTree(q)
edit_org_node(q) == q.op = "edit_node" /\ ConfigureTree(q)

upsert_my_channel(q) ==
    q.op = "upsert_channel" /\ require(q, <<"CHANNELS", "CONFIGURE", "TENANT">>, "TENANT")
patch_role(q) == q.op = "update_role" /\ require(q, Override, "PLATFORM")

Permitted(q) ==
    \/ create_tenant(q) \/ patch_tenant(q) \/ suspend_tenant(q) \/ activate_tenant(q)
    \/ complete_tenant_onboarding(q) \/ provision_tenant_auth0(q)
    \/ put_legal_profile(q) \/ put_tax_registrations(q) \/ put_billing_profile(q)
    \/ put_contacts(q) \/ patch_onboarding(q)
    \/ create_document_upload_url(q) \/ verify_document(q) \/ reject_document(q) \/ delete_document(q)
    \/ enable_module_for_tenant(q) \/ disable_module_for_tenant(q)
    \/ create_tenant_user(q) \/ patch_tenant_user(q)
    \/ suspend_tenant_user(q) \/ activate_tenant_user(q)
    \/ provision_tenant_user_auth0(q) \/ send_invitation(q)
    \/ create_store(q) \/ patch_store(q) \/ set_store_status(q)
    \/ add_org_node(q) \/ edit_org_node(q) \/ upsert_my_channel(q) \/ patch_role(q)

(* The gate lets a request through; a refusal is a Rollback.                *)
Authorize(q) ==
    /\ step[q] = "arrived"
    /\ Permitted(q)
    /\ Proceed(q, "received", None, {})
    /\ UNCHANGED <<treeVars, userVars, tenantVars, roleVars>>
=============================================================================
