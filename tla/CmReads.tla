------------------------------ MODULE CmReads ------------------------------
(* The endpoints of Customer Master that read tenants, users, stores, trees,*)
(* modules, onboarding and dashboards (routers/v1 and repositories).  Each  *)
(* is what the caller "by" gets now; None stands for a refusal (403) and    *)
(* for a row that is missing or that the caller's session does not see      *)
(* (404).  The order of a list, its pages, its text search and the labels   *)
(* are left out.                                                            *)
EXTENDS CmSchema

CONSTANTS FULL_TREE_THRESHOLD, DEFAULT_DEPTH, PAYLOAD_CAP, MAX_REDUCTIONS

Session(by) == [by |-> by]
View(resource, scope) == <<resource, "VIEW", scope>>

Allowed(by, perm) == require(Session(by), perm, None)
AllowedAt(by, perm, anchor) == require_at(Session(by), perm, anchor, None)

Given(filter, value) == filter \in {None, value}

Visible(by) == {t \in Here(tenants) : Sees(Session(by), t)}
StoreTenant(s) == nodes[stores[s].node].tenant
StoresIn(ts) == {s \in Here(stores) : StoreTenant(s) \in ts}
UsersIn(ts, status) == {u \in Here(users) : users[u].tenant \in ts /\ Given(status, users[u].status)}

-----------------------------------------------------------------------------
(* Tenants.                                                                 *)
_modules_subq(t) == {m \in Modules : modules[t][m] = "ENABLED"}

TenantListRow(t) ==
    [tenant |-> t, status |-> tenants[t].status, modules |-> _modules_subq(t),
     num_stores |-> Cardinality(StoresIn({t})), num_users_active |-> Cardinality(UsersIn({t}, "ACTIVE"))]

list_with_aggregates(by) == {TenantListRow(t) : t \in Visible(by)}
list_by_status(by, status) == {t \in Visible(by) : tenants[t].status = status}

get_by_id_with_aggregates(by, t) == IF t \in Visible(by) THEN TenantListRow(t) ELSE None

count_for_stats(by) ==
    [total_tenants |-> Cardinality(Visible(by)), total_stores |-> Cardinality(StoresIn(Visible(by)))]

list_tenants(by) ==
    IF Allowed(by, View("TENANTS", "GLOBAL")) THEN list_with_aggregates(by) ELSE None
get_tenants_stats(by) ==
    IF Allowed(by, View("TENANTS", "GLOBAL")) THEN count_for_stats(by) ELSE None
get_tenant(by, t) ==
    IF AllowedAt(by, View("TENANTS", "TENANT"), get_tenant_anchor(Session(by), t))
    THEN get_by_id_with_aggregates(by, t) ELSE None

-----------------------------------------------------------------------------
(* Users, with their assignments (the inactive ones, which are listed too,  *)
(* are left out), and stores.                                               *)
_roles_subq(u) == {a \in users[u].roles : a.node \in NodesOf(users[u].tenant)}

UserListRow(u) ==
    [user |-> u, tenant |-> users[u].tenant, status |-> users[u].status, roles |-> _roles_subq(u)]

list_users(by, t, status) ==
    {UserListRow(u) : u \in {u \in UsersIn(Visible(by), status) : Given(t, users[u].tenant)}}
get_user_by_id(by, u) ==
    IF users[u] # None /\ users[u].tenant \in Visible(by) THEN UserListRow(u) ELSE None

list_tenant_users(by, t, status) ==
    IF Allowed(by, View("USERS", "TENANT")) THEN list_users(by, t, status) ELSE None
get_tenant_user(by, u) ==
    IF AllowedAt(by, View("USERS", "TENANT"), get_tenant_user_anchor(Session(by), u))
    THEN get_user_by_id(by, u) ELSE None

StoreListRow(s) == [store |-> s, tenant |-> StoreTenant(s), status |-> stores[s].status]

list_store_rows(by, t, status) ==
    {StoreListRow(s) : s \in {s \in StoresIn(Visible(by)) :
        Given(t, StoreTenant(s)) /\ Given(status, stores[s].status)}}
get_store_row(by, s) ==
    IF stores[s] # None /\ StoreTenant(s) \in Visible(by) THEN StoreListRow(s) ELSE None

list_stores(by, t, status) ==
    IF Allowed(by, View("STORES", "TENANT")) THEN list_store_rows(by, t, status) ELSE None
get_store(by, s) ==
    IF AllowedAt(by, View("STORES", "TENANT"), get_store_anchor(Session(by), s))
    THEN get_store_row(by, s) ELSE None

-----------------------------------------------------------------------------
(* The organisation tree, up to a depth below the root.                     *)
ActiveNodes(t) == {n \in NodesOf(t) : nodes[n].status = "ACTIVE"}
Proper(rows) == {n \in rows : nodes[n].type # TENANT}
ActiveChildren(t, n) == {c \in ActiveNodes(t) : nodes[c].parent = n}

count_active_by_tenant(t) == Cardinality(Proper(ActiveNodes(t)))

list_active_with_child_counts(t, max_depth) ==
    {n \in ActiveNodes(t) : max_depth # None => Len(nodes[n].path) <= max_depth + 1}

(* The depth is reduced, a few times, while too many nodes come back.       *)
Reductions(t, depth) ==
    IF depth = None THEN 0
    ELSE CHOOSE k \in 0..MAX_REDUCTIONS :
            /\ \A j \in 0..(k - 1) :
                  /\ Cardinality(Proper(list_active_with_child_counts(t, depth - j))) > PAYLOAD_CAP
                  /\ depth - j > 1
            /\ \/ k = MAX_REDUCTIONS
               \/ Cardinality(Proper(list_active_with_child_counts(t, depth - k))) <= PAYLOAD_CAP
               \/ depth - k <= 1

(* A node whose parent was not loaded is a root, too.                       *)
_build_tree(t, rows, truncated) ==
    LET loaded(n) == {c \in Proper(rows) : nodes[c].parent = n}
        count(n) == Cardinality(ActiveChildren(t, n))
        label(n) == CASE count(n) = 0 -> "none"
                      [] count(n) # 0 /\ Cardinality(loaded(n)) = count(n) -> "all"
                      [] loaded(n) = {} -> "none"
                      [] OTHER -> "partial"
    IN [roots |-> {n \in Proper(rows) : nodes[n].parent \notin Proper(rows)},
        children |-> [n \in Proper(rows) |-> loaded(n)],
        child_count |-> [n \in Proper(rows) |-> count(n)],
        loaded_children |-> [n \in Proper(rows) |-> label(n)],
        total |-> count_active_by_tenant(t), truncated |-> truncated]

get_org_tree(by, t, depth) ==
    LET first == CASE depth # None -> depth
                   [] depth = None /\ count_active_by_tenant(t) <= FULL_TREE_THRESHOLD -> None
                   [] OTHER -> DEFAULT_DEPTH
        k == Reductions(t, first)
    IN IF ~AllowedAt(by, View("ORG_NODES", "TENANT"), get_tenant_anchor(Session(by), t)) THEN None
       ELSE _build_tree(t, list_active_with_child_counts(t, IF first = None THEN None ELSE first - k),
                        k > 0)

node_exists(t, n) == n \in ActiveNodes(t)

list_children_paginated(t, n) ==
    {[node |-> c, child_count |-> Cardinality(ActiveChildren(t, c))] : c \in ActiveChildren(t, n)}

get_node_children(by, t, n) ==
    IF /\ AllowedAt(by, View("ORG_NODES", "TENANT"), get_org_node_anchor(Session(by), t, n))
       /\ node_exists(t, n)
    THEN list_children_paginated(t, n) ELSE None

-----------------------------------------------------------------------------
(* Module access: the cards, the matrix and the caller's own modules.       *)
Customers(by) == {t \in Visible(by) : tenants[t].status \in {"ACTIVE", "TRIAL"}}

list_modules_with_aggregates(by) ==
    [m \in Modules |->
        [enabled_count |-> Cardinality({t \in Customers(by) : modules[t][m] = "ENABLED"}),
         total |-> Cardinality(Customers(by))]]

(* A module that was never enabled and one that was disabled look the same. *)
list_matrix(by, status) ==
    [t \in {t \in Visible(by) : Given(status, tenants[t].status)} |->
        [m \in Modules |-> IF modules[t][m] = "ENABLED" THEN "ENABLED" ELSE "DISABLED"]]

list_my_tenant_modules(by) ==
    {[module |-> m, status |-> modules[by.tenant][m]] : m \in {m \in Modules : modules[by.tenant][m] # None}}

list_modules(by) ==
    IF Allowed(by, View("TENANTS", "TENANT")) THEN list_modules_with_aggregates(by) ELSE None
get_matrix_of_modules(by, status) ==
    IF Allowed(by, View("TENANTS", "TENANT")) THEN list_matrix(by, status) ELSE None
list_my_modules(by) == IF by.type = "TENANT" THEN list_my_tenant_modules(by) ELSE {}

-----------------------------------------------------------------------------
(* The dashboard.                                                           *)
fleet_stats(by) ==
    [tenants |-> [s \in TenantStatus |-> Cardinality({t \in Visible(by) : tenants[t].status = s})],
     total |-> Cardinality(Visible(by)),
     users_active |-> Cardinality(UsersIn(Visible(by), "ACTIVE")),
     stores_total |-> Cardinality(StoresIn(Visible(by)))]

EnabledRows(by) == {x \in Visible(by) \X Modules : modules[x[1]][x[2]] = "ENABLED"}
governance_stats(by) ==
    [modules_enabled |-> Cardinality(EnabledRows(by)),
     visible_tenants |-> Cardinality({r[1] : r \in EnabledRows(by)})]

get_fleet_stats(by) == IF Allowed(by, View("TENANTS", "TENANT")) THEN fleet_stats(by) ELSE None
get_governance_stats(by) ==
    IF Allowed(by, View("TENANTS", "TENANT")) THEN governance_stats(by) ELSE None

-----------------------------------------------------------------------------
(* The onboarding wizard, documents and channels.                           *)
DocumentCount(t, status) == Cardinality({d \in DocsOf(t) : Given(status, docs[d].status)})

get_onboarding_state(t) ==
    IF tenants[t] = None THEN None
    ELSE [step |-> tenants[t].resume, completed |-> tenants[t].completed,
          present |-> sections[t],
          all_verified |-> /\ DocumentCount(t, None) >= 1
                           /\ DocumentCount(t, "PENDING_REVIEW") = 0
                           /\ DocumentCount(t, "REJECTED") = 0,
          auth0_organization |-> tenants[t].org,
          admin_invited |-> \E u \in UsersIn({t}, None) : users[u].invited]

(* A missing profile is a 404; the lists of a visible tenant may be empty.  *)
Section(by, t, section) ==
    IF ConfigureTenants(Session(by)) /\ tenants[t] # None /\ section \in sections[t]
    THEN section ELSE None
Listed(by, t, section) ==
    IF ~ConfigureTenants(Session(by)) \/ tenants[t] = None THEN None
    ELSE {section} \cap sections[t]

get_legal_profile(by, t) == Section(by, t, "legal")
get_tax_registrations(by, t) == Listed(by, t, "tax")
get_billing_profile(by, t) == Section(by, t, "billing")
get_contacts(by, t) == Listed(by, t, "contacts")

get_onboarding(by, t) == IF ConfigureTenants(Session(by)) THEN get_onboarding_state(t) ELSE None

list_documents(by, t) ==
    IF ConfigureTenants(Session(by)) /\ tenants[t] # None THEN DocsOf(t) ELSE None
(* The URL is signed without a look at the file.                            *)
get_document_download_url(by, t, d) ==
    IF ConfigureTenants(Session(by)) /\ d \in DocsOf(t) THEN d ELSE None

ChannelRows(by) == {t \in Visible(by) : channels[t] # None}
list_my_channels(by) ==
    IF require(Session(by), View("CHANNELS", "TENANT"), None) THEN ChannelRows(by) ELSE None
list_platform_channels(by) ==
    IF require(Session(by), View("CHANNELS", "GLOBAL"), "PLATFORM") THEN ChannelRows(by) ELSE None
=============================================================================
