--------------------------- MODULE CustomerMaster ---------------------------
(* Customer Master and its mirror: the requests of one workload, on one     *)
(* database, in every interleaving of their statements.                     *)
EXTENDS MirrorSync, AuditLog, RoleReads

CONSTANTS Starts,       \* [sent, held]: requests to run against each other, and
                        \* the PLATFORM roles somebody holds meanwhile
          SeedNodes, SeedStores, SeedUsers, SeedIdentities, SeedTenants,
          SeedSections, SeedDocs, SeedModules   \* the rows at first

(* The rows of the tables.                                                  *)
Paths == Seq(Codes) \ {<<>>}
NodeRows ==
    [tenant : Tenants, type : NodeType, parent : Nodes \cup {None}, code : Codes, path : Paths,
     status : OrgNodeStatus, archived : BOOLEAN]
StoreRows == [node : Nodes, code : Codes, status : StoreStatus, closed : BOOLEAN]
TenantRows ==
    [name : Names, status : TenantStatus, org : BOOLEAN, suspended : BOOLEAN,
     completed : BOOLEAN, resume : Sections \cup {None}]

UserRows ==
    [tenant : Tenants, email : Emails, status : UserStatus, sub : Subs \cup {None}, invited : BOOLEAN,
     accepted : BOOLEAN, suspended : BOOLEAN, roles : SUBSET [role : RoleIds, node : Nodes]]
IdentityRows == [email : Emails, user : Users]
DocRows == [tenant : Tenants, status : {"PENDING_REVIEW", "VERIFIED", "REJECTED"}]

ASSUME NoneAssumption ==
    /\ None \notin Nodes /\ None \notin Codes
    /\ None \notin NodeRows /\ None \notin StoreRows /\ None \notin TenantRows
    /\ None \notin [name : Names, status : TenantStatus]

(* The bodies that the routers let through (schemas/).                      *)
ASSUME RequestsAssumption ==
    \A q \in Requests :
        /\ q.op \in {"add_node", "create_store"} =>
              q.tenant \in Tenants /\ q.parent \in Nodes \cup {None} /\ q.code \in Codes
        /\ q.op = "add_node" => q.type \in NodeType \ {TENANT, STORE}
        /\ q.op = "edit_node" => q.tenant \in Tenants /\ q.node \in Nodes
        /\ q.op \in {"edit_node", "update_store"} =>
              q.parent \in Nodes \cup {None} /\ q.code \in Codes \cup {None}
        /\ q.op \in {"create_store", "update_store", "transition_store"} => q.store \in Stores
        /\ q.op = "transition_store" => q.status \in StoreStatus
        /\ q.op \in {"create_tenant", "update_tenant"} => q.name \in Names
        /\ q.op = "create_tenant" => q.name \in Codes
        /\ q.op = "transition_tenant" => q.status \in {"SUSPENDED", "ACTIVE"}
        /\ q.op = "patch_onboarding" => q.section \in Sections
        /\ q.op \in {"create_tenant", "update_tenant", "transition_tenant", "complete_onboarding",
                     "provision_tenant", "patch_onboarding"} => q.tenant \in Tenants
        /\ q.op = "update_role" => q.role \in RoleIds /\ q.perms \subseteq Perms

ASSUME UserRequestsAssumption ==
    /\ None \notin Users /\ None \notin Emails /\ None \notin Subs
    /\ None \notin UserRows /\ None \notin IdentityRows /\ None # "PLATFORM"
    /\ \A q \in Requests :
        /\ q.op \in UserOps \ {"login"} => q.user \in Users
        /\ q.op = "create_user" => /\ q.tenant \in Tenants /\ q.email \in Emails
                                  /\ q.roles \subseteq [role : RoleIds, node : Nodes]
        /\ q.op = "patch_user" => /\ q.email \in Emails \cup {None}
                                 /\ q.roles \in (SUBSET [role : RoleIds, node : Nodes]) \cup {None}
        /\ q.op = "transition_user" => q.status \in {"SUSPENDED", "ACTIVE"}
        /\ q.op = "login" => q.sub \in Subs

ASSUME TenantRequestsAssumption ==
    /\ None \notin DocRows
    /\ \A q \in Requests :
        /\ q.op \in {"put_section", "create_document", "review_document", "delete_document",
                     "enable_module", "disable_module"} => q.tenant \in Tenants
        /\ q.op \in {"create_document", "review_document", "delete_document"} => q.doc \in Docs
        /\ q.op \in {"enable_module", "disable_module"} => q.module \in Modules
        /\ q.op = "upsert_channel" => q.by.tenant \in Tenants

(* NULL is none of the values that the log writes.                          *)
ASSUME LogAssumption ==
    /\ None \notin Names /\ None \notin Modules /\ None # Unknown /\ None \notin AuditedRows
    /\ None \notin [at : Nat, id : Nat]
    /\ \A n \in Nodes : None # <<"node", n>>
    /\ \A r \in RoleIds : None # <<"role", r>>

ASSUME StartsAssumption ==
    /\ \A s \in Starts : /\ s.sent \subseteq Requests /\ s.held \subseteq RoleIds
                         /\ \E r \in s.held : Override \in Grants[r]
    /\ Grants \in [RoleIds -> SUBSET Perms] /\ Override \in Grants[SuperAdmin]

(* The database found at first: its keys hold, every tenant's nodes are a   *)
(* tree below one root, and a store agrees with its node.                   *)
ASSUME SeedAssumption ==
    /\ SeedNodes \in [Nodes -> NodeRows \cup {None}]
    /\ SeedStores \in [Stores -> StoreRows \cup {None}]
    /\ SeedTenants \in [Tenants -> TenantRows \cup {None}]
    /\ \A n \in Here(SeedNodes) :
          /\ SeedNodes[n].tenant \in Here(SeedTenants)
          /\ \E r \in Here(SeedNodes) :
                SeedNodes[r].tenant = SeedNodes[n].tenant /\ SeedNodes[r].type = TENANT
          /\ IF SeedNodes[n].type = TENANT
             THEN /\ SeedNodes[n].parent = None
                  /\ \A m \in Here(SeedNodes) \ {n} :
                        SeedNodes[m].type = TENANT => SeedNodes[m].tenant # SeedNodes[n].tenant
             ELSE /\ SeedNodes[n].parent \in Here(SeedNodes)
                  /\ SeedNodes[SeedNodes[n].parent].tenant = SeedNodes[n].tenant
                  /\ SeedNodes[SeedNodes[n].parent].type < SeedNodes[n].type
          /\ SeedNodes[n].type = STORE => \E s \in Here(SeedStores) : SeedStores[s].node = n
    /\ \A s \in Here(SeedStores) :
          LET n == SeedStores[s].node IN
          /\ n \in Here(SeedNodes) /\ SeedNodes[n].type = STORE
          /\ SeedNodes[n].code = SeedStores[s].code
          /\ SeedNodes[n].status = STORE_STATUS_TO_ORG_NODE_STATUS[SeedStores[s].status]
          /\ \A r \in Here(SeedStores) \ {s} : SeedStores[r].node # n

(* Seeded codes are unique in a tenant, and a path is the parent's path and
   the code. *)
ASSUME SeedPathsAssumption ==
    \A n \in Here(SeedNodes) :
          /\ SeedNodes[n].path = IF SeedNodes[n].type = TENANT THEN <<SeedNodes[n].code>>
                                ELSE Append(SeedNodes[SeedNodes[n].parent].path, SeedNodes[n].code)
          /\ \A m \in Here(SeedNodes) \ {n} :
                SeedNodes[m].tenant = SeedNodes[n].tenant => SeedNodes[m].code # SeedNodes[n].code

(* The users found at first: an address and an identity are one user's, and
   Auth0 agrees with the table. *)
ASSUME SeedUsersAssumption ==
    /\ SeedUsers \in [Users -> UserRows \cup {None}]
    /\ SeedIdentities \in [Subs -> IdentityRows \cup {None}]
    /\ \A u \in Here(SeedUsers) :
          /\ \A v \in Here(SeedUsers) \ {u} : SeedUsers[v].email # SeedUsers[u].email
          /\ SeedUsers[u].sub # None =>
                /\ SeedUsers[u].status # "INVITED"
                /\ SeedUsers[u].sub \in Here(SeedIdentities)
                /\ SeedIdentities[SeedUsers[u].sub].user = u
    /\ \A s \in Here(SeedIdentities) :
          /\ SeedIdentities[s].user \in Here(SeedUsers)
          /\ SeedIdentities[s].email = SeedUsers[SeedIdentities[s].user].email
          /\ \A r \in Here(SeedIdentities) \ {s} : SeedIdentities[r].email # SeedIdentities[s].email

(* The tenants found at first: each has its root node, and one that is past
   ONBOARDING has left it with everything the wizard asks for. *)
ASSUME SeedTenantsAssumption ==
    /\ SeedSections \in [Tenants -> SUBSET Sections]
    /\ SeedDocs \in [Docs -> DocRows \cup {None}]
    /\ SeedModules \in [Tenants -> [Modules -> {"ENABLED", "DISABLED", None}]]
    /\ \A t \in Here(SeedTenants) :
          /\ \E n \in Here(SeedNodes) : SeedNodes[n].tenant = t
          /\ SeedTenants[t].completed <=> SeedTenants[t].status # "ONBOARDING"
          /\ SeedTenants[t].completed =>
                /\ {"legal", "billing"} \subseteq SeedSections[t] /\ SeedTenants[t].org
                /\ \E u \in Here(SeedUsers) : SeedUsers[u].tenant = t /\ SeedUsers[u].invited
                /\ \E d \in Here(SeedDocs) : SeedDocs[d].tenant = t
                /\ \A d \in Here(SeedDocs) : SeedDocs[d].tenant = t => SeedDocs[d].status = "VERIFIED"

(* The rows found at first satisfy the checks and keys of the schema, too.  *)
ASSUME SeedChecksAssumption ==
    /\ None \notin Tenants /\ None \notin RoleIds /\ None \notin Stores
    /\ None \notin StoreStatus \cup UserStatus \cup TenantStatus \cup {"ENABLED", "DISABLED"}
    /\ TenantRoles \subseteq RoleIds
    /\ \A n \in Here(SeedNodes) : SeedNodes[n].archived <=> SeedNodes[n].status = "ARCHIVED"
    /\ \A s \in Here(SeedStores) : ck_stores(SeedStores[s])
    /\ \A t \in Here(SeedTenants) : ck_tenants(SeedTenants[t])
    /\ \A t \in Tenants \ Here(SeedTenants) :
          SeedSections[t] = {} /\ \A m \in Modules : SeedModules[t][m] = None
    /\ \A d \in Here(SeedDocs) : SeedDocs[d].tenant \in Here(SeedTenants)
    /\ \A u \in Here(SeedUsers) :
          /\ ck_tenant_users(SeedUsers[u]) /\ SeedUsers[u].tenant \in Here(SeedTenants)
          /\ \A a \in SeedUsers[u].roles :
                /\ a.role \in TenantRoles /\ a.node \in Here(SeedNodes)
                /\ SeedNodes[a.node].tenant = SeedUsers[u].tenant

vars == <<sessionVars, treeVars, userVars, tenantVars, mirrorVars, roleVars>>

Init ==
    /\ \E s \in Starts : SessionInit(s.sent) /\ RoleInit(s.held)
    /\ trail = [r \in AuditedRows |-> <<>>]
    /\ MirrorInit
    /\ nodes = SeedNodes /\ stores = SeedStores /\ raced = FALSE
    /\ users = SeedUsers /\ identities = SeedIdentities
    /\ orgs = {t \in Tenants : SeedTenants[t] # None /\ SeedTenants[t].org}
    /\ asked = [u \in Users |-> IF SeedUsers[u] = None THEN {} ELSE SeedUsers[u].roles]
    /\ drifted = FALSE
    /\ tenants = SeedTenants /\ sections = SeedSections /\ docs = SeedDocs
    /\ files = [d \in Docs |-> IF SeedDocs[d] = None THEN "absent" ELSE "stored"]
    /\ modules = SeedModules
    /\ channels = [t \in Tenants |-> None] /\ secrets = [t \in Tenants |-> None]
    /\ completedWith = [t \in Tenants |-> {d \in Docs : docs[d] # None /\ docs[d].tenant = t}]
    /\ half = FALSE

Next ==
    \E q \in Requests :
        \/ Authorize(q) /\ UNCHANGED mirrorVars
        \/ OrgTreeStep(q) /\ UNCHANGED <<userVars, tenantVars, mirrorVars, roleVars>>
        \/ UserStep(q) /\ UNCHANGED <<tenantVars, mirrorVars, roleVars>>
        \/ TenantStep(q) /\ UNCHANGED <<mirrorVars, roleVars>>
        \/ MirrorStep(q) /\ UNCHANGED roleVars
        \/ RoleStep(q) /\ UNCHANGED <<treeVars, userVars, tenantVars, mirrorVars>>
        \/ RollbackTenant(q) /\ UNCHANGED <<mirrorVars, roleVars>>

Spec == Init /\ [][Next]_vars

-----------------------------------------------------------------------------
(* Everything stored for a tenant, inside and outside the database.         *)
RowsOf(t) ==
    [nodes |-> [n \in NodesOf(t) |-> nodes[n]],
     stores |-> [s \in {s \in Here(stores) : nodes[stores[s].node].tenant = t} |-> stores[s]],
     users |-> [u \in {u \in Here(users) : users[u].tenant = t} |-> users[u]],
     docs |-> [d \in DocsOf(t) |-> docs[d]],
     tenant |-> tenants[t], sections |-> sections[t], modules |-> modules[t],
     channel |-> channels[t], secret |-> secrets[t]]

(* No statement of a tenant user's request touches another tenant.  POST    *)
(* /stores and POST /tenant-users take the tenant from the body behind a    *)
(* gate without an anchor, and the ltree paths of two tenants may coincide: *)
(* what keeps tenants apart is the row policies (db/session.py sets         *)
(* app.tenant_id), in every interleaving with edits of roles, users and     *)
(* nodes.                                                                   *)
TenantsAreIsolated ==
    [][\A q \in Requests :
          q.by.type = "TENANT" /\ step'[q] # step[q] =>
              \A t \in Tenants \ {q.by.tenant} : RowsOf(t)' = RowsOf(t)]_vars

-----------------------------------------------------------------------------
(* The status a row of the log is about: now, and at first.                 *)
StatusOf(r) ==
    CASE r[1] = "store" -> IF stores[r[2]] = None THEN None ELSE stores[r[2]].status
      [] r[1] = "user" -> IF users[r[2]] = None THEN None ELSE users[r[2]].status
      [] r[1] = "tenant" -> IF tenants[r[2]] = None THEN None ELSE tenants[r[2]].status
      [] r[1] = "module" -> modules[r[2]][r[3]]
SeedStatusOf(r) ==
    CASE r[1] = "store" -> IF SeedStores[r[2]] = None THEN None ELSE SeedStores[r[2]].status
      [] r[1] = "user" -> IF SeedUsers[r[2]] = None THEN None ELSE SeedUsers[r[2]].status
      [] r[1] = "tenant" -> IF SeedTenants[r[2]] = None THEN None ELSE SeedTenants[r[2]].status
      [] r[1] = "module" -> SeedModules[r[2]][r[3]]

(* The modules a tenant is created with are in the tenant's own row.        *)
CreatedWithTenant(r) == r[1] = "module" /\ SeedTenants[r[2]] = None

(* The rows about one status tell its history without a gap.                *)
TrailsAreChains ==
    \A r \in AuditedRows :
        /\ \A i \in 2..Len(trail[r]) : trail[r][i].before = trail[r][i - 1].after
        /\ trail[r] # <<>> => trail[r][Len(trail[r])].after = StatusOf(r)
        /\ ~CreatedWithTenant(r) =>
              SeedStatusOf(r) = IF trail[r] = <<>> THEN StatusOf(r) ELSE trail[r][1].before

(* Whatever error a request ends with, its row can be stored, unless the    *)
(* path names a tenant that does not exist.                                 *)
FailuresAreKept ==
    \A q \in Requests : step[q] # "answered" =>
        \A e \in (IF step[q] = "arrived" THEN Refusals ELSE Raises(q.op)) :
            LET row == _emit_failure_audit_if_audited(q, e) IN
            row # None /\ (row.found.tenant = None \/ tenants[row.found.tenant] # None)
                => Storable(row)

Callers == {q.by : q \in {q \in Requests : q.by.type \in {"PLATFORM", "TENANT"}}}

(* Pages of any size neither skip nor repeat a row, and a caller can open   *)
(* exactly the rows it is shown.                                            *)
LogIsReadable ==
    \A by \in Callers :
        LET rows == list_audit_activities(by, None, None) IN
        /\ \A r \in LogRows : get_audit_activity(by, r) <=> r \in rows
        /\ \A limit \in 1..2, cursor \in {None} \cup {_encode_cursor(r) : r \in rows} :
              LET page == list(rows, cursor, limit)
                  left == {r \in rows : cursor = None \/ Older(r, cursor)}
                  shown == {page.items[i] : i \in DOMAIN page.items}
              IN left \ shown = IF page.next = None THEN {} ELSE {r \in rows : Older(r, page.next)}

(* The audit log is true: the statuses it records follow from one another   *)
(* up to the current one, although each request read the old status in an   *)
(* earlier statement than it writes in (emit.py emit_audit_event in the     *)
(* transaction of the write); failed requests leave a row (emit.py          *)
(* emit_audit_event_in_new_transaction); and the list, its pages and the    *)
(* detail view agree (repositories/audit_logs.py, routers/v1/audit.py).     *)
AuditIsTrue == TrailsAreChains /\ FailuresAreKept /\ LogIsReadable
=============================================================================
