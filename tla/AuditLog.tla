------------------------------ MODULE AuditLog ------------------------------
(* The audit log of Customer Master (audit/emit.py, main.py,                *)
(* repositories/audit_logs.py, routers/v1/audit.py).  A request that        *)
(* succeeds writes its row in its own transaction (AnswerAudited); one that *)
(* fails writes it afterwards, in a new transaction, from what the path     *)
(* tells and the database still holds.                                      *)
EXTENDS Access

CONSTANT AuditIds       \* AuditIds[r]: what orders the log's rows about r among others

-----------------------------------------------------------------------------
(* The errors of Customer Master (errors.py): the status of each class, in  *)
(* the order of the file, and what the client is told.                      *)

RequestErrors ==
    [AuthMissing |-> 401, AuthInvalid |-> 401, InvalidTenantId |-> 401,
     TenantNotFound |-> 404, TenantUserNotFound |-> 404, OrgNodeNotFound |-> 404,
     StoreNotFound |-> 404, InvalidSortKeyClient |-> 400,
     PermissionDenied |-> 403, PlatformAudienceRequired |-> 403]

TenantErrors ==
    [DuplicateTenantName |-> 409, InvalidTenantField |-> 422, InvalidTenantNameForSlug |-> 422,
     InvalidStateTransition |-> 409, InvalidLookupCode |-> 422, InvalidSectionKey |-> 422]

OnboardingErrors ==
    [OnboardingIncomplete |-> 409, OnboardingAlreadyCompleted |-> 409, OnboardingSectionNotFound |-> 404,
     DuplicateSectionRow |-> 422, InvalidContentType |-> 422, FileTooLarge |-> 422,
     DocumentNotFound |-> 404]

UserErrors ==
    [InvalidDocumentState |-> 409, EmptyPatch |-> 422, SelfEditForbidden |-> 403,
     EmailAlreadyExists |-> 409, InvalidRoleAudience |-> 422, InvalidRole |-> 422,
     InvalidOrgNode |-> 422]

TreeErrors ==
    [DuplicateRoleAssignmentInRequest |-> 422, RoleAssignmentConflict |-> 409,
     InvalidParentNodeType |-> 422, TenantRootNotReparentable |-> 422, CycleDetected |-> 422,
     DuplicateOrgNodeCode |-> 409, ParentNodeNotFound |-> 404]

RoleErrors ==
    [DuplicateStoreCode |-> 409, OrgNodeFieldNotAllowedForType |-> 422,
     ModuleAccessNotFound |-> 404, RoleArchived |-> 409, InvalidPermission |-> 422,
     AudienceScopeMismatch |-> 422]

GuardErrors ==
    [LastOverrideHolder |-> 409, SuperAdminProtected |-> 409, AuditEventNotFound |-> 404,
     InvalidCursor |-> 422]

ServerErrors ==
    [InternalInvariantViolation |-> 500, AppRolePrivilege |-> 500, Auth0Management |-> 500]

OutsideErrors ==
    [ProvisioningUnavailable |-> 503, DocumentStorageUnavailable |-> 503,
     ChannelsUnavailable |-> 503, UserNotProvisioned |-> 409, EmailSend |-> 500]

http_status(e) ==
    CASE e \in DOMAIN RequestErrors -> RequestErrors[e]
      [] e \in DOMAIN TenantErrors -> TenantErrors[e]
      [] e \in DOMAIN OnboardingErrors -> OnboardingErrors[e]
      [] e \in DOMAIN UserErrors -> UserErrors[e]
      [] e \in DOMAIN TreeErrors -> TreeErrors[e]
      [] e \in DOMAIN RoleErrors -> RoleErrors[e]
      [] e \in DOMAIN GuardErrors -> GuardErrors[e]
      [] e \in DOMAIN ServerErrors -> ServerErrors[e]
      [] e \in DOMAIN OutsideErrors -> OutsideErrors[e]

(* The classes that keep their status are the ServerErrors.                 *)
ServerError(e) == http_status(e) = 500

(* The client learns the class of every error but a ServerError.            *)
build_error_payload(e) ==
    [status |-> http_status(e), code |-> IF ServerError(e) THEN "INTERNAL_ERROR" ELSE e]

-----------------------------------------------------------------------------
(* The failure path.                                                        *)

Route(resource_type, platform) == [resource_type |-> resource_type, platform |-> platform]

AUDITED_ROUTES ==
    [create_tenant |-> Route("TENANT", TRUE), update_tenant |-> Route("TENANT", FALSE),
     transition_tenant |-> Route("TENANT", FALSE), complete_onboarding |-> Route("TENANT", FALSE),
     put_section |-> Route("TENANT", FALSE), patch_onboarding |-> Route("TENANT", FALSE),
     create_document |-> Route("TENANT", FALSE), review_document |-> Route("TENANT", FALSE),
     delete_document |-> Route("TENANT", FALSE),
     create_user |-> Route("TENANT_USER", FALSE), patch_user |-> Route("TENANT_USER", FALSE),
     transition_user |-> Route("TENANT_USER", FALSE), update_role |-> Route("ROLE", TRUE),
     enable_module |-> Route("MODULE_ACCESS", FALSE), disable_module |-> Route("MODULE_ACCESS", FALSE),
     add_node |-> Route("ORG_NODE", FALSE), edit_node |-> Route("ORG_NODE", FALSE),
     create_store |-> Route("STORE", FALSE), update_store |-> Route("STORE", FALSE),
     transition_store |-> Route("STORE", FALSE)]

_CONFLICT_QUALIFIERS ==
    {"DuplicateTenantName", "InvalidStateTransition", "EmailAlreadyExists",
     "RoleAssignmentConflict", "DuplicateOrgNodeCode", "DuplicateStoreCode", "RoleArchived",
     "LastOverrideHolder", "SuperAdminProtected"}

(* The wording of a conflict, by its class.                                 *)
compose_conflict_result_label(e) ==
    IF e \in _CONFLICT_QUALIFIERS THEN <<"Blocked", e>> ELSE <<"Conflict">>

(* The payloads name the error and the caller, never what was submitted.    *)
build_permission_denied_details(q, e) ==
    [audience |-> q.by.type, reason |-> IF e = "SelfEditForbidden" THEN e ELSE None]
build_validation_failed_details(e) == [validation_errors |-> {e}]
build_conflict_details(e) == [constraint |-> e]
build_internal_error_details(e) == [error_class |-> e]

_failure_result_and_details(q, e) ==
    CASE ServerError(e) -> <<"INTERNAL_ERROR", build_internal_error_details(e)>>
      [] http_status(e) = 403 -> <<"PERMISSION_DENIED", build_permission_denied_details(q, e)>>
      [] http_status(e) = 409 -> <<"CONFLICT", build_conflict_details(e)>>
      [] http_status(e) = 422 -> <<"VALIDATION_FAILED", build_validation_failed_details(e)>>
      [] OTHER -> <<"INTERNAL_ERROR", build_internal_error_details(e)>>

(* What the path tells.  A creation has no id in its path, and the tenant   *)
(* of a new user or store is in the body only.                              *)
FailureContext(resource, tenant) == [resource |-> resource, tenant |-> tenant]

_extract_tenant(q) ==
    LET t == IF q.op = "create_tenant" THEN None ELSE q.tenant IN FailureContext(t, t)
_extract_tenant_user(q) == FailureContext(IF q.op = "create_user" THEN None ELSE q.user, None)
_extract_role(q) == FailureContext(q.role, None)
_extract_module_access(q) == FailureContext(None, q.tenant)
_extract_org_node(q) == FailureContext(IF q.op = "add_node" THEN None ELSE q.node, q.tenant)
_extract_store(q) == FailureContext(IF q.op = "create_store" THEN None ELSE q.store, None)

(* The lookups of the new transaction, by resource type.  Every column that *)
(* the path left open is filled from the row, or by a placeholder.          *)
Unknown == <<"unknown">>
Found(resource, label, tenant, tenant_name) ==
    [resource |-> resource, label |-> label, tenant |-> tenant, tenant_name |-> tenant_name]

TenantName(t) == IF t = None THEN None ELSE IF tenants[t] = None THEN Unknown ELSE tenants[t].name

LookupTenant(c) ==
    Found(c.resource, IF c.resource = None THEN None ELSE TenantName(c.tenant),
          c.tenant, TenantName(c.tenant))

LookupTenantUser(c) ==
    IF c.resource = None THEN Found(None, None, None, None)
    ELSE IF users[c.resource] = None THEN Found(c.resource, Unknown, None, None)
    ELSE Found(c.resource, <<"user", c.resource>>,
               users[c.resource].tenant, TenantName(users[c.resource].tenant))

LookupRole(c) == Found(c.resource, <<"role", c.resource>>, None, None)

(* The row may not be there yet: the label is set with the id only.         *)
LookupModuleAccess(q, c) ==
    LET there == tenants[c.tenant] # None /\ modules[c.tenant][q.module] # None
    IN Found(IF there THEN <<"module", c.tenant, q.module>> ELSE None,
             IF there THEN q.module ELSE None, c.tenant, TenantName(c.tenant))

LookupOrgNode(c) ==
    Found(c.resource,
          CASE c.resource = None -> None
            [] c.resource # None /\ c.resource \in NodesOf(c.tenant) -> <<"node", c.resource>>
            [] OTHER -> Unknown,
          c.tenant, TenantName(c.tenant))

LookupStore(c) ==
    IF c.resource = None THEN Found(None, None, None, None)
    ELSE IF stores[c.resource] = None THEN Found(c.resource, Unknown, None, None)
    ELSE LET t == nodes[stores[c.resource].node].tenant
         IN Found(c.resource, <<"store", c.resource>>, t, TenantName(t))

(* RESOURCE_EXTRACTORS and the dispatch on the resource type.               *)
Lookup(q) ==
    CASE AUDITED_ROUTES[q.op].resource_type = "TENANT" -> LookupTenant(_extract_tenant(q))
      [] AUDITED_ROUTES[q.op].resource_type = "TENANT_USER" -> LookupTenantUser(_extract_tenant_user(q))
      [] AUDITED_ROUTES[q.op].resource_type = "ROLE" -> LookupRole(_extract_role(q))
      [] AUDITED_ROUTES[q.op].resource_type = "MODULE_ACCESS" ->
            LookupModuleAccess(q, _extract_module_access(q))
      [] AUDITED_ROUTES[q.op].resource_type = "ORG_NODE" -> LookupOrgNode(_extract_org_node(q))
      [] AUDITED_ROUTES[q.op].resource_type = "STORE" -> LookupStore(_extract_store(q))

(* The table is chosen again after the lookup: the tenant of a user or a    *)
(* store is known only then.                                                *)
emit_audit_event_in_new_transaction(q, result, details, label) ==
    [table |-> IF AUDITED_ROUTES[q.op].platform \/ Lookup(q).tenant = None
               THEN "platform" ELSE "tenant",
     found |-> Lookup(q), by |-> q.by, result |-> result, details |-> details, result_label |-> label]

(* None when nothing is written: the route is not audited, or there is no   *)
(* resource (404).                                                          *)
_emit_failure_audit_if_audited(q, e) ==
    IF q.op \notin DOMAIN AUDITED_ROUTES \/ http_status(e) = 404 THEN None
    ELSE LET failure == _failure_result_and_details(q, e)
         IN emit_audit_event_in_new_transaction(q, failure[1], failure[2],
                IF failure[1] = "CONFLICT" THEN compose_conflict_result_label(e) ELSE <<failure[1]>>)

(* The constraints of the two tables: the pairs, the columns that are not   *)
(* nullable in the tenant's table, and the foreign key.  A row that         *)
(* violates one is lost, and only logged.                                   *)
Storable(row) ==
    /\ (row.found.resource = None) = (row.found.label = None)
    /\ (row.found.tenant = None) = (row.found.tenant_name = None)
    /\ row.table = "tenant" => row.found.tenant # None
    /\ row.found.tenant # None => tenants[row.found.tenant] # None

(* The classes the gate raises, and the endpoints of each kind.             *)
Refusals == {"PermissionDenied", "PlatformAudienceRequired"}
Raises(op) ==
    CASE op \in {"create_tenant", "update_tenant"} ->
            {"TenantNotFound", "EmptyPatch", "DuplicateTenantName", "InvalidTenantField",
             "InvalidTenantNameForSlug"}
      [] op \in {"transition_tenant", "complete_onboarding"} ->
            {"TenantNotFound", "InvalidStateTransition", "OnboardingIncomplete"}
      [] op \in {"put_section", "patch_onboarding"} ->
            {"TenantNotFound", "InvalidLookupCode", "DuplicateSectionRow", "InvalidSectionKey",
             "OnboardingAlreadyCompleted"}
      [] op \in {"create_document", "review_document", "delete_document"} ->
            {"TenantNotFound", "InvalidLookupCode", "InvalidContentType", "FileTooLarge",
             "DocumentStorageUnavailable", "DocumentNotFound", "InvalidDocumentState"}
      [] op \in {"create_user", "patch_user", "transition_user"} ->
            {"TenantUserNotFound", "SelfEditForbidden", "EmptyPatch", "EmailAlreadyExists", "InvalidRole",
             "InvalidRoleAudience", "InvalidOrgNode", "DuplicateRoleAssignmentInRequest",
             "RoleAssignmentConflict", "InvalidStateTransition", "ProvisioningUnavailable",
             "Auth0Management"}
      [] op = "update_role" ->
            {"EmptyPatch", "RoleArchived", "SuperAdminProtected", "InvalidPermission", "AudienceScopeMismatch",
             "LastOverrideHolder", "InternalInvariantViolation"}
      [] op \in {"enable_module", "disable_module"} -> {"TenantNotFound", "ModuleAccessNotFound"}
      [] op \in {"add_node", "edit_node"} ->
            {"OrgNodeNotFound", "ParentNodeNotFound", "InvalidParentNodeType", "TenantRootNotReparentable",
             "CycleDetected", "DuplicateOrgNodeCode", "OrgNodeFieldNotAllowedForType"}
      [] op \in {"create_store", "update_store", "transition_store"} ->
            {"StoreNotFound", "EmptyPatch", "ParentNodeNotFound", "InvalidParentNodeType",
             "DuplicateStoreCode", "DuplicateOrgNodeCode", "CycleDetected", "InvalidStateTransition"}
      [] OTHER -> {"ProvisioningUnavailable", "ChannelsUnavailable", "UserNotProvisioned", "EmailSend",
                   "Auth0Management"}

-----------------------------------------------------------------------------
(* The reads, of the rows about changes of status.                          *)

AuditedRows ==
    {<<"store", s>> : s \in Stores} \cup {<<"user", u>> : u \in Users}
        \cup {<<"tenant", t>> : t \in Tenants}
        \cup {<<"module", t, m>> : t \in Tenants, m \in Modules}
ASSUME AuditIdsAssumption ==
    /\ IsFiniteSet(AuditedRows) /\ AuditIds \in [AuditedRows -> Nat]
    /\ \A r, s \in AuditedRows : AuditIds[r] = AuditIds[s] => r = s

(* The rows of the log: any time stamps in the order of the changes of one  *)
(* row, and ids that order the rest.                                        *)
OwnerOf(r) ==
    CASE r[1] = "store" -> nodes[stores[r[2]].node].tenant
      [] r[1] = "user" -> users[r[2]].tenant
      [] OTHER -> r[2]
LogRows ==
    UNION {{[id |-> AuditIds[r], at |-> i, tenant |-> OwnerOf(r), scope |-> trail[r][i].table]
            : i \in 1..Len(trail[r])} : r \in AuditedRows}

(* TENANT callers: the tenant's table, under its row policy; a platform     *)
(* caller's filters prune the union of both tables.                         *)
_build_tenant_only_sql(by) == {r \in LogRows : r.scope = "tenant" /\ r.tenant = by.tenant}
_build_union_sql(tenant, scope) ==
    {r \in LogRows : scope \in {None, r.scope} /\ tenant \in {None, r.tenant}}

list_audit_activities(by, tenant, scope) ==
    IF by.type = "TENANT" THEN _build_tenant_only_sql(by) ELSE _build_union_sql(tenant, scope)

(* ORDER BY timestamp DESC, id DESC, and the rows strictly older than the   *)
(* cursor, which is the anchor of the last row of a page.                   *)
Older(r, cursor) == r.at < cursor.at \/ (r.at = cursor.at /\ r.id < cursor.id)
NewestFirst(rows) ==
    [i \in 1..Cardinality(rows) |->
        CHOOSE r \in rows : Cardinality({x \in rows : Older(r, x)}) = i - 1]
_encode_cursor(r) == [at |-> r.at, id |-> r.id]

list(rows, cursor, limit) ==
    LET fetched == NewestFirst({r \in rows : cursor = None \/ Older(r, cursor)})
        items == SubSeq(fetched, 1, IF Len(fetched) < limit THEN Len(fetched) ELSE limit)
    IN [items |-> items,
        next |-> IF Len(fetched) > limit THEN _encode_cursor(items[Len(items)]) ELSE None]

(* GET of one row: the tenant's table first; the platform's has no row      *)
(* policy, so the handler hides its rows from TENANT callers.               *)
get_by_id(by, r) == IF r.scope = "tenant" THEN by.type = "PLATFORM" \/ r.tenant = by.tenant ELSE TRUE
get_audit_activity(by, r) == get_by_id(by, r) /\ ~(r.scope = "platform" /\ by.type = "TENANT")

=============================================================================
