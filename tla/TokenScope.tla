----------------------------- MODULE TokenScope -----------------------------
(***************************************************************************)
(* The auth seam of dis-ui-server: what a bearer token says of its caller, *)
(* the tenant whose rows the caller may read, and the tenant it may write  *)
(* for.  Everything here is a function of the verified claims; the one     *)
(* thing a request body adds is the tenant a platform user acts for.       *)
(***************************************************************************)

CONSTANTS
    Tenants,  \* tenant ids, as UUIDs
    NoTenant  \* an absent tenant; the answer to a caller who is refused

-----------------------------------------------------------------------------
(* The token. *)

UserType == {"TENANT", "PLATFORM"}
OPS_ROLE == "dis:ops"

\* What a token carries.  Genuine stands for its signature, expiry, issuer, audience
\* and subject; a tenant_id may be a text that is no UUID.
Claims ==
    [genuine : BOOLEAN, user_type : UserType \cup {"unknown"},
     tenant_id : Tenants \cup {NoTenant, "malformed"}, roles : SUBSET {OPS_ROLE, "viewer"}]
Identity == [user_type : UserType, tenant_id : Tenants \cup {NoTenant, "malformed"},
             roles : SUBSET {OPS_ROLE, "viewer"}]

user_type_claim(claims) == claims.user_type \in UserType

\* A tenant's token carries its tenant and a platform token none: 401 otherwise.
verify(claims) ==
    IF /\ claims.genuine
       /\ user_type_claim(claims)
       /\ (claims.user_type = "PLATFORM") <=> (claims.tenant_id = NoTenant)
    THEN [user_type |-> claims.user_type, tenant_id |-> claims.tenant_id, roles |-> claims.roles]
    ELSE NoTenant

get_current_identity(header) == IF header = NoTenant THEN NoTenant ELSE verify(header)

\* 403 for a claim that does not parse.
tenant_uuid_of(identity) ==
    IF identity.tenant_id \in Tenants THEN identity.tenant_id ELSE NoTenant

-----------------------------------------------------------------------------
(* Reads. *)

ReadScope == [is_platform : BOOLEAN, tenant_id : Tenants \cup {NoTenant}]
Pinned(tenant) == [is_platform |-> FALSE, tenant_id |-> tenant]

\* A platform user needs the ops role to read at all; a tenant user is pinned to the
\* tenant of the token, whatever roles it carries.
require_read_scope(identity) ==
    IF identity.user_type = "PLATFORM"
    THEN IF OPS_ROLE \in identity.roles THEN [is_platform |-> TRUE, tenant_id |-> NoTenant] ELSE NoTenant
    ELSE IF tenant_uuid_of(identity) = NoTenant THEN NoTenant ELSE Pinned(tenant_uuid_of(identity))

\* The session of a read: which tenant's rows its policy lets through.
read_session(scope, tenant) == scope.is_platform \/ scope.tenant_id = tenant

-----------------------------------------------------------------------------
(* Writes. *)

WriteScope == [user_type : UserType, token_tenant : Tenants \cup {NoTenant}, has_ops : BOOLEAN]

ASSUME TokenAssumption ==
    NoTenant \notin Tenants \cup {"malformed"} \cup Claims \cup Identity \cup ReadScope \cup WriteScope

require_write_scope(identity) ==
    IF identity.user_type = "TENANT" /\ tenant_uuid_of(identity) = NoTenant THEN NoTenant
    ELSE [user_type |-> identity.user_type,
          token_tenant |-> IF identity.user_type = "TENANT" THEN tenant_uuid_of(identity) ELSE NoTenant,
          has_ops |-> OPS_ROLE \in identity.roles]

\* A tenant user acts for its own tenant and may name none; a platform user with the
\* ops role acts for the tenant it names.
resolve_acted_for(scope, body_tenant_id) ==
    IF scope.user_type = "TENANT"
    THEN IF body_tenant_id = NoTenant THEN scope.token_tenant ELSE NoTenant
    ELSE IF scope.has_ops THEN body_tenant_id ELSE NoTenant

-----------------------------------------------------------------------------
(* What a caller gets. *)

ReadersScope(claims) ==
    LET identity == get_current_identity(claims)
    IN  IF identity = NoTenant THEN NoTenant ELSE require_read_scope(identity)

WritersTenant(claims, body_tenant_id) ==
    LET identity == get_current_identity(claims)
        scope == require_write_scope(identity)
    IN  IF identity = NoTenant THEN NoTenant
        ELSE IF scope = NoTenant THEN NoTenant
        ELSE resolve_acted_for(scope, body_tenant_id)

\* Everyone who may read at all.
Callers ==
    {c \in {[user_type |-> claims.user_type, tenant_id |-> claims.tenant_id,
              scope |-> ReadersScope(claims)] : claims \in Claims} : c.scope # NoTenant}

\* Whatever a token carries: it may write for exactly the tenants whose rows it reads,
\* so nobody edits what they cannot see and every edit can be read back by its author;
\* and one token reaches two tenants only as a platform user's with the ops role.
ReadersAreWriters ==
    \A claims \in Claims :
        LET scope == ReadersScope(claims)
            seen == IF scope = NoTenant THEN {} ELSE {t \in Tenants : read_session(scope, t)}
            edited == {WritersTenant(claims, t) : t \in Tenants \cup {NoTenant}} \ {NoTenant}
        IN  /\ seen = edited
            /\ ~(seen \subseteq {claims.tenant_id}) =>
                 claims.genuine /\ claims.user_type = "PLATFORM" /\ OPS_ROLE \in claims.roles
=============================================================================
