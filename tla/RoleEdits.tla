----------------------------- MODULE RoleEdits -----------------------------
(* PATCH of a role's permissions (repositories/roles.py update).  Somebody  *)
(* must always hold ADMIN.ROLES.OVERRIDE.GLOBAL: the update counts the      *)
(* holders before its writes (layer 1) and again after them (layer 2), in a *)
(* READ COMMITTED transaction that locks only the role it edits.            *)
EXTENDS CmSession

CONSTANTS SuperAdmin,
          Perms,        \* the permissions, <<resource, action, scope>>
          Override,     \* ADMIN.ROLES.OVERRIDE.GLOBAL
          Grants        \* the permissions of each role at first

VARIABLES rolePerms,    \* rolePerms[r]: the rows of role_permissions
          held,         \* the PLATFORM roles with an active holder; the API assigns none
          roleRaced     \* history: two permission edits were in flight together

roleVars == <<rolePerms, held, roleRaced>>

RoleInit(holders) ==
    /\ rolePerms = Grants
    /\ held = holders
    /\ roleRaced = FALSE

(* As Holders below, counting the roles instead of their holders.           *)
Holders_Roles(perms, excluded) == {r \in RoleIds \ excluded : Override \in perms[r]}

(* _count_override_global_active_holders.                                   *)
Holders(perms, excluded) == {r \in held \ excluded : Override \in perms[r]}

Editable(r) == r # SuperAdmin /\ r \notin Archived

(* The permissions that reach beyond a tenant.                              *)
GlobalOf(perms) == {p \in perms : p[3] = "GLOBAL"}

ReadRole(q) ==
    /\ At(q, "update_role", "received")
    /\ Editable(q.role)
    /\ q.role \in TenantRoles => GlobalOf(q.perms \ rolePerms[q.role]) = {}
    /\ roleRaced' = (roleRaced \/ \E p \in Requests \ {q} : p.op = "update_role" /\ InFlight(p))
    /\ Proceed(q, "layer_1", rolePerms[q.role], {})
    /\ UNCHANGED <<rolePerms, held>>

CountHolders(q) ==
    /\ At(q, "update_role", "layer_1")
    /\ Override \in local[q] \ q.perms => Holders(rolePerms, {q.role}) # {}
    /\ Proceed(q, "write_role", local[q], {})
    /\ UNCHANGED roleVars

(* The difference to what was read at first; an added row that is there     *)
(* already violates the table's key.                                        *)
Revised(q) ==
    [rolePerms EXCEPT ![q.role] = (@ \ (local[q] \ q.perms)) \cup (q.perms \ local[q])]

(* The triggers on role_permissions: no GLOBAL permission is inserted for a *)
(* TENANT role, and the one grant of SUPER_ADMIN is never deleted.          *)
enforce_role_audience_scope_coherence(role, inserted) ==
    role \in TenantRoles => GlobalOf(inserted) = {}
protect_super_admin_override_global_grant(role, deleted) ==
    role = SuperAdmin => Override \notin deleted

(* The writes and the second count, which sees them and what others have    *)
(* committed.                                                               *)
WriteRole(q) ==
    /\ At(q, "update_role", "write_role")
    /\ Free(q, <<"role", q.role>>, "no_key")
    /\ (q.perms \ local[q]) \cap rolePerms[q.role] = {}
    /\ enforce_role_audience_scope_coherence(q.role, q.perms \ local[q])
    /\ protect_super_admin_override_global_grant(q.role, local[q] \ q.perms)
    /\ Holders(Revised(q), {}) # {}
    /\ Proceed(q, "commit_role", local[q], {Lock(<<"role", q.role>>, "no_key")})
    /\ UNCHANGED roleVars

CommitRole(q) ==
    /\ At(q, "update_role", "commit_role")
    /\ rolePerms' = Revised(q)
    /\ Answer(q)
    /\ UNCHANGED <<held, roleRaced>>

RoleStep(q) == ReadRole(q) \/ CountHolders(q) \/ WriteRole(q) \/ CommitRole(q)

RolesTypeOK == rolePerms \in [RoleIds -> SUBSET Perms] /\ held \subseteq RoleIds

(* OVERRIDE.GLOBAL never loses its last active holder: because SUPER_ADMIN  *)
(* cannot be edited when somebody holds that role, and because of the two   *)
(* counts otherwise, unless two edits overlap (each counts the other's role *)
(* before either commits).                                                  *)
OverrideIsHeld ==
    /\ RolesTypeOK
    /\ SuperAdmin \in held \/ ~roleRaced => \E r \in held : Override \in rolePerms[r]
=============================================================================
