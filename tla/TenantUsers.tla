---------------------------- MODULE TenantUsers ----------------------------
(* The users of a tenant and the Auth0 identities they sign in with:        *)
(* routers/v1/tenant_users.py, repositories/tenant_users.py,                *)
(* auth/provisioning.py and the reconciliation of an accepted invitation    *)
(* in routers/v1/me.py.  Auth0 is outside the transaction: what a request   *)
(* did there stays when the request is rolled back.                         *)
EXTENDS OrgTree

CONSTANTS Users,        \* ids of tenant_users rows
          Emails,
          Subs,         \* Auth0 user ids
          Tenants

VARIABLES users,        \* users[u]: a tenant_users row with its ACTIVE assignments
          identities,   \* identities[s]: an Auth0 user, or None
          orgs,         \* the tenants that have an Auth0 organisation
          asked,        \* history: asked[u], the assignments last committed for u
          drifted       \* history: Auth0 and the database were changed by
                        \* overlapping or failed requests

userVars == <<users, identities, orgs, asked, drifted>>

UserStatus == {"INVITED", "ACTIVE", "SUSPENDED"}

UserOps == {"create_user", "patch_user", "transition_user", "provision_user",
            "send_invitation", "login"}

(* The requests that read one side and write the other.                     *)
Overlaps(q) == \E p \in Requests \ {q} : p.op \in UserOps /\ InFlight(p)

(* get_user_by_email.                                                       *)
IdentitiesAt(e) == {s \in Subs : identities[s] # None /\ identities[s].email = e}

EmailInUse(e, self) == \E u \in Here(users) \ {self} : users[u].email = e

_validate_roles(pairs) == \A p \in pairs : p.role \in TenantRoles \ Archived
_validate_org_nodes(t, pairs) ==
    \A p \in pairs : p.node \in NodesOf(t) /\ nodes[p.node].status # "ARCHIVED"
Assignable(t, pairs) == _validate_roles(pairs) /\ _validate_org_nodes(t, pairs)

UserRow(t, email, roles) ==
    [tenant |-> t, email |-> email, status |-> "INVITED", sub |-> None, invited |-> FALSE,
     accepted |-> FALSE, suspended |-> FALSE, roles |-> roles]

-----------------------------------------------------------------------------
(* As ValidateUser below, in a session that no policy binds to a tenant.    *)
ValidateUser_Unbound(q) ==
    /\ At(q, "create_user", "received")
    /\ NodesOf(q.tenant) # {}
    /\ Assignable(q.tenant, q.roles)
    /\ ~EmailInUse(q.email, None)
    /\ Proceed(q, "insert_user", None, {})
    /\ UNCHANGED <<treeVars, userVars>>

ValidateUser(q) ==
    /\ At(q, "create_user", "received")
    /\ NodesOf(q.tenant) # {} /\ Sees(q, q.tenant)
    /\ Assignable(q.tenant, q.roles)
    /\ ~EmailInUse(q.email, None)
    /\ Proceed(q, "insert_user", None, {})
    /\ UNCHANGED <<treeVars, userVars>>

InsertUser(q) ==
    /\ At(q, "create_user", "insert_user")
    /\ users[q.user] = None
    /\ ~EmailInUse(q.email, None) /\ Free(q, <<"email", q.email>>, "update")
    /\ Free(q, <<"tenant", q.tenant>>, "key_share")
    /\ users' = [users EXCEPT ![q.user] = UserRow(q.tenant, q.email, q.roles)]
    /\ asked' = [asked EXCEPT ![q.user] = q.roles]
    /\ AnswerAudited(q, <<"user", q.user>>, None, "INVITED")
    /\ UNCHANGED <<treeVars, identities, orgs, drifted>>

-----------------------------------------------------------------------------
(* PATCH /tenant-users/{user}: the address is read before the row is        *)
(* locked; the validations are the ones of a creation.                      *)
ReadUser(q) ==
    /\ At(q, "patch_user", "received")
    /\ users[q.user] # None /\ Sees(q, users[q.user].tenant)
    /\ q.roles # None => Assignable(users[q.user].tenant, q.roles)
    /\ q.email # None => ~EmailInUse(q.email, q.user)
    /\ drifted' = (drifted \/ Overlaps(q))
    /\ Proceed(q, "lock_user", [email |-> users[q.user].email], {})
    /\ UNCHANGED <<treeVars, users, identities, orgs, asked>>

(* As RowLock below, without the UPDATE that stamps a change of assignments.*)
RowLock_EmailOnly(q) ==
    IF q.email = None THEN {}
    ELSE {Lock(<<"user", q.user>>, "no_key"), Lock(<<"email", q.email>>, "update")}

(* The row is updated, and so locked, even when only the assignments        *)
(* change; they are read afterwards.  A new address is claimed in the       *)
(* unique index of addresses.                                               *)
RowLock(q) ==
    {Lock(<<"user", q.user>>, "no_key")}
        \cup (IF q.email = None THEN {} ELSE {Lock(<<"email", q.email>>, "update")})

LockUser(q) ==
    /\ At(q, "patch_user", "lock_user")
    /\ \A l \in RowLock(q) : Free(q, l.row, l.mode)
    /\ q.email # None => ~EmailInUse(q.email, q.user)
    /\ Proceed(q, "apply", [email |-> local[q].email, current |-> users[q.user].roles],
               RowLock(q))
    /\ UNCHANGED <<treeVars, userVars>>

(* The address of an Auth0-backed user is changed in Auth0 as well, inside  *)
(* the open transaction, if it differs from the one read at first.          *)
CallsAuth0(q) == q.email \notin {None, local[q].email} /\ users[q.user].sub # None

UpdateUserEmail(q) ==
    /\ At(q, "patch_user", "apply")
    /\ CallsAuth0(q)
    /\ IdentitiesAt(q.email) \subseteq {users[q.user].sub}
    /\ identities' = [identities EXCEPT ![users[q.user].sub].email = q.email]
    /\ Proceed(q, "commit_user", local[q], {})
    /\ UNCHANGED <<treeVars, users, orgs, asked, drifted>>

(* _apply_role_assignments_diff.                                            *)
DiffApplied(now, current, desired) == (now \ (current \ desired)) \cup (desired \ current)

CommitUser(q) ==
    /\ \/ At(q, "patch_user", "apply") /\ ~CallsAuth0(q)
       \/ At(q, "patch_user", "commit_user")
    /\ users' = [users EXCEPT
           ![q.user].email = IF q.email = None THEN @ ELSE q.email,
           ![q.user].roles = IF q.roles = None THEN @
                             ELSE DiffApplied(@, local[q].current, q.roles)]
    /\ asked' = [asked EXCEPT ![q.user] = IF q.roles = None THEN @ ELSE q.roles]
    /\ drifted' = (drifted \/ (q.email # None /\ users[q.user].sub = None))
    /\ Answer(q)
    /\ UNCHANGED <<treeVars, identities, orgs>>

(* The transaction fails after Auth0 has answered.                          *)
RollbackUser(q) ==
    /\ Rollback(q)
    /\ drifted' = (drifted \/ At(q, "patch_user", "commit_user"))
    /\ UNCHANGED <<treeVars, users, identities, orgs, asked>>

-----------------------------------------------------------------------------
(* POST .../suspend and .../activate.                                       *)
AllowedSource(target) == IF target = "SUSPENDED" THEN "ACTIVE" ELSE "SUSPENDED"

LockForStatus(q) ==
    /\ At(q, "transition_user", "received")
    /\ users[q.user] # None /\ Sees(q, users[q.user].tenant)
    /\ Free(q, <<"user", q.user>>, "update")
    /\ users[q.user].status = AllowedSource(q.status)
    /\ Proceed(q, "set_status", users[q.user].status, {Lock(<<"user", q.user>>, "update")})
    /\ UNCHANGED <<treeVars, userVars>>

SetUserStatus(q) ==
    /\ At(q, "transition_user", "set_status")
    /\ users' = [users EXCEPT ![q.user].status = q.status,
                              ![q.user].suspended = (q.status = "SUSPENDED")]
    /\ AnswerAudited(q, <<"user", q.user>>, local[q], q.status)
    /\ UNCHANGED <<treeVars, identities, orgs, asked, drifted>>

-----------------------------------------------------------------------------
(* POST .../provision-auth0: the user is read, and then found by address or *)
(* created in Auth0 and stamped with the user's id.                         *)
ReadForProvision(q) ==
    /\ At(q, "provision_user", "received")
    /\ users[q.user] # None
    /\ drifted' = (drifted \/ Overlaps(q))
    /\ Proceed(q, "get_org", users[q.user], {})
    /\ UNCHANGED <<treeVars, users, identities, orgs, asked>>

(* _get_or_create_org: a creation that lost a race finds the other's.       *)
GetOrCreateOrg(q) ==
    /\ At(q, "provision_user", "get_org")
    /\ orgs' = orgs \cup {local[q].tenant}
    /\ Proceed(q, "get_user", local[q], {})
    /\ UNCHANGED <<treeVars, users, identities, asked, drifted>>

ProvisionUser(q) ==
    /\ At(q, "provision_user", "get_user")
    /\ \E s \in Subs :
          /\ IF IdentitiesAt(local[q].email) = {} THEN identities[s] = None
             ELSE s \in IdentitiesAt(local[q].email)
          /\ identities' = [identities EXCEPT ![s] =
                 [email |-> local[q].email, user |-> q.user]]
    /\ Answer(q)
    /\ UNCHANGED <<treeVars, users, orgs, asked, drifted>>

-----------------------------------------------------------------------------
(* POST .../send-invitation: the identity is looked up by address, the      *)
(* message is sent, and the invitation is recorded.                         *)
SendInvitation(q) ==
    /\ At(q, "send_invitation", "received")
    /\ users[q.user] # None
    /\ IdentitiesAt(users[q.user].email) # {}
    /\ Proceed(q, "mark_invited", None, {})
    /\ UNCHANGED <<treeVars, userVars>>

MarkInvited(q) ==
    /\ At(q, "send_invitation", "mark_invited")
    /\ Free(q, <<"user", q.user>>, "update")
    /\ users' = [users EXCEPT ![q.user].invited = TRUE]
    /\ Answer(q)
    /\ UNCHANGED <<treeVars, identities, orgs, asked, drifted>>

-----------------------------------------------------------------------------
(* GET /me/permissions with a token of identity q.sub.  Auth0 wrote the     *)
(* user's id into the token; the guard that reads the row first does so     *)
(* under the row policies and locks nothing.                                *)
ReconcileAcceptance(q) ==
    /\ At(q, "login", "received")
    /\ identities[q.sub] # None
    /\ Sees(q, users[identities[q.sub].user].tenant)
    /\ users[identities[q.sub].user].status = "INVITED"
    /\ users[identities[q.sub].user].sub = None
    /\ drifted' = (drifted \/ Overlaps(q))
    /\ Proceed(q, "accept", identities[q.sub].user, {})
    /\ UNCHANGED <<treeVars, users, identities, orgs, asked>>

(* accept_invitation locks the row and looks at its status again;           *)
(* uq_tenant_users_tenant_auth0_sub is on tenant and identity.              *)
StillInvited(u) == users[u].status = "INVITED"

AcceptInvitation(q) ==
    /\ At(q, "login", "accept")
    /\ Free(q, <<"user", local[q]>>, "update")
    /\ StillInvited(local[q])
    /\ \A u \in Here(users) : users[u].tenant = users[local[q]].tenant => users[u].sub # q.sub
    /\ users' = [users EXCEPT ![local[q]].status = "ACTIVE", ![local[q]].sub = q.sub,
                              ![local[q]].accepted = TRUE]
    /\ AnswerAudited(q, <<"user", local[q]>>, "INVITED", "ACTIVE")
    /\ UNCHANGED <<treeVars, identities, orgs, asked, drifted>>

UserStep(q) ==
    \/ ValidateUser(q) \/ InsertUser(q)
    \/ ReadUser(q) \/ LockUser(q) \/ UpdateUserEmail(q) \/ CommitUser(q)
    \/ LockForStatus(q) \/ SetUserStatus(q)
    \/ ReadForProvision(q) \/ GetOrCreateOrg(q) \/ ProvisionUser(q)
    \/ SendInvitation(q) \/ MarkInvited(q)
    \/ ReconcileAcceptance(q) \/ AcceptInvitation(q)

-----------------------------------------------------------------------------
UsersTypeOK ==
    /\ \A u \in Users : users[u] # None =>
          /\ users[u].email \in Emails
          /\ users[u].status \in UserStatus
          /\ users[u].sub \in Subs \cup {None}
    /\ \A s \in Subs : identities[s] # None =>
          identities[s].email \in Emails /\ identities[s].user \in Users
    /\ orgs \subseteq Tenants
    /\ drifted \in BOOLEAN

(* The three views of a user agree.  The assignments are exactly those of   *)
(* the last committed request, however two PATCHes interleave               *)
(* (tenant_users.py update, _apply_role_assignments_diff); a user has an    *)
(* Auth0 identity from the moment the invitation is accepted, by one of two *)
(* concurrent sign-ins only (accept_invitation), and the identity carries   *)
(* the user's id and address.  That is so until overlapping or failed       *)
(* requests, or a change of address before the first sign-in, let Auth0 and *)
(* the database drift apart (patch_tenant_user); one about to commit is     *)
(* excepted.  Two users share an identity only after such a drift and never *)
(* in one tenant; in two tenants they do when an invited user is given a    *)
(* new address and a user with the old one is then provisioned elsewhere.   *)
UsersAreBound ==
    /\ UsersTypeOK
    /\ \A u \in Here(users) :
        /\ users[u].roles = asked[u]
        /\ \A v \in Here(users) \ {u} :
               (users[u].sub # None /\ users[v].sub = users[u].sub) =>
                   drifted /\ users[u].tenant # users[v].tenant
        /\ /\ ~drifted /\ users[u].sub # None
           /\ \A q \in Requests : ~At(q, "patch_user", "commit_user")
           => identities[users[u].sub] = [email |-> users[u].email, user |-> u]
=============================================================================
