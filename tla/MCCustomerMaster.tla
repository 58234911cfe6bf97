-------------------------- MODULE MCCustomerMaster --------------------------
(* An instance of CustomerMaster for TLC: an active tenant with a tree, a   *)
(* store and a user, a tenant whose onboarding lacks one review, and a      *)
(* tenant to be created.  A workload is a set of requests worth running     *)
(* against each other.                                                      *)
EXTENDS CustomerMaster

SetsExt == INSTANCE FiniteSetsExt

Admin == Caller("PLATFORM", "a", None)
U1 == Caller("TENANT", "u1", "t1")
By(caller, q) == [q EXCEPT !.by = caller]

Add(parent, type, code) ==
    [by |-> Admin, op |-> "add_node", tenant |-> "t1", parent |-> parent, type |-> type, code |-> code]
Edit(node, parent, code) ==
    [by |-> Admin, op |-> "edit_node", tenant |-> "t1", node |-> node, parent |-> parent, code |-> code]
NewStore(t, parent, s, code) ==
    [by |-> Admin, op |-> "create_store", tenant |-> t, parent |-> parent, store |-> s, code |-> code]
EditStore(s, parent, code) ==
    [by |-> Admin, op |-> "update_store", store |-> s, parent |-> parent, code |-> code]
SetStore(s, status) == [by |-> Admin, op |-> "transition_store", store |-> s, status |-> status]

At1 == [role |-> "manager", node |-> 1]
At3 == [role |-> "manager", node |-> 3]
NewUser(u, t, e) == [by |-> Admin, op |-> "create_user", user |-> u, tenant |-> t, email |-> e,
                     roles |-> IF t = "t1" THEN {At3} ELSE {}]
PatchUser(u, e, roles) == [by |-> Admin, op |-> "patch_user", user |-> u, email |-> e, roles |-> roles]
SetUser(u, status) == [by |-> Admin, op |-> "transition_user", user |-> u, status |-> status]
Provision(u) == [by |-> Admin, op |-> "provision_user", user |-> u]
Invite(u) == [by |-> Admin, op |-> "send_invitation", user |-> u]
LoginTo(t, s, n) == [by |-> Caller("TENANT", None, t), op |-> "login", sub |-> s, nth |-> n]
Login(s, n) == LoginTo("t2", s, n)

NewTenant == [by |-> Admin, op |-> "create_tenant", tenant |-> "t3", name |-> "n3", modules |-> {ADMIN}]
Rename(t, name) == [by |-> Admin, op |-> "update_tenant", tenant |-> t, name |-> name]
SetTenant(t, status) == [by |-> Admin, op |-> "transition_tenant", tenant |-> t, status |-> status]
Complete(n) == [by |-> Admin, op |-> "complete_onboarding", tenant |-> "t2", nth |-> n]
ProvisionOrg(t) == [by |-> Admin, op |-> "provision_tenant", tenant |-> t]
Put(t, section, empty) ==
    [by |-> Admin, op |-> "put_section", tenant |-> t, section |-> section, empty |-> empty]
Resume == [by |-> Admin, op |-> "patch_onboarding", tenant |-> "t2", section |-> "billing"]
NewDoc(d) == [by |-> Admin, op |-> "create_document", tenant |-> "t2", doc |-> d]
Review(d, status) == [by |-> Admin, op |-> "review_document", tenant |-> "t2", doc |-> d, status |-> status]
DeleteDoc(d) == [by |-> Admin, op |-> "delete_document", tenant |-> "t2", doc |-> d]
Enable(n) == [by |-> Admin, op |-> "enable_module", tenant |-> "t1", module |-> "m", nth |-> n]
Disable(m) == [by |-> Admin, op |-> "disable_module", tenant |-> "t1", module |-> m]
Channel(p) == [by |-> U1, op |-> "upsert_channel", provider |-> p]
Pass(n) == [by |-> Caller("JOB", None, None), op |-> "mirror_pass", nth |-> n]
EditRole(r, perms) == [by |-> Admin, op |-> "update_role", role |-> r, perms |-> perms]

TreeWorkloads ==
    {{Add(None, 1, "x"), Edit(2, None, "x"), Add(3, 4, "y")},
     {Edit(2, None, "x"), NewStore("t1", 3, 2, "y"), Edit(3, 5, None)},
     {Edit(3, 5, None), Edit(2, None, "x"), SetStore(1, "CLOSED")},
     {EditStore(1, 5, "y"), SetStore(1, "ACTIVE"), Edit(4, 2, None), Edit(3, None, "x")},
     {Edit(2, 5, None), Edit(5, 2, None), EditStore(1, 1, None)},
     {Add(3, 6, "y"), Add(4, 6, "y"), EditStore(1, None, "y")},
     {Add(4, 6, "y"), SetStore(1, "CLOSED"), Edit(3, 1, None)},
     {SetStore(1, "ACTIVE"), SetStore(1, "CLOSED"), EditStore(1, None, "x")}}

UserWorkloads ==
    {{PatchUser("u1", None, {At1}), PatchUser("u1", None, {At3}), SetStore(1, "CLOSED")},
     {PatchUser("u1", "e3", None), PatchUser("u1", "e1", None), SetUser("u1", "SUSPENDED")},
     {NewUser("u3", "t2", "e3"), Provision("u3"), Invite("u3"), Login("s3", 1)},
     {Login("s2", 1), Login("s2", 2), PatchUser("u2", "e3", None)},
     {PatchUser("u2", "e3", None), Login("s2", 1), NewUser("u3", "t1", "e2"), Provision("u3"),
      LoginTo("t1", "s2", 2)},
     {SetUser("u1", "SUSPENDED"), SetUser("u1", "ACTIVE"), PatchUser("u1", "e3", {At1})},
     {NewUser("u3", "t1", "e3"), PatchUser("u1", "e3", {At1, At3})}}

TenantWorkloads ==
    {{Complete(1), NewDoc("d3"), Review("d2", "VERIFIED")},
     {Complete(1), Review("d2", "VERIFIED"), Review("d2", "REJECTED"), DeleteDoc("d2")},
     {Complete(1), Complete(2), Review("d2", "VERIFIED"), Put("t2", "contacts", TRUE), Resume},
     {Complete(1), Review("d2", "VERIFIED"), SetTenant("t2", "ACTIVE"), SetTenant("t2", "SUSPENDED")},
     {SetTenant("t1", "SUSPENDED"), SetTenant("t1", "ACTIVE"), Rename("t1", "n2")},
     {NewTenant, Rename("t2", "n3"), ProvisionOrg("t3"), Put("t3", "legal", FALSE)},
     {Complete(1), Review("d2", "VERIFIED"), Put("t2", "billing", FALSE), Put("t2", "tax", FALSE)},
     {Enable(1), Enable(2), Disable("m")},
     {Channel("p1"), Channel("p2")}}

MirrorWorkloads ==
    {{Pass(1), Pass(2), SetStore(1, "ACTIVE"), Rename("t1", "n2")},
     {Pass(1), Pass(2), NewTenant, NewStore("t3", 7, 2, "y")}}

RoleWorkloads ==
    {{EditRole("a", {<<"p", "VIEW", "GLOBAL">>}), EditRole("b", {})},
     {EditRole("a", {<<"p", "VIEW", "GLOBAL">>}), EditRole("a", {Override}), EditRole("old", {})}}

(* A tenant's own user at work while its rights are taken away, and trying  *)
(* its hand at another tenant and at itself.                                *)
GateWorkloads ==
    {{By(U1, Edit(2, None, "x")), By(U1, SetStore(1, "CLOSED")), PatchUser("u1", None, {At3})},
     {By(U1, Add(3, 4, "y")), EditRole("manager", {}), Disable(ADMIN)},
     {By(U1, NewStore("t2", 6, 2, "y")), By(U1, NewUser("u3", "t2", "e3")),
      By(U1, PatchUser("u2", "e3", None)), By(U1, SetUser("u1", "SUSPENDED")),
      By(U1, NewStore("t1", 3, 2, "y"))}}

MCWorkloads ==
    TreeWorkloads \cup UserWorkloads \cup TenantWorkloads \cup MirrorWorkloads \cup RoleWorkloads
        \cup GateWorkloads
MCStarts ==
    {[sent |-> w, held |-> {"a", "b"}] : w \in MCWorkloads}
        \cup {[sent |-> {EditRole("super", {}), EditRole("a", {})}, held |-> {"super", "a"}]}
MCRequests == UNION {s.sent : s \in MCStarts}

(* Any order of the rows.                                                   *)
RowsInOrder == SetsExt!FoldSet(LAMBDA r, seq : Append(seq, r), <<>>, AuditedRows)
MCAuditIds == [r \in AuditedRows |-> CHOOSE k \in DOMAIN RowsInOrder : RowsInOrder[k] = r]

MCNode(type, parent, code, path) == NodeRow("t1", type, parent, code, path)
MCNodes ==
    [n \in Nodes |-> CASE n = 1 -> MCNode(0, None, "r", <<"r">>)
                       [] n = 2 -> MCNode(1, 1, "a", <<"r", "a">>)
                       [] n = 3 -> MCNode(3, 2, "b", <<"r", "a", "b">>)
                       [] n = 4 -> MCNode(5, 3, "s", <<"r", "a", "b", "s">>)
                       [] n = 5 -> MCNode(2, 1, "h", <<"r", "h">>)
                       [] n = 6 -> NodeRow("t2", 0, None, "r", <<"r">>)
                       [] OTHER -> None]
MCStores ==
    [s \in Stores |-> IF s = 1 THEN [node |-> 4, code |-> "s", status |-> "OPENING", closed |-> FALSE]
                      ELSE None]

MCUser(t, e, status, sub, roles) ==
    [tenant |-> t, email |-> e, status |-> status, sub |-> sub, invited |-> TRUE,
     accepted |-> sub # None, suspended |-> FALSE, roles |-> roles]
MCUsers == [u \in Users |-> CASE u = "u1" -> MCUser("t1", "e1", "ACTIVE", "s1", {At1})
                              [] u = "u2" -> MCUser("t2", "e2", "INVITED", None, {})
                              [] OTHER -> None]
MCIdentities == [s \in Subs |-> CASE s = "s1" -> [email |-> "e1", user |-> "u1"]
                                  [] s = "s2" -> [email |-> "e2", user |-> "u2"]
                                  [] OTHER -> None]

MCTenant(name, status) ==
    [name |-> name, status |-> status, org |-> TRUE, suspended |-> FALSE,
     completed |-> status # "ONBOARDING", resume |-> None]
MCTenants == [t \in Tenants |-> CASE t = "t1" -> MCTenant("n1", "ACTIVE")
                                  [] t = "t2" -> MCTenant("n2", "ONBOARDING")
                                  [] OTHER -> None]
MCSections == [t \in Tenants |-> IF t = "t3" THEN {} ELSE {"legal", "billing", "contacts"}]
MCDocs == [d \in Docs |-> CASE d = "d1" -> [tenant |-> "t1", status |-> "VERIFIED"]
                            [] d = "d2" -> [tenant |-> "t2", status |-> "PENDING_REVIEW"]
                            [] OTHER -> None]

MCModules ==
    [t \in Tenants |-> [m \in Modules |-> IF m = ADMIN /\ t # "t3" THEN "ENABLED" ELSE None]]

MCOverride == <<"ROLES", "OVERRIDE", "GLOBAL">>
OperatorPerms ==
    {<<"TENANTS", "CONFIGURE", "GLOBAL">>, <<"TENANTS", "OVERRIDE", "GLOBAL">>,
     <<"USERS", "CONFIGURE", "GLOBAL">>, <<"STORES", "CONFIGURE", "GLOBAL">>,
     <<"ORG_NODES", "CONFIGURE", "GLOBAL">>}
        \cup {<<r, "VIEW", "GLOBAL">> : r \in {"TENANTS", "USERS", "STORES", "ORG_NODES", "CHANNELS"}}
ManagerPerms ==
    {<<"USERS", "CONFIGURE", "TENANT">>, <<"STORES", "CONFIGURE", "TENANT">>,
     <<"ORG_NODES", "CONFIGURE", "TENANT">>, <<"CHANNELS", "CONFIGURE", "TENANT">>}
        \cup {<<r, "VIEW", "TENANT">> : r \in {"TENANTS", "USERS", "STORES", "ORG_NODES", "CHANNELS"}}
MCPerms == {MCOverride, <<"p", "VIEW", "GLOBAL">>} \cup OperatorPerms \cup ManagerPerms
MCGrants == [r \in RoleIds |-> CASE r = "old" -> {}
                                 [] r = "manager" -> ManagerPerms
                                 [] r = "a" -> OperatorPerms \cup {MCOverride}
                                 [] OTHER -> {MCOverride}]
=============================================================================
