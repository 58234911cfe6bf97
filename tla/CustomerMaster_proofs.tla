----------------------- MODULE CustomerMaster_proofs -----------------------
(***************************************************************************)
(* Proofs about Customer Master and its mirror: the organisation tree and  *)
(* its stores, the identity mirror, the last holder of the override, users *)
(* and their identities, tenants with their documents and channels, and    *)
(* how tenants are kept apart, for any requests, in every interleaving of  *)
(* their statements.                                                       *)
(***************************************************************************)
EXTENDS CustomerMaster, FiniteSetTheorems, SequenceTheorems, WellFoundedInduction, TLAPS

-----------------------------------------------------------------------------
(* The invariant of the tables. *)

SessionType == DOMAIN step = Requests /\ DOMAIN local = Requests /\ DOMAIN locks = Requests

TablesType ==
    /\ nodes \in [Nodes -> NodeRows \cup {None}]
    /\ stores \in [Stores -> StoreRows \cup {None}]
    /\ tenants \in [Tenants -> TenantRows \cup {None}]
    /\ raced \in BOOLEAN

\* The foreign keys of a node and of a store.
KeysInv ==
    /\ \A n \in Here(nodes) : nodes[n].tenant \in Here(tenants)
    /\ \A s \in Here(stores) : stores[s].node \in Here(nodes)

\* A tenant that has nodes has one root.
RootInv ==
    /\ \A n \in Here(nodes) : \E r \in Here(nodes) :
          nodes[r].tenant = nodes[n].tenant /\ nodes[r].type = TENANT
    /\ \A m, n \in Here(nodes) :
          nodes[m].type = TENANT /\ nodes[n].type = TENANT /\ nodes[m].tenant = nodes[n].tenant => m = n

\* p may be the parent of a node of this tenant and type.
Above(p, tenant, type) ==
    p \in Here(nodes) /\ nodes[p].tenant = tenant /\ nodes[p].type < type

ParentInv ==
    \A n \in Here(nodes) : IF nodes[n].type = TENANT THEN nodes[n].parent = None
                           ELSE Above(nodes[n].parent, nodes[n].tenant, nodes[n].type)

PairInv ==
    /\ \A s \in Here(stores) :
          /\ nodes[stores[s].node].type = STORE
          /\ nodes[stores[s].node].code = stores[s].code
          /\ nodes[stores[s].node].status = STORE_STATUS_TO_ORG_NODE_STATUS[stores[s].status]
    /\ \A n \in Here(nodes) : nodes[n].type = STORE => \E s \in Here(stores) : stores[s].node = n
    /\ \A r, s \in Here(stores) : stores[r].node = stores[s].node => r = s

\* What a request has checked in one statement still stands in the next.
AddingInv(q) ==
    q.op \in {"add_node", "create_store"} /\ step[q] = "insert_node" =>
        /\ NodesOf(q.tenant) # {}
        /\ IF q.parent = None THEN TENANT < ChildType(q) ELSE Above(q.parent, q.tenant, ChildType(q))
        /\ local[q] \in Paths

TargetInv(q) ==
    /\ q.op = "edit_node" /\ step[q] \in {"place", "repath", "save"} =>
          q.node \in NodesOf(q.tenant) /\ EditIsAllowed(q)
    /\ q.op = "update_store" /\ step[q] \in {"lock_target", "place", "repath", "save"} =>
          q.store \in Here(stores)

PlacedInv(q) ==
    q.op \in {"edit_node", "update_store"} =>
        /\ step[q] \in {"place", "repath", "save"} => local[q].old \in Paths
        /\ step[q] \in {"repath", "save"} =>
              /\ local[q].new \in Paths
              /\ q.parent # None => Above(q.parent, nodes[Target(q)].tenant, nodes[Target(q)].type)
        /\ step[q] = "save" => local[q].rows \subseteq NodesOf(nodes[Target(q)].tenant)

StoreInv(q) == q.op = "transition_store" /\ step[q] = "set_status" => q.store \in Here(stores)

TenantStepsOnRow ==
    {<<"update_tenant", "write_tenant">>, <<"transition_tenant", "check">>,
     <<"complete_onboarding", "check">>, <<"complete_onboarding", "complete">>,
     <<"provision_tenant", "set_org">>, <<"patch_onboarding", "upsert_onboarding">>}
TenantInv(q) == <<q.op, step[q]>> \in TenantStepsOnRow => q.tenant \in Here(tenants)

LocalInv(q) == AddingInv(q) /\ TargetInv(q) /\ PlacedInv(q) /\ StoreInv(q) /\ TenantInv(q)

TableInv == TablesType /\ KeysInv /\ RootInv /\ ParentInv /\ PairInv
TreeInv == SessionType /\ TableInv /\ \A q \in Requests : LocalInv(q)

-----------------------------------------------------------------------------
(* Steps of requests. *)

\* A step of q leaves the other requests alone.
Only(q) ==
    \A p \in Requests \ {q} : step'[p] = step[p] /\ local'[p] = local[p] /\ locks'[p] = locks[p]

\* No step takes a row away, or changes what the foreign keys and the types rest on.
RowsStay ==
    /\ \A n \in Here(nodes) : /\ n \in Here(nodes')
                              /\ nodes'[n].tenant = nodes[n].tenant
                              /\ nodes'[n].type = nodes[n].type
    /\ \A s \in Here(stores) : s \in Here(stores') /\ stores'[s].node = stores[s].node
    /\ Here(tenants) \subseteq Here(tenants')

TreeOps == {"add_node", "create_store", "edit_node", "update_store", "transition_store"}
TenantOps ==
    {"create_tenant", "update_tenant", "transition_tenant", "complete_onboarding", "provision_tenant",
     "put_section", "patch_onboarding", "create_document", "review_document", "delete_document",
     "enable_module", "disable_module", "upsert_channel"}
MirrorOps == {"mirror_pass"}
RoleOps == {"update_role"}

\* A step on the tree is a step of one request.
LEMMA TreeSession ==
    ASSUME NEW q \in Requests, SessionType, OrgTreeStep(q)
    PROVE  SessionType' /\ Only(q) /\ q.op \in TreeOps
<1> USE DEF At, Proceed, Answer, AnswerAudited, Done, SessionType, Only, TreeOps
<1>1. CASE LockParent(q)
  BY <1>1 DEF LockParent
<1>2. CASE InsertNode(q)
  BY <1>2 DEF InsertNode
<1>3. CASE InsertStore(q)
  BY <1>3 DEF InsertStore
<1>4. CASE LockStore(q)
  BY <1>4 DEF LockStore
<1>5. CASE LockTarget(q)
  BY <1>5 DEF LockTarget
<1>6. CASE Place(q)
  BY <1>6 DEF Place
<1>7. CASE Repath(q)
  BY <1>7 DEF Repath
<1>8. CASE SaveNode(q)
  BY <1>8 DEF SaveNode
<1>9. CASE LockForTransition(q)
  BY <1>9 DEF LockForTransition
<1>10. CASE SetStatus(q)
  BY <1>10 DEF SetStatus
<1> QED BY <1>1, <1>2, <1>3, <1>4, <1>5, <1>6, <1>7, <1>8, <1>9, <1>10 DEF OrgTreeStep

\* A step on the users, too; it leaves the tree alone.
LEMMA UserSession ==
    ASSUME NEW q \in Requests, SessionType, UserStep(q)
    PROVE  SessionType' /\ Only(q) /\ q.op \in UserOps /\ UNCHANGED treeVars
<1> USE DEF At, Proceed, Answer, AnswerAudited, Done, SessionType, Only, UserOps
<1>1. CASE ValidateUser(q)
  BY <1>1 DEF ValidateUser
<1>2. CASE InsertUser(q)
  BY <1>2 DEF InsertUser
<1>3. CASE ReadUser(q)
  BY <1>3 DEF ReadUser
<1>4. CASE LockUser(q)
  BY <1>4 DEF LockUser
<1>5. CASE UpdateUserEmail(q)
  BY <1>5 DEF UpdateUserEmail
<1>6. CASE CommitUser(q)
  BY <1>6 DEF CommitUser
<1>7. CASE LockForStatus(q)
  BY <1>7 DEF LockForStatus
<1>8. CASE SetUserStatus(q)
  BY <1>8 DEF SetUserStatus
<1>9. CASE ReadForProvision(q)
  BY <1>9 DEF ReadForProvision
<1>10. CASE GetOrCreateOrg(q)
  BY <1>10 DEF GetOrCreateOrg
<1>11. CASE ProvisionUser(q)
  BY <1>11 DEF ProvisionUser
<1>12. CASE SendInvitation(q)
  BY <1>12 DEF SendInvitation
<1>13. CASE MarkInvited(q)
  BY <1>13 DEF MarkInvited
<1>14. CASE ReconcileAcceptance(q)
  BY <1>14 DEF ReconcileAcceptance
<1>15. CASE AcceptInvitation(q)
  BY <1>15 DEF AcceptInvitation
<1> QED BY <1>1, <1>2, <1>3, <1>4, <1>5, <1>6, <1>7, <1>8, <1>9, <1>10, <1>11, <1>12, <1>13, <1>14, <1>15 DEF UserStep

\* A step on a tenant, too.
LEMMA TenantSession ==
    ASSUME NEW q \in Requests, SessionType, TenantStep(q)
    PROVE  SessionType' /\ Only(q) /\ q.op \in TenantOps
<1> USE DEF At, Proceed, Answer, AnswerAudited, Done, SessionType, Only, TenantOps
<1>1. CASE CheckName(q)
  BY <1>1 DEF CheckName
<1>2. CASE CreateTenant(q)
  BY <1>2 DEF CreateTenant
<1>3. CASE UpdateTenant(q)
  BY <1>3 DEF UpdateTenant
<1>4. CASE LockTenant(q)
  BY <1>4 DEF LockTenant
<1>5. CASE TransitionTenant(q)
  BY <1>5 DEF TransitionTenant
<1>6. CASE CheckPresence(q)
  BY <1>6 DEF CheckPresence
<1>7. CASE CompleteOnboarding(q)
  BY <1>7 DEF CompleteOnboarding
<1>8. CASE ProvisionOrganization(q)
  BY <1>8 DEF ProvisionOrganization
<1>9. CASE SetAuth0OrgId(q)
  BY <1>9 DEF SetAuth0OrgId
<1>10. CASE upsert_legal_profile(q)
  BY <1>10 DEF upsert_legal_profile, Upsert
<1>11. CASE upsert_billing_profile(q)
  BY <1>11 DEF upsert_billing_profile, Upsert
<1>12. CASE replace_contacts(q)
  BY <1>12 DEF replace_contacts, Replace
<1>13. CASE replace_tax_registrations(q)
  BY <1>13 DEF replace_tax_registrations, Replace
<1>14. CASE CheckNotCompleted(q)
  BY <1>14 DEF CheckNotCompleted
<1>15. CASE UpsertOnboarding(q)
  BY <1>15 DEF UpsertOnboarding
<1>16. CASE CreatePending(q)
  BY <1>16 DEF CreatePending
<1>17. CASE LockDocument(q)
  BY <1>17 DEF LockDocument
<1>18. CASE verify(q)
  BY <1>18 DEF verify, SetReview
<1>19. CASE reject(q)
  BY <1>19 DEF reject, SetReview
<1>20. CASE DeleteObject(q)
  BY <1>20 DEF DeleteObject
<1>21. CASE DeleteDocument(q)
  BY <1>21 DEF DeleteDocument
<1>22. CASE SelectModule(q)
  BY <1>22 DEF SelectModule
<1>23. CASE enable(q)
  BY <1>23 DEF enable, WriteModule
<1>24. CASE disable(q)
  BY <1>24 DEF disable, WriteModule
<1>25. CASE UpsertChannel(q)
  BY <1>25 DEF UpsertChannel
<1>26. CASE WriteSecret(q)
  BY <1>26 DEF WriteSecret
<1>27. CASE CommitChannel(q)
  BY <1>27 DEF CommitChannel
<1> QED BY <1>1, <1>2, <1>3, <1>4, <1>5, <1>6, <1>7, <1>8, <1>9, <1>10, <1>11, <1>12, <1>13, <1>14, <1>15, <1>16, <1>17, <1>18, <1>19, <1>20, <1>21, <1>22, <1>23, <1>24, <1>25, <1>26, <1>27 DEF TenantStep

\* The mirror job, too; it leaves the tables alone.
LEMMA MirrorSession ==
    ASSUME NEW q \in Requests, SessionType, MirrorStep(q)
    PROVE  SessionType' /\ Only(q) /\ q.op \in MirrorOps /\ UNCHANGED <<treeVars, userVars, tenantVars>>
<1> USE DEF At, Proceed, Answer, AnswerAudited, Done, SessionType, Only, MirrorOps
<1>1. CASE ReadTenants(q)
  BY <1>1 DEF ReadTenants
<1>2. CASE ReadStores(q)
  BY <1>2 DEF ReadStores
<1>3. CASE FinishPass(q)
  BY <1>3 DEF FinishPass
<1>4. ASSUME NEW t \in Tenants, UpsertTenant(q, t)
      PROVE  SessionType' /\ Only(q) /\ q.op \in MirrorOps /\ UNCHANGED <<treeVars, userVars, tenantVars>>
  BY <1>4 DEF UpsertTenant
<1> QED BY <1>1, <1>2, <1>3, <1>4 DEF MirrorStep

\* An edit of a role, too.
LEMMA RoleSession ==
    ASSUME NEW q \in Requests, SessionType, RoleStep(q)
    PROVE  SessionType' /\ Only(q) /\ q.op \in RoleOps
<1> USE DEF At, Proceed, Answer, AnswerAudited, Done, SessionType, Only, RoleOps
<1>1. CASE ReadRole(q)
  BY <1>1 DEF ReadRole
<1>2. CASE CountHolders(q)
  BY <1>2 DEF CountHolders
<1>3. CASE WriteRole(q)
  BY <1>3 DEF WriteRole
<1>4. CASE CommitRole(q)
  BY <1>4 DEF CommitRole
<1> QED BY <1>1, <1>2, <1>3, <1>4 DEF RoleStep

\* The gate and a failure.
LEMMA GateSession ==
    ASSUME NEW q \in Requests, SessionType, Authorize(q)
    PROVE  SessionType' /\ Only(q) /\ step[q] = "arrived" /\ step'[q] = "received"
BY DEF Authorize, Proceed, SessionType, Only

LEMMA FailureSession ==
    ASSUME NEW q \in Requests, SessionType, RollbackTenant(q)
    PROVE  SessionType' /\ Only(q) /\ step'[q] = "answered" /\ locks'[q] = {}
BY DEF RollbackTenant, RollbackUser, Rollback, Answer, Done, SessionType, Only
-----------------------------------------------------------------------------
(* The tables. *)

LEMMA LeastId ==
    ASSUME NEW T \in SUBSET Nat, T # {}
    PROVE  \E x \in T : \A y \in T : ~ (y < x)
<1> DEFINE R == OpToRel(<, Nat)
<1>1. PICK x \in T : \A y \in T : ~ (<<y, x>> \in R)
  <2>1. IsWellFoundedOn(R, Nat)
    BY NatLessThanWellFounded
  <2> HIDE DEF R
  <2> QED BY <2>1, WFMin
<1>2. ASSUME NEW y \in T, y < x PROVE FALSE
  <2>1. <<y, x>> \in R
    BY <1>2 DEF OpToRel
  <2> QED BY <1>1, <2>1
<1> QED BY <1>2

\* FreshNode is a free id.
LEMMA FreshIsFree ==
    ASSUME NodeLeft
    PROVE  FreshNode \in Nodes /\ nodes[FreshNode] = None
<1> DEFINE Left == {n \in Nodes : nodes[n] = None}
<1>1. Left \in SUBSET Nat /\ Left # {}
  BY NodesAssumption DEF NodeLeft
<1>2. PICK n \in Left : \A m \in Left : ~ (m < n)
  BY <1>1, LeastId
<1> QED BY <1>2 DEF FreshNode

\* A tenant that has nodes has a root to choose.
LEMMA RootIsThere ==
    ASSUME RootInv, NEW t, NodesOf(t) # {}
    PROVE  Root(t) \in NodesOf(t) /\ nodes[Root(t)].type = TENANT
<1>1. \E r \in NodesOf(t) : nodes[r].type = TENANT
  BY DEF RootInv, NodesOf
<1> QED BY <1>1 DEF Root

\* The statements that changed nothing a request relies on leave it what it knows.
LEMMA LocalsStay ==
    ASSUME TableInv, RowsStay, NEW p \in Requests, LocalInv(p),
           step'[p] = step[p], local'[p] = local[p]
    PROVE  LocalInv(p)'
<1> USE RequestsAssumption
<1>1. AddingInv(p)'
  BY DEF LocalInv, AddingInv, RowsStay, NodesOf, Above, ChildType
<1>2. TargetInv(p)'
  BY DEF LocalInv, TargetInv, RowsStay, NodesOf, EditIsAllowed
<1>3. PlacedInv(p)'
  <2>1. p.op \in {"edit_node", "update_store"} /\ step[p] \in {"place", "repath", "save"} =>
           Target(p)' = Target(p) /\ Target(p) \in Here(nodes)
    BY DEF LocalInv, TargetInv, RowsStay, NodesOf, Target, TableInv, KeysInv
  <2> QED BY <2>1 DEF LocalInv, PlacedInv, RowsStay, NodesOf, Above
<1>4. StoreInv(p)'
  BY DEF LocalInv, StoreInv, RowsStay
<1>5. TenantInv(p)'
  BY DEF LocalInv, TenantInv, RowsStay
<1> QED BY <1>1, <1>2, <1>3, <1>4, <1>5 DEF LocalInv

\* A step that leaves the tables alone.
LEMMA TablesUnchanged ==
    ASSUME TableInv, UNCHANGED <<nodes, stores, tenants, raced>>
    PROVE  TableInv' /\ RowsStay
<1>1. RowsStay
  BY DEF RowsStay
<1>2. TablesType' /\ KeysInv' /\ RootInv'
  BY DEF TableInv, TablesType, KeysInv, RootInv, Here
<1>3. ParentInv' /\ PairInv'
  BY DEF TableInv, ParentInv, PairInv, Above, Here
<1> QED BY <1>1, <1>2, <1>3 DEF TableInv

\* A new node of a tenant that has nodes, below a node of a lower type, with its store if
\* it is of type STORE.
LEMMA NodeIsAdded ==
    ASSUME TableInv, UNCHANGED <<tenants, raced>>,
           NEW n \in Nodes, nodes[n] = None, NEW row \in NodeRows,
           nodes' = [nodes EXCEPT ![n] = row],
           NodesOf(row.tenant) # {}, TENANT < row.type, Above(row.parent, row.tenant, row.type),
           \/ row.type # STORE /\ UNCHANGED stores
           \/ /\ row.type = STORE /\ row.status = "ACTIVE"
              /\ \E s \in Stores : /\ stores[s] = None
                                   /\ stores' = [stores EXCEPT ![s] = StoreRow(n, row.code)]
    PROVE  TableInv' /\ RowsStay
<1> USE NoneAssumption
<1>0. /\ \A m \in Nodes : nodes'[m] = IF m = n THEN row ELSE nodes[m]
      /\ DOMAIN nodes = Nodes /\ DOMAIN nodes' = Nodes
      /\ Here(nodes') = Here(nodes) \cup {n} /\ n \notin Here(nodes)
  BY DEF TableInv, TablesType, Here
<1>1. PICK s \in Stores \cup {None} :
        /\ row.type = STORE => s \in Stores /\ stores[s] = None
        /\ row.type = STORE => stores' = [stores EXCEPT ![s] = StoreRow(n, row.code)]
        /\ row.type # STORE => stores' = stores
  OBVIOUS
<1>2. StoreRow(n, row.code) \in StoreRows
  BY DEF StoreRow, StoreRows, StoreStatus, NodeRows
<1>3. /\ DOMAIN stores = Stores /\ DOMAIN stores' = Stores
      /\ \A r \in Stores : stores'[r] = IF row.type = STORE /\ r = s THEN StoreRow(n, row.code) ELSE stores[r]
      /\ Here(stores') = Here(stores) \cup (IF row.type = STORE THEN {s} ELSE {})
  BY <1>1, <1>2 DEF TableInv, TablesType, Here
<1>4. RowsStay
  BY <1>0, <1>1, <1>3 DEF RowsStay, Here
<1>5. TablesType'
  BY <1>1, <1>2 DEF TableInv, TablesType
<1>6. KeysInv'
  BY <1>0, <1>1, <1>3 DEF KeysInv, TableInv, NodesOf, StoreRow, Here
<1>a. row.type # TENANT
  BY DEF NodeRows, NodeType, TENANT
<1>7. RootInv'
  <2>1. PICK k \in Here(nodes) : nodes[k].tenant = row.tenant
    BY DEF NodesOf
  <2>2. \A m \in Here(nodes') : \E r \in Here(nodes') :
          nodes'[r].tenant = nodes'[m].tenant /\ nodes'[r].type = TENANT
    BY <1>0, <2>1 DEF RootInv, TableInv, Here
  <2>3. \A m \in Here(nodes') : nodes'[m].type = TENANT => m \in Here(nodes) /\ nodes'[m] = nodes[m]
    BY <1>0, <1>a DEF Here
  <2> QED BY <2>2, <2>3 DEF RootInv, TableInv, Here
<1>8. ParentInv'
  <2>1. ASSUME NEW p, NEW t, NEW k, Above(p, t, k) PROVE p \in Here(nodes') /\ nodes'[p] = nodes[p]
    BY <1>0, <2>1 DEF Above, Here
  <2>2. ASSUME NEW m \in Here(nodes'), m # n
        PROVE  m \in Here(nodes) /\ nodes'[m] = nodes[m]
    BY <1>0, <2>2 DEF Here
  <2>3. nodes'[n] = row
    BY <1>0
  <2> QED BY <1>a, <2>1, <2>2, <2>3 DEF ParentInv, TableInv, Above, Here
<1>9. PairInv'
  <2>1. \A r \in Here(stores) : stores[r].node \in Here(nodes)
    BY DEF TableInv, KeysInv
  <2>2. StoreRow(n, row.code).node = n /\ StoreRow(n, row.code).code = row.code
          /\ STORE_STATUS_TO_ORG_NODE_STATUS[StoreRow(n, row.code).status] = "ACTIVE"
    BY DEF StoreRow, STORE_STATUS_TO_ORG_NODE_STATUS
  <2>3. s \notin Here(stores) \/ row.type # STORE
    BY <1>1 DEF Here
  <2> QED BY <1>0, <1>1, <1>3, <2>1, <2>2, <2>3 DEF PairInv, TableInv, Here
<1> QED BY <1>4, <1>5, <1>6, <1>7, <1>8, <1>9 DEF TableInv

\* An edit of rows that are there: their tenants and types stay, and so do the parents and
\* codes of all nodes but k.
LEMMA NodesAreEdited ==
    ASSUME TableInv, UNCHANGED <<tenants, raced>>,
           nodes' \in [Nodes -> NodeRows \cup {None}], NEW k \in Here(nodes),
           \A n \in Nodes : nodes'[n] = None <=> nodes[n] = None,
           \A n \in Here(nodes) :
              /\ nodes'[n].tenant = nodes[n].tenant /\ nodes'[n].type = nodes[n].type
              /\ \/ nodes'[n].parent = nodes[n].parent
                 \/ n = k /\ nodes[k].type # TENANT
                      /\ Above(nodes'[k].parent, nodes[k].tenant, nodes[k].type)
              /\ n # k => nodes'[n].code = nodes[n].code /\ nodes'[n].status = nodes[n].status,
           stores' \in [Stores -> StoreRows \cup {None}],
           \A s \in Stores : stores'[s] = None <=> stores[s] = None,
           \A s \in Here(stores) :
              /\ stores'[s].node = stores[s].node
              /\ IF stores[s].node # k
                 THEN stores'[s].code = stores[s].code /\ stores'[s].status = stores[s].status
                 ELSE /\ stores'[s].code = nodes'[k].code
                      /\ nodes'[k].status = STORE_STATUS_TO_ORG_NODE_STATUS[stores'[s].status]
    PROVE  TableInv' /\ RowsStay
<1>0. Here(nodes') = Here(nodes) /\ Here(stores') = Here(stores)
  BY DEF Here, TableInv, TablesType
<1>1. RowsStay
  BY <1>0 DEF RowsStay
<1>2. TablesType'
  BY DEF TableInv, TablesType
<1>3. KeysInv'
  BY <1>0 DEF TableInv, KeysInv, Here
<1>4. RootInv'
  <2>1. \A n \in Here(nodes') : \E r \in Here(nodes') :
          nodes'[r].tenant = nodes'[n].tenant /\ nodes'[r].type = TENANT
    BY <1>0 DEF TableInv, RootInv
  <2>2. \A m, n \in Here(nodes') :
          nodes'[m].type = TENANT /\ nodes'[n].type = TENANT /\ nodes'[m].tenant = nodes'[n].tenant => m = n
    BY <1>0 DEF TableInv, RootInv
  <2> QED BY <2>1, <2>2 DEF RootInv, Here
<1>5. ParentInv'
  <2>1. SUFFICES ASSUME NEW n \in Here(nodes')
                 PROVE  IF nodes'[n].type = TENANT THEN nodes'[n].parent = None
                        ELSE Above(nodes[n].parent, nodes[n].tenant, nodes[n].type)'
    BY DEF ParentInv, Here
  <2>2. IF nodes[n].type = TENANT THEN nodes[n].parent = None
        ELSE Above(nodes[n].parent, nodes[n].tenant, nodes[n].type)
    BY <1>0, <2>1 DEF TableInv, ParentInv
  <2>3. \A p \in Here(nodes) : p \in Here(nodes') /\ nodes'[p].tenant = nodes[p].tenant /\ nodes'[p].type = nodes[p].type
    BY <1>0
  <2> QED BY <1>0, <2>1, <2>2, <2>3 DEF Above, Here
<1>6. PairInv'
  <2>1. \A s \in Here(stores') :
          /\ nodes'[stores'[s].node].type = STORE
          /\ nodes'[stores'[s].node].code = stores'[s].code
          /\ nodes'[stores'[s].node].status = STORE_STATUS_TO_ORG_NODE_STATUS[stores'[s].status]
    BY <1>0 DEF TableInv, PairInv, KeysInv
  <2>2. \A n \in Here(nodes') : nodes'[n].type = STORE => \E s \in Here(stores') : stores'[s].node = n
    BY <1>0 DEF TableInv, PairInv
  <2>3. \A r, s \in Here(stores') : stores'[r].node = stores'[s].node => r = s
    BY <1>0 DEF TableInv, PairInv
  <2> QED BY <2>1, <2>2, <2>3 DEF PairInv, Here
<1> QED BY <1>1, <1>2, <1>3, <1>4, <1>5, <1>6 DEF TableInv

\* An edit of a tenant's row.
LEMMA TenantIsEdited ==
    ASSUME TableInv, UNCHANGED <<nodes, stores, raced>>, NEW t \in Here(tenants),
           NEW row \in TenantRows, tenants' = [tenants EXCEPT ![t] = row]
    PROVE  TableInv' /\ RowsStay
<1>0. t \in Tenants /\ tenants' \in [Tenants -> TenantRows \cup {None}] /\ Here(tenants') = Here(tenants)
  BY NoneAssumption DEF TableInv, TablesType, Here
<1>1. TablesType' /\ KeysInv' /\ RootInv'
  BY <1>0 DEF TableInv, TablesType, KeysInv, RootInv, Here
<1>2. ParentInv' /\ PairInv'
  BY DEF TableInv, ParentInv, PairInv, Above, Here
<1> QED BY <1>0, <1>1, <1>2 DEF TableInv, RowsStay, Here

\* A new tenant and its root.
LEMMA TenantIsAdded ==
    ASSUME TableInv, UNCHANGED <<stores, raced>>, NEW t \in Tenants, tenants[t] = None,
           NEW trow \in TenantRows, tenants' = [tenants EXCEPT ![t] = trow],
           NEW n \in Nodes, nodes[n] = None, NEW row \in NodeRows, nodes' = [nodes EXCEPT ![n] = row],
           row.tenant = t, row.type = TENANT, row.parent = None
    PROVE  TableInv' /\ RowsStay
<1> USE NoneAssumption
<1>0. /\ \A m \in Nodes : nodes'[m] = IF m = n THEN row ELSE nodes[m]
      /\ DOMAIN nodes = Nodes /\ DOMAIN nodes' = Nodes
      /\ Here(nodes') = Here(nodes) \cup {n} /\ n \notin Here(nodes)
      /\ Here(tenants') = Here(tenants) \cup {t} /\ t \notin Here(tenants)
  BY DEF TableInv, TablesType, Here
<1>1. \A m \in Here(nodes) : nodes'[m] = nodes[m] /\ nodes[m].tenant # t
  BY <1>0 DEF TableInv, KeysInv, Here
<1>2. RowsStay
  BY <1>0, <1>1 DEF RowsStay
<1>3. TablesType' /\ KeysInv'
  BY <1>0, <1>1 DEF TableInv, TablesType, KeysInv, Here
<1>4. RootInv'
  <2>1. ASSUME NEW m \in Here(nodes')
        PROVE  \E r \in Here(nodes') : nodes'[r].tenant = nodes'[m].tenant /\ nodes'[r].type = TENANT
    <3>1. CASE m = n
      BY <1>0, <3>1
    <3>2. CASE m \in Here(nodes)
      <4>1. PICK r \in Here(nodes) : nodes[r].tenant = nodes[m].tenant /\ nodes[r].type = TENANT
        BY <3>2 DEF TableInv, RootInv
      <4> QED BY <1>0, <1>1, <3>2, <4>1
    <3> QED BY <1>0, <3>1, <3>2
  <2>2. \A l, m \in Here(nodes') :
          nodes'[l].type = TENANT /\ nodes'[m].type = TENANT /\ nodes'[l].tenant = nodes'[m].tenant => l = m
    BY <1>0, <1>1 DEF TableInv, RootInv
  <2> QED BY <2>1, <2>2 DEF RootInv, Here
<1>5. ParentInv'
  BY <1>0, <1>1 DEF TableInv, ParentInv, Above, Here
<1>6. PairInv'
  <2>1. TENANT # STORE
    BY DEF TENANT, STORE
  <2>2. \A s \in Here(stores) : stores[s].node \in Here(nodes)
    BY DEF TableInv, KeysInv
  <2>3. \A s \in Here(stores) : nodes'[stores[s].node] = nodes[stores[s].node]
    BY <1>1, <2>2
  <2>4. \A m \in Here(nodes') : nodes'[m].type = STORE => m \in Here(nodes) /\ nodes[m].type = STORE
    <3>1. nodes'[n].type # STORE
      BY <1>0, <2>1
    <3>2. SUFFICES ASSUME NEW m \in Here(nodes'), nodes'[m].type = STORE
                   PROVE  m \in Here(nodes) /\ nodes[m].type = STORE
      OBVIOUS
    <3> QED BY <1>0, <1>1, <3>1, <3>2
  <2> QED BY <2>3, <2>4 DEF TableInv, PairInv, Here
<1> QED BY <1>2, <1>3, <1>4, <1>5, <1>6 DEF TableInv

-----------------------------------------------------------------------------
(* Paths. *)

LEMMA PathIsNewPath ==
    ASSUME TablesType, NEW q \in Requests, q.op \in {"edit_node", "update_store"}, NEW path \in Paths,
           q.parent # None => q.parent \in Here(nodes)
    PROVE  NewPath(q, path) \in Paths
<1>1. Len(path) \in Nat /\ Len(path) >= 1 /\ path \in Seq(Codes)
  BY DEF Paths
<1>2. Front(path) \in Seq(Codes) /\ Last(path) \in Codes
  BY <1>1 DEF Front, Last
<1>3. q.parent # None => nodes[q.parent].path \in Seq(Codes)
  BY DEF TablesType, Here, NodeRows, Paths
<1>4. q.code \in Codes \cup {None}
  BY RequestsAssumption
<1>5. \A a \in Seq(Codes), c \in Codes : Append(a, c) \in Paths
  BY DEF Paths
<1> HIDE DEF Paths
<1> QED BY <1>2, <1>3, <1>4, <1>5 DEF NewPath

LEMMA PathIsRewritten ==
    ASSUME NEW a \in Paths, NEW b \in Paths, NEW i \in Nat
    PROVE  a \o SubSeq(b, i + 1, Len(b)) \in Paths
<1>1. a \in Seq(Codes) /\ b \in Seq(Codes) /\ Len(a) \in Nat /\ Len(a) >= 1
  BY DEF Paths
<1>2. SubSeq(b, i + 1, Len(b)) \in Seq(Codes)
  BY <1>1
<1>3. a \o SubSeq(b, i + 1, Len(b)) \in Seq(Codes) /\ Len(a \o SubSeq(b, i + 1, Len(b))) >= 1
  BY <1>1, <1>2, ConcatProperties
<1> QED BY <1>3 DEF Paths

-----------------------------------------------------------------------------
(* The steps on the tree. *)

\* A request that has been answered knows nothing.
LEMMA AnsweredKnowsNothing ==
    ASSUME NEW q \in Requests, step'[q] \in {"answered", "received", "arrived"}
    PROVE  LocalInv(q)'
BY DEF LocalInv, AddingInv, TargetInv, PlacedInv, StoreInv, TenantInv, TenantStepsOnRow

\* The statements that only read and lock.
LEMMA TreeReads ==
    ASSUME NEW q \in Requests, TreeInv, UNCHANGED tenants,
           \/ LockParent(q) \/ LockStore(q) \/ LockTarget(q) \/ Place(q) \/ Repath(q)
           \/ LockForTransition(q)
    PROVE  TableInv' /\ RowsStay /\ LocalInv(q)'
<1> USE DEF TreeInv
<1>0. q.op \in TreeOps /\ TenantInv(q)' /\ LocalInv(q) /\ DOMAIN local = Requests /\ DOMAIN step = Requests
  <2>1. q.op \in TreeOps
    BY DEF LockParent, LockStore, LockTarget, Place, Repath, LockForTransition, At, TreeOps
  <2> QED BY <2>1 DEF TenantInv, TreeOps, TenantStepsOnRow, SessionType
<1>1. CASE LockParent(q)
  <2>1. UNCHANGED <<nodes, stores, raced>>
    BY <1>1 DEF LockParent, treeVars
  <2>2. TableInv' /\ RowsStay
    BY <2>1, TablesUnchanged
  <2>3. /\ q.op \in {"add_node", "create_store"} /\ NodesOf(q.tenant) # {}
        /\ step'[q] = "insert_node" /\ local'[q] = nodes[ParentOf(q)].path
        /\ ParentOf(q) \in NodesOf(q.tenant) /\ nodes[ParentOf(q)].type < ChildType(q)
    BY <1>0, <1>1 DEF LockParent, At, Proceed, _check_cascade_order
  <2>4. q.parent = None => nodes[ParentOf(q)].type = TENANT
    BY <2>3, RootIsThere DEF TableInv, ParentOf
  <2>5. local'[q] \in Paths
    BY <2>3 DEF TableInv, TablesType, NodesOf, Here, NodeRows
  <2>6. AddingInv(q)'
    <3>1. IF q.parent = None THEN TENANT < ChildType(q) ELSE Above(q.parent, q.tenant, ChildType(q))
      BY <2>3, <2>4 DEF ParentOf, Above, NodesOf
    <3>2. NodesOf(q.tenant)' = NodesOf(q.tenant) /\ Above(q.parent, q.tenant, ChildType(q))' = Above(q.parent, q.tenant, ChildType(q))
      BY <2>1 DEF NodesOf, Above, Here, ChildType
    <3>3. ChildType(q)' = ChildType(q)
      BY DEF ChildType
    <3> QED BY <2>3, <2>5, <3>1, <3>2, <3>3 DEF AddingInv
  <2> QED BY <1>0, <2>2, <2>3, <2>6 DEF LocalInv, TargetInv, PlacedInv, StoreInv
<1>2. CASE LockStore(q)
  <2>1. UNCHANGED <<nodes, stores, raced>>
    BY <1>2 DEF LockStore, treeVars
  <2>2. TableInv' /\ RowsStay
    BY <2>1, TablesUnchanged
  <2>3. q.op = "update_store" /\ step'[q] = "lock_target" /\ stores[q.store] # None
    BY <1>0, <1>2 DEF LockStore, At, Proceed
  <2>4. q.store \in Here(stores')
    BY <2>1, <2>3, RequestsAssumption DEF TableInv, TablesType, Here
  <2> QED BY <1>0, <2>2, <2>3, <2>4 DEF LocalInv, AddingInv, TargetInv, PlacedInv, StoreInv, Here
<1>3. CASE LockTarget(q)
  <2>1. UNCHANGED <<nodes, stores, raced>>
    BY <1>3 DEF LockTarget, treeVars
  <2>2. TableInv' /\ RowsStay
    BY <2>1, TablesUnchanged
  <2>3. /\ step'[q] = "place" /\ local'[q].old = nodes[Target(q)].path
        /\ \/ q.op = "edit_node" /\ q.node \in NodesOf(q.tenant) /\ EditIsAllowed(q)
           \/ q.op = "update_store" /\ step[q] = "lock_target"
    BY <1>0, <1>3 DEF LockTarget, At, Proceed
  <2>4. q.op = "update_store" => q.store \in Here(stores)
    BY <1>0, <2>3 DEF LocalInv, TargetInv
  <2>5. Target(q) \in Here(nodes)
    BY <2>3, <2>4 DEF Target, NodesOf, TableInv, KeysInv
  <2>6. local'[q].old \in Paths
    BY <2>3, <2>5 DEF TableInv, TablesType, Here, NodeRows
  <2>7. TargetInv(q)'
    BY <2>1, <2>3, <2>4 DEF TargetInv, NodesOf, EditIsAllowed, Here
  <2> QED BY <1>0, <2>2, <2>3, <2>6, <2>7 DEF LocalInv, AddingInv, PlacedInv, StoreInv
<1>4. CASE Place(q)
  <2>1. UNCHANGED <<nodes, stores, raced>>
    BY <1>4 DEF Place, treeVars
  <2>2. TableInv' /\ RowsStay
    BY <2>1, TablesUnchanged
  <2>3. /\ q.op \in {"edit_node", "update_store"} /\ step[q] = "place" /\ step'[q] = "repath"
        /\ local'[q].old = local[q].old /\ local'[q].new = NewPath(q, local[q].old)
        /\ q.parent # None => /\ nodes[q.parent] # None
                              /\ nodes[q.parent].tenant = nodes[Target(q)].tenant
                              /\ nodes[q.parent].type < nodes[Target(q)].type
    BY <1>0, <1>4 DEF Place, At, Proceed, _check_cascade_order
  <2>4. local[q].old \in Paths
    BY <1>0, <2>3 DEF LocalInv, PlacedInv
  <2>5. q.parent # None => q.parent \in Here(nodes)
    BY <2>3, RequestsAssumption DEF TableInv, TablesType, Here
  <2>6. local'[q].new \in Paths
    BY <2>3, <2>4, <2>5, PathIsNewPath DEF TableInv
  <2>7. q.parent # None => Above(q.parent, nodes[Target(q)].tenant, nodes[Target(q)].type)'
    BY <2>1, <2>3, <2>5 DEF Above, Target, Here
  <2>8. TargetInv(q)'
    BY <1>0, <2>1, <2>3 DEF LocalInv, TargetInv, NodesOf, EditIsAllowed, Here
  <2> QED BY <1>0, <2>2, <2>3, <2>4, <2>6, <2>7, <2>8 DEF LocalInv, AddingInv, PlacedInv, StoreInv
<1>5. CASE Repath(q)
  <2>1. UNCHANGED <<nodes, stores>> /\ raced' \in BOOLEAN
    BY <1>5 DEF Repath
  <2>2. TableInv' /\ RowsStay
    BY <2>1, <1>0 DEF TableInv, TablesType, KeysInv, RootInv, ParentInv, PairInv, Above, Here, RowsStay
  <2>3. /\ q.op \in {"edit_node", "update_store"} /\ step[q] = "repath" /\ step'[q] = "save"
        /\ local'[q].old = local[q].old /\ local'[q].new = local[q].new
        /\ local'[q].rows = Subtree(q)
    BY <1>0, <1>5 DEF Repath, At, Proceed
  <2>4. local'[q].rows \subseteq NodesOf(nodes[Target(q)].tenant)'
    BY <2>1, <2>3 DEF Subtree, NodesOf, Target, Here
  <2>5. /\ local[q].old \in Paths /\ local[q].new \in Paths
        /\ q.parent # None => Above(q.parent, nodes[Target(q)].tenant, nodes[Target(q)].type)
    BY <1>0, <2>3 DEF LocalInv, PlacedInv
  <2>6. q.parent # None => Above(q.parent, nodes[Target(q)].tenant, nodes[Target(q)].type)'
    BY <2>1, <2>5 DEF Above, Target, Here
  <2>7. TargetInv(q)'
    BY <1>0, <2>1, <2>3 DEF LocalInv, TargetInv, NodesOf, EditIsAllowed, Here
  <2> QED BY <1>0, <2>2, <2>3, <2>4, <2>5, <2>6, <2>7 DEF LocalInv, AddingInv, PlacedInv, StoreInv
<1>6. CASE LockForTransition(q)
  <2>1. UNCHANGED <<nodes, stores, raced>>
    BY <1>6 DEF LockForTransition, treeVars
  <2>2. TableInv' /\ RowsStay
    BY <2>1, TablesUnchanged
  <2>3. q.op = "transition_store" /\ step'[q] = "set_status" /\ stores[q.store] # None
    BY <1>0, <1>6 DEF LockForTransition, At, Proceed
  <2>4. q.store \in Here(stores')
    BY <2>1, <2>3, RequestsAssumption DEF TableInv, TablesType, Here
  <2> QED BY <1>0, <2>2, <2>3, <2>4 DEF LocalInv, AddingInv, TargetInv, PlacedInv, StoreInv, Here
<1> QED BY <1>1, <1>2, <1>3, <1>4, <1>5, <1>6

\* The statements that write, and the transaction's end.
LEMMA TreeInserts ==
    ASSUME NEW q \in Requests, TreeInv, UNCHANGED tenants, InsertNode(q) \/ InsertStore(q)
    PROVE  TableInv' /\ RowsStay /\ LocalInv(q)'
<1> USE DEF TreeInv
<1>1. step'[q] = "answered"
  BY DEF InsertNode, InsertStore, Answer, AnswerAudited, Done, SessionType
<1>2. /\ q.op \in {"add_node", "create_store"} /\ step[q] = "insert_node" /\ NodeLeft
      /\ UNCHANGED raced
      /\ nodes' = [nodes EXCEPT ![FreshNode] =
             NodeRow(q.tenant, ChildType(q), ParentOf(q), q.code, Append(local[q], q.code))]
  BY DEF InsertNode, InsertStore, InsertRow, At
<1>3. FreshNode \in Nodes /\ nodes[FreshNode] = None
  BY <1>2, FreshIsFree
<1>4. /\ NodesOf(q.tenant) # {} /\ local[q] \in Paths
      /\ IF q.parent = None THEN TENANT < ChildType(q) ELSE Above(q.parent, q.tenant, ChildType(q))
  BY <1>2 DEF LocalInv, AddingInv
<1>5. Above(ParentOf(q), q.tenant, ChildType(q))
  BY <1>4, RootIsThere DEF ParentOf, Above, NodesOf, TableInv
<1>6. ChildType(q) \in NodeType /\ ParentOf(q) \in Nodes /\ q.tenant \in Tenants /\ q.code \in Codes
  <2>1. ChildType(q) \in NodeType
    BY <1>2, RequestsAssumption DEF ChildType, NodeType, STORE
  <2>2. ParentOf(q) \in Nodes
    BY <1>5 DEF Above, Here, TableInv, TablesType
  <2> QED BY <1>2, <2>1, <2>2, RequestsAssumption
<1>7. TENANT < ChildType(q)
  BY <1>5, <1>6 DEF Above, TableInv, TablesType, Here, NodeRows, NodeType, TENANT
<1> DEFINE row == NodeRow(q.tenant, ChildType(q), ParentOf(q), q.code, Append(local[q], q.code))
<1>8. Append(local[q], q.code) \in Paths
  BY <1>4, <1>6 DEF Paths
<1>9. row \in NodeRows
  BY <1>6, <1>8 DEF NodeRow, NodeRows, OrgNodeStatus
<1>10. /\ row.tenant = q.tenant /\ row.type = ChildType(q) /\ row.parent = ParentOf(q)
       /\ row.code = q.code /\ row.status = "ACTIVE"
  BY DEF NodeRow
<1>11. \/ row.type # STORE /\ UNCHANGED stores
       \/ row.type = STORE /\ \E s \in Stores : /\ stores[s] = None
                                                /\ stores' = [stores EXCEPT ![s] = StoreRow(FreshNode, row.code)]
  <2>1. CASE InsertNode(q)
    BY <2>1, <1>10, RequestsAssumption DEF InsertNode, At, ChildType
  <2>2. CASE InsertStore(q)
    BY <2>2, <1>10, RequestsAssumption DEF InsertStore, At, ChildType
  <2> QED BY <2>1, <2>2
<1> HIDE DEF row
<1>12. TableInv' /\ RowsStay
  BY <1>2, <1>3, <1>4, <1>5, <1>7, <1>9, <1>10, <1>11, NodeIsAdded DEF row
<1> QED BY <1>1, <1>12, AnsweredKnowsNothing

LEMMA TreeEdits ==
    ASSUME NEW q \in Requests, TreeInv, UNCHANGED tenants, SaveNode(q)
    PROVE  TableInv' /\ RowsStay /\ LocalInv(q)'
<1> USE DEF TreeInv
<1> DEFINE k == Target(q)
<1>1. /\ q.op \in {"edit_node", "update_store"} /\ step[q] = "save" /\ step'[q] = "answered"
      /\ nodes' = Edited(q) /\ UNCHANGED raced
      /\ IF q.op = "update_store" /\ q.code # None
         THEN stores' = [stores EXCEPT ![q.store].code = q.code]
         ELSE UNCHANGED stores
  BY DEF SaveNode, At, Answer, Done, SessionType
<1>2. /\ q.op = "edit_node" => q.node \in NodesOf(q.tenant) /\ EditIsAllowed(q)
      /\ q.op = "update_store" => q.store \in Here(stores)
      /\ local[q].old \in Paths /\ local[q].new \in Paths
      /\ q.parent # None => Above(q.parent, nodes[k].tenant, nodes[k].type)
      /\ local[q].rows \subseteq NodesOf(nodes[k].tenant)
  BY <1>1 DEF LocalInv, TargetInv, PlacedInv
<1>3. /\ k \in Here(nodes) /\ Here(nodes) \subseteq Nodes
      /\ \A n \in Here(nodes) : nodes[n] \in NodeRows
      /\ \A s \in Here(stores) : stores[s] \in StoreRows
      /\ q.code \in Codes \cup {None} /\ q.parent \in Nodes \cup {None}
  BY <1>1, <1>2, RequestsAssumption DEF Target, NodesOf, Here, TableInv, TablesType, KeysInv
<1>4. /\ q.op = "update_store" => k = stores[q.store].node /\ nodes[k].type = STORE
      /\ q.op = "edit_node" => k = q.node
  BY <1>2 DEF Target, TableInv, PairInv
<1> DEFINE row == [nodes[k] EXCEPT !.path = local[q].new,
                                   !.parent = IF q.parent = None THEN nodes[k].parent ELSE q.parent,
                                   !.code = IF q.code = None THEN nodes[k].code ELSE q.code]
<1>5. /\ row \in NodeRows /\ row.tenant = nodes[k].tenant /\ row.type = nodes[k].type
      /\ row.status = nodes[k].status
      /\ row.parent = IF q.parent = None THEN nodes[k].parent ELSE q.parent
      /\ row.code = IF q.code = None THEN nodes[k].code ELSE q.code
  BY <1>2, <1>3 DEF NodeRows
<1>6. nodes'[k] = row
  BY <1>1, <1>3 DEF Edited
<1> HIDE DEF row
<1>7. ASSUME NEW n \in Nodes, n # k
      PROVE  \/ nodes'[n] = nodes[n]
             \/ /\ n \in Here(nodes) /\ nodes'[n] \in NodeRows
                /\ nodes'[n].tenant = nodes[n].tenant /\ nodes'[n].type = nodes[n].type
                /\ nodes'[n].parent = nodes[n].parent /\ nodes'[n].code = nodes[n].code
                /\ nodes'[n].status = nodes[n].status
  <2>1. CASE Rewritten(q, n)
    <3>1. n \in Here(nodes)
      BY <1>2, <2>1 DEF Rewritten, NodesOf
    <3>2. nodes[n] \in NodeRows /\ nodes[n].path \in Paths
      BY <1>3, <3>1 DEF NodeRows
    <3>3. PICK p \in Paths : nodes'[n] = [nodes[n] EXCEPT !.path = p]
      <4>1. Len(local[q].old) \in Nat
        BY <1>2 DEF Paths
      <4>2. local[q].new \o SubSeq(nodes[n].path, Len(local[q].old) + 1, Len(nodes[n].path)) \in Paths
        BY <1>2, <3>2, <4>1, PathIsRewritten
      <4>3. nodes'[n] = [nodes[n] EXCEPT !.path =
              local[q].new \o SubSeq(nodes[n].path, Len(local[q].old) + 1, Len(nodes[n].path))]
        BY <1>1, <1>7, <2>1 DEF Edited
      <4> QED BY <4>2, <4>3
    <3>4. [nodes[n] EXCEPT !.path = p] \in NodeRows
      BY <3>2, <3>3 DEF NodeRows
    <3> QED BY <3>1, <3>2, <3>3, <3>4 DEF NodeRows
  <2>2. CASE ~Rewritten(q, n)
    BY <1>1, <1>7, <2>2 DEF Edited
  <2> QED BY <2>1, <2>2
<1>8. nodes' \in [Nodes -> NodeRows \cup {None}]
  <2>1. nodes' = [n \in Nodes |-> nodes'[n]]
    BY <1>1 DEF Edited
  <2>2. \A n \in Nodes : nodes'[n] \in NodeRows \cup {None}
    BY <1>5, <1>6, <1>7 DEF TableInv, TablesType
  <2> QED BY <2>1, <2>2
<1>9. \A n \in Nodes : nodes'[n] = None <=> nodes[n] = None
  BY <1>3, <1>5, <1>6, <1>7, NoneAssumption DEF Here
<1>10. ASSUME NEW n \in Here(nodes)
       PROVE  /\ nodes'[n].tenant = nodes[n].tenant /\ nodes'[n].type = nodes[n].type
              /\ \/ nodes'[n].parent = nodes[n].parent
                 \/ n = k /\ nodes[k].type # TENANT
                      /\ Above(nodes'[k].parent, nodes[k].tenant, nodes[k].type)
              /\ n # k => nodes'[n].code = nodes[n].code /\ nodes'[n].status = nodes[n].status
  <2>1. CASE n # k
    BY <1>3, <1>7, <2>1
  <2>2. CASE n = k
    <3>1. q.parent # None => nodes[k].type # TENANT
      BY <1>1, <1>2, <1>4 DEF EditIsAllowed, TENANT, STORE
    <3> QED BY <1>2, <1>5, <1>6, <2>2, <3>1
  <2> QED BY <2>1, <2>2
<1>11. /\ stores' \in [Stores -> StoreRows \cup {None}]
       /\ \A s \in Stores : stores'[s] = None <=> stores[s] = None
       /\ \A s \in Here(stores) : /\ stores'[s].node = stores[s].node
                                  /\ stores'[s].status = stores[s].status
                                  /\ stores'[s].code = IF q.op = "update_store" /\ q.code # None /\ s = q.store
                                                       THEN q.code ELSE stores[s].code
  <2>1. CASE q.op = "update_store" /\ q.code # None
    <3>1. stores' = [stores EXCEPT ![q.store] = [stores[q.store] EXCEPT !.code = q.code]]
      BY <1>1, <2>1
    <3>2. /\ q.store \in Here(stores) /\ q.store \in Stores
          /\ [stores[q.store] EXCEPT !.code = q.code] \in StoreRows
          /\ [stores[q.store] EXCEPT !.code = q.code].node = stores[q.store].node
          /\ [stores[q.store] EXCEPT !.code = q.code].status = stores[q.store].status
          /\ [stores[q.store] EXCEPT !.code = q.code].code = q.code
      BY <1>2, <1>3, <2>1, RequestsAssumption DEF StoreRows
    <3> QED BY <2>1, <3>1, <3>2, NoneAssumption DEF TableInv, TablesType, Here
  <2>2. CASE ~(q.op = "update_store" /\ q.code # None)
    BY <1>1, <2>2 DEF TableInv, TablesType
  <2> QED BY <2>1, <2>2
<1>12. ASSUME NEW s \in Here(stores)
       PROVE  /\ stores'[s].node = stores[s].node
              /\ IF stores[s].node # k
                 THEN stores'[s].code = stores[s].code /\ stores'[s].status = stores[s].status
                 ELSE /\ stores'[s].code = nodes'[k].code
                      /\ nodes'[k].status = STORE_STATUS_TO_ORG_NODE_STATUS[stores'[s].status]
  <2>1. CASE stores[s].node # k
    BY <1>4, <1>11, <2>1
  <2>2. CASE stores[s].node = k
    <3>1. /\ nodes[k].type = STORE /\ nodes[k].code = stores[s].code
          /\ nodes[k].status = STORE_STATUS_TO_ORG_NODE_STATUS[stores[s].status]
      BY <2>2 DEF TableInv, PairInv
    <3>2. q.op = "update_store" => s = q.store
      BY <1>2, <1>4, <2>2 DEF TableInv, PairInv
    <3>3. q.op = "edit_node" => q.code = None
      BY <1>2, <1>4, <3>1 DEF EditIsAllowed
    <3> QED BY <1>1, <1>5, <1>6, <1>11, <2>2, <3>1, <3>2, <3>3
  <2> QED BY <2>1, <2>2
<1> HIDE DEF k
<1>13. TableInv' /\ RowsStay
  BY <1>1, <1>3, <1>8, <1>9, <1>10, <1>11, <1>12, NodesAreEdited
<1> QED BY <1>1, <1>13, AnsweredKnowsNothing

LEMMA TreeStatus ==
    ASSUME NEW q \in Requests, TreeInv, UNCHANGED tenants, SetStatus(q)
    PROVE  TableInv' /\ RowsStay /\ LocalInv(q)'
<1> USE DEF TreeInv
<1> DEFINE k == stores[q.store].node
           srow == Transitioned(stores[q.store], local[q], q.status)
           row == Projected(nodes[k], STORE_STATUS_TO_ORG_NODE_STATUS[q.status])
<1>1. /\ q.op = "transition_store" /\ step[q] = "set_status" /\ step'[q] = "answered" /\ UNCHANGED raced
      /\ stores' = [stores EXCEPT ![q.store] = srow] /\ nodes' = [nodes EXCEPT ![k] = row]
  BY DEF SetStatus, At, AnswerAudited, Done, SessionType
<1>2. q.store \in Here(stores) /\ q.store \in Stores /\ q.status \in StoreStatus
  BY <1>1, RequestsAssumption DEF LocalInv, StoreInv
<1>3. k \in Here(nodes) /\ nodes[k] \in NodeRows /\ stores[q.store] \in StoreRows /\ k \in Nodes
  BY <1>2 DEF TableInv, TablesType, KeysInv, Here
<1>4. /\ srow \in StoreRows /\ srow.node = k /\ srow.code = stores[q.store].code
      /\ srow.status = q.status
  BY <1>2, <1>3 DEF Transitioned, StoreRows
<1>5. STORE_STATUS_TO_ORG_NODE_STATUS[q.status] \in OrgNodeStatus
  BY <1>2 DEF STORE_STATUS_TO_ORG_NODE_STATUS, OrgNodeStatus, StoreStatus
<1>6. /\ row \in NodeRows /\ row.tenant = nodes[k].tenant /\ row.type = nodes[k].type
      /\ row.parent = nodes[k].parent /\ row.code = nodes[k].code
      /\ row.status = STORE_STATUS_TO_ORG_NODE_STATUS[q.status]
  BY <1>3, <1>5 DEF Projected, NodeRows
<1>7. nodes[k].code = stores[q.store].code /\ \A s \in Here(stores) : stores[s].node = k => s = q.store
  BY <1>2 DEF TableInv, PairInv
<1> HIDE DEF k, srow, row
<1>8. nodes' \in [Nodes -> NodeRows \cup {None}] /\ stores' \in [Stores -> StoreRows \cup {None}]
  BY <1>1, <1>2, <1>3, <1>4, <1>6 DEF TableInv, TablesType
<1>9. /\ \A n \in Nodes : nodes'[n] = IF n = k THEN row ELSE nodes[n]
      /\ \A s \in Stores : stores'[s] = IF s = q.store THEN srow ELSE stores[s]
  BY <1>1, <1>2, <1>3 DEF TableInv, TablesType
<1>10. Here(nodes) \subseteq Nodes /\ Here(stores) \subseteq Stores
  BY DEF TableInv, TablesType, Here
<1>11. /\ \A n \in Nodes : nodes'[n] = None <=> nodes[n] = None
       /\ \A s \in Stores : stores'[s] = None <=> stores[s] = None
  BY <1>2, <1>3, <1>4, <1>6, <1>9, NoneAssumption DEF Here
<1>12. \A n \in Here(nodes) :
          /\ nodes'[n].tenant = nodes[n].tenant /\ nodes'[n].type = nodes[n].type
          /\ nodes'[n].parent = nodes[n].parent
          /\ n # k => nodes'[n].code = nodes[n].code /\ nodes'[n].status = nodes[n].status
  BY <1>6, <1>9, <1>10
<1>13. \A s \in Here(stores) :
          /\ stores'[s].node = stores[s].node
          /\ IF stores[s].node # k
             THEN stores'[s].code = stores[s].code /\ stores'[s].status = stores[s].status
             ELSE /\ stores'[s].code = nodes'[k].code
                  /\ nodes'[k].status = STORE_STATUS_TO_ORG_NODE_STATUS[stores'[s].status]
  BY <1>3, <1>4, <1>6, <1>7, <1>9, <1>10 DEF k
<1>14. TableInv' /\ RowsStay
  BY <1>1, <1>3, <1>8, <1>11, <1>12, <1>13, NodesAreEdited
<1> QED BY <1>1, <1>14, AnsweredKnowsNothing

-----------------------------------------------------------------------------
(* The steps on tenants. *)

\* What such a request must know is that the tenant is there.
LEMMA TenantKnows ==
    ASSUME NEW q \in Requests, q.op \in TenantOps, TenantInv(q)'
    PROVE  LocalInv(q)'
BY DEF LocalInv, AddingInv, TargetInv, PlacedInv, StoreInv, TenantOps

\* The statements that leave the tenants' rows alone.
LEMMA TenantReads ==
    ASSUME NEW q \in Requests, TreeInv, TenantStep(q),
           ~CreateTenant(q), ~UpdateTenant(q), ~TransitionTenant(q), 
           ~CompleteOnboarding(q), ~SetAuth0OrgId(q), ~UpsertOnboarding(q)
    PROVE  TableInv' /\ RowsStay /\ LocalInv(q)'
<1>0. q.op \in TenantOps
  BY TenantSession DEF TreeInv
<1>1. UNCHANGED <<nodes, stores, raced, tenants>> /\ TenantInv(q)'
  <2> USE RequestsAssumption DEF TreeInv, SessionType, At, Proceed, Answer, AnswerAudited, Done, treeVars, tenantVars,
          TenantStepsOnRow
  <2>1. CASE CheckName(q)
    <3>1. UNCHANGED <<nodes, stores, raced, tenants>>
      BY <2>1 DEF CheckName
    <3>2. <<q.op, step'[q]>> \in TenantStepsOnRow => q.tenant \in Tenants /\ tenants[q.tenant] # None
      BY <2>1 DEF CheckName, LocalInv, TenantInv, TableInv, TablesType, Here
    <3> QED BY <3>1, <3>2 DEF TenantInv, Here, TableInv, TablesType
  <2>2. CASE LockTenant(q)
    <3>1. UNCHANGED <<nodes, stores, raced, tenants>>
      BY <2>2 DEF LockTenant
    <3>2. <<q.op, step'[q]>> \in TenantStepsOnRow => q.tenant \in Tenants /\ tenants[q.tenant] # None
      BY <2>2 DEF LockTenant, LocalInv, TenantInv, TableInv, TablesType, Here
    <3> QED BY <3>1, <3>2 DEF TenantInv, Here, TableInv, TablesType
  <2>3. CASE CheckPresence(q)
    <3>1. UNCHANGED <<nodes, stores, raced, tenants>>
      BY <2>3 DEF CheckPresence
    <3>2. <<q.op, step'[q]>> \in TenantStepsOnRow => q.tenant \in Tenants /\ tenants[q.tenant] # None
      BY <2>3 DEF CheckPresence, LocalInv, TenantInv, TableInv, TablesType, Here
    <3> QED BY <3>1, <3>2 DEF TenantInv, Here, TableInv, TablesType
  <2>4. CASE ProvisionOrganization(q)
    <3>1. UNCHANGED <<nodes, stores, raced, tenants>>
      BY <2>4 DEF ProvisionOrganization
    <3>2. <<q.op, step'[q]>> \in TenantStepsOnRow => q.tenant \in Tenants /\ tenants[q.tenant] # None
      BY <2>4 DEF ProvisionOrganization, LocalInv, TenantInv, TableInv, TablesType, Here
    <3> QED BY <3>1, <3>2 DEF TenantInv, Here, TableInv, TablesType
  <2>5. CASE CheckNotCompleted(q)
    <3>1. UNCHANGED <<nodes, stores, raced, tenants>>
      BY <2>5 DEF CheckNotCompleted
    <3>2. <<q.op, step'[q]>> \in TenantStepsOnRow => q.tenant \in Tenants /\ tenants[q.tenant] # None
      BY <2>5 DEF CheckNotCompleted, LocalInv, TenantInv, TableInv, TablesType, Here
    <3> QED BY <3>1, <3>2 DEF TenantInv, Here, TableInv, TablesType
  <2>6. CASE upsert_legal_profile(q)
    BY <2>6 DEF upsert_legal_profile, Upsert, TenantInv
  <2>7. CASE upsert_billing_profile(q)
    BY <2>7 DEF upsert_billing_profile, Upsert, TenantInv
  <2>8. CASE replace_contacts(q)
    BY <2>8 DEF replace_contacts, Replace, TenantInv
  <2>9. CASE replace_tax_registrations(q)
    BY <2>9 DEF replace_tax_registrations, Replace, TenantInv
  <2>10. CASE CreatePending(q)
    BY <2>10 DEF CreatePending, TenantInv
  <2>11. CASE LockDocument(q)
    BY <2>11 DEF LockDocument, TenantInv
  <2>12. CASE verify(q)
    BY <2>12 DEF verify, SetReview, TenantInv
  <2>13. CASE reject(q)
    BY <2>13 DEF reject, SetReview, TenantInv
  <2>14. CASE DeleteObject(q)
    BY <2>14 DEF DeleteObject, TenantInv
  <2>15. CASE DeleteDocument(q)
    BY <2>15 DEF DeleteDocument, TenantInv
  <2>16. CASE SelectModule(q)
    BY <2>16 DEF SelectModule, TenantInv
  <2>17. CASE enable(q)
    BY <2>17 DEF enable, WriteModule, TenantInv
  <2>18. CASE disable(q)
    BY <2>18 DEF disable, WriteModule, TenantInv
  <2>19. CASE UpsertChannel(q)
    BY <2>19 DEF UpsertChannel, TenantInv
  <2>20. CASE WriteSecret(q)
    BY <2>20 DEF WriteSecret, TenantInv
  <2>21. CASE CommitChannel(q)
    BY <2>21 DEF CommitChannel, TenantInv
  <2> QED BY <2>1, <2>2, <2>3, <2>4, <2>5, <2>6, <2>7, <2>8, <2>9, <2>10, <2>11, <2>12, <2>13, <2>14, <2>15, <2>16, <2>17, <2>18, <2>19, <2>20, <2>21 DEF TenantStep
<1> QED BY <1>0, <1>1, TablesUnchanged, TenantKnows DEF TreeInv

\* The statements that write a tenant's row.
LEMMA TenantEdits ==
    ASSUME NEW q \in Requests, TreeInv,
           \/ UpdateTenant(q) \/ TransitionTenant(q) \/ CompleteOnboarding(q)
           \/ SetAuth0OrgId(q) \/ UpsertOnboarding(q)
    PROVE  TableInv' /\ RowsStay /\ LocalInv(q)'
<1> USE DEF TreeInv
<1>1. step'[q] = "answered" /\ UNCHANGED <<nodes, stores, raced>> /\ <<q.op, step[q]>> \in TenantStepsOnRow
  BY DEF UpdateTenant, TransitionTenant, CompleteOnboarding, SetAuth0OrgId, UpsertOnboarding,
     At, Answer, AnswerAudited, Done, SessionType, treeVars, TenantStepsOnRow
<1>2. q.tenant \in Here(tenants)
  BY <1>1 DEF LocalInv, TenantInv
<1>3. tenants[q.tenant] \in TenantRows
  BY <1>2 DEF TableInv, TablesType, Here
<1>4. PICK row \in TenantRows : tenants' = [tenants EXCEPT ![q.tenant] = row]
  <2>1. CASE UpdateTenant(q)
    <3>1. [tenants[q.tenant] EXCEPT !.name = q.name] \in TenantRows
      BY <1>3, <2>1, RequestsAssumption DEF UpdateTenant, At, TenantRows
    <3> QED BY <2>1, <3>1 DEF UpdateTenant
  <2>2. CASE TransitionTenant(q)
    <3>1. [tenants[q.tenant] EXCEPT !.status = q.status, !.suspended = (q.status = "SUSPENDED")] \in TenantRows
      BY <1>3, <2>2, RequestsAssumption DEF TransitionTenant, At, TenantRows, TenantStatus
    <3>2. tenants' = [tenants EXCEPT ![q.tenant] =
            [tenants[q.tenant] EXCEPT !.status = q.status, !.suspended = (q.status = "SUSPENDED")]]
      BY <1>2, <2>2 DEF TransitionTenant, Here, TableInv, TablesType
    <3> QED BY <3>1, <3>2
  <2>3. CASE CompleteOnboarding(q)
    <3>1. [tenants[q.tenant] EXCEPT !.status = "TRIAL", !.completed = TRUE] \in TenantRows
      BY <1>3 DEF TenantRows, TenantStatus
    <3>2. tenants' = [tenants EXCEPT ![q.tenant] =
            [tenants[q.tenant] EXCEPT !.status = "TRIAL", !.completed = TRUE]]
      BY <1>2, <2>3 DEF CompleteOnboarding, Here, TableInv, TablesType
    <3> QED BY <3>1, <3>2
  <2>4. CASE SetAuth0OrgId(q)
    <3>1. [tenants[q.tenant] EXCEPT !.org = TRUE] \in TenantRows
      BY <1>3 DEF TenantRows
    <3> QED BY <2>4, <3>1 DEF SetAuth0OrgId
  <2>5. CASE UpsertOnboarding(q)
    <3>1. [tenants[q.tenant] EXCEPT !.resume = q.section] \in TenantRows
      BY <1>3, <2>5, RequestsAssumption DEF UpsertOnboarding, At, TenantRows
    <3> QED BY <2>5, <3>1 DEF UpsertOnboarding
  <2> QED BY <2>1, <2>2, <2>3, <2>4, <2>5
<1>5. TableInv' /\ RowsStay
  BY <1>1, <1>2, <1>4, TenantIsEdited
<1> QED BY <1>1, <1>5, AnsweredKnowsNothing

LEMMA TenantCreates ==
    ASSUME NEW q \in Requests, TreeInv, CreateTenant(q)
    PROVE  TableInv' /\ RowsStay /\ LocalInv(q)'
<1> USE DEF TreeInv
<1> DEFINE row == NodeRow(q.tenant, TENANT, None, q.name, <<q.name>>)
<1>1. /\ q.op = "create_tenant" /\ step'[q] = "answered" /\ UNCHANGED <<stores, raced>> /\ NodeLeft
      /\ tenants[q.tenant] = None /\ tenants' = [tenants EXCEPT ![q.tenant] = TenantRow(q.name)]
      /\ nodes' = [nodes EXCEPT ![FreshNode] = row]
  BY DEF CreateTenant, At, AnswerAudited, Done, SessionType
<1>2. FreshNode \in Nodes /\ nodes[FreshNode] = None
  BY <1>1, FreshIsFree
<1>3. q.tenant \in Tenants /\ q.name \in Names /\ q.name \in Codes
  BY <1>1, RequestsAssumption
<1>4. TenantRow(q.name) \in TenantRows
  BY <1>3 DEF TenantRow, TenantRows, TenantStatus
<1>5. row \in NodeRows /\ row.tenant = q.tenant /\ row.type = TENANT /\ row.parent = None
  <2>1. <<q.name>> \in Paths
    BY <1>3 DEF Paths
  <2> QED BY <1>3, <2>1 DEF NodeRow, NodeRows, NodeType, TENANT, OrgNodeStatus
<1> HIDE DEF row
<1>6. TableInv' /\ RowsStay
  BY <1>1, <1>2, <1>3, <1>4, <1>5, TenantIsAdded
<1> QED BY <1>1, <1>6, AnsweredKnowsNothing

-----------------------------------------------------------------------------
(* The tables in every reachable state. *)

LEMMA TreeStarts == Init => TreeInv
<1> SUFFICES ASSUME Init PROVE TreeInv
  OBVIOUS
<1> USE DEF Init
<1>1. SessionType /\ \A q \in Requests : step[q] \in {"answered", "received", "arrived"}
  BY DEF SessionInit, SessionType
<1>2. \A q \in Requests : LocalInv(q)
  BY <1>1 DEF LocalInv, AddingInv, TargetInv, PlacedInv, StoreInv, TenantInv, TenantStepsOnRow
<1>3. TablesType
  BY SeedAssumption DEF TablesType
<1>4. KeysInv /\ RootInv
  BY SeedAssumption DEF KeysInv, RootInv
<1>5. ParentInv
  BY SeedAssumption DEF ParentInv, Above
<1>6. PairInv
  BY SeedAssumption DEF PairInv
<1> QED BY <1>1, <1>2, <1>3, <1>4, <1>5, <1>6 DEF TreeInv, TableInv

\* Every step: of which request, and what it leaves alone.
LEMMA EveryStep ==
    ASSUME TreeInv, Next
    PROVE  \E q \in Requests : Only(q) /\ SessionType' /\ TableInv' /\ RowsStay /\ LocalInv(q)'
<1>0. TableInv /\ SessionType
  BY DEF TreeInv
<1>1. PICK q \in Requests :
        \/ Authorize(q) /\ UNCHANGED mirrorVars
        \/ OrgTreeStep(q) /\ UNCHANGED <<userVars, tenantVars, mirrorVars, roleVars>>
        \/ UserStep(q) /\ UNCHANGED <<tenantVars, mirrorVars, roleVars>>
        \/ TenantStep(q) /\ UNCHANGED <<mirrorVars, roleVars>>
        \/ MirrorStep(q) /\ UNCHANGED roleVars
        \/ RoleStep(q) /\ UNCHANGED <<treeVars, userVars, tenantVars, mirrorVars>>
        \/ RollbackTenant(q) /\ UNCHANGED <<mirrorVars, roleVars>>
  BY DEF Next
<1> SUFFICES Only(q) /\ SessionType' /\ TableInv' /\ RowsStay /\ LocalInv(q)'
  OBVIOUS
<1>2. CASE Authorize(q)
  <2>1. UNCHANGED <<nodes, stores, tenants, raced>>
    BY <1>2 DEF Authorize, treeVars, tenantVars
  <2> QED BY <1>0, <1>2, <2>1, GateSession, TablesUnchanged, AnsweredKnowsNothing
<1>3. CASE OrgTreeStep(q) /\ UNCHANGED tenantVars
  <2>1. UNCHANGED tenants
    BY <1>3 DEF tenantVars
  <2>2. TableInv' /\ RowsStay /\ LocalInv(q)'
    BY <1>3, <2>1, TreeReads, TreeInserts, TreeEdits, TreeStatus DEF OrgTreeStep
  <2> QED BY <1>0, <1>3, <2>2, TreeSession
<1>4. CASE UserStep(q) /\ UNCHANGED tenantVars
  <2>1. UNCHANGED <<nodes, stores, tenants, raced>> /\ q.op \in UserOps /\ SessionType' /\ Only(q)
    BY <1>0, <1>4, UserSession DEF treeVars, tenantVars
  <2>2. LocalInv(q)'
    BY <2>1 DEF UserOps, LocalInv, AddingInv, TargetInv, PlacedInv, StoreInv, TenantInv, TenantStepsOnRow
  <2> QED BY <1>0, <2>1, <2>2, TablesUnchanged
<1>5. CASE TenantStep(q)
  BY <1>0, <1>5, TenantReads, TenantEdits, TenantCreates, TenantSession
<1>6. CASE MirrorStep(q)
  <2>1. UNCHANGED <<nodes, stores, tenants, raced>> /\ q.op \in MirrorOps /\ SessionType' /\ Only(q)
    BY <1>0, <1>6, MirrorSession DEF treeVars, tenantVars
  <2>2. LocalInv(q)'
    BY <2>1 DEF MirrorOps, LocalInv, AddingInv, TargetInv, PlacedInv, StoreInv, TenantInv, TenantStepsOnRow
  <2> QED BY <1>0, <2>1, <2>2, TablesUnchanged
<1>7. CASE RoleStep(q) /\ UNCHANGED <<treeVars, tenantVars>>
  <2>1. UNCHANGED <<nodes, stores, tenants, raced>> /\ q.op \in RoleOps /\ SessionType' /\ Only(q)
    BY <1>0, <1>7, RoleSession DEF treeVars, tenantVars
  <2>2. LocalInv(q)'
    BY <2>1 DEF RoleOps, LocalInv, AddingInv, TargetInv, PlacedInv, StoreInv, TenantInv, TenantStepsOnRow
  <2> QED BY <1>0, <2>1, <2>2, TablesUnchanged
<1>8. CASE RollbackTenant(q)
  <2>1. UNCHANGED <<nodes, stores, tenants, raced>>
    BY <1>8 DEF RollbackTenant, RollbackUser, treeVars
  <2> QED BY <1>0, <1>8, <2>1, FailureSession, TablesUnchanged, AnsweredKnowsNothing
<1> QED BY <1>1, <1>2, <1>3, <1>4, <1>5, <1>6, <1>7, <1>8

LEMMA TreeKept == TreeInv /\ [Next]_vars => TreeInv'
<1> SUFFICES ASSUME TreeInv, [Next]_vars PROVE TreeInv'
  OBVIOUS
<1>1. CASE Next
  <2>1. PICK q \in Requests : Only(q) /\ SessionType' /\ TableInv' /\ RowsStay /\ LocalInv(q)'
    BY <1>1, EveryStep
  <2>2. ASSUME NEW p \in Requests, p # q PROVE LocalInv(p)'
    BY <2>1, <2>2, LocalsStay DEF TreeInv, Only
  <2> QED BY <2>1, <2>2 DEF TreeInv
<1>2. CASE UNCHANGED vars
  <2>1. UNCHANGED <<nodes, stores, tenants, raced, step, local, locks>>
    BY <1>2 DEF vars, treeVars, tenantVars, sessionVars
  <2>2. TableInv' /\ RowsStay
    BY <2>1, TablesUnchanged DEF TreeInv
  <2>3. \A p \in Requests : LocalInv(p)'
    BY <2>1, <2>2, LocalsStay DEF TreeInv
  <2> QED BY <2>1, <2>2, <2>3 DEF TreeInv, SessionType
<1> QED BY <1>1, <1>2

\* The rows of nodes, stores and tenants have their types (TreeTypeOK in OrgTreeIsSound),
\* and so does every foreign key between them, in every interleaving.
THEOREM RowsAreTyped == Spec => [](TreeTypeOK /\ KeysInv)
<1>1. ASSUME TreeInv PROVE TreeTypeOK /\ KeysInv
  <2>1. TablesType /\ KeysInv
    BY <1>1 DEF TreeInv, TableInv
  <2>2. \A n \in Nodes : nodes[n] # None => nodes[n] \in NodeRows
    BY <2>1 DEF TablesType
  <2>3. \A s \in Stores : stores[s] # None => stores[s] \in StoreRows
    BY <2>1 DEF TablesType
  <2>4. \A row \in NodeRows : /\ row.type \in NodeType /\ row.parent \in Nodes \cup {None}
                              /\ row.path \in Seq(Codes) \ {<<>>} /\ row.status \in OrgNodeStatus
    BY DEF NodeRows, Paths
  <2>5. \A row \in StoreRows : row.node \in Nodes /\ row.status \in StoreStatus
    BY DEF StoreRows
  <2> QED BY <2>1, <2>2, <2>3, <2>4, <2>5 DEF TreeTypeOK, TablesType
<1> QED BY <1>1, TreeStarts, TreeKept, PTL DEF Spec

\* Concurrent adds and moves never make a cycle: every node but its tenant's one root hangs
\* under a node of its tenant and of a type above its own (ParentsAreAbove in OrgTreeIsSound).
THEOREM ParentsStayAbove == Spec => []ParentsAreAbove
<1>1. ASSUME TreeInv PROVE ParentsAreAbove
  <2>1. SUFFICES ASSUME NEW n \in Here(nodes)
                 PROVE  IF nodes[n].type = TENANT
                        THEN nodes[n].parent = None /\ nodes[n] = nodes[Root(nodes[n].tenant)]
                        ELSE /\ nodes[n].parent \in NodesOf(nodes[n].tenant)
                             /\ nodes[nodes[n].parent].type < nodes[n].type
    BY DEF ParentsAreAbove
  <2>2. NodesOf(nodes[n].tenant) # {}
    BY <2>1 DEF NodesOf
  <2>3. Root(nodes[n].tenant) \in NodesOf(nodes[n].tenant) /\ nodes[Root(nodes[n].tenant)].type = TENANT
    BY <1>1, <2>2, RootIsThere DEF TreeInv, TableInv
  <2>4. nodes[n].type = TENANT => Root(nodes[n].tenant) = n
    BY <1>1, <2>1, <2>3 DEF TreeInv, TableInv, RootInv, NodesOf
  <2> QED BY <1>1, <2>1, <2>4 DEF TreeInv, TableInv, ParentInv, Above, NodesOf
<1> QED BY <1>1, TreeStarts, TreeKept, PTL DEF Spec

\* A store and its node stay one entity: same code, projected status, one store per STORE
\* node (StoresArePaired in OrgTreeIsSound), however creations, edits and transitions of
\* the store and edits of the node interleave.
THEOREM StoresStayPaired == Spec => []StoresArePaired
<1>1. ASSUME TreeInv PROVE StoresArePaired
  <2>1. ASSUME NEW n \in Here(nodes), nodes[n].type = STORE
        PROVE  Cardinality(StoresAt(n)) = 1
    <3>1. PICK s \in Here(stores) : stores[s].node = n
      BY <1>1, <2>1 DEF TreeInv, TableInv, PairInv
    <3>2. StoresAt(n) = {s}
      BY <1>1, <3>1 DEF TreeInv, TableInv, PairInv, StoresAt
    <3> QED BY <3>2, FS_Singleton
  <2>2. \A s \in Here(stores) :
          /\ nodes[stores[s].node].type = STORE
          /\ nodes[stores[s].node].code = stores[s].code
          /\ nodes[stores[s].node].status = STORE_STATUS_TO_ORG_NODE_STATUS[stores[s].status]
    BY <1>1 DEF TreeInv, TableInv, PairInv
  <2> QED BY <2>1, <2>2 DEF StoresArePaired
<1> QED BY <1>1, TreeStarts, TreeKept, PTL DEF Spec

-----------------------------------------------------------------------------
(* The last holder of the override. *)

\* Two edits of roles are not under way at once, and one that is about to commit has
\* counted a holder that its commit leaves.
EditsAreAlone ==
    /\ \E r \in held : Override \in rolePerms[r]
    /\ \A p, q \in Requests :
          p.op = "update_role" /\ q.op = "update_role" /\ InFlight(p) /\ InFlight(q) => p = q
    /\ \A q \in Requests : At(q, "update_role", "commit_role") => Holders(Revised(q), {}) # {}

RoleInv ==
    /\ RolesTypeOK /\ roleRaced \in BOOLEAN
    /\ Override \in rolePerms[SuperAdmin]
    /\ \A q \in Requests : q.op = "update_role" /\ InFlight(q) =>
          Editable(q.role) /\ local[q] \subseteq Perms
    /\ ~roleRaced => EditsAreAlone

\* A step that is not an edit of a role.
LEMMA RolesUnchanged ==
    ASSUME RoleInv, UNCHANGED roleVars, NEW q \in Requests, Only(q),
           q.op # "update_role" \/ step'[q] \in {"received", "answered"}
    PROVE  RoleInv'
<1>1. UNCHANGED <<rolePerms, held, roleRaced>>
  BY DEF roleVars
<1>2. ASSUME NEW p \in Requests, p.op = "update_role", InFlight(p)'
      PROVE  p # q /\ InFlight(p) /\ step'[p] = step[p] /\ local'[p] = local[p]
  BY <1>2 DEF Only, InFlight
<1>3. RolesTypeOK' /\ roleRaced' \in BOOLEAN /\ Override \in rolePerms'[SuperAdmin]
  BY <1>1 DEF RoleInv, RolesTypeOK
<1>4. \A p \in Requests : p.op = "update_role" /\ InFlight(p)' =>
         Editable(p.role) /\ local'[p] \subseteq Perms
  BY <1>2 DEF RoleInv
<1>5. ASSUME ~roleRaced PROVE EditsAreAlone'
  <2>1. \E r \in held' : Override \in rolePerms'[r]
    BY <1>1, <1>5 DEF RoleInv, EditsAreAlone
  <2>2. \A p, r \in Requests :
           p.op = "update_role" /\ r.op = "update_role" /\ InFlight(p)' /\ InFlight(r)' => p = r
    BY <1>2, <1>5 DEF RoleInv, EditsAreAlone
  <2>3. ASSUME NEW p \in Requests, At(p, "update_role", "commit_role")'
        PROVE  Holders(Revised(p), {})' # {}
    <3>1. InFlight(p)' /\ p.op = "update_role"
      BY <2>3 DEF At, InFlight
    <3>2. At(p, "update_role", "commit_role") /\ local'[p] = local[p]
      BY <1>2, <2>3, <3>1 DEF At
    <3>3. Holders(Revised(p), {}) # {}
      BY <1>5, <3>2 DEF RoleInv, EditsAreAlone
    <3> QED BY <1>1, <3>2, <3>3 DEF Holders, Revised
  <2> QED BY <2>1, <2>2, <2>3 DEF EditsAreAlone
<1> QED BY <1>1, <1>3, <1>4, <1>5 DEF RoleInv, Editable

LEMMA RolesEdited ==
    ASSUME RoleInv, SessionType, NEW q \in Requests, RoleStep(q)
    PROVE  RoleInv'
<1>0. Only(q) /\ q.op = "update_role" /\ q.role \in RoleIds /\ q.perms \subseteq Perms
  BY RoleSession, RequestsAssumption DEF RoleOps
<1> USE DEF SessionType
<1>1. CASE ReadRole(q)
  <2>1. /\ UNCHANGED <<rolePerms, held>> /\ Editable(q.role)
        /\ step'[q] = "layer_1" /\ local'[q] = rolePerms[q.role]
        /\ roleRaced' = (roleRaced \/ \E p \in Requests \ {q} : p.op = "update_role" /\ InFlight(p))
    BY <1>1 DEF ReadRole, Proceed
  <2>2. \A p \in Requests \ {q} : /\ InFlight(p)' <=> InFlight(p)
                                  /\ step'[p] = step[p] /\ local'[p] = local[p]
    BY <1>0 DEF Only, InFlight
  <2>3. \A p \in Requests : p.op = "update_role" /\ InFlight(p)' =>
           Editable(p.role) /\ local'[p] \subseteq Perms
    BY <1>0, <2>1, <2>2 DEF RoleInv, RolesTypeOK
  <2>4. ASSUME ~roleRaced' PROVE EditsAreAlone'
    <3>1. ~roleRaced /\ \A p \in Requests \ {q} : p.op = "update_role" => ~InFlight(p)
      BY <2>1, <2>4 DEF RoleInv
    <3>2. \E r \in held' : Override \in rolePerms'[r]
      BY <2>1, <3>1 DEF RoleInv, EditsAreAlone
    <3>3. \A p \in Requests : ~At(p, "update_role", "commit_role")'
      BY <2>1, <2>2, <3>1 DEF At, InFlight
    <3> QED BY <2>2, <3>1, <3>2, <3>3 DEF EditsAreAlone
  <2>5. roleRaced' \in BOOLEAN
    BY <2>1 DEF RoleInv
  <2> QED BY <2>1, <2>3, <2>4, <2>5 DEF RoleInv, RolesTypeOK, Editable
<1>2. CASE CountHolders(q) \/ WriteRole(q)
  <2>1. UNCHANGED <<rolePerms, held, roleRaced>> /\ local'[q] = local[q] /\ InFlight(q)
    BY <1>2 DEF CountHolders, WriteRole, At, Proceed, roleVars, InFlight
  <2>2. \A p \in Requests : InFlight(p)' => InFlight(p) /\ local'[p] = local[p]
    BY <1>0, <2>1 DEF Only, InFlight
  <2>3. ASSUME ~roleRaced PROVE EditsAreAlone'
    <3>1. \E r \in held' : Override \in rolePerms'[r]
      BY <2>1, <2>3 DEF RoleInv, EditsAreAlone
    <3>2. \A p, r \in Requests :
             p.op = "update_role" /\ r.op = "update_role" /\ InFlight(p)' /\ InFlight(r)' => p = r
      BY <2>2, <2>3 DEF RoleInv, EditsAreAlone
    <3>3. ASSUME NEW p \in Requests, At(p, "update_role", "commit_role")'
          PROVE  Holders(Revised(p), {})' # {}
      <4>1. InFlight(p)' /\ p.op = "update_role"
        BY <3>3 DEF At, InFlight
      <4>2. p = q
        BY <1>0, <2>1, <2>2, <2>3, <4>1 DEF RoleInv, EditsAreAlone
      <4>3. WriteRole(q)
        BY <1>2, <3>3, <4>2 DEF CountHolders, Proceed, At
      <4>4. Holders(Revised(q), {}) # {}
        BY <4>3 DEF WriteRole
      <4> QED BY <2>1, <4>2, <4>4 DEF Holders, Revised
    <3> QED BY <3>1, <3>2, <3>3 DEF EditsAreAlone
  <2> QED BY <2>1, <2>2, <2>3 DEF RoleInv, RolesTypeOK, Editable
<1>3. CASE CommitRole(q)
  <2>1. /\ step[q] = "commit_role" /\ step'[q] = "answered" /\ rolePerms' = Revised(q)
        /\ UNCHANGED <<held, roleRaced>>
    BY <1>3 DEF CommitRole, At, Answer, Done
  <2>2. InFlight(q) /\ Editable(q.role) /\ local[q] \subseteq Perms
    BY <1>0, <2>1 DEF InFlight, RoleInv
  <2>3. RolesTypeOK'
    BY <1>0, <2>1, <2>2 DEF RoleInv, RolesTypeOK, Revised
  <2>4. Override \in rolePerms'[SuperAdmin]
    BY <1>0, <2>1, <2>2 DEF RoleInv, RolesTypeOK, Revised, Editable
  <2>5. \A p \in Requests : InFlight(p)' => p # q /\ InFlight(p) /\ local'[p] = local[p]
    BY <1>0, <2>1 DEF Only, InFlight
  <2>6. ASSUME ~roleRaced PROVE EditsAreAlone'
    <3>1. \A p \in Requests : p.op = "update_role" => ~InFlight(p)'
      BY <1>0, <2>2, <2>5, <2>6 DEF RoleInv, EditsAreAlone
    <3>2. Holders(Revised(q), {}) # {}
      BY <1>0, <2>1, <2>6 DEF RoleInv, EditsAreAlone, At
    <3>3. \E r \in held' : Override \in rolePerms'[r]
      BY <2>1, <3>2 DEF Holders
    <3> QED BY <3>1, <3>3 DEF EditsAreAlone, At, InFlight
  <2> QED BY <2>1, <2>3, <2>4, <2>5, <2>6 DEF RoleInv, Editable
<1> QED BY <1>1, <1>2, <1>3 DEF RoleStep

LEMMA RolesKept == TreeInv /\ RoleInv /\ [Next]_vars => RoleInv'
<1> SUFFICES ASSUME TreeInv, RoleInv, [Next]_vars PROVE RoleInv'
  OBVIOUS
<1>0. SessionType
  BY DEF TreeInv
<1>1. CASE Next
  <2>1. PICK q \in Requests :
          \/ Authorize(q) /\ UNCHANGED mirrorVars
          \/ OrgTreeStep(q) /\ UNCHANGED <<userVars, tenantVars, mirrorVars, roleVars>>
          \/ UserStep(q) /\ UNCHANGED <<tenantVars, mirrorVars, roleVars>>
          \/ TenantStep(q) /\ UNCHANGED <<mirrorVars, roleVars>>
          \/ MirrorStep(q) /\ UNCHANGED roleVars
          \/ RoleStep(q) /\ UNCHANGED <<treeVars, userVars, tenantVars, mirrorVars>>
          \/ RollbackTenant(q) /\ UNCHANGED <<mirrorVars, roleVars>>
    BY <1>1 DEF Next
  <2>2. CASE RoleStep(q)
    BY <1>0, <2>2, RolesEdited
  <2>3. CASE ~RoleStep(q)
    <3>1. UNCHANGED roleVars
      BY <2>1, <2>3 DEF Authorize
    <3>2. Only(q) /\ (q.op # "update_role" \/ step'[q] \in {"received", "answered"})
      BY <1>0, <2>1, <2>3, GateSession, TreeSession, UserSession, TenantSession, MirrorSession, FailureSession
         DEF TreeOps, UserOps, TenantOps, MirrorOps
    <3> QED BY <3>1, <3>2, RolesUnchanged
  <2> QED BY <2>2, <2>3
<1>2. CASE UNCHANGED vars
  BY <1>2 DEF vars, roleVars, sessionVars, RoleInv, RolesTypeOK, EditsAreAlone, InFlight, At, Holders, Revised, Editable
<1> QED BY <1>1, <1>2

LEMMA RolesStart == Init => RoleInv
<1> SUFFICES ASSUME Init PROVE RoleInv
  OBVIOUS
<1>1. PICK s \in Starts : SessionInit(s.sent) /\ RoleInit(s.held)
  BY DEF Init
<1>2. \A q \in Requests : ~InFlight(q)
  BY <1>1 DEF SessionInit, InFlight
<1>3. RolesTypeOK /\ roleRaced \in BOOLEAN /\ Override \in rolePerms[SuperAdmin]
  BY <1>1, StartsAssumption DEF RoleInit, RolesTypeOK
<1>4. \E r \in held : Override \in rolePerms[r]
  BY <1>1, StartsAssumption DEF RoleInit
<1> QED BY <1>2, <1>3, <1>4 DEF RoleInv, EditsAreAlone, At, InFlight

\* Somebody always holds ADMIN.ROLES.OVERRIDE.GLOBAL, through any sequence of PATCHes of
\* roles: because SUPER_ADMIN cannot be edited when that role is held, and because of the
\* two counts when no two edits overlap.
THEOREM OverrideStaysHeld == Spec => []OverrideIsHeld
<1>1. RoleInv => OverrideIsHeld
  BY DEF RoleInv, EditsAreAlone, OverrideIsHeld
<1> QED BY <1>1, TreeStarts, TreeKept, RolesStart, RolesKept, PTL DEF Spec

-----------------------------------------------------------------------------
(* The identity mirror. *)

\* The mirror holds what was read of the tenants in done, and of their stores.
Mirrored(ts, ss, done) ==
    \A t \in done : /\ mirrorTenants[t] = ts[t]
                    /\ \A s \in DOMAIN ss : ss[s].tenant = t => mirrorStores[s] = ss[s]

\* What a pass has read.
PassInv(q) ==
    /\ At(q, "mirror_pass", "read_stores") =>
          DOMAIN local[q] \subseteq Tenants /\ \A t \in DOMAIN local[q] : local[q][t] # None
    /\ At(q, "mirror_pass", "upsert") =>
          /\ local[q] = [tenants |-> local[q].tenants, stores |-> local[q].stores, todo |-> local[q].todo]
          /\ DOMAIN local[q].tenants \subseteq Tenants
          /\ \A t \in DOMAIN local[q].tenants : local[q].tenants[t] # None
          /\ DOMAIN local[q].stores \subseteq Stores
          /\ local[q].todo \subseteq DOMAIN local[q].tenants

\* A pass that is alone has mirrored what it is done with, and the last one everything.
PassesAreAlone ==
    /\ \A p, q \in Requests :
          p.op = "mirror_pass" /\ q.op = "mirror_pass" /\ InFlight(p) /\ InFlight(q) => p = q
    /\ \A q \in Requests : At(q, "mirror_pass", "upsert") =>
          Mirrored(local[q].tenants, local[q].stores, DOMAIN local[q].tenants \ local[q].todo)
    /\ synced # None => Mirrored(synced.tenants, synced.stores, DOMAIN synced.tenants)

MirrorInv ==
    /\ DOMAIN mirrorTenants = Tenants /\ DOMAIN mirrorStores = Stores /\ overlapped \in BOOLEAN
    /\ \A s \in Here(mirrorStores) : mirrorStores[s].tenant \in Here(mirrorTenants)
    /\ \A q \in Requests : PassInv(q)
    /\ ~overlapped => PassesAreAlone

LEMMA MirrorUnchanged ==
    ASSUME MirrorInv, UNCHANGED mirrorVars, NEW q \in Requests, Only(q),
           q.op # "mirror_pass" \/ step'[q] \in {"received", "answered"}
    PROVE  MirrorInv'
<1>1. UNCHANGED <<mirrorTenants, mirrorStores, synced, overlapped>>
  BY DEF mirrorVars
<1>2. ASSUME NEW p \in Requests, p.op = "mirror_pass", InFlight(p)'
      PROVE  p # q /\ InFlight(p) /\ step'[p] = step[p] /\ local'[p] = local[p]
  BY <1>2 DEF Only, InFlight
<1>3. \A p \in Requests : PassInv(p)'
  <2>1. ASSUME NEW p \in Requests,
               At(p, "mirror_pass", "read_stores")' \/ At(p, "mirror_pass", "upsert")'
        PROVE  step'[p] = step[p] /\ local'[p] = local[p]
    BY <1>2, <2>1 DEF At, InFlight
  <2> QED BY <2>1 DEF MirrorInv, PassInv, At
<1>4. ASSUME ~overlapped PROVE PassesAreAlone'
  <2>1. \A p, r \in Requests :
           p.op = "mirror_pass" /\ r.op = "mirror_pass" /\ InFlight(p)' /\ InFlight(r)' => p = r
    BY <1>2, <1>4 DEF MirrorInv, PassesAreAlone
  <2>2. ASSUME NEW p \in Requests, At(p, "mirror_pass", "upsert")'
        PROVE  At(p, "mirror_pass", "upsert") /\ local'[p] = local[p]
    BY <1>2, <2>2 DEF At, InFlight
  <2>3. \A p \in Requests : At(p, "mirror_pass", "upsert")' =>
           Mirrored(local[p].tenants, local[p].stores, DOMAIN local[p].tenants \ local[p].todo)'
    BY <1>1, <1>4, <2>2 DEF MirrorInv, PassesAreAlone, Mirrored
  <2>4. synced' # None => Mirrored(synced.tenants, synced.stores, DOMAIN synced.tenants)'
    BY <1>1, <1>4 DEF MirrorInv, PassesAreAlone, Mirrored
  <2> QED BY <2>1, <2>3, <2>4 DEF PassesAreAlone
<1>5. /\ DOMAIN mirrorTenants' = Tenants /\ DOMAIN mirrorStores' = Stores /\ overlapped' \in BOOLEAN
      /\ \A s \in Here(mirrorStores') : mirrorStores'[s].tenant \in Here(mirrorTenants')
  BY <1>1 DEF MirrorInv
<1> QED BY <1>1, <1>3, <1>4, <1>5 DEF MirrorInv, Here

\* The two reads.
LEMMA MirrorReads ==
    ASSUME TreeInv, MirrorInv, NEW q \in Requests, ReadTenants(q) \/ ReadStores(q)
    PROVE  MirrorInv'
<1>0. SessionType /\ TablesType /\ Only(q) /\ q.op = "mirror_pass"
  BY MirrorSession DEF TreeInv, TableInv, MirrorStep, MirrorOps
<1>1. UNCHANGED <<mirrorTenants, mirrorStores, synced>> /\ InFlight(q)' /\ overlapped' \in BOOLEAN
  BY <1>0 DEF ReadTenants, ReadStores, Proceed, mirrorVars, SessionType, InFlight, MirrorInv
<1>2. PassInv(q)'
  <2>1. CASE ReadTenants(q)
    <3>1. step'[q] = "read_stores" /\ local'[q] = TenantFacts
      BY <1>0, <2>1 DEF ReadTenants, Proceed, SessionType
    <3>2. DOMAIN TenantFacts \subseteq Tenants
      BY <1>0 DEF TenantFacts, Here, TablesType
    <3>3. ASSUME NEW t \in DOMAIN TenantFacts PROVE TenantFacts[t] # None
      <4>1. t \in Here(tenants) /\ TenantFacts[t] = [name |-> tenants[t].name, status |-> tenants[t].status]
        BY <3>3 DEF TenantFacts
      <4>2. tenants[t] \in TenantRows
        BY <1>0, <4>1 DEF TablesType, Here
      <4>3. TenantFacts[t] \in [name : Names, status : TenantStatus]
        BY <4>1, <4>2 DEF TenantRows
      <4> QED BY <4>3, NoneAssumption
    <3> QED BY <3>1, <3>2, <3>3 DEF PassInv, At
  <2>2. CASE ReadStores(q)
    <3>1. /\ step[q] = "read_stores" /\ step'[q] = "upsert"
          /\ local'[q] = [tenants |-> local[q], stores |-> StoreFacts, todo |-> DOMAIN local[q]]
      BY <1>0, <2>2 DEF ReadStores, Proceed, SessionType, At
    <3>2. DOMAIN StoreFacts \subseteq Stores
      BY <1>0 DEF StoreFacts, Here, TablesType
    <3>3. DOMAIN local[q] \subseteq Tenants /\ \A t \in DOMAIN local[q] : local[q][t] # None
      BY <1>0, <3>1 DEF MirrorInv, PassInv, At
    <3> HIDE DEF StoreFacts
    <3> QED BY <3>1, <3>2, <3>3 DEF PassInv, At
  <2> QED BY <2>1, <2>2
<1>3. \A p \in Requests \ {q} : PassInv(p)'
  BY <1>0 DEF Only, MirrorInv, PassInv, At
<1>4. ASSUME ~overlapped' PROVE PassesAreAlone'
  <2>1. ~overlapped /\ \A p \in Requests \ {q} : p.op = "mirror_pass" => ~InFlight(p)
    <3>1. CASE ReadTenants(q)
      BY <1>4, <3>1 DEF ReadTenants, MirrorInv
    <3>2. CASE ReadStores(q)
      <4>1. ~overlapped /\ InFlight(q)
        BY <1>4, <3>2 DEF ReadStores, mirrorVars, At, InFlight
      <4> QED BY <1>0, <4>1 DEF MirrorInv, PassesAreAlone
    <3> QED BY <3>1, <3>2
  <2>2. \A p \in Requests \ {q} : p.op = "mirror_pass" => ~InFlight(p)'
    BY <1>0, <2>1 DEF Only, InFlight
  <2>3. ASSUME NEW p \in Requests, At(p, "mirror_pass", "upsert")'
        PROVE  Mirrored(local[p].tenants, local[p].stores, DOMAIN local[p].tenants \ local[p].todo)'
    <3>1. p = q
      BY <2>2, <2>3 DEF At, InFlight
    <3>2. ReadStores(q)
      BY <1>0, <2>3, <3>1 DEF ReadTenants, Proceed, At, SessionType
    <3>3. local'[q] = [tenants |-> local[q], stores |-> StoreFacts, todo |-> DOMAIN local[q]]
      BY <1>0, <3>2 DEF ReadStores, Proceed, SessionType
    <3>4. DOMAIN local'[q].tenants \ local'[q].todo = {}
      BY <3>3
    <3> QED BY <3>1, <3>4 DEF Mirrored
  <2>4. synced' # None => Mirrored(synced.tenants, synced.stores, DOMAIN synced.tenants)'
    BY <1>1, <2>1 DEF MirrorInv, PassesAreAlone, Mirrored
  <2> QED BY <2>2, <2>3, <2>4 DEF PassesAreAlone
<1>5. /\ DOMAIN mirrorTenants' = Tenants /\ DOMAIN mirrorStores' = Stores
      /\ \A s \in Here(mirrorStores') : mirrorStores'[s].tenant \in Here(mirrorTenants')
  BY <1>1 DEF MirrorInv
<1> QED BY <1>1, <1>2, <1>3, <1>4, <1>5 DEF MirrorInv, Here

\* One tenant and its stores.
LEMMA MirrorUpserts ==
    ASSUME TreeInv, MirrorInv, NEW q \in Requests, NEW t \in Tenants, UpsertTenant(q, t)
    PROVE  MirrorInv'
<1> DEFINE l == local[q]
<1>0. SessionType /\ Only(q) /\ q.op = "mirror_pass"
  BY MirrorSession DEF TreeInv, MirrorStep, MirrorOps
<1>1. /\ step[q] = "upsert" /\ step'[q] = "upsert" /\ t \in l.todo /\ synced' = None
      /\ local'[q] = [l EXCEPT !.todo = l.todo \ {t}] /\ UNCHANGED overlapped
  BY <1>0 DEF UpsertTenant, Proceed, SessionType, At
<1>2. /\ l = [tenants |-> l.tenants, stores |-> l.stores, todo |-> l.todo]
      /\ DOMAIN l.tenants \subseteq Tenants /\ \A u \in DOMAIN l.tenants : l.tenants[u] # None
      /\ DOMAIN l.stores \subseteq Stores /\ l.todo \subseteq DOMAIN l.tenants
  BY <1>0, <1>1 DEF MirrorInv, PassInv, At
<1>3. local'[q] = [tenants |-> l.tenants, stores |-> l.stores, todo |-> l.todo \ {t}]
  BY <1>1, <1>2
<1>4. /\ DOMAIN mirrorTenants' = Tenants /\ DOMAIN mirrorStores' = Stores
      /\ \A u \in Tenants : mirrorTenants'[u] = IF u = t THEN l.tenants[t] ELSE mirrorTenants[u]
      /\ \A s \in Stores : mirrorStores'[s] = IF s \in DOMAIN l.stores /\ l.stores[s].tenant = t
                                               THEN l.stores[s] ELSE mirrorStores[s]
  BY DEF UpsertTenant, Upserted, Differs, MirrorInv
<1>5. \A s \in Here(mirrorStores') : mirrorStores'[s].tenant \in Here(mirrorTenants')
  <2>1. SUFFICES ASSUME NEW s \in Stores, mirrorStores'[s] # None
                 PROVE  mirrorStores'[s].tenant \in Tenants /\ mirrorTenants'[mirrorStores'[s].tenant] # None
    BY <1>4 DEF Here
  <2>2. l.tenants[t] # None
    BY <1>1, <1>2
  <2>3. CASE s \in DOMAIN l.stores /\ l.stores[s].tenant = t
    BY <1>4, <2>2, <2>3
  <2>4. CASE ~(s \in DOMAIN l.stores /\ l.stores[s].tenant = t)
    <3>1. mirrorStores'[s] = mirrorStores[s]
      BY <1>4, <2>4
    <3>2. mirrorStores[s].tenant \in Tenants /\ mirrorTenants[mirrorStores[s].tenant] # None
      BY <2>1, <3>1 DEF MirrorInv, Here
    <3> QED BY <1>4, <2>2, <3>1, <3>2
  <2> QED BY <2>3, <2>4
<1>6. \A p \in Requests : PassInv(p)'
  <2>1. \A p \in Requests \ {q} : PassInv(p)'
    BY <1>0 DEF Only, MirrorInv, PassInv, At
  <2>2. PassInv(q)'
    BY <1>1, <1>2, <1>3 DEF PassInv, At
  <2> QED BY <2>1, <2>2
<1>7. ASSUME ~overlapped PROVE PassesAreAlone'
  <2>1. InFlight(q)
    BY <1>1 DEF InFlight
  <2>2. \A p \in Requests \ {q} : p.op = "mirror_pass" => ~InFlight(p) /\ ~InFlight(p)'
    BY <1>0, <1>7, <2>1 DEF MirrorInv, PassesAreAlone, Only, InFlight
  <2>3. Mirrored(l.tenants, l.stores, DOMAIN l.tenants \ l.todo)
    BY <1>0, <1>1, <1>7 DEF MirrorInv, PassesAreAlone, At
  <2>4. ASSUME NEW u \in DOMAIN l.tenants \ (l.todo \ {t})
        PROVE  /\ mirrorTenants'[u] = l.tenants[u]
               /\ \A s \in DOMAIN l.stores : l.stores[s].tenant = u => mirrorStores'[s] = l.stores[s]
    <3>1. CASE u = t
      BY <1>2, <1>4, <3>1
    <3>2. CASE u # t
      <4>1. /\ mirrorTenants[u] = l.tenants[u]
            /\ \A s \in DOMAIN l.stores : l.stores[s].tenant = u => mirrorStores[s] = l.stores[s]
        BY <2>3, <2>4, <3>2 DEF Mirrored
      <4> QED BY <1>2, <1>4, <3>2, <4>1
    <3> QED BY <3>1, <3>2
  <2>5. ASSUME NEW p \in Requests, At(p, "mirror_pass", "upsert")'
        PROVE  Mirrored(local[p].tenants, local[p].stores, DOMAIN local[p].tenants \ local[p].todo)'
    <3>1. p = q
      BY <2>2, <2>5 DEF At, InFlight
    <3>2. /\ local'[q].tenants = l.tenants /\ local'[q].stores = l.stores
          /\ local'[q].todo = l.todo \ {t}
      BY <1>3
    <3> QED BY <2>4, <3>1, <3>2 DEF Mirrored
  <2> QED BY <1>1, <2>2, <2>5 DEF PassesAreAlone
<1>8. overlapped' \in BOOLEAN
  BY <1>1 DEF MirrorInv
<1> QED BY <1>1, <1>4, <1>5, <1>6, <1>7, <1>8 DEF MirrorInv, Here

\* The end of a pass.
LEMMA MirrorFinishes ==
    ASSUME TreeInv, MirrorInv, NEW q \in Requests, FinishPass(q)
    PROVE  MirrorInv'
<1> DEFINE l == local[q]
<1>0. SessionType /\ Only(q) /\ q.op = "mirror_pass"
  BY MirrorSession DEF TreeInv, MirrorStep, MirrorOps
<1>1. /\ step[q] = "upsert" /\ step'[q] = "answered" /\ l.todo = {}
      /\ synced' = [tenants |-> l.tenants, stores |-> l.stores]
      /\ UNCHANGED <<mirrorTenants, mirrorStores, overlapped>>
  BY <1>0 DEF FinishPass, Answer, Done, SessionType, At
<1>2. \A p \in Requests : PassInv(p)'
  <2>1. \A p \in Requests \ {q} : PassInv(p)'
    BY <1>0 DEF Only, MirrorInv, PassInv, At
  <2>2. PassInv(q)'
    BY <1>1 DEF PassInv, At
  <2> QED BY <2>1, <2>2
<1>3. ASSUME ~overlapped PROVE PassesAreAlone'
  <2>1. InFlight(q)
    BY <1>1 DEF InFlight
  <2>2. \A p \in Requests : p.op = "mirror_pass" => ~InFlight(p)'
    BY <1>0, <1>1, <1>3, <2>1 DEF MirrorInv, PassesAreAlone, Only, InFlight
  <2>3. Mirrored(l.tenants, l.stores, DOMAIN l.tenants)
    BY <1>0, <1>1, <1>3 DEF MirrorInv, PassesAreAlone, At, Mirrored
  <2>4. Mirrored(synced.tenants, synced.stores, DOMAIN synced.tenants)'
    <3>1. synced'.tenants = l.tenants /\ synced'.stores = l.stores
      BY <1>1
    <3> QED BY <1>1, <2>3, <3>1 DEF Mirrored
  <2>5. \A p \in Requests : ~At(p, "mirror_pass", "upsert")'
    BY <2>2 DEF At, InFlight
  <2> QED BY <2>2, <2>4, <2>5 DEF PassesAreAlone
<1>4. /\ DOMAIN mirrorTenants' = Tenants /\ DOMAIN mirrorStores' = Stores /\ overlapped' \in BOOLEAN
      /\ \A s \in Here(mirrorStores') : mirrorStores'[s].tenant \in Here(mirrorTenants')
  BY <1>1 DEF MirrorInv
<1> QED BY <1>1, <1>2, <1>3, <1>4 DEF MirrorInv, Here

LEMMA MirrorKept == TreeInv /\ MirrorInv /\ [Next]_vars => MirrorInv'
<1> SUFFICES ASSUME TreeInv, MirrorInv, [Next]_vars PROVE MirrorInv'
  OBVIOUS
<1>0. SessionType
  BY DEF TreeInv
<1>1. CASE Next
  <2>1. PICK q \in Requests :
          \/ Authorize(q) /\ UNCHANGED mirrorVars
          \/ OrgTreeStep(q) /\ UNCHANGED <<userVars, tenantVars, mirrorVars, roleVars>>
          \/ UserStep(q) /\ UNCHANGED <<tenantVars, mirrorVars, roleVars>>
          \/ TenantStep(q) /\ UNCHANGED <<mirrorVars, roleVars>>
          \/ MirrorStep(q) /\ UNCHANGED roleVars
          \/ RoleStep(q) /\ UNCHANGED <<treeVars, userVars, tenantVars, mirrorVars>>
          \/ RollbackTenant(q) /\ UNCHANGED <<mirrorVars, roleVars>>
    BY <1>1 DEF Next
  <2>2. CASE MirrorStep(q)
    BY <2>2, MirrorReads, MirrorUpserts, MirrorFinishes DEF MirrorStep
  <2>3. CASE ~MirrorStep(q)
    <3>1. UNCHANGED mirrorVars
      BY <2>1, <2>3
    <3>2. Only(q) /\ (q.op # "mirror_pass" \/ step'[q] \in {"received", "answered"})
      BY <1>0, <2>1, <2>3, GateSession, TreeSession, UserSession, TenantSession, RoleSession, FailureSession
         DEF TreeOps, UserOps, TenantOps, RoleOps
    <3> QED BY <3>1, <3>2, MirrorUnchanged
  <2> QED BY <2>2, <2>3
<1>2. CASE UNCHANGED vars
  <2>1. UNCHANGED <<step, local, mirrorTenants, mirrorStores, synced, overlapped>>
    BY <1>2 DEF vars, mirrorVars, sessionVars
  <2> QED BY <2>1 DEF MirrorInv, PassInv, PassesAreAlone, InFlight, At, Mirrored, Here
<1> QED BY <1>1, <1>2

LEMMA MirrorStarts == Init => MirrorInv
<1> SUFFICES ASSUME Init PROVE MirrorInv
  OBVIOUS
<1>1. \A q \in Requests : step[q] \in {"answered", "received", "arrived"}
  BY DEF Init, SessionInit
<1>2. /\ mirrorTenants = [t \in Tenants |-> None] /\ mirrorStores = [s \in Stores |-> None]
      /\ synced = None /\ overlapped = FALSE
  BY DEF Init, MirrorInit
<1> QED BY <1>1, <1>2 DEF MirrorInv, PassInv, PassesAreAlone, InFlight, At, Here

\* The identity mirror is fit to be referenced at every moment, and equals Customer Master
\* once a pass has finished on what still stands, through passes that stop anywhere and any
\* changes meanwhile, unless passes overlapped.
THEOREM MirrorStaysFaithful == Spec => []MirrorIsFaithful
<1>1. ASSUME TreeInv, MirrorInv PROVE MirrorIsFaithful
  <2>1. \A s \in Here(mirrorStores) : mirrorTenants[mirrorStores[s].tenant] # None
    BY <1>1 DEF MirrorInv, Here
  <2>2. ASSUME synced # None, synced = [tenants |-> TenantFacts, stores |-> StoreFacts], ~overlapped
        PROVE  /\ \A t \in Here(tenants) : mirrorTenants[t] = TenantFacts[t]
               /\ \A s \in Here(stores) : mirrorStores[s] = StoreFacts[s]
    <3>1. Mirrored(TenantFacts, StoreFacts, DOMAIN TenantFacts)
      <4>1. synced.tenants = TenantFacts /\ synced.stores = StoreFacts
        BY <2>2
      <4> QED BY <1>1, <2>2, <4>1 DEF MirrorInv, PassesAreAlone
    <3>2. DOMAIN TenantFacts = Here(tenants) /\ DOMAIN StoreFacts = Here(stores)
      BY DEF TenantFacts, StoreFacts
    <3>3. ASSUME NEW s \in Here(stores) PROVE StoreFacts[s].tenant \in Here(tenants)
      <4>1. StoreFacts[s].tenant = nodes[stores[s].node].tenant
        BY <3>3 DEF StoreFacts
      <4> QED BY <1>1, <3>3, <4>1 DEF TreeInv, TableInv, KeysInv
    <3> QED BY <3>1, <3>2, <3>3 DEF Mirrored
  <2> QED BY <2>1, <2>2 DEF MirrorIsFaithful
<1> QED BY <1>1, TreeStarts, TreeKept, MirrorStarts, MirrorKept, PTL DEF Spec

-----------------------------------------------------------------------------
(* Paths: an ltree path at or below another, and what a re-path makes of it. *)

LEMMA DescIsTyped ==
    ASSUME NEW a \in Seq(Codes)
    PROVE  _is_descendant(a, a)
BY DEF _is_descendant

LEMMA DescIsTransitive ==
    ASSUME NEW a \in Seq(Codes), NEW b \in Seq(Codes), NEW c \in Seq(Codes),
           _is_descendant(a, b), _is_descendant(b, c)
    PROVE  _is_descendant(a, c)
<1>1. /\ Len(b) \in Nat /\ Len(a) \in Nat /\ Len(c) \in Nat /\ Len(c) <= Len(b) /\ Len(b) <= Len(a)
      /\ SubSeq(a, 1, Len(b)) = b /\ SubSeq(b, 1, Len(c)) = c
  BY DEF _is_descendant
<1>2. \A i \in 1..Len(b) : b[i] = a[i]
  BY <1>1
<1>3. \A i \in 1..Len(c) : c[i] = b[i]
  BY <1>1
<1>4. \A i \in 1..Len(c) : SubSeq(a, 1, Len(c))[i] = c[i]
  BY <1>1, <1>2, <1>3
<1>5. SubSeq(a, 1, Len(c)) \in Seq(Codes) /\ Len(SubSeq(a, 1, Len(c))) = Len(c)
  BY <1>1
<1>6. SubSeq(a, 1, Len(c)) = c
  BY <1>1, <1>4, <1>5, SeqEqual
<1> QED BY <1>1, <1>6 DEF _is_descendant

\* A prefix, position by position.
LEMMA DescIsPrefix ==
    ASSUME NEW p \in Seq(Codes), NEW a \in Seq(Codes)
    PROVE  _is_descendant(p, a) <=> Len(a) <= Len(p) /\ \A i \in 1..Len(a) : p[i] = a[i]
<1>1. Len(a) \in Nat /\ Len(p) \in Nat
  OBVIOUS
<1>2. ASSUME Len(a) <= Len(p)
      PROVE  SubSeq(p, 1, Len(a)) = a <=> \A i \in 1..Len(a) : p[i] = a[i]
  <2>1. /\ SubSeq(p, 1, Len(a)) \in Seq(Codes) /\ Len(SubSeq(p, 1, Len(a))) = Len(a)
        /\ \A i \in 1..Len(a) : SubSeq(p, 1, Len(a))[i] = p[i]
    BY <1>1, <1>2
  <2> QED BY <2>1, SeqEqual
<1> QED BY <1>2 DEF _is_descendant

LEMMA DescOfAppend ==
    ASSUME NEW p \in Seq(Codes), NEW c \in Codes, NEW a \in Seq(Codes)
    PROVE  _is_descendant(Append(p, c), a) <=> Append(p, c) = a \/ _is_descendant(p, a)
<1>1. /\ Append(p, c) \in Seq(Codes) /\ Len(Append(p, c)) = Len(p) + 1 /\ Len(p) \in Nat /\ Len(a) \in Nat
      /\ \A i \in 1..Len(p) : Append(p, c)[i] = p[i]
  OBVIOUS
<1>2. ASSUME _is_descendant(p, a) PROVE _is_descendant(Append(p, c), a)
  <2>1. Len(a) <= Len(p) /\ \A i \in 1..Len(a) : p[i] = a[i]
    BY <1>2, DescIsPrefix
  <2>2. Len(a) <= Len(Append(p, c)) /\ \A i \in 1..Len(a) : Append(p, c)[i] = a[i]
    BY <1>1, <2>1
  <2> QED BY <1>1, <2>2, DescIsPrefix
<1>3. ASSUME _is_descendant(Append(p, c), a), Append(p, c) # a PROVE _is_descendant(p, a)
  <2>1. Len(a) <= Len(p) + 1 /\ \A i \in 1..Len(a) : Append(p, c)[i] = a[i]
    BY <1>1, <1>3, DescIsPrefix
  <2>2. Len(a) # Len(p) + 1
    BY <1>1, <1>3, <2>1, SeqEqual
  <2> QED BY <1>1, <2>1, <2>2, DescIsPrefix
<1> QED BY <1>1, <1>2, <1>3, DescIsTyped

\* The path p, with its prefix a replaced by b.
Rebased(b, a, p) == b \o SubSeq(p, Len(a) + 1, Len(p))

LEMMA RebasedAt ==
    ASSUME NEW a \in Seq(Codes), NEW b \in Seq(Codes), NEW p \in Seq(Codes), Len(a) <= Len(p)
    PROVE  /\ Rebased(b, a, p) \in Seq(Codes) /\ Len(Rebased(b, a, p)) = Len(b) + Len(p) - Len(a)
           /\ \A i \in 1..Len(b) : Rebased(b, a, p)[i] = b[i]
           /\ \A i \in Len(a) + 1..Len(p) : Rebased(b, a, p)[Len(b) + i - Len(a)] = p[i]
<1> DEFINE rest == SubSeq(p, Len(a) + 1, Len(p))
<1>0. Len(a) \in Nat /\ Len(b) \in Nat /\ Len(p) \in Nat
  OBVIOUS
<1>1. /\ rest \in Seq(Codes) /\ Len(rest) = Len(p) - Len(a)
      /\ \A j \in 1..Len(p) - Len(a) : rest[j] = p[Len(a) + j]
  BY <1>0
<1> HIDE DEF rest
<1>2. /\ b \o rest \in Seq(Codes) /\ Len(b \o rest) = Len(b) + Len(p) - Len(a)
      /\ \A i \in 1..Len(b) : (b \o rest)[i] = b[i]
      /\ \A j \in 1..Len(p) - Len(a) : (b \o rest)[Len(b) + j] = rest[j]
  <2>1. /\ b \o rest \in Seq(Codes) /\ Len(b \o rest) = Len(b) + Len(rest)
        /\ \A i \in 1..Len(b) + Len(rest) : (b \o rest)[i] = IF i <= Len(b) THEN b[i] ELSE rest[i - Len(b)]
    BY <1>1, ConcatProperties
  <2>2. \A i \in 1..Len(b) : (b \o rest)[i] = b[i]
    BY <1>0, <1>1, <2>1
  <2>3. ASSUME NEW j \in 1..Len(p) - Len(a) PROVE (b \o rest)[Len(b) + j] = rest[j]
    <3>1. Len(b) + j \in 1..Len(b) + Len(rest) /\ ~(Len(b) + j <= Len(b)) /\ (Len(b) + j) - Len(b) = j
      BY <1>0, <1>1
    <3> QED BY <2>1, <3>1
  <2> QED BY <1>0, <1>1, <2>1, <2>2, <2>3
<1>3. ASSUME NEW i \in Len(a) + 1..Len(p) PROVE (b \o rest)[Len(b) + i - Len(a)] = p[i]
  <2>1. i - Len(a) \in 1..Len(p) - Len(a) /\ Len(b) + (i - Len(a)) = Len(b) + i - Len(a) /\ Len(a) + (i - Len(a)) = i
    BY <1>0
  <2> QED BY <1>1, <1>2, <2>1
<1> QED BY <1>2, <1>3 DEF Rebased, rest

LEMMA RebasedSelf ==
    ASSUME NEW a \in Seq(Codes), NEW b \in Seq(Codes)
    PROVE  Rebased(b, a, a) = b
<1> DEFINE x == Rebased(b, a, a)
<1>0. Len(a) \in Nat /\ Len(b) \in Nat /\ Len(a) <= Len(a)
  OBVIOUS
<1>1. /\ x \in Seq(Codes) /\ Len(x) = Len(b) + Len(a) - Len(a)
      /\ \A i \in 1..Len(b) : x[i] = b[i]
  BY <1>0, RebasedAt
<1> HIDE DEF x
<1>2. Len(x) = Len(b)
  BY <1>0, <1>1
<1>3. x = b
  BY <1>1, <1>2, SeqEqual
<1> QED BY <1>3 DEF x

LEMMA RebasedAppend ==
    ASSUME NEW a \in Seq(Codes), NEW b \in Seq(Codes), NEW p \in Seq(Codes), NEW c \in Codes,
           Len(a) <= Len(p)
    PROVE  Rebased(b, a, Append(p, c)) = Append(Rebased(b, a, p), c)
<1> DEFINE x == Rebased(b, a, Append(p, c))
           y == Rebased(b, a, p)
<1>0. /\ Len(a) \in Nat /\ Len(b) \in Nat /\ Len(p) \in Nat /\ Append(p, c) \in Seq(Codes)
      /\ Len(Append(p, c)) = Len(p) + 1 /\ Append(p, c)[Len(p) + 1] = c
      /\ \A i \in 1..Len(p) : Append(p, c)[i] = p[i]
  OBVIOUS
<1>1. /\ x \in Seq(Codes) /\ Len(x) = Len(b) + (Len(p) + 1) - Len(a)
      /\ \A i \in 1..Len(b) : x[i] = b[i]
      /\ \A i \in Len(a) + 1..Len(p) + 1 : x[Len(b) + i - Len(a)] = Append(p, c)[i]
  <2> DEFINE pc == Append(p, c)
  <2>1. pc \in Seq(Codes) /\ Len(a) <= Len(pc) /\ Len(pc) = Len(p) + 1 /\ x = Rebased(b, a, pc)
    BY <1>0
  <2> HIDE DEF pc, x
  <2>2. /\ Rebased(b, a, pc) \in Seq(Codes) /\ Len(Rebased(b, a, pc)) = Len(b) + Len(pc) - Len(a)
        /\ \A i \in 1..Len(b) : Rebased(b, a, pc)[i] = b[i]
        /\ \A i \in Len(a) + 1..Len(pc) : Rebased(b, a, pc)[Len(b) + i - Len(a)] = pc[i]
    <3>1. pc \in Seq(Codes) /\ Len(a) <= Len(pc)
      BY <2>1
    <3> QED BY <3>1, RebasedAt
  <2> QED BY <2>1, <2>2 DEF pc
<1>2. /\ y \in Seq(Codes) /\ Len(y) = Len(b) + Len(p) - Len(a)
      /\ \A i \in 1..Len(b) : y[i] = b[i]
      /\ \A i \in Len(a) + 1..Len(p) : y[Len(b) + i - Len(a)] = p[i]
  BY RebasedAt
<1> HIDE DEF x, y
<1>3. /\ Append(y, c) \in Seq(Codes) /\ Len(Append(y, c)) = Len(y) + 1 /\ Append(y, c)[Len(y) + 1] = c
      /\ \A i \in 1..Len(y) : Append(y, c)[i] = y[i]
  BY <1>2
<1>4. ASSUME NEW i \in 1..Len(x) PROVE x[i] = Append(y, c)[i]
  <2>1. CASE i <= Len(b)
    BY <1>0, <1>1, <1>2, <1>3, <2>1
  <2>2. CASE i > Len(b) /\ i <= Len(y)
    <3>1. /\ i - Len(b) + Len(a) \in Len(a) + 1..Len(p) /\ Len(b) + (i - Len(b) + Len(a)) - Len(a) = i
          /\ i - Len(b) + Len(a) \in Len(a) + 1..Len(p) + 1 /\ i - Len(b) + Len(a) \in 1..Len(p)
      <4>1. Len(a) \in Nat /\ Len(b) \in Nat /\ Len(p) \in Nat /\ Len(y) = Len(b) + Len(p) - Len(a)
            /\ i \in Int /\ i > Len(b) /\ i <= Len(y)
        BY <1>0, <1>1, <1>2, <2>2
      <4>2. i - Len(b) + Len(a) >= Len(a) + 1 /\ i - Len(b) + Len(a) <= Len(p)
        BY <4>1
      <4>3. QED BY <4>1, <4>2
    <3>2. x[i] = Append(p, c)[i - Len(b) + Len(a)] /\ y[i] = p[i - Len(b) + Len(a)]
      BY <1>1, <1>2, <3>1
    <3> QED BY <1>0, <1>2, <1>3, <2>2, <3>1, <3>2
  <2>3. CASE i = Len(y) + 1
    <3>1. Len(p) + 1 \in Len(a) + 1..Len(p) + 1 /\ Len(b) + (Len(p) + 1) - Len(a) = i
      BY <1>0, <1>2, <2>3
    <3> QED BY <1>0, <1>1, <1>3, <2>3, <3>1
  <2>4. Len(x) = Len(y) + 1 /\ Len(y) \in Nat /\ i \in Nat
    BY <1>0, <1>1, <1>2
  <2>5. i <= Len(b) \/ (i > Len(b) /\ i <= Len(y)) \/ i = Len(y) + 1
    BY <1>0, <2>4
  <2> QED BY <2>1, <2>2, <2>3, <2>5
<1>5. Len(x) = Len(Append(y, c))
  BY <1>0, <1>1, <1>2, <1>3
<1>6. x = Append(y, c)
  BY <1>1, <1>3, <1>4, <1>5, SeqEqual
<1> QED BY <1>6 DEF x, y

\* What is above a re-pathed path is above the new parent, or is at or below its new place.
LEMMA AboveRebased ==
    ASSUME NEW a \in Seq(Codes), NEW f \in Seq(Codes), NEW c \in Codes, NEW p \in Seq(Codes),
           NEW o \in Seq(Codes), Len(a) <= Len(p), _is_descendant(Rebased(Append(f, c), a, p), o)
    PROVE  _is_descendant(f, o) \/ _is_descendant(o, Append(f, c))
<1> DEFINE b == Append(f, c)
           x == Rebased(b, a, p)
<1>1. /\ b \in Seq(Codes) /\ Len(b) = Len(f) + 1 /\ Len(f) \in Nat /\ Len(o) \in Nat
      /\ \A i \in 1..Len(f) : b[i] = f[i]
  OBVIOUS
<1> HIDE DEF b
<1>2. x \in Seq(Codes) /\ Len(x) >= Len(b) /\ \A i \in 1..Len(b) : x[i] = b[i]
  <2>1. /\ x \in Seq(Codes) /\ Len(x) = Len(b) + Len(p) - Len(a)
        /\ \A i \in 1..Len(b) : x[i] = b[i]
    <3>1. b \in Seq(Codes)
      BY <1>1
    <3> QED BY <3>1, RebasedAt
  <2>2. Len(p) \in Nat /\ Len(a) \in Nat /\ Len(b) \in Nat
    BY <1>1
  <2> QED BY <2>1, <2>2
<1> HIDE DEF x
<1>3. Len(o) <= Len(x) /\ \A i \in 1..Len(o) : x[i] = o[i]
  BY <1>2, DescIsPrefix DEF b, x
<1>4. CASE Len(o) <= Len(f)
  BY <1>1, <1>2, <1>3, <1>4, DescIsPrefix
<1>5. CASE Len(o) > Len(f)
  <2>1. Len(b) <= Len(o) /\ \A i \in 1..Len(b) : i \in 1..Len(o)
    BY <1>1, <1>5
  <2>2. \A i \in 1..Len(b) : o[i] = b[i]
    BY <1>2, <1>3, <2>1
  <2>3. _is_descendant(o, b)
    BY <1>1, <2>1, <2>2, DescIsPrefix
  <2> QED BY <2>3 DEF b
<1> QED BY <1>1, <1>4, <1>5

-----------------------------------------------------------------------------
(* The invariant of the paths. *)

\* q's transaction has locked the row of node n.
Holds(q, n) == Lock(<<"node", n>>, "update") \in locks[q]

ExclusiveInv == \A p, q \in Requests : \A n \in Nodes : Holds(p, n) /\ Holds(q, n) => p = q

\* uq_org_nodes_tenant_code_lower.
CodesInv ==
    \A m, n \in Here(nodes) :
        nodes[m].tenant = nodes[n].tenant /\ nodes[m].code = nodes[n].code => m = n

CoherentInv ==
    \A n \in Here(nodes) :
        nodes[n].path = IF nodes[n].type = TENANT THEN <<nodes[n].code>>
                        ELSE Append(nodes[nodes[n].parent].path, nodes[n].code)

EditOps == {"edit_node", "update_store"}

\* What a request has read of the paths is what stands, for as long as it holds the locks.
PathsRead(q) ==
    /\ q.op \in {"add_node", "create_store"} /\ step[q] = "insert_node" =>
          Holds(q, ParentOf(q)) /\ local[q] = nodes[ParentOf(q)].path
    /\ q.op \in EditOps =>
          /\ step[q] \in {"place", "repath", "save"} =>
                Holds(q, Target(q)) /\ local[q].old = nodes[Target(q)].path
          /\ step[q] \in {"repath", "save"} =>
                /\ q.parent # None => /\ Holds(q, q.parent) /\ q.parent # Target(q)
                                      /\ ~_is_descendant(nodes[q.parent].path, local[q].old)
                /\ local[q].new = NewPath(q, local[q].old)
          /\ step[q] = "save" => local[q].rows = Subtree(q) /\ \A n \in local[q].rows : Holds(q, n)

PathInv ==
    /\ ExclusiveInv /\ CodesInv
    /\ ~raced => CoherentInv /\ \A q \in Requests : PathsRead(q)

\* A tenant keeps its root.
LEMMA RootStays ==
    ASSUME TableInv, RowsStay, TableInv', NEW t, NodesOf(t) # {}
    PROVE  Root(t)' = Root(t) /\ Root(t) \in Here(nodes)
<1>1. Root(t) \in NodesOf(t) /\ nodes[Root(t)].type = TENANT
  BY RootIsThere DEF TableInv
<1>2. Root(t) \in NodesOf(t)' /\ nodes'[Root(t)].type = TENANT
  BY <1>1 DEF RowsStay, NodesOf, Here
<1>3. \A r \in NodesOf(t)' : nodes'[r].type = TENANT => r = Root(t)
  <2>1. \A m, n \in Here(nodes)' :
          nodes'[m].type = TENANT /\ nodes'[n].type = TENANT /\ nodes'[m].tenant = nodes'[n].tenant => m = n
    BY DEF TableInv, RootInv
  <2> QED BY <1>2, <2>1 DEF NodesOf
<1>4. (CHOOSE n \in NodesOf(t)' : nodes'[n].type = TENANT) = Root(t)
  BY <1>2, <1>3
<1> QED BY <1>1, <1>4 DEF Root, NodesOf

\* The locals of a request stand if the rows it has locked keep their paths, and its
\* subtree has the same rows.
LEMMA PathsStayRead ==
    ASSUME TreeInv, TableInv', RowsStay, NEW p \in Requests, PathsRead(p),
           step'[p] = step[p], local'[p] = local[p], locks'[p] = locks[p],
           \A n \in Here(nodes) : Holds(p, n) => nodes'[n].path = nodes[n].path,
           p.op \in EditOps /\ step[p] = "save" => Subtree(p)' = Subtree(p)
    PROVE  PathsRead(p)'
<1>0. TableInv /\ LocalInv(p)
  BY DEF TreeInv
<1>1. \A n : Holds(p, n)' <=> Holds(p, n)
  BY DEF Holds
<1>2. ASSUME p.op \in {"add_node", "create_store"}, step[p] = "insert_node"
      PROVE  Holds(p, ParentOf(p))' /\ local'[p] = nodes'[ParentOf(p)'].path
  <2>1. ParentOf(p)' = ParentOf(p) /\ ParentOf(p) \in Here(nodes)
    <3>1. NodesOf(p.tenant) # {} /\ (p.parent # None => p.parent \in Here(nodes))
      BY <1>0, <1>2 DEF LocalInv, AddingInv, Above
    <3> QED BY <1>0, <3>1, RootStays DEF ParentOf
  <2> QED BY <1>1, <1>2, <2>1 DEF PathsRead, Holds
<1>3. ASSUME p.op \in EditOps, step[p] \in {"place", "repath", "save"}
      PROVE  /\ Target(p)' = Target(p) /\ Target(p) \in Here(nodes)
             /\ Holds(p, Target(p)) /\ local'[p].old = nodes'[Target(p)].path
  <2>1. Target(p)' = Target(p) /\ Target(p) \in Here(nodes)
    BY <1>0, <1>3 DEF LocalInv, TargetInv, EditOps, Target, RowsStay, TableInv, KeysInv, NodesOf
  <2> QED BY <1>3, <2>1 DEF PathsRead
<1>4. ASSUME p.op \in EditOps, step[p] \in {"repath", "save"}
      PROVE  /\ p.parent # None => /\ Holds(p, p.parent) /\ p.parent # Target(p)
                                   /\ ~_is_descendant(nodes'[p.parent].path, local'[p].old)
             /\ local'[p].new = NewPath(p, local[p].old)'
  <2>1. p.parent # None => p.parent \in Here(nodes) /\ nodes'[p.parent].path = nodes[p.parent].path
    BY <1>0, <1>4 DEF LocalInv, PlacedInv, EditOps, Above, PathsRead
  <2>2. /\ p.parent # None => /\ Holds(p, p.parent) /\ p.parent # Target(p)
                               /\ ~_is_descendant(nodes[p.parent].path, local[p].old)
        /\ local[p].new = NewPath(p, local[p].old)
    BY <1>4 DEF PathsRead
  <2>3. NewPath(p, local[p].old)' = NewPath(p, local[p].old)
    BY <2>1 DEF NewPath
  <2> QED BY <2>1, <2>2, <2>3
<1>5. ASSUME p.op \in EditOps, step[p] = "save"
      PROVE  local'[p].rows = Subtree(p)' /\ \A n \in local'[p].rows : Holds(p, n)
  BY <1>5 DEF PathsRead
<1> QED BY <1>1, <1>2, <1>3, <1>4, <1>5 DEF PathsRead, Holds

\* Steps that write no path.
SamePaths ==
    /\ Here(nodes') = Here(nodes)
    /\ \A n \in Here(nodes) : /\ nodes'[n].path = nodes[n].path /\ nodes'[n].code = nodes[n].code
                              /\ nodes'[n].parent = nodes[n].parent

LEMMA PathsUntouched ==
    ASSUME TreeInv, TableInv', RowsStay, PathInv, NEW q \in Requests, Only(q), SamePaths,
           raced => raced',
           \A n \in Nodes : Holds(q, n)' => Holds(q, n) \/ Free(q, <<"node", n>>, "update"),
           ~raced' => PathsRead(q)'
    PROVE  PathInv'
<1>0. TableInv /\ raced \in BOOLEAN /\ raced' \in BOOLEAN
  BY DEF TreeInv, TableInv, TablesType
<1>1. ExclusiveInv'
  <2>1. ASSUME NEW p \in Requests, p # q, NEW n \in Nodes, Holds(p, n)', Holds(q, n)' PROVE FALSE
    <3>1. Holds(p, n)
      BY <2>1 DEF Only, Holds
    <3>2. ~Holds(q, n)
      BY <2>1, <3>1 DEF PathInv, ExclusiveInv
    <3>3. Free(q, <<"node", n>>, "update")
      BY <2>1, <3>2
    <3> QED BY <2>1, <3>1, <3>3 DEF Free, Holds, Lock, Compatible
  <2>2. ASSUME NEW p \in Requests, NEW r \in Requests, p # q, r # q, NEW n \in Nodes,
               Holds(p, n)', Holds(r, n)'
        PROVE  p = r
    BY <2>2 DEF Only, Holds, PathInv, ExclusiveInv
  <2>3. ASSUME NEW p \in Requests, NEW r \in Requests, NEW n \in Nodes, Holds(p, n)', Holds(r, n)'
        PROVE  p = r
    BY <2>1, <2>2, <2>3
  <2> QED BY <2>3 DEF ExclusiveInv
<1>2. CodesInv'
  <2>1. Here(nodes)' = Here(nodes)
    BY DEF SamePaths, Here
  <2> QED BY <2>1 DEF SamePaths, RowsStay, PathInv, CodesInv
<1>3. ASSUME ~raced' PROVE CoherentInv' /\ \A p \in Requests : PathsRead(p)'
  <2>0. CoherentInv /\ \A p \in Requests : PathsRead(p)
    BY <1>0, <1>3 DEF PathInv
  <2>1. CoherentInv'
    <3>1. Here(nodes)' = Here(nodes)
      BY DEF SamePaths, Here
    <3>2. ASSUME NEW n \in Here(nodes)
          PROVE  nodes'[n].path = IF nodes'[n].type = TENANT THEN <<nodes'[n].code>>
                                  ELSE Append(nodes'[nodes'[n].parent].path, nodes'[n].code)
      <4>1. nodes[n].type # TENANT => nodes[n].parent \in Here(nodes)
        BY <1>0 DEF TableInv, ParentInv, Above
      <4> QED BY <2>0, <4>1 DEF CoherentInv, SamePaths, RowsStay
    <3> QED BY <3>1, <3>2 DEF CoherentInv
  <2>2. ASSUME NEW p \in Requests, p # q PROVE PathsRead(p)'
    <3>1. p.op \in EditOps /\ step[p] = "save" => Subtree(p)' = Subtree(p)
      <4>0. Here(nodes)' = Here(nodes) /\ local'[p] = local[p]
        BY <2>2 DEF SamePaths, Here, Only
      <4>1. ASSUME p.op \in EditOps, step[p] = "save" PROVE Target(p)' = Target(p) /\ Target(p) \in Here(nodes)
        BY <1>0, <4>1 DEF TreeInv, LocalInv, TargetInv, EditOps, Target, RowsStay, TableInv, KeysInv, NodesOf
      <4> QED BY <4>0, <4>1 DEF Subtree, NodesOf, SamePaths, RowsStay
    <3> QED BY <2>0, <2>2, <3>1, PathsStayRead DEF SamePaths, Only
  <2> QED BY <1>3, <2>1, <2>2
<1> QED BY <1>1, <1>2, <1>3 DEF PathInv

LEMMA AppendEnds ==
    ASSUME NEW p \in Seq(Codes), NEW c \in Codes
    PROVE  /\ Append(p, c) \in Seq(Codes) /\ Len(Append(p, c)) \in Nat /\ Len(Append(p, c)) >= 1
           /\ Len(Append(p, c)) = Len(p) + 1 /\ Append(p, c)[Len(Append(p, c))] = c
<1>1. Append(p, c) \in Seq(Codes) /\ Len(Append(p, c)) = Len(p) + 1 /\ Append(p, c)[Len(p) + 1] = c /\ Len(p) \in Nat
  OBVIOUS
<1> QED BY <1>1

\* A path ends in the code of its node.
LEMMA CodeEndsPath ==
    ASSUME TableInv, CoherentInv, NEW n \in Here(nodes)
    PROVE  /\ nodes[n].path \in Seq(Codes) /\ nodes[n].code \in Codes
           /\ Len(nodes[n].path) \in Nat /\ Len(nodes[n].path) >= 1
           /\ nodes[n].path[Len(nodes[n].path)] = nodes[n].code
<1>1. nodes[n] \in NodeRows /\ nodes[n].code \in Codes /\ nodes[n].path \in Seq(Codes)
  BY DEF TableInv, TablesType, NodeRows, Paths, Here
<1>2. CASE nodes[n].type = TENANT
  <2>1. nodes[n].path = <<nodes[n].code>>
    BY <1>2 DEF CoherentInv
  <2> QED BY <1>1, <2>1
<1>3. CASE nodes[n].type # TENANT
  <2>1. nodes[n].parent \in Here(nodes) /\ nodes[n].path = Append(nodes[nodes[n].parent].path, nodes[n].code)
    BY <1>3 DEF CoherentInv, TableInv, ParentInv, Above
  <2>2. nodes[nodes[n].parent].path \in Seq(Codes)
    BY <2>1 DEF TableInv, TablesType, NodeRows, Paths, Here
  <2> DEFINE u == nodes[nodes[n].parent].path
             c == nodes[n].code
  <2>3. u \in Seq(Codes) /\ c \in Codes /\ nodes[n].path = Append(u, c)
    BY <1>1, <2>1, <2>2
  <2> HIDE DEF u, c
  <2>4. Len(Append(u, c)) \in Nat /\ Len(Append(u, c)) >= 1 /\ Append(u, c)[Len(Append(u, c))] = c
    BY <2>3, AppendEnds
  <2>5. c = nodes[n].code
    BY DEF c
  <2> QED BY <1>1, <2>3, <2>4, <2>5
<1> QED BY <1>2, <1>3

\* So a tenant has no two nodes with one path.
LEMMA PathsAreUnique ==
    ASSUME TableInv, CoherentInv, CodesInv, NEW m \in Here(nodes), NEW n \in Here(nodes),
           nodes[m].tenant = nodes[n].tenant, nodes[m].path = nodes[n].path
    PROVE  m = n
BY CodeEndsPath DEF CodesInv

\* Every label of a path is the code of a node at that place.
LEMMA AncestorsAreThere ==
    ASSUME TableInv, CoherentInv, NEW n \in Here(nodes), NEW x \in Paths,
           _is_descendant(nodes[n].path, x)
    PROVE  \E m \in Here(nodes) : nodes[m].tenant = nodes[n].tenant /\ nodes[m].path = x
<1> DEFINE Below == {m \in Here(nodes) : nodes[m].tenant = nodes[n].tenant /\ _is_descendant(nodes[m].path, x)}
           Lens == {k \in Nat : \E m \in Below : Len(nodes[m].path) = k}
<1>0. x \in Seq(Codes) /\ Len(x) \in Nat /\ Len(x) >= 1
  BY DEF Paths
<1>1. n \in Below /\ Len(nodes[n].path) \in Lens
  BY CodeEndsPath
<1>2. PICK k \in Lens : \A j \in Lens : ~(j < k)
  BY <1>1, LeastId
<1>3. PICK m \in Below : Len(nodes[m].path) = k
  BY <1>2
<1>4. nodes[m].path = x
  <2>1. SUFFICES ASSUME nodes[m].path # x PROVE FALSE
    OBVIOUS
  <2>2. m \in Here(nodes) /\ nodes[m].tenant = nodes[n].tenant /\ _is_descendant(nodes[m].path, x)
    BY <1>3
  <2>3. nodes[m].path \in Seq(Codes) /\ nodes[m].code \in Codes
    BY <2>2, CodeEndsPath
  <2>4. CASE nodes[m].type = TENANT
    <3>1. nodes[m].path = <<nodes[m].code>>
      BY <2>2, <2>4 DEF CoherentInv
    <3>2. Len(nodes[m].path) = 1
      BY <3>1
    <3>3. Len(x) = 1 /\ \A i \in 1..Len(x) : nodes[m].path[i] = x[i]
      BY <1>0, <2>2, <2>3, <3>2, DescIsPrefix
    <3>4. nodes[m].path = x
      BY <1>0, <2>3, <3>2, <3>3, SeqEqual
    <3> QED BY <2>1, <3>4
  <2>5. CASE nodes[m].type # TENANT
    <3> DEFINE u == nodes[m].parent
    <3>1. /\ u \in Here(nodes) /\ nodes[u].tenant = nodes[m].tenant
          /\ nodes[m].path = Append(nodes[u].path, nodes[m].code)
      BY <2>2, <2>5 DEF CoherentInv, TableInv, ParentInv, Above
    <3>2. nodes[u].path \in Seq(Codes) /\ Len(nodes[u].path) \in Nat
      BY <3>1, CodeEndsPath
    <3> HIDE DEF u
    <3>3. _is_descendant(nodes[u].path, x)
      BY <1>0, <2>1, <2>2, <2>3, <3>1, <3>2, DescOfAppend
    <3>4. Len(nodes[u].path) \in Lens
      BY <2>2, <3>1, <3>2, <3>3
    <3>5. Len(nodes[m].path) = Len(nodes[u].path) + 1
      BY <2>3, <3>1, <3>2
    <3> QED BY <1>2, <1>3, <3>2, <3>4, <3>5
  <2> QED BY <2>4, <2>5
<1> QED BY <1>3, <1>4

\* What a request that is about to save an edit knows of its node.
LEMMA TargetIsThere ==
    ASSUME TreeInv, RowsStay, NEW p \in Requests, p.op \in EditOps, step[p] \in {"place", "repath", "save"}
    PROVE  /\ Target(p) \in Here(nodes) /\ Target(p)' = Target(p)
           /\ nodes'[Target(p)].tenant = nodes[Target(p)].tenant
<1>1. LocalInv(p) /\ TableInv
  BY DEF TreeInv
<1>2. Target(p)' = Target(p) /\ Target(p) \in Here(nodes)
  BY <1>1 DEF LocalInv, TargetInv, EditOps, Target, RowsStay, TableInv, KeysInv, NodesOf
<1> QED BY <1>2 DEF RowsStay

\* A new node, under a parent that its request has locked or as the root of a new tenant.
LEMMA PathsWithNewNode ==
    ASSUME TreeInv, TableInv', RowsStay, PathInv, NEW q \in Requests, Only(q), UNCHANGED raced,
           step'[q] = "answered", locks'[q] = {},
           NEW n \in Nodes, nodes[n] = None, NEW row \in NodeRows, nodes' = [nodes EXCEPT ![n] = row],
           \A m \in Here(nodes) : nodes[m].tenant = row.tenant => nodes[m].code # row.code,
           ~raced =>
               IF row.type = TENANT
               THEN row.path = <<row.code>> /\ \A m \in Here(nodes) : nodes[m].tenant # row.tenant
               ELSE /\ row.parent \in Here(nodes) /\ nodes[row.parent].tenant = row.tenant
                    /\ Holds(q, row.parent) /\ row.path = Append(nodes[row.parent].path, row.code)
    PROVE  PathInv'
<1>0. TableInv /\ TablesType /\ Here(nodes) \subseteq Nodes
  BY DEF TreeInv, TableInv, TablesType, Here
<1>1. /\ nodes'[n] = row /\ n \notin Here(nodes) /\ Here(nodes)' = Here(nodes) \cup {n}
      /\ \A m \in Here(nodes) : nodes'[m] = nodes[m]
  BY <1>0, NoneAssumption DEF TablesType, Here
<1>2. ExclusiveInv'
  <2>1. \A p \in Requests : \A m \in Nodes : Holds(p, m)' => Holds(p, m)
    BY DEF Only, Holds
  <2> QED BY <2>1 DEF PathInv, ExclusiveInv
<1>3. CodesInv'
  BY <1>1 DEF PathInv, CodesInv
<1>4. ASSUME ~raced' PROVE CoherentInv' /\ \A p \in Requests : PathsRead(p)'
  <2>0. CoherentInv /\ CodesInv /\ ExclusiveInv /\ ~raced /\ \A p \in Requests : PathsRead(p)
    BY <1>4 DEF PathInv
  <2>1. CoherentInv'
    <3>1. ASSUME NEW m \in Here(nodes)
          PROVE  nodes'[m].path = IF nodes'[m].type = TENANT THEN <<nodes'[m].code>>
                                  ELSE Append(nodes'[nodes'[m].parent].path, nodes'[m].code)
      <4>1. nodes[m].type # TENANT => nodes[m].parent \in Here(nodes)
        BY <1>0 DEF TableInv, ParentInv, Above
      <4> QED BY <1>1, <2>0, <4>1 DEF CoherentInv
    <3>2. row.path = IF row.type = TENANT THEN <<row.code>> ELSE Append(nodes'[row.parent].path, row.code)
      BY <1>1, <2>0
    <3> QED BY <1>1, <3>1, <3>2 DEF CoherentInv
  <2>2. ASSUME NEW p \in Requests, p # q, p.op \in EditOps, step[p] = "save"
        PROVE  Subtree(p)' = Subtree(p)
    <3> DEFINE k == Target(p)
               old == local[p].old
    <3>1. /\ k \in Here(nodes) /\ Target(p)' = k /\ nodes'[k].tenant = nodes[k].tenant
          /\ local'[p] = local[p]
      BY <2>2, TargetIsThere DEF Only
    <3>2. /\ Holds(p, k) /\ old = nodes[k].path /\ local[p].rows = Subtree(p)
          /\ \A m \in Subtree(p) : Holds(p, m)
      BY <2>0, <2>2 DEF PathsRead
    <3>3. ASSUME nodes[k].tenant = row.tenant, local[p].new # old PROVE ~_is_descendant(row.path, old)
      <4>0. SUFFICES ASSUME _is_descendant(row.path, old) PROVE FALSE
        OBVIOUS
      <4>1. /\ row.parent \in Here(nodes) /\ nodes[row.parent].tenant = row.tenant
            /\ Holds(q, row.parent) /\ row.path = Append(nodes[row.parent].path, row.code)
        BY <2>0, <3>1, <3>3
      <4>2. /\ nodes[row.parent].path \in Seq(Codes) /\ old \in Seq(Codes) /\ row.code \in Codes
            /\ old[Len(old)] = nodes[k].code
        BY <1>0, <2>0, <3>1, <3>2, <4>1, CodeEndsPath DEF NodeRows
      <4>3. row.path # old
        <5>1. ASSUME row.path = old PROVE FALSE
          <6>1. old[Len(old)] = row.code
            <7> DEFINE u == nodes[row.parent].path
                       c == row.code
            <7>1. u \in Seq(Codes) /\ c \in Codes /\ old = Append(u, c)
              BY <4>1, <4>2, <5>1
            <7> HIDE DEF u, c, old
            <7>2. Append(u, c)[Len(Append(u, c))] = c
              BY <7>1, AppendEnds
            <7> QED BY <7>1, <7>2 DEF c
          <6> QED BY <3>1, <3>3, <4>2, <6>1
        <5> QED BY <5>1
      <4>4. _is_descendant(nodes[row.parent].path, old)
        BY <4>0, <4>1, <4>2, <4>3, DescOfAppend
      <4>5. row.parent = k \/ row.parent \in Subtree(p)
        BY <3>3, <4>1, <4>4 DEF Subtree, NodesOf
      <4> QED BY <1>0, <2>0, <2>2, <3>2, <4>1, <4>5 DEF ExclusiveInv
    <3> HIDE DEF k
    <3>4. Subtree(p)' = {m \in Here(nodes)' : /\ nodes'[m].tenant = nodes[k].tenant /\ m # k
                                              /\ local[p].new # old /\ _is_descendant(nodes'[m].path, old)}
      BY <3>1 DEF Subtree, NodesOf
    <3>5. Subtree(p) = {m \in Here(nodes) : /\ nodes[m].tenant = nodes[k].tenant /\ m # k
                                            /\ local[p].new # old /\ _is_descendant(nodes[m].path, old)}
      BY DEF Subtree, NodesOf, k
    <3> QED BY <1>1, <3>3, <3>4, <3>5
  <2>3. ASSUME NEW p \in Requests, p # q PROVE PathsRead(p)'
    BY <1>1, <2>0, <2>2, <2>3, PathsStayRead DEF Only
  <2>4. PathsRead(q)'
    BY DEF PathsRead
  <2> QED BY <2>1, <2>3, <2>4
<1> QED BY <1>2, <1>3, <1>4 DEF PathInv

LEMMA FrontAndLast ==
    ASSUME NEW p \in Paths
    PROVE  p \in Seq(Codes) /\ Front(p) \in Seq(Codes) /\ Last(p) \in Codes /\ p = Append(Front(p), Last(p))
<1>1. p \in Seq(Codes) /\ Len(p) \in Nat /\ Len(p) >= 1
  BY DEF Paths
<1> DEFINE f == SubSeq(p, 1, Len(p) - 1)
           c == p[Len(p)]
<1>2. f \in Seq(Codes) /\ Len(f) = Len(p) - 1 /\ \A i \in 1..Len(p) - 1 : f[i] = p[i]
  <2> DEFINE k == Len(p) - 1
  <2>1. k \in Nat /\ k <= Len(p) /\ \A i \in 1..k : p[i] \in Codes
    BY <1>1
  <2> HIDE DEF k
  <2>2. /\ SubSeq(p, 1, k) \in Seq(Codes) /\ Len(SubSeq(p, 1, k)) = k
        /\ \A i \in 1..k : SubSeq(p, 1, k)[i] = p[i]
    BY <1>1, <2>1
  <2> QED BY <2>2 DEF k
<1>3. c \in Codes
  BY <1>1
<1> HIDE DEF f
<1>4. /\ Append(f, c) \in Seq(Codes) /\ Len(Append(f, c)) = Len(f) + 1 /\ Append(f, c)[Len(f) + 1] = c
      /\ \A i \in 1..Len(f) : Append(f, c)[i] = f[i]
  BY <1>2, <1>3
<1>5. Len(Append(f, c)) = Len(p) /\ \A i \in 1..Len(p) : Append(f, c)[i] = p[i]
  BY <1>1, <1>2, <1>4
<1>6. Append(f, c) = p
  BY <1>1, <1>4, <1>5, SeqEqual
<1> QED BY <1>1, <1>2, <1>3, <1>6 DEF Front, Last, f

LEMMA FrontOfAppend ==
    ASSUME NEW p \in Seq(Codes), NEW c \in Codes
    PROVE  Front(Append(p, c)) = p /\ Last(Append(p, c)) = c
<1> DEFINE x == Append(p, c)
<1>1. /\ x \in Seq(Codes) /\ Len(x) = Len(p) + 1 /\ x[Len(p) + 1] = c /\ Len(p) \in Nat
      /\ \A i \in 1..Len(p) : x[i] = p[i]
  OBVIOUS
<1> HIDE DEF x
<1>2. Len(x) - 1 = Len(p)
  BY <1>1
<1>3. SubSeq(x, 1, Len(p)) \in Seq(Codes) /\ Len(SubSeq(x, 1, Len(p))) = Len(p)
  BY <1>1
<1>4. \A i \in 1..Len(p) : SubSeq(x, 1, Len(p))[i] = p[i]
  BY <1>1
<1>5. SubSeq(x, 1, Len(p)) = p
  BY <1>3, <1>4, SeqEqual
<1>6. Front(x) = p /\ Last(x) = c
  BY <1>1, <1>2, <1>5 DEF Front, Last
<1> QED BY <1>6 DEF x

LEMMA RebasedSame ==
    ASSUME NEW a \in Seq(Codes), NEW p \in Seq(Codes), _is_descendant(p, a)
    PROVE  Rebased(a, a, p) = p
<1> DEFINE x == Rebased(a, a, p)
<1>0. /\ Len(a) \in Nat /\ Len(p) \in Nat /\ Len(a) <= Len(p) /\ \A i \in 1..Len(a) : p[i] = a[i]
  BY DescIsPrefix
<1>1. /\ x \in Seq(Codes) /\ Len(x) = Len(a) + Len(p) - Len(a)
      /\ \A i \in 1..Len(a) : x[i] = a[i]
      /\ \A i \in Len(a) + 1..Len(p) : x[Len(a) + i - Len(a)] = p[i]
  BY <1>0, RebasedAt
<1> HIDE DEF x
<1>2. Len(x) = Len(p)
  BY <1>0, <1>1
<1>3. ASSUME NEW i \in 1..Len(p) PROVE x[i] = p[i]
  <2>1. CASE i <= Len(a)
    BY <1>0, <1>1, <2>1
  <2>2. CASE ~(i <= Len(a))
    <3>1. i \in Len(a) + 1..Len(p) /\ Len(a) + i - Len(a) = i
      BY <1>0, <2>2
    <3> QED BY <1>1, <3>1
  <2> QED BY <2>1, <2>2
<1>4. x = p
  BY <1>1, <1>2, <1>3, SeqEqual
<1> QED BY <1>4 DEF x

\* An edit, row by row: the codes and parents, and which paths it rewrites.
LEMMA SavedRows ==
    ASSUME TreeInv, RowsStay, NEW q \in Requests, SaveNode(q)
    PROVE  LET k == Target(q) IN
           /\ q.op \in EditOps /\ step[q] = "save" /\ k \in Here(nodes) /\ k \in Nodes
           /\ Here(nodes)' = Here(nodes)
           /\ nodes'[k].path = local[q].new
           /\ nodes'[k].parent = IF q.parent = None THEN nodes[k].parent ELSE q.parent
           /\ nodes'[k].code = IF q.code = None THEN nodes[k].code ELSE q.code
           /\ q.parent # None => nodes[k].type # TENANT
           /\ \A n \in Here(nodes) \ {k} :
                 /\ nodes'[n].code = nodes[n].code /\ nodes'[n].parent = nodes[n].parent
                 /\ nodes'[n].path = IF Rewritten(q, n)
                                     THEN Rebased(local[q].new, local[q].old, nodes[n].path)
                                     ELSE nodes[n].path
<1> DEFINE k == Target(q)
<1>0. TableInv /\ TablesType /\ LocalInv(q) /\ Here(nodes) \subseteq Nodes
  BY DEF TreeInv, TableInv, TablesType, Here
<1>1. q.op \in EditOps /\ step[q] = "save" /\ nodes' = Edited(q)
  BY DEF SaveNode, At, EditOps
<1>2. k \in Here(nodes) /\ k \in Nodes
  BY <1>0, <1>1, TargetIsThere
<1>3. \A n \in Here(nodes) : nodes[n] = [f \in DOMAIN nodes[n] |-> nodes[n][f]]
                             /\ {"path", "parent", "code"} \subseteq DOMAIN nodes[n]
  BY <1>0 DEF TablesType, NodeRows, Here
<1>4. /\ nodes'[k].path = local[q].new
      /\ nodes'[k].parent = IF q.parent = None THEN nodes[k].parent ELSE q.parent
      /\ nodes'[k].code = IF q.code = None THEN nodes[k].code ELSE q.code
  BY <1>1, <1>2, <1>3 DEF Edited
<1>5. ASSUME NEW n \in Here(nodes) \ {k}
      PROVE  /\ nodes'[n].code = nodes[n].code /\ nodes'[n].parent = nodes[n].parent
             /\ nodes'[n].path = IF Rewritten(q, n)
                                 THEN Rebased(local[q].new, local[q].old, nodes[n].path)
                                 ELSE nodes[n].path
  <2>1. nodes'[n] = IF Rewritten(q, n)
                    THEN [nodes[n] EXCEPT !.path =
                             local[q].new \o SubSeq(nodes[n].path, Len(local[q].old) + 1, Len(nodes[n].path))]
                    ELSE nodes[n]
    BY <1>0, <1>1 DEF Edited
  <2> QED BY <1>3, <2>1 DEF Rebased
<1>6. Here(nodes)' = Here(nodes)
  <2>1. ASSUME NEW n \in Nodes, nodes[n] = None PROVE nodes'[n] = None
    <3>1. n # k /\ n \notin local[q].rows
      BY <1>0, <1>1, <1>2, <2>1 DEF Here, LocalInv, PlacedInv, EditOps, NodesOf
    <3> QED BY <1>1, <2>1, <3>1 DEF Edited, Rewritten
  <2>2. Here(nodes)' \subseteq Nodes
    BY <1>1 DEF Here, Edited
  <2>3. Here(nodes) \subseteq Here(nodes)'
    BY DEF RowsStay, Here
  <2>4. ASSUME NEW n \in Here(nodes)' PROVE n \in Here(nodes)
    <3>1. n \in Nodes /\ nodes'[n] # None
      BY <2>2, <2>4 DEF Here
    <3> QED BY <1>0, <2>1, <3>1 DEF Here, TablesType
  <2> QED BY <2>3, <2>4
<1>7. q.parent # None => nodes[k].type # TENANT
  <2>1. CASE q.op = "edit_node"
    BY <1>0, <1>1, <2>1 DEF LocalInv, TargetInv, EditIsAllowed, Target
  <2>2. CASE q.op = "update_store"
    BY <1>0, <1>1, <2>2 DEF LocalInv, TargetInv, Target, TableInv, PairInv, TENANT, STORE
  <2> QED BY <1>1, <2>1, <2>2 DEF EditOps
<1> QED BY <1>1, <1>2, <1>4, <1>5, <1>6, <1>7

\* The edit of a node keeps the paths coherent, and leaves alone what other requests have read.
LEMMA PathsEdited ==
    ASSUME TreeInv, TableInv', RowsStay, PathInv, NEW q \in Requests, Only(q), SaveNode(q)
    PROVE  PathInv'
<1> DEFINE k == Target(q)
           old == local[q].old
           new == local[q].new
           c == nodes'[k].code
<1>0. TableInv /\ TablesType /\ LocalInv(q) /\ SessionType /\ Here(nodes) \subseteq Nodes
  BY DEF TreeInv, TableInv, TablesType, Here
<1>1. /\ q.op \in EditOps /\ step[q] = "save" /\ k \in Here(nodes) /\ k \in Nodes
      /\ Here(nodes)' = Here(nodes)
      /\ nodes'[k].path = new
      /\ nodes'[k].parent = IF q.parent = None THEN nodes[k].parent ELSE q.parent
      /\ c = IF q.code = None THEN nodes[k].code ELSE q.code
      /\ q.parent # None => nodes[k].type # TENANT
      /\ \A n \in Here(nodes) \ {k} :
            /\ nodes'[n].code = nodes[n].code /\ nodes'[n].parent = nodes[n].parent
            /\ nodes'[n].path = IF Rewritten(q, n) THEN Rebased(new, old, nodes[n].path) ELSE nodes[n].path
  BY SavedRows
<1>2. /\ UNCHANGED raced /\ step'[q] = "answered" /\ locks'[q] = {}
      /\ q.code # None => NodeCodeFree(nodes[k].tenant, q.code, k)
  BY <1>0 DEF SaveNode, Answer, Done, SessionType
<1>3. \A n \in Here(nodes) : nodes'[n].tenant = nodes[n].tenant /\ nodes'[n].type = nodes[n].type
  BY DEF RowsStay
<1>4. \A m \in Here(nodes) \ {k} : nodes[m].tenant = nodes[k].tenant => nodes[m].code # c
  BY <1>1, <1>2 DEF NodeCodeFree, NodesOf, PathInv, CodesInv
<1> HIDE DEF k, c
<1>5. ExclusiveInv'
  <2>1. \A p \in Requests : \A m \in Nodes : Holds(p, m)' => Holds(p, m)
    BY <1>2 DEF Only, Holds
  <2> QED BY <2>1 DEF PathInv, ExclusiveInv
<1>6. CodesInv'
  <2>1. ASSUME NEW m \in Here(nodes), NEW n \in Here(nodes), nodes'[m].tenant = nodes'[n].tenant,
               nodes'[m].code = nodes'[n].code
        PROVE  m = n
    BY <1>1, <1>3, <1>4, <2>1 DEF PathInv, CodesInv, c
  <2> QED BY <1>1, <2>1 DEF CodesInv
<1>7. ASSUME ~raced PROVE CoherentInv' /\ \A p \in Requests : PathsRead(p)'
  <2> DEFINE f == IF q.parent = None THEN Front(old) ELSE nodes[q.parent].path
             D == {n \in Here(nodes) : nodes[n].tenant = nodes[k].tenant /\ _is_descendant(nodes[n].path, old)}
  <2>0. CoherentInv /\ CodesInv /\ ExclusiveInv /\ \A p \in Requests : PathsRead(p)
    BY <1>7 DEF PathInv
  <2>1. /\ Holds(q, k) /\ old = nodes[k].path /\ local[q].rows = Subtree(q)
        /\ new = NewPath(q, old) /\ \A n \in Subtree(q) : Holds(q, n)
        /\ q.parent # None => /\ Holds(q, q.parent) /\ q.parent # k
                              /\ ~_is_descendant(nodes[q.parent].path, old)
    BY <1>1, <2>0 DEF PathsRead, k
  <2>2. old \in Paths /\ old \in Seq(Codes) /\ new \in Paths /\ new \in Seq(Codes)
    BY <1>0, <1>1 DEF LocalInv, PlacedInv, EditOps, Paths
  <2>3. q.parent # None => /\ q.parent \in Here(nodes) /\ q.parent \in Nodes
                           /\ nodes[q.parent].tenant = nodes[k].tenant
    BY <1>0, <1>1 DEF LocalInv, PlacedInv, EditOps, Above, k
  <2>4. \A n \in Here(nodes) : nodes[n].path \in Seq(Codes) /\ nodes[n].code \in Codes
    BY <1>0, <2>0, CodeEndsPath
  <2>5. Last(old) = nodes[k].code
    BY <1>0, <1>1, <2>0, <2>1, CodeEndsPath DEF Last
  <2>6. new = Append(f, c) /\ f \in Seq(Codes) /\ c \in Codes
    <3>1. c = IF q.code = None THEN Last(old) ELSE q.code
      BY <1>1, <2>5
    <3>2. c \in Codes
      BY <1>0, <1>1, <2>4, RequestsAssumption DEF EditOps
    <3>3. f \in Seq(Codes)
      BY <2>2, <2>3, <2>4, FrontAndLast
    <3> QED BY <2>1, <3>1, <3>2, <3>3 DEF NewPath
  <2>7. ASSUME NEW n \in Here(nodes)
        PROVE  nodes'[n].path = IF n \in D THEN Rebased(new, old, nodes[n].path) ELSE nodes[n].path
    <3>1. CASE n = k
      <4>1. n \in D /\ Rebased(new, old, nodes[n].path) = new
        BY <1>1, <2>1, <2>2, <3>1, DescIsTyped, RebasedSelf
      <4> QED BY <1>1, <3>1, <4>1
    <3>2. CASE n # k /\ new = old
      <4>1. n \notin Subtree(q)
        BY <3>2 DEF Subtree
      <4>2. nodes'[n].path = nodes[n].path
        BY <1>1, <2>1, <3>2, <4>1 DEF Rewritten
      <4>3. n \in D => Rebased(new, old, nodes[n].path) = nodes[n].path
        BY <2>2, <2>4, <3>2, RebasedSame
      <4> QED BY <4>2, <4>3
    <3>3. CASE n # k /\ new # old
      <4>1. Rewritten(q, n) <=> n \in D
        BY <2>1, <3>3 DEF Rewritten, Subtree, NodesOf, k
      <4> QED BY <1>1, <3>3, <4>1
    <3> QED BY <3>1, <3>2, <3>3
  <2> HIDE DEF f, D
  <2>8. \A n \in Here(nodes) : n \in D <=> nodes[n].tenant = nodes[k].tenant /\ _is_descendant(nodes[n].path, old)
    BY DEF D
  <2>9. \A n \in D : Len(old) <= Len(nodes[n].path) /\ n \in Here(nodes)
    BY DEF D, _is_descendant
  <2>10. \A n \in D : n = k \/ new = old \/ n \in Subtree(q)
    BY DEF D, Subtree, NodesOf, k
  <2>11. CoherentInv'
    <3>1. ASSUME NEW n \in Here(nodes), nodes[n].type # TENANT
          PROVE  nodes'[n].path = Append(nodes'[nodes'[n].parent].path, nodes'[n].code)
      <4> DEFINE m == nodes[n].parent
      <4>1. /\ m \in Here(nodes) /\ nodes[m].tenant = nodes[n].tenant
            /\ nodes[n].path = Append(nodes[m].path, nodes[n].code)
        BY <1>0, <2>0, <3>1 DEF CoherentInv, TableInv, ParentInv, Above
      <4>2. nodes[m].path \in Seq(Codes) /\ nodes[n].code \in Codes
        BY <2>4, <4>1
      <4> HIDE DEF m
      <4>3. CASE n = k /\ q.parent = None
        <5>1. nodes'[n].parent = m /\ nodes'[n].path = new /\ nodes'[n].code = c
          BY <1>1, <4>3 DEF m, c
        <5>2. f = nodes[m].path
          BY <2>1, <4>1, <4>2, <4>3, FrontOfAppend DEF f
        <5>3. m \notin D
          <6>1. Len(old) = Len(nodes[m].path) + 1 /\ Len(nodes[m].path) \in Nat
            BY <2>1, <4>1, <4>2, <4>3, AppendEnds
          <6> QED BY <2>9, <6>1
        <5> QED BY <2>6, <2>7, <4>1, <5>1, <5>2, <5>3
      <4>4. CASE n = k /\ q.parent # None
        <5>1. nodes'[n].parent = q.parent /\ nodes'[n].path = new /\ nodes'[n].code = c
          BY <1>1, <4>4 DEF c
        <5>2. q.parent \notin D /\ f = nodes[q.parent].path
          BY <2>1, <4>4 DEF D, f
        <5> QED BY <2>3, <2>6, <2>7, <4>4, <5>1, <5>2
      <4>5. CASE n # k /\ n \in D
        <5>1. nodes[n].path # old
          BY <1>0, <1>1, <2>0, <2>1, <2>8, <4>5, PathsAreUnique
        <5>2. _is_descendant(nodes[m].path, old)
          BY <2>2, <2>8, <4>1, <4>2, <4>5, <5>1, DescOfAppend
        <5>3. m \in D /\ Len(old) <= Len(nodes[m].path)
          BY <2>8, <2>9, <4>1, <4>5, <5>2
        <5>4. Rebased(new, old, nodes[n].path) = Append(Rebased(new, old, nodes[m].path), nodes[n].code)
          <6> DEFINE u == nodes[m].path
                     e == nodes[n].code
          <6>1. u \in Seq(Codes) /\ e \in Codes /\ Len(old) <= Len(u) /\ nodes[n].path = Append(u, e)
            BY <4>1, <4>2, <5>3
          <6> HIDE DEF u, e
          <6>2. Rebased(new, old, Append(u, e)) = Append(Rebased(new, old, u), e)
            BY <2>2, <6>1, RebasedAppend
          <6> QED BY <6>1, <6>2 DEF u, e
        <5>5. nodes'[n].parent = m /\ nodes'[n].code = nodes[n].code
          BY <1>1, <4>5 DEF m
        <5> QED BY <2>7, <4>1, <4>5, <5>3, <5>4, <5>5
      <4>6. CASE n # k /\ n \notin D
        <5>1. m \notin D
          <6>1. _is_descendant(nodes[m].path, old) => _is_descendant(nodes[n].path, old)
            BY <2>2, <4>1, <4>2, DescOfAppend
          <6> QED BY <2>8, <4>1, <4>6, <6>1
        <5>2. nodes'[n].parent = m /\ nodes'[n].code = nodes[n].code
          BY <1>1, <4>6 DEF m
        <5> QED BY <2>7, <4>1, <4>6, <5>1, <5>2
      <4> QED BY <4>3, <4>4, <4>5, <4>6
    <3>2. ASSUME NEW n \in Here(nodes), nodes[n].type = TENANT
          PROVE  nodes'[n].path = <<nodes'[n].code>>
      <4>1. nodes[n].path = <<nodes[n].code>> /\ nodes[n].code \in Codes
        BY <2>0, <2>4, <3>2 DEF CoherentInv
      <4>2. CASE n = k
        <5>1. <<nodes[n].code>> = Append(<<>>, nodes[n].code) /\ <<>> \in Seq(Codes)
          BY <4>1
        <5>2. f = <<>>
          BY <1>1, <2>1, <3>2, <4>1, <4>2, <5>1, FrontOfAppend DEF f
        <5>3. Append(<<>>, c) = <<c>>
          BY <2>6
        <5> QED BY <1>1, <2>6, <4>2, <5>2, <5>3 DEF c
      <4>3. CASE n # k
        <5>1. n \notin D
          <6>1. ASSUME n \in D PROVE FALSE
            <7>1. Len(nodes[n].path) = 1 /\ Len(old) <= 1 /\ Len(old) >= 1 /\ Len(old) \in Nat
              <8>1. Len(<<nodes[n].code>>) = 1
                OBVIOUS
              <8>2. Len(old) \in Nat /\ Len(old) >= 1
                BY <2>2 DEF Paths
              <8> QED BY <2>9, <4>1, <6>1, <8>1, <8>2
            <7>2. Len(old) = Len(nodes[n].path) /\ \A i \in 1..Len(old) : nodes[n].path[i] = old[i]
              BY <2>2, <2>4, <2>8, <6>1, <7>1, DescIsPrefix
            <7>3. nodes[n].path = old
              BY <2>2, <2>4, <7>2, SeqEqual
            <7> QED BY <1>0, <1>1, <2>0, <2>1, <2>8, <4>3, <6>1, <7>3, PathsAreUnique
          <6> QED BY <6>1
        <5> QED BY <1>1, <2>7, <4>1, <4>3, <5>1
      <4> QED BY <4>2, <4>3
    <3> QED BY <1>1, <1>3, <3>1, <3>2 DEF CoherentInv
  <2>12. ASSUME NEW p \in Requests, p # q PROVE PathsRead(p)'
    <3>1. ASSUME NEW n \in Here(nodes), Holds(p, n) PROVE nodes'[n].path = nodes[n].path
      <4>1. CASE n \notin D
        BY <2>7, <4>1
      <4>2. CASE n \in D
        <5>1. ~Holds(q, n)
          BY <1>0, <2>0, <2>12, <3>1 DEF ExclusiveInv
        <5>2. new = old
          BY <2>1, <2>10, <4>2, <5>1
        <5> QED BY <2>2, <2>4, <2>7, <2>8, <4>2, <5>2, RebasedSame
      <4> QED BY <4>1, <4>2
    <3>2. ASSUME p.op \in EditOps, step[p] = "save" PROVE Subtree(p)' = Subtree(p)
      <4> DEFINE kp == Target(p)
                 o == local[p].old
      <4>1. /\ kp \in Here(nodes) /\ Target(p)' = kp /\ nodes'[kp].tenant = nodes[kp].tenant
            /\ local'[p] = local[p]
        BY <2>12, <3>2, TargetIsThere DEF Only
      <4>2. /\ Holds(p, kp) /\ o = nodes[kp].path /\ local[p].rows = Subtree(p)
            /\ \A m \in Subtree(p) : Holds(p, m)
        BY <2>0, <3>2 DEF PathsRead
      <4>3. \A m \in Here(nodes) : m \in Subtree(p) <=>
               nodes[m].tenant = nodes[kp].tenant /\ m # kp /\ local[p].new # o /\ _is_descendant(nodes[m].path, o)
        BY DEF Subtree, NodesOf
      <4>4. \A m \in Here(nodes) : m \in Subtree(p)' <=>
               nodes[m].tenant = nodes[kp].tenant /\ m # kp /\ local[p].new # o /\ _is_descendant(nodes'[m].path, o)
        BY <1>1, <1>3, <4>1 DEF Subtree, NodesOf
      <4>5. Subtree(p) \subseteq Here(nodes) /\ Subtree(p)' \subseteq Here(nodes)
        BY <1>1 DEF Subtree, NodesOf
      <4> HIDE DEF kp, o
      <4>6. o \in Seq(Codes)
        BY <2>4, <4>1, <4>2
      <4>7. \A m \in Here(nodes) : Holds(q, m) => m # kp /\ m \notin Subtree(p)
        BY <1>0, <2>0, <2>12, <4>2 DEF ExclusiveInv
      <4>8. ASSUME NEW m \in Here(nodes), m \in D, new # old, nodes[m].tenant = nodes[kp].tenant,
                   local[p].new # o
            PROVE  ~_is_descendant(nodes[m].path, o) /\ ~_is_descendant(nodes'[m].path, o)
        <5>1. Holds(q, m) /\ m # kp /\ m \notin Subtree(p)
          BY <2>1, <2>10, <4>7, <4>8
        <5>2. ~_is_descendant(nodes[m].path, o)
          BY <4>3, <4>8, <5>1
        <5>3. SUFFICES ASSUME _is_descendant(nodes'[m].path, o) PROVE FALSE
          BY <5>2
        <5>4. _is_descendant(Rebased(Append(f, c), old, nodes[m].path), o)
          BY <2>6, <2>7, <4>8, <5>3
        <5>5. _is_descendant(f, o) \/ _is_descendant(o, new)
          BY <2>2, <2>4, <2>6, <2>9, <4>6, <4>8, <5>4, AboveRebased
        <5>6. nodes[kp].tenant = nodes[k].tenant
          BY <2>8, <4>8
        <5>7. CASE _is_descendant(f, o) /\ q.parent # None
          <6>1. q.parent # kp /\ q.parent \notin Subtree(p)
            BY <2>1, <2>3, <4>7, <5>7
          <6> QED BY <2>3, <4>3, <4>8, <5>6, <5>7, <6>1 DEF f
        <5>8. CASE _is_descendant(f, o) /\ q.parent = None
          <6>1. f = Front(old) /\ old = Append(f, Last(old)) /\ Last(old) \in Codes
            BY <2>2, <5>8, FrontAndLast DEF f
          <6>2. _is_descendant(f, f)
            BY <2>6, DescIsTyped
          <6>3. _is_descendant(Append(f, Last(old)), f)
            BY <2>6, <6>1, <6>2, DescOfAppend
          <6>4. _is_descendant(old, f)
            BY <6>1, <6>3
          <6>5. _is_descendant(old, o)
            BY <2>2, <2>6, <4>6, <5>8, <6>4, DescIsTransitive
          <6>6. _is_descendant(nodes[m].path, o)
            BY <2>2, <2>4, <2>8, <4>6, <4>8, <6>5, DescIsTransitive
          <6> QED BY <5>2, <6>6
        <5>9. CASE _is_descendant(o, new)
          <6>1. PICK a \in Here(nodes) : nodes[a].tenant = nodes[kp].tenant /\ nodes[a].path = new
            BY <1>0, <2>0, <2>2, <4>1, <4>2, <5>9, AncestorsAreThere
          <6>2. nodes[a].code = c
            <7>1. nodes[a].path[Len(nodes[a].path)] = nodes[a].code
              BY <1>0, <2>0, <6>1, CodeEndsPath
            <7>2. Append(f, c)[Len(Append(f, c))] = c
              BY <2>6, AppendEnds
            <7> QED BY <2>6, <6>1, <7>1, <7>2
          <6>3. a = k
            BY <1>4, <5>6, <6>1, <6>2
          <6> QED BY <2>1, <4>8, <6>1, <6>3
        <5> QED BY <5>5, <5>7, <5>8, <5>9
      <4>9. ASSUME NEW m \in Here(nodes) PROVE m \in Subtree(p)' <=> m \in Subtree(p)
        <5>1. CASE m \notin D
          BY <2>7, <4>3, <4>4, <5>1
        <5>2. CASE m \in D /\ new = old
          <6>1. nodes'[m].path = nodes[m].path
            BY <2>2, <2>4, <2>7, <2>8, <5>2, RebasedSame
          <6> QED BY <4>3, <4>4, <6>1
        <5>3. CASE m \in D /\ new # old
          BY <4>3, <4>4, <4>8, <5>3
        <5> QED BY <5>1, <5>2, <5>3
      <4> QED BY <4>5, <4>9
    <3> QED BY <2>0, <2>12, <3>1, <3>2, PathsStayRead DEF Only
  <2>13. PathsRead(q)'
    BY <1>2 DEF PathsRead
  <2> QED BY <2>11, <2>12, <2>13
<1> QED BY <1>2, <1>5, <1>6, <1>7 DEF PathInv

-----------------------------------------------------------------------------
(* Every step keeps the paths. *)

\* The steps of the tree that only read and lock.
LEMMA PathsLocked ==
    ASSUME TreeInv, TableInv', RowsStay, PathInv, NEW q \in Requests, Only(q), UNCHANGED tenants,
           \/ LockParent(q) \/ LockStore(q) \/ LockTarget(q) \/ Place(q) \/ Repath(q)
           \/ LockForTransition(q)
    PROVE  PathInv'
<1>0. SessionType /\ TableInv /\ LocalInv(q) /\ raced \in BOOLEAN
  BY DEF TreeInv, TableInv, TablesType
<1>1. UNCHANGED <<nodes, stores>> /\ (raced => raced')
  BY <1>0 DEF LockParent, LockStore, LockTarget, Place, Repath, LockForTransition, treeVars
<1>2. SamePaths
  BY <1>1 DEF SamePaths
<1>3. /\ \A n \in Nodes : Holds(q, n)' => Holds(q, n) \/ Free(q, <<"node", n>>, "update")
      /\ ~raced' => PathsRead(q)'
  <2> USE DEF At, Proceed, SessionType
  <2>0. ~raced' => PathsRead(q)
    BY <1>0, <1>1 DEF PathInv
  <2>1. CASE LockParent(q)
    <3>1. /\ q.op \in {"add_node", "create_store"} /\ step'[q] = "insert_node"
          /\ local'[q] = nodes[ParentOf(q)].path
          /\ locks'[q] = locks[q] \cup {Lock(<<"node", ParentOf(q)>>, "update")}
          /\ Free(q, <<"node", ParentOf(q)>>, "update")
      BY <1>0, <2>1 DEF LockParent
    <3>2. ParentOf(q)' = ParentOf(q)
      BY <1>1 DEF ParentOf, Root, NodesOf, Here
    <3>3. PathsRead(q)'
      BY <1>1, <3>1, <3>2 DEF PathsRead, Holds, EditOps
    <3> QED BY <3>1, <3>3 DEF Holds, Lock
  <2>2. CASE LockStore(q)
    <3>1. /\ q.op = "update_store" /\ step'[q] = "lock_target"
          /\ \A l \in locks'[q] : l \in locks[q] \/ l = Lock(<<"store", q.store>>, "no_key")
      BY <1>0, <2>2 DEF LockStore
    <3> QED BY <3>1 DEF Holds, Lock, PathsRead, EditOps
  <2>3. CASE LockTarget(q)
    <3>1. /\ q.op \in EditOps /\ step'[q] = "place"
          /\ local'[q].old = nodes[Target(q)].path
          /\ locks'[q] = locks[q] \cup {Lock(<<"node", Target(q)>>, "update")}
          /\ Free(q, <<"node", Target(q)>>, "update")
      BY <1>0, <2>3 DEF LockTarget, EditOps
    <3>2. Target(q)' = Target(q)
      BY <1>1 DEF Target
    <3>3. PathsRead(q)'
      BY <1>1, <3>1, <3>2 DEF PathsRead, Holds, EditOps
    <3> QED BY <3>1, <3>3 DEF Holds, Lock
  <2>4. CASE Place(q)
    <3>1. /\ q.op \in EditOps /\ step[q] = "place" /\ step'[q] = "repath"
          /\ local'[q].old = local[q].old /\ local'[q].new = NewPath(q, local[q].old)
          /\ locks'[q] = locks[q] \cup (IF q.parent = None THEN {} ELSE {Lock(<<"node", q.parent>>, "update")})
          /\ q.parent # None => /\ q.parent # Target(q) /\ Free(q, <<"node", q.parent>>, "update")
                                /\ ~_is_descendant(nodes[q.parent].path, local[q].old)
      BY <1>0, <2>4 DEF Place, EditOps
    <3>2. Target(q)' = Target(q) /\ NewPath(q, local[q].old)' = NewPath(q, local[q].old)
      BY <1>1, <3>1 DEF Target, NewPath
    <3>3. ~raced' => Holds(q, Target(q)) /\ local[q].old = nodes[Target(q)].path
      BY <2>0, <3>1 DEF PathsRead
    <3>4. ~raced' => PathsRead(q)'
      BY <1>1, <3>1, <3>2, <3>3 DEF PathsRead, Holds, EditOps
    <3> QED BY <3>1, <3>4 DEF Holds, Lock
  <2>5. CASE Repath(q)
    <3> DEFINE ready == {n \in Subtree(q) : Free(q, <<"node", n>>, "update")}
    <3>1. PICK rows \in SUBSET ready :
            /\ ready = Subtree(q) => rows = ready
            /\ raced' = (raced \/ ready # Subtree(q))
            /\ Proceed(q, "save", [old |-> local[q].old, new |-> local[q].new, rows |-> Subtree(q)],
                       {Lock(<<"node", n>>, "update") : n \in rows})
      BY <2>5 DEF Repath
    <3>2. /\ q.op \in EditOps /\ step[q] = "repath" /\ step'[q] = "save"
          /\ local'[q].old = local[q].old /\ local'[q].new = local[q].new /\ local'[q].rows = Subtree(q)
          /\ locks'[q] = locks[q] \cup {Lock(<<"node", n>>, "update") : n \in rows}
      BY <1>0, <2>5, <3>1 DEF Repath, EditOps
    <3>3. /\ Target(q)' = Target(q) /\ NewPath(q, local[q].old)' = NewPath(q, local[q].old)
          /\ Subtree(q)' = Subtree(q)
      BY <1>1, <3>2 DEF Target, NewPath, Subtree, NodesOf, Here
    <3>4. ASSUME ~raced' PROVE PathsRead(q)'
      <4>1. rows = Subtree(q)
        BY <3>1, <3>4
      <4>2. \A n \in Subtree(q) : Holds(q, n)'
        BY <3>2, <4>1 DEF Holds
      <4>3. /\ Holds(q, Target(q)) /\ local[q].old = nodes[Target(q)].path
            /\ q.parent # None => /\ Holds(q, q.parent) /\ q.parent # Target(q)
                                  /\ ~_is_descendant(nodes[q.parent].path, local[q].old)
            /\ local[q].new = NewPath(q, local[q].old)
        BY <2>0, <3>2, <3>4 DEF PathsRead
      <4>4. \A n : Holds(q, n) => Holds(q, n)'
        BY <3>2 DEF Holds
      <4>5. q.op \notin {"add_node", "create_store"}
        BY <3>2 DEF EditOps
      <4> QED BY <1>1, <3>2, <3>3, <4>2, <4>3, <4>4, <4>5 DEF PathsRead, Holds
    <3>5. \A n \in Nodes : Holds(q, n)' => Holds(q, n) \/ Free(q, <<"node", n>>, "update")
      BY <3>2 DEF Holds, Lock
    <3> QED BY <3>4, <3>5
  <2>6. CASE LockForTransition(q)
    <3>1. /\ q.op = "transition_store"
          /\ locks'[q] = locks[q] \cup TransitionLock(q)
      BY <1>0, <2>6 DEF LockForTransition
    <3> QED BY <3>1 DEF TransitionLock, Holds, Lock, PathsRead, EditOps
  <2> QED BY <2>1, <2>2, <2>3, <2>4, <2>5, <2>6
<1> QED BY <1>1, <1>2, <1>3, PathsUntouched

\* The steps of the tree that write.
LEMMA PathsWritten ==
    ASSUME TreeInv, TableInv', RowsStay, PathInv, NEW q \in Requests, Only(q), UNCHANGED tenants,
           InsertNode(q) \/ InsertStore(q) \/ SaveNode(q) \/ SetStatus(q)
    PROVE  PathInv'
<1>0. SessionType /\ TableInv /\ TablesType /\ LocalInv(q) /\ Here(nodes) \subseteq Nodes
  BY DEF TreeInv, TableInv, TablesType, Here
<1>1. CASE InsertNode(q) \/ InsertStore(q)
  <2> DEFINE u == ParentOf(q)
             row == NodeRow(q.tenant, ChildType(q), u, q.code, Append(local[q], q.code))
  <2>1. /\ q.op \in {"add_node", "create_store"} /\ step[q] = "insert_node" /\ NodeLeft
        /\ nodes' = [nodes EXCEPT ![FreshNode] = row] /\ NodeCodeFree(q.tenant, q.code, None)
        /\ step'[q] = "answered" /\ locks'[q] = {} /\ UNCHANGED raced
    BY <1>0, <1>1 DEF InsertNode, InsertStore, InsertRow, At, Answer, AnswerAudited, Done, SessionType
  <2>2. FreshNode \in Nodes /\ nodes[FreshNode] = None
    BY <2>1, FreshIsFree
  <2>3. nodes'[FreshNode] = row /\ row # None
    <3>1. nodes'[FreshNode] = row
      BY <1>0, <2>1, <2>2 DEF TablesType
    <3>2. row.tenant \in Tenants /\ row.code \in Codes
      BY <2>1, RequestsAssumption DEF NodeRow
    <3>3. /\ NodesOf(q.tenant) # {} /\ local[q] \in Paths
          /\ IF q.parent = None THEN TENANT < ChildType(q) ELSE Above(q.parent, q.tenant, ChildType(q))
      BY <1>0, <2>1 DEF LocalInv, AddingInv
    <3>4. u \in Nodes
      BY <1>0, <3>3, RootIsThere DEF ParentOf, Above, TableInv, NodesOf
    <3>5. Append(local[q], q.code) \in Paths
      BY <2>1, <3>3, RequestsAssumption DEF Paths
    <3>6. ChildType(q) \in NodeType
      BY <2>1, RequestsAssumption DEF ChildType, NodeType, STORE
    <3>7. row \in NodeRows
      BY <2>1, <3>4, <3>5, <3>6, RequestsAssumption DEF NodeRows, NodeRow, OrgNodeStatus
    <3> QED BY <3>1, <3>7, NoneAssumption
  <2>4. row \in NodeRows
    <3>1. nodes'[FreshNode] \in NodeRows \cup {None}
      BY <2>2 DEF TableInv, TablesType
    <3> QED BY <2>3, <3>1
  <2>5. /\ row.tenant = q.tenant /\ row.code = q.code /\ row.type = ChildType(q) /\ row.parent = u
        /\ row.path = Append(local[q], q.code)
    BY DEF NodeRow
  <2>6. \A m \in Here(nodes) : nodes[m].tenant = row.tenant => nodes[m].code # row.code
    BY <1>0, <2>1, <2>5, NoneAssumption DEF NodeCodeFree, NodesOf
  <2>7. /\ row.type # TENANT /\ row.parent \in Here(nodes) /\ nodes[row.parent].tenant = row.tenant
    <3>1. /\ NodesOf(q.tenant) # {}
          /\ IF q.parent = None THEN TENANT < ChildType(q) ELSE Above(q.parent, q.tenant, ChildType(q))
      BY <1>0, <2>1 DEF LocalInv, AddingInv
    <3>2. u \in NodesOf(q.tenant)
      BY <1>0, <3>1, RootIsThere DEF ParentOf, Above, TableInv, NodesOf
    <3>3. ChildType(q) # TENANT
      BY <2>1, RequestsAssumption DEF ChildType, STORE, TENANT
    <3> QED BY <2>5, <3>2, <3>3 DEF NodesOf
  <2>8. ~raced => Holds(q, row.parent) /\ row.path = Append(nodes[row.parent].path, row.code)
    BY <2>1, <2>5 DEF PathInv, PathsRead
  <2> HIDE DEF row, u
  <2> QED BY <2>1, <2>2, <2>4, <2>6, <2>7, <2>8, PathsWithNewNode
<1>2. CASE SaveNode(q)
  BY <1>2, PathsEdited
<1>3. CASE SetStatus(q)
  <2> DEFINE k == stores[q.store].node
             row == Projected(nodes[k], STORE_STATUS_TO_ORG_NODE_STATUS[q.status])
  <2>1. /\ nodes' = [nodes EXCEPT ![k] = row] /\ q.op = "transition_store" /\ step[q] = "set_status"
        /\ step'[q] = "answered" /\ locks'[q] = {} /\ UNCHANGED raced
    BY <1>0, <1>3 DEF SetStatus, At, AnswerAudited, Done, SessionType
  <2>2. k \in Here(nodes) /\ k \in Nodes /\ nodes[k] \in NodeRows
    BY <1>0, <2>1 DEF LocalInv, StoreInv, TableInv, TablesType, KeysInv, Here
  <2>3. row.parent = nodes[k].parent /\ row.code = nodes[k].code /\ row.path = nodes[k].path
    BY <2>2 DEF Projected, NodeRows
  <2> HIDE DEF k, row
  <2>4. \A n \in Nodes : nodes'[n] = IF n = k THEN row ELSE nodes[n]
    BY <1>0, <2>1, <2>2 DEF TablesType
  <2>5. Here(nodes') = Here(nodes)
    <3>1. k \in Here(nodes')
      BY <2>2 DEF RowsStay
    <3>2. DOMAIN nodes' = Nodes /\ DOMAIN nodes = Nodes
      BY <1>0, <2>1 DEF TablesType
    <3> QED BY <2>2, <2>4, <3>1, <3>2 DEF Here
  <2>6. SamePaths
    BY <1>0, <2>3, <2>4, <2>5 DEF SamePaths
  <2>7. PathsRead(q)' /\ \A n \in Nodes : ~Holds(q, n)'
    BY <2>1 DEF PathsRead, Holds
  <2> QED BY <2>1, <2>6, <2>7, PathsUntouched
<1> QED BY <1>1, <1>2, <1>3

\* A tenant's creation writes its root.
LEMMA PathsOfNewTenant ==
    ASSUME TreeInv, TableInv', RowsStay, PathInv, NEW q \in Requests, Only(q), CreateTenant(q)
    PROVE  PathInv'
<1> DEFINE row == NodeRow(q.tenant, TENANT, None, q.name, <<q.name>>)
<1>0. SessionType /\ TableInv /\ TablesType /\ KeysInv
  BY DEF TreeInv, TableInv
<1>1. /\ q.op = "create_tenant" /\ step'[q] = "answered" /\ locks'[q] = {} /\ UNCHANGED raced /\ NodeLeft
      /\ nodes' = [nodes EXCEPT ![FreshNode] = row] /\ tenants[q.tenant] = None
  BY <1>0 DEF CreateTenant, At, AnswerAudited, Done, SessionType
<1>2. FreshNode \in Nodes /\ nodes[FreshNode] = None
  BY <1>1, FreshIsFree
<1>3. /\ row.tenant = q.tenant /\ row.code = q.name /\ row.type = TENANT /\ row.path = <<q.name>>
      /\ row \in NodeRows
  BY <1>1, RequestsAssumption DEF NodeRow, NodeRows, NodeType, TENANT, OrgNodeStatus, Paths
<1>4. \A m \in Here(nodes) : nodes[m].tenant # row.tenant
  BY <1>0, <1>1, <1>3 DEF KeysInv, Here
<1> HIDE DEF row
<1> QED BY <1>1, <1>2, <1>3, <1>4, PathsWithNewNode

\* Only the steps of the tree lock nodes.
LEMMA UsersLockNoNode ==
    ASSUME NEW q \in Requests, SessionType, UserStep(q)
    PROVE  \A n \in Nodes : Holds(q, n)' => Holds(q, n)
<1> USE DEF Proceed, Answer, AnswerAudited, Done, SessionType, Holds, Lock
<1>1. CASE ValidateUser(q)
  BY <1>1 DEF ValidateUser
<1>2. CASE InsertUser(q)
  BY <1>2 DEF InsertUser
<1>3. CASE ReadUser(q)
  BY <1>3 DEF ReadUser
<1>4. CASE LockUser(q)
  BY <1>4 DEF LockUser, RowLock
<1>5. CASE UpdateUserEmail(q)
  BY <1>5 DEF UpdateUserEmail
<1>6. CASE CommitUser(q)
  BY <1>6 DEF CommitUser
<1>7. CASE LockForStatus(q)
  BY <1>7 DEF LockForStatus
<1>8. CASE SetUserStatus(q)
  BY <1>8 DEF SetUserStatus
<1>9. CASE ReadForProvision(q)
  BY <1>9 DEF ReadForProvision
<1>10. CASE GetOrCreateOrg(q)
  BY <1>10 DEF GetOrCreateOrg
<1>11. CASE ProvisionUser(q)
  BY <1>11 DEF ProvisionUser
<1>12. CASE SendInvitation(q)
  BY <1>12 DEF SendInvitation
<1>13. CASE MarkInvited(q)
  BY <1>13 DEF MarkInvited
<1>14. CASE ReconcileAcceptance(q)
  BY <1>14 DEF ReconcileAcceptance
<1>15. CASE AcceptInvitation(q)
  BY <1>15 DEF AcceptInvitation
<1> QED BY <1>1, <1>2, <1>3, <1>4, <1>5, <1>6, <1>7, <1>8, <1>9, <1>10, <1>11, <1>12, <1>13, <1>14, <1>15 DEF UserStep

\* So do not the steps on tenants,
LEMMA TenantsLockNoNode ==
    ASSUME NEW q \in Requests, SessionType, TenantStep(q)
    PROVE  \A n \in Nodes : Holds(q, n)' => Holds(q, n)
<1> USE DEF Proceed, Answer, AnswerAudited, Done, SessionType, Holds, Lock
<1>1. CASE CheckName(q)
  BY <1>1 DEF CheckName
<1>2. CASE CreateTenant(q)
  BY <1>2 DEF CreateTenant
<1>3. CASE UpdateTenant(q)
  BY <1>3 DEF UpdateTenant
<1>4. CASE LockTenant(q)
  BY <1>4 DEF LockTenant, TenantLock
<1>5. CASE TransitionTenant(q)
  BY <1>5 DEF TransitionTenant
<1>6. CASE CheckPresence(q)
  BY <1>6 DEF CheckPresence
<1>7. CASE CompleteOnboarding(q)
  BY <1>7 DEF CompleteOnboarding
<1>8. CASE ProvisionOrganization(q)
  BY <1>8 DEF ProvisionOrganization
<1>9. CASE SetAuth0OrgId(q)
  BY <1>9 DEF SetAuth0OrgId
<1>10. CASE upsert_legal_profile(q)
  BY <1>10 DEF upsert_legal_profile, Upsert
<1>11. CASE upsert_billing_profile(q)
  BY <1>11 DEF upsert_billing_profile, Upsert
<1>12. CASE replace_contacts(q)
  BY <1>12 DEF replace_contacts, Replace
<1>13. CASE replace_tax_registrations(q)
  BY <1>13 DEF replace_tax_registrations, Replace
<1>14. CASE CheckNotCompleted(q)
  BY <1>14 DEF CheckNotCompleted
<1>15. CASE UpsertOnboarding(q)
  BY <1>15 DEF UpsertOnboarding
<1>16. CASE CreatePending(q)
  BY <1>16 DEF CreatePending
<1>17. CASE LockDocument(q)
  BY <1>17 DEF LockDocument
<1>18. CASE verify(q)
  BY <1>18 DEF verify, SetReview
<1>19. CASE reject(q)
  BY <1>19 DEF reject, SetReview
<1>20. CASE DeleteObject(q)
  BY <1>20 DEF DeleteObject
<1>21. CASE DeleteDocument(q)
  BY <1>21 DEF DeleteDocument
<1>22. CASE SelectModule(q)
  BY <1>22 DEF SelectModule
<1>23. CASE enable(q)
  BY <1>23 DEF enable, WriteModule
<1>24. CASE disable(q)
  BY <1>24 DEF disable, WriteModule
<1>25. CASE UpsertChannel(q)
  BY <1>25 DEF UpsertChannel, ChannelLock
<1>26. CASE WriteSecret(q)
  BY <1>26 DEF WriteSecret
<1>27. CASE CommitChannel(q)
  BY <1>27 DEF CommitChannel
<1> QED BY <1>1, <1>2, <1>3, <1>4, <1>5, <1>6, <1>7, <1>8, <1>9, <1>10, <1>11, <1>12, <1>13, <1>14, <1>15, <1>16, <1>17, <1>18, <1>19, <1>20, <1>21, <1>22, <1>23, <1>24, <1>25, <1>26, <1>27 DEF TenantStep

\* on roles,
LEMMA RolesLockNoNode ==
    ASSUME NEW q \in Requests, SessionType, RoleStep(q)
    PROVE  \A n \in Nodes : Holds(q, n)' => Holds(q, n)
<1> USE DEF Proceed, Answer, AnswerAudited, Done, SessionType, Holds, Lock
<1>1. CASE ReadRole(q)
  BY <1>1 DEF ReadRole
<1>2. CASE CountHolders(q)
  BY <1>2 DEF CountHolders
<1>3. CASE WriteRole(q)
  BY <1>3 DEF WriteRole
<1>4. CASE CommitRole(q)
  BY <1>4 DEF CommitRole
<1> QED BY <1>1, <1>2, <1>3, <1>4 DEF RoleStep

\* and of the mirror job.
LEMMA MirrorLocksNoNode ==
    ASSUME NEW q \in Requests, SessionType, MirrorStep(q)
    PROVE  \A n \in Nodes : Holds(q, n)' => Holds(q, n)
<1> USE DEF Proceed, Answer, AnswerAudited, Done, SessionType, Holds, Lock
<1>1. CASE ReadTenants(q)
  BY <1>1 DEF ReadTenants
<1>2. CASE ReadStores(q)
  BY <1>2 DEF ReadStores
<1>3. CASE FinishPass(q)
  BY <1>3 DEF FinishPass
<1>4. ASSUME NEW t \in Tenants, UpsertTenant(q, t) PROVE \A n \in Nodes : Holds(q, n)' => Holds(q, n)
  BY <1>4 DEF UpsertTenant
<1> QED BY <1>1, <1>2, <1>3, <1>4 DEF MirrorStep

\* Of the steps on tenants, the creation writes a node.
LEMMA TenantsLeaveTree ==
    ASSUME NEW q \in Requests, TenantStep(q), ~CreateTenant(q)
    PROVE  UNCHANGED <<nodes, stores, raced>>
<1> USE DEF treeVars
<1>1. CASE CheckName(q)
  BY <1>1 DEF CheckName
<1>2. CASE UpdateTenant(q)
  BY <1>2 DEF UpdateTenant
<1>3. CASE LockTenant(q)
  BY <1>3 DEF LockTenant, TenantLock
<1>4. CASE TransitionTenant(q)
  BY <1>4 DEF TransitionTenant
<1>5. CASE CheckPresence(q)
  BY <1>5 DEF CheckPresence
<1>6. CASE CompleteOnboarding(q)
  BY <1>6 DEF CompleteOnboarding
<1>7. CASE ProvisionOrganization(q)
  BY <1>7 DEF ProvisionOrganization
<1>8. CASE SetAuth0OrgId(q)
  BY <1>8 DEF SetAuth0OrgId
<1>9. CASE upsert_legal_profile(q)
  BY <1>9 DEF upsert_legal_profile, Upsert
<1>10. CASE upsert_billing_profile(q)
  BY <1>10 DEF upsert_billing_profile, Upsert
<1>11. CASE replace_contacts(q)
  BY <1>11 DEF replace_contacts, Replace
<1>12. CASE replace_tax_registrations(q)
  BY <1>12 DEF replace_tax_registrations, Replace
<1>13. CASE CheckNotCompleted(q)
  BY <1>13 DEF CheckNotCompleted
<1>14. CASE UpsertOnboarding(q)
  BY <1>14 DEF UpsertOnboarding
<1>15. CASE CreatePending(q)
  BY <1>15 DEF CreatePending
<1>16. CASE LockDocument(q)
  BY <1>16 DEF LockDocument
<1>17. CASE verify(q)
  BY <1>17 DEF verify, SetReview
<1>18. CASE reject(q)
  BY <1>18 DEF reject, SetReview
<1>19. CASE DeleteObject(q)
  BY <1>19 DEF DeleteObject
<1>20. CASE DeleteDocument(q)
  BY <1>20 DEF DeleteDocument
<1>21. CASE SelectModule(q)
  BY <1>21 DEF SelectModule
<1>22. CASE enable(q)
  BY <1>22 DEF enable, WriteModule
<1>23. CASE disable(q)
  BY <1>23 DEF disable, WriteModule
<1>24. CASE UpsertChannel(q)
  BY <1>24 DEF UpsertChannel, ChannelLock
<1>25. CASE WriteSecret(q)
  BY <1>25 DEF WriteSecret
<1>26. CASE CommitChannel(q)
  BY <1>26 DEF CommitChannel
<1> QED BY <1>1, <1>2, <1>3, <1>4, <1>5, <1>6, <1>7, <1>8, <1>9, <1>10, <1>11, <1>12, <1>13, <1>14, <1>15, <1>16, <1>17, <1>18, <1>19, <1>20, <1>21, <1>22, <1>23, <1>24, <1>25, <1>26 DEF TenantStep

\* A request of another kind has read no path.
LEMMA OthersReadNoPath ==
    ASSUME NEW q \in Requests,
           q.op \notin TreeOps \/ step'[q] \in {"received", "answered"}
    PROVE  PathsRead(q)'
BY DEF PathsRead, TreeOps, EditOps

LEMMA PathsKept == TreeInv /\ PathInv /\ [Next]_vars => PathInv'
<1> SUFFICES ASSUME TreeInv, PathInv, [Next]_vars PROVE PathInv'
  OBVIOUS
<1>0. SessionType /\ TableInv
  BY DEF TreeInv
<1>1. CASE Next
  <2>1. PICK q \in Requests :
          \/ Authorize(q) /\ UNCHANGED mirrorVars
          \/ OrgTreeStep(q) /\ UNCHANGED <<userVars, tenantVars, mirrorVars, roleVars>>
          \/ UserStep(q) /\ UNCHANGED <<tenantVars, mirrorVars, roleVars>>
          \/ TenantStep(q) /\ UNCHANGED <<mirrorVars, roleVars>>
          \/ MirrorStep(q) /\ UNCHANGED roleVars
          \/ RoleStep(q) /\ UNCHANGED <<treeVars, userVars, tenantVars, mirrorVars>>
          \/ RollbackTenant(q) /\ UNCHANGED <<mirrorVars, roleVars>>
    BY <1>1 DEF Next
  <2>2. TableInv' /\ RowsStay
    BY <1>1, EveryStep
  <2>3. Only(q)
    BY <1>0, <2>1, GateSession, TreeSession, UserSession, TenantSession, MirrorSession, RoleSession,
       FailureSession
  <2>4. CASE OrgTreeStep(q) /\ UNCHANGED tenantVars
    <3>1. UNCHANGED tenants
      BY <2>4 DEF tenantVars
    <3> QED BY <2>2, <2>3, <2>4, <3>1, PathsLocked, PathsWritten DEF OrgTreeStep
  <2>5. CASE CreateTenant(q)
    BY <2>2, <2>3, <2>5, PathsOfNewTenant
  <2>6. ASSUME UNCHANGED <<nodes, stores, raced>>, PathsRead(q)', \A n \in Nodes : Holds(q, n)' => Holds(q, n)
        PROVE  PathInv'
    <3>1. SamePaths
      BY <2>6 DEF SamePaths
    <3> QED BY <2>2, <2>3, <2>6, <3>1, PathsUntouched
  <2>7. CASE Authorize(q)
    <3>1. UNCHANGED <<nodes, stores, raced>> /\ step'[q] = "received" /\ \A n \in Nodes : Holds(q, n)' => Holds(q, n)
      BY <1>0, <2>7 DEF Authorize, treeVars, Proceed, SessionType, Holds
    <3> QED BY <2>6, <3>1, OthersReadNoPath
  <2>8. CASE UserStep(q)
    <3>1. UNCHANGED <<nodes, stores, raced>> /\ q.op \notin TreeOps
      BY <1>0, <2>8, UserSession DEF treeVars, UserOps, TreeOps
    <3> QED BY <1>0, <2>6, <2>8, <3>1, OthersReadNoPath, UsersLockNoNode
  <2>9. CASE TenantStep(q) /\ ~CreateTenant(q)
    <3>1. UNCHANGED <<nodes, stores, raced>> /\ q.op \notin TreeOps
      BY <1>0, <2>9, TenantSession, TenantsLeaveTree DEF TenantOps, TreeOps
    <3> QED BY <1>0, <2>6, <2>9, <3>1, OthersReadNoPath, TenantsLockNoNode
  <2>10. CASE MirrorStep(q)
    <3>1. UNCHANGED <<nodes, stores, raced>> /\ q.op \notin TreeOps
      BY <1>0, <2>10, MirrorSession DEF treeVars, MirrorOps, TreeOps
    <3> QED BY <1>0, <2>6, <2>10, <3>1, OthersReadNoPath, MirrorLocksNoNode
  <2>11. CASE RoleStep(q) /\ UNCHANGED treeVars
    <3>1. UNCHANGED <<nodes, stores, raced>> /\ q.op \notin TreeOps
      BY <1>0, <2>11, RoleSession DEF treeVars, RoleOps, TreeOps
    <3> QED BY <1>0, <2>6, <2>11, <3>1, OthersReadNoPath, RolesLockNoNode
  <2>12. CASE RollbackTenant(q)
    <3>1. UNCHANGED <<nodes, stores, raced>> /\ step'[q] = "answered" /\ \A n \in Nodes : ~Holds(q, n)'
      BY <1>0, <2>12, FailureSession DEF RollbackTenant, RollbackUser, treeVars, Holds
    <3> QED BY <2>6, <3>1, OthersReadNoPath
  <2> QED BY <2>1, <2>4, <2>5, <2>7, <2>8, <2>9, <2>10, <2>11, <2>12
<1>2. CASE UNCHANGED vars
  <2>1. UNCHANGED <<nodes, stores, raced, step, local, locks>>
    BY <1>2 DEF vars, treeVars, sessionVars
  <2>2. \A q \in Requests : PathsRead(q)' <=> PathsRead(q)
    BY <2>1 DEF PathsRead, Holds, ParentOf, Root, NodesOf, Here, Target, NewPath, Subtree
  <2> QED BY <2>1, <2>2 DEF PathInv, ExclusiveInv, CodesInv, CoherentInv, Holds, Here
<1> QED BY <1>1, <1>2

LEMMA PathsStart == Init => PathInv
<1> SUFFICES ASSUME Init PROVE PathInv
  OBVIOUS
<1>1. \A q \in Requests : step[q] \in {"answered", "received", "arrived"} /\ locks[q] = {}
  BY StartsAssumption DEF Init, SessionInit
<1>2. nodes = SeedNodes
  BY DEF Init
<1>3. /\ \A n \in Here(SeedNodes) :
            SeedNodes[n].path = IF SeedNodes[n].type = TENANT THEN <<SeedNodes[n].code>>
                                ELSE Append(SeedNodes[SeedNodes[n].parent].path, SeedNodes[n].code)
      /\ \A n \in Here(SeedNodes) : \A m \in Here(SeedNodes) \ {n} :
            SeedNodes[m].tenant = SeedNodes[n].tenant => SeedNodes[m].code # SeedNodes[n].code
  BY SeedPathsAssumption
<1>4. CodesInv
  BY <1>2, <1>3 DEF CodesInv
<1>5. CoherentInv
  BY <1>2, <1>3 DEF CoherentInv
<1>6. ExclusiveInv /\ \A q \in Requests : PathsRead(q)
  BY <1>1 DEF ExclusiveInv, PathsRead, Holds
<1> QED BY <1>4, <1>5, <1>6 DEF PathInv

\* The organisation tree is sound: typed, well-founded, with every path the parent's path and
\* the node's code as long as no re-path had to wait for another writer of its subtree
\* (org_nodes.py edit_node), and with stores that agree with their nodes; for any requests,
\* in every interleaving of their statements.
THEOREM OrgTreeStaysSound == Spec => []OrgTreeIsSound
<1>1. ASSUME TableInv, PathInv PROVE PathsAreCoherent
  BY <1>1 DEF PathInv, CoherentInv, PathsAreCoherent
<1>2. TreeInv /\ PathInv => PathsAreCoherent
  BY <1>1 DEF TreeInv
<1>3. Spec => []PathsAreCoherent
  BY <1>2, TreeStarts, TreeKept, PathsStart, PathsKept, PTL DEF Spec
<1> QED BY <1>3, RowsAreTyped, ParentsStayAbove, StoresStayPaired, PTL DEF OrgTreeIsSound

-----------------------------------------------------------------------------
(* Users and their identities. *)

\* The PATCHes that have locked the user's row, and with it the new address.
Patching(q) == q.op = "patch_user" /\ step[q] \in {"apply", "commit_user"}

UsersType ==
    /\ users \in [Users -> UserRows \cup {None}]
    /\ identities \in [Subs -> IdentityRows \cup {None}]
    /\ orgs \subseteq Tenants /\ DOMAIN asked = Users /\ drifted \in BOOLEAN

\* The table and its unique indexes.
UniqueUsers ==
    /\ \A u, v \in Here(users) : users[u].email = users[v].email => u = v
    /\ \A u, v \in Here(users) :
          users[u].sub = users[v].sub /\ users[u].tenant = users[v].tenant => users[u].sub = None \/ u = v
    /\ \A r, s \in Here(identities) : identities[r].email = identities[s].email => r = s

\* A user has the assignments it was given last; one with an identity has accepted.
BoundUsers ==
    /\ \A u \in Here(users) : users[u].roles = asked[u]
    /\ \A u \in Here(users) : users[u].sub # None =>
          users[u].status # "INVITED" /\ users[u].sub \in Here(identities)
    /\ \A s \in Here(identities) : identities[s].user \in Here(users)

\* What a request knows of the user it is about.
KnowsUser(q) ==
    /\ /\ q.op \in {"patch_user", "transition_user", "provision_user", "send_invitation"}
       /\ InFlight(q)
       => q.user \in Here(users)
    /\ q.op = "provision_user" /\ InFlight(q) => local[q] \in UserRows
    /\ q.op = "login" /\ InFlight(q) => local[q] \in Here(users) /\ q.sub \in Here(identities)
    /\ Patching(q) =>
          /\ RowLock(q) \subseteq locks[q]
          /\ local[q].current = users[q.user].roles
          /\ q.email # None => ~EmailInUse(q.email, q.user)
    /\ At(q, "patch_user", "commit_user") => q.email # None /\ users[q.user].sub # None

PatchesApart ==
    \A p, q \in Requests : Patching(p) /\ Patching(q) /\ p # q =>
        p.user # q.user /\ (p.email = None \/ p.email # q.email)

\* The requests that change the address, the identity or the link between them.
BindingOps == {"patch_user", "provision_user", "login"}

\* As long as those do not overlap, what they have read still stands ...
ReadsStand(q) ==
    /\ q.op \in {"patch_user", "provision_user"} /\ InFlight(q) => local[q].email = users[q.user].email
    /\ q.op = "login" /\ InFlight(q) => local[q] = identities[q.sub].user
    /\ At(q, "patch_user", "commit_user") => identities[users[q.user].sub].email = q.email

\* ... and an identity has the address of its user, unless a PATCH is about to commit it.
UsersAgree ==
    /\ \A p, q \in Requests :
          p.op \in BindingOps /\ q.op \in BindingOps /\ InFlight(p) /\ InFlight(q) => p = q
    /\ \A q \in Requests : ReadsStand(q)
    /\ \A r, s \in Here(identities) : identities[r].user = identities[s].user => r = s
    /\ \A u \in Here(users) : users[u].sub # None => identities[users[u].sub].user = u
    /\ \A s \in Here(identities) :
          \/ identities[s].email = users[identities[s].user].email
          \/ \E q \in Requests : /\ At(q, "patch_user", "commit_user")
                                 /\ q.user = identities[s].user /\ users[q.user].sub = s

BindInv ==
    /\ UsersType /\ UniqueUsers /\ BoundUsers /\ PatchesApart
    /\ \A q \in Requests : KnowsUser(q)
    /\ ~drifted => UsersAgree

\* What the other requests are at, a step of q leaves alone.
LEMMA OthersKeep ==
    ASSUME NEW q \in Requests, Only(q), NEW p \in Requests, p # q
    PROVE  /\ step'[p] = step[p] /\ local'[p] = local[p] /\ locks'[p] = locks[p]
           /\ InFlight(p)' <=> InFlight(p)
           /\ Patching(p)' <=> Patching(p)
           /\ At(p, "patch_user", "commit_user")' <=> At(p, "patch_user", "commit_user")
BY DEF Only, InFlight, Patching, At

\* A request about something else, or at its beginning or end, knows nothing of a user.
LEMMA NothingKnown ==
    ASSUME NEW q \in Requests, q.op \notin UserOps \/ step'[q] \in {"received", "answered"}
    PROVE  /\ KnowsUser(q)' /\ ReadsStand(q)' /\ ~Patching(q)'
           /\ ~At(q, "patch_user", "commit_user")'
           /\ q.op \notin BindingOps \/ ~InFlight(q)'
<1>1. ~Patching(q)' /\ ~At(q, "patch_user", "commit_user")'
  BY DEF UserOps, Patching, At
<1>2. q.op \notin BindingOps \/ ~InFlight(q)'
  BY DEF UserOps, BindingOps, InFlight
<1>3. ~InFlight(q)' \/ q.op \notin UserOps
  BY DEF InFlight
<1> QED BY <1>1, <1>2, <1>3 DEF KnowsUser, ReadsStand, UserOps, Patching, At

\* The rows keep what links them to identities, and their assignments.
SameUsers ==
    /\ Here(users') = Here(users)
    /\ \A u \in Here(users) : /\ users'[u].email = users[u].email
                              /\ users'[u].tenant = users[u].tenant
                              /\ users'[u].sub = users[u].sub
                              /\ users'[u].roles = users[u].roles

\* A statement that changes neither an address nor an identity nor an assignment.
LEMMA UsersUntouched ==
    ASSUME BindInv, NEW q \in Requests, Only(q), SameUsers, UNCHANGED <<identities, asked>>,
           UsersType', BoundUsers', PatchesApart', KnowsUser(q)', drifted => drifted',
           ~At(q, "patch_user", "commit_user")',
           ~drifted' => /\ ReadsStand(q)' /\ ~At(q, "patch_user", "commit_user")
                        /\ \/ q.op \notin BindingOps \/ ~InFlight(q)' \/ InFlight(q)
                           \/ \A p \in Requests \ {q} : p.op \in BindingOps => ~InFlight(p)
    PROVE  BindInv'
<1>1. /\ Here(users)' = Here(users) /\ Here(identities)' = Here(identities)
      /\ \A u \in Here(users) : /\ users'[u].email = users[u].email
                                /\ users'[u].tenant = users[u].tenant
                                /\ users'[u].sub = users[u].sub
                                /\ users'[u].roles = users[u].roles
  BY DEF SameUsers, Here
<1>2. UniqueUsers'
  BY <1>1 DEF BindInv, UniqueUsers
<1>3. ASSUME NEW p \in Requests, p # q PROVE KnowsUser(p)'
  <2>1. KnowsUser(p)
    BY DEF BindInv
  <2>2. Patching(p) => InFlight(p) /\ p.op = "patch_user"
    BY DEF Patching, InFlight
  <2>3. At(p, "patch_user", "commit_user") => InFlight(p) /\ p.op = "patch_user"
    BY DEF At, InFlight
  <2>4. EmailInUse(p.email, p.user)' => EmailInUse(p.email, p.user)
    BY <1>1 DEF EmailInUse
  <2> QED BY <1>1, <1>3, <2>1, <2>2, <2>3, <2>4, OthersKeep DEF KnowsUser, RowLock
<1>4. ASSUME ~drifted' PROVE UsersAgree'
  <2>0. UsersAgree /\ BoundUsers /\ UsersType /\ \A p \in Requests : KnowsUser(p)
    BY <1>4 DEF BindInv
  <2>1. \A p, r \in Requests :
           p.op \in BindingOps /\ r.op \in BindingOps /\ InFlight(p)' /\ InFlight(r)' => p = r
    BY <1>4, <2>0, OthersKeep DEF UsersAgree
  <2>2. ASSUME NEW p \in Requests PROVE ReadsStand(p)'
    <3>1. CASE p = q
      BY <1>4, <3>1
    <3>2. CASE p # q
      <4>1. ReadsStand(p) /\ KnowsUser(p)
        BY <2>0 DEF UsersAgree
      <4>2. At(p, "patch_user", "commit_user") => InFlight(p) /\ p.op = "patch_user"
        BY DEF At, InFlight
      <4> QED BY <1>1, <3>2, <4>1, <4>2, OthersKeep DEF ReadsStand, KnowsUser
    <3> QED BY <3>1, <3>2
  <2>3. \A r, s \in Here(identities)' : identities'[r].user = identities'[s].user => r = s
    BY <1>1, <2>0 DEF UsersAgree
  <2>4. \A u \in Here(users)' : users'[u].sub # None => identities'[users'[u].sub].user = u
    BY <1>1, <2>0 DEF UsersAgree
  <2>5. ASSUME NEW s \in Here(identities)'
        PROVE  \/ identities'[s].email = users'[identities'[s].user].email
               \/ \E p \in Requests : /\ At(p, "patch_user", "commit_user")'
                                      /\ p.user = identities'[s].user /\ users'[p.user].sub = s
    <3>1. s \in Here(identities) /\ identities[s].user \in Here(users)
      BY <1>1, <2>0 DEF BoundUsers
    <3>2. CASE identities[s].email = users[identities[s].user].email
      BY <1>1, <3>1, <3>2
    <3>3. CASE \E p \in Requests : /\ At(p, "patch_user", "commit_user")
                                   /\ p.user = identities[s].user /\ users[p.user].sub = s
      <4>1. PICK p \in Requests : /\ At(p, "patch_user", "commit_user")
                                  /\ p.user = identities[s].user /\ users[p.user].sub = s
        BY <3>3
      <4>2. p # q
        BY <1>4, <4>1
      <4>3. At(p, "patch_user", "commit_user")'
        BY <4>1, <4>2, OthersKeep
      <4>4. p.user = identities'[s].user /\ users'[p.user].sub = s
        BY <1>1, <3>1, <4>1
      <4> QED BY <4>3, <4>4
    <3> QED BY <2>0, <3>1, <3>2, <3>3 DEF UsersAgree
  <2> HIDE DEF BindInv
  <2> QED BY <2>1, <2>2, <2>3, <2>4, <2>5 DEF UsersAgree
<1> QED BY <1>2, <1>3, <1>4 DEF BindInv

\* The statements of requests about users that change no table.
LEMMA UserReads ==
    ASSUME BindInv, SessionType, NEW q \in Requests,
           ValidateUser(q) \/ LockForStatus(q) \/ SendInvitation(q) \/ GetOrCreateOrg(q)
    PROVE  BindInv'
<1>0. Only(q) /\ q.op \in UserOps
  BY UserSession DEF UserStep
<1>1. /\ UNCHANGED <<users, identities, asked, drifted>>
      /\ step'[q] \notin {"apply", "commit_user"}
      /\ q.op \in {"create_user", "transition_user", "send_invitation"} \/ GetOrCreateOrg(q)
  BY DEF ValidateUser, LockForStatus, SendInvitation, GetOrCreateOrg, At, Proceed, SessionType, userVars
<1>2. SameUsers
  BY <1>1 DEF SameUsers
<1>3. ~Patching(q)' /\ ~At(q, "patch_user", "commit_user")'
  BY <1>1 DEF Patching, At
<1>4. PatchesApart'
  BY <1>0, <1>3, OthersKeep DEF BindInv, PatchesApart
<1>5. BoundUsers'
  BY <1>1 DEF BindInv, BoundUsers, Here
<1>6. CASE GetOrCreateOrg(q)
  <2>1. /\ step[q] = "get_org" /\ step'[q] = "get_user" /\ q.op = "provision_user"
        /\ local'[q] = local[q] /\ orgs' = orgs \cup {local[q].tenant}
    BY <1>6 DEF GetOrCreateOrg, At, Proceed, SessionType
  <2>2. InFlight(q) /\ InFlight(q)' /\ KnowsUser(q)
    BY <2>1 DEF InFlight, BindInv
  <2>3. q.user \in Here(users) /\ local[q] \in UserRows
    BY <2>1, <2>2 DEF KnowsUser
  <2>4. UsersType'
    BY <1>1, <2>1, <2>3 DEF BindInv, UsersType, UserRows
  <2>5. KnowsUser(q)'
    BY <1>1, <1>3, <2>1, <2>3 DEF KnowsUser, Here
  <2>6. ~drifted => ReadsStand(q)' /\ ~At(q, "patch_user", "commit_user")
    BY <1>1, <2>1, <2>2 DEF BindInv, UsersAgree, ReadsStand, At
  <2> QED BY <1>0, <1>1, <1>2, <1>3, <1>4, <1>5, <2>2, <2>4, <2>5, <2>6, UsersUntouched
<1>7. CASE q.op \in {"create_user", "transition_user", "send_invitation"}
  <2>1. UsersType'
    BY <1>1, <1>7 DEF BindInv, UsersType, ValidateUser, LockForStatus, SendInvitation, GetOrCreateOrg, At, userVars
  <2>2. q.op # "create_user" => q.user \in Users /\ users[q.user] # None
    BY <1>7, UserRequestsAssumption DEF ValidateUser, LockForStatus, SendInvitation, GetOrCreateOrg, At, UserOps
  <2>3. KnowsUser(q)'
    BY <1>1, <1>3, <1>7, <2>2 DEF KnowsUser, Here, At, BindInv, UsersType
  <2>4. ReadsStand(q)' /\ ~At(q, "patch_user", "commit_user") /\ q.op \notin BindingOps
    BY <1>7 DEF ReadsStand, At, BindingOps
  <2> QED BY <1>0, <1>1, <1>2, <1>3, <1>4, <1>5, <2>1, <2>3, <2>4, UsersUntouched
<1> QED BY <1>1, <1>6, <1>7

\* The first statement of a request that binds a user to an address or an identity.
LEMMA BindingStarts ==
    ASSUME BindInv, SessionType, NEW q \in Requests,
           ReadUser(q) \/ ReadForProvision(q) \/ ReconcileAcceptance(q)
    PROVE  BindInv'
<1>0. Only(q) /\ q.op \in UserOps
  BY UserSession DEF UserStep
<1>1. /\ UNCHANGED <<users, identities, orgs, asked>> /\ drifted' = (drifted \/ Overlaps(q))
      /\ step[q] = "received" /\ step'[q] \in {"lock_user", "get_org", "accept"}
  BY DEF ReadUser, ReadForProvision, ReconcileAcceptance, At, Proceed, SessionType
<1>2. SameUsers
  BY <1>1 DEF SameUsers
<1>3. ~Patching(q)' /\ ~At(q, "patch_user", "commit_user")' /\ ~At(q, "patch_user", "commit_user")
  BY <1>1 DEF Patching, At
<1>4. PatchesApart'
  BY <1>0, <1>3, OthersKeep DEF BindInv, PatchesApart
<1>5. BoundUsers' /\ UsersType'
  BY <1>1 DEF BindInv, BoundUsers, UsersType, Here, Overlaps
<1>6. ~drifted' => \A p \in Requests \ {q} : p.op \in BindingOps => ~InFlight(p)
  BY <1>1 DEF BindInv, UsersType, Overlaps, BindingOps, UserOps
<1>7. KnowsUser(q)' /\ ReadsStand(q)'
  <2>1. CASE ReadUser(q)
    <3>1. /\ q.op = "patch_user" /\ local'[q] = [email |-> users[q.user].email]
          /\ q.user \in Users /\ users[q.user] # None
      BY <2>1, UserRequestsAssumption DEF ReadUser, At, Proceed, SessionType, UserOps
    <3>2. local'[q].email = users[q.user].email
      BY <3>1
    <3> QED BY <1>1, <1>3, <3>1, <3>2 DEF KnowsUser, ReadsStand, Here, BindInv, UsersType
  <2>2. CASE ReadForProvision(q)
    <3>1. /\ q.op = "provision_user" /\ local'[q] = users[q.user]
          /\ q.user \in Users /\ users[q.user] # None
      BY <2>2, UserRequestsAssumption DEF ReadForProvision, At, Proceed, SessionType, UserOps
    <3>2. users[q.user] \in UserRows
      BY <3>1 DEF BindInv, UsersType
    <3> QED BY <1>1, <1>3, <3>1, <3>2 DEF KnowsUser, ReadsStand, Here, BindInv, UsersType
  <2>3. CASE ReconcileAcceptance(q)
    <3>1. /\ q.op = "login" /\ local'[q] = identities[q.sub].user
          /\ q.sub \in Subs /\ identities[q.sub] # None
      BY <2>3, UserRequestsAssumption DEF ReconcileAcceptance, At, Proceed, SessionType
    <3>2. q.sub \in Here(identities) /\ identities[q.sub].user \in Here(users)
      BY <3>1 DEF BindInv, UsersType, BoundUsers, Here
    <3> QED BY <1>1, <1>3, <3>1, <3>2 DEF KnowsUser, ReadsStand, Here
  <2> QED BY <2>1, <2>2, <2>3
<1> QED BY <1>0, <1>1, <1>2, <1>3, <1>4, <1>5, <1>6, <1>7, UsersUntouched

\* A PATCH locks its user's row, and the new address.
LEMMA UserIsLocked ==
    ASSUME BindInv, SessionType, NEW q \in Requests, LockUser(q)
    PROVE  BindInv'
<1>0. Only(q) /\ q.op = "patch_user"
  BY UserSession DEF UserStep, LockUser, At
<1>1. /\ UNCHANGED <<users, identities, orgs, asked, drifted>>
      /\ step[q] = "lock_user" /\ step'[q] = "apply"
      /\ local'[q] = [email |-> local[q].email, current |-> users[q.user].roles]
      /\ locks'[q] = locks[q] \cup RowLock(q)
      /\ \A l \in RowLock(q) : Free(q, l.row, l.mode)
      /\ q.email # None => ~EmailInUse(q.email, q.user)
  BY DEF LockUser, At, Proceed, SessionType, userVars
<1>2. SameUsers /\ BoundUsers' /\ UsersType'
  BY <1>1 DEF SameUsers, BindInv, BoundUsers, UsersType, Here
<1>3. InFlight(q) /\ ~At(q, "patch_user", "commit_user") /\ ~At(q, "patch_user", "commit_user")'
  BY <1>1 DEF InFlight, At
<1>4. q.user \in Here(users)
  BY <1>0, <1>3 DEF BindInv, KnowsUser
<1>5. local'[q].email = local[q].email /\ local'[q].current = users[q.user].roles
  BY <1>1
<1>6. KnowsUser(q)'
  <2>1. EmailInUse(q.email, q.user)' = EmailInUse(q.email, q.user)
    BY <1>1 DEF EmailInUse, Here
  <2> QED BY <1>0, <1>1, <1>3, <1>4, <1>5, <2>1 DEF KnowsUser, RowLock, Here
<1>7. ASSUME NEW p \in Requests, p # q, Patching(p)
      PROVE  p.user # q.user /\ (p.email = None \/ p.email # q.email)
  <2>1. RowLock(p) \subseteq locks[p]
    BY <1>7 DEF BindInv, KnowsUser
  <2>2. p.user # q.user
    <3>1. SUFFICES ASSUME p.user = q.user PROVE FALSE
      OBVIOUS
    <3>2. Lock(<<"user", q.user>>, "no_key") \in locks[p]
      BY <2>1, <3>1 DEF RowLock
    <3>3. Free(q, <<"user", q.user>>, "no_key")
      <4> DEFINE l == Lock(<<"user", q.user>>, "no_key")
      <4>1. l \in RowLock(q)
        BY DEF RowLock
      <4>2. l.row = <<"user", q.user>> /\ l.mode = "no_key"
        BY DEF Lock
      <4> HIDE DEF l
      <4>3. Free(q, l.row, l.mode)
        BY <1>1, <4>1
      <4> QED BY <4>2, <4>3
    <3>4. Compatible("no_key", "no_key")
      BY <1>7, <3>2, <3>3 DEF Free, Lock
    <3> QED BY <3>4 DEF Compatible
  <2>3. ASSUME p.email # None PROVE p.email # q.email
    <3>1. SUFFICES ASSUME p.email = q.email PROVE FALSE
      OBVIOUS
    <3>2. Lock(<<"email", q.email>>, "update") \in locks[p]
      BY <2>1, <2>3, <3>1 DEF RowLock
    <3>3. Free(q, <<"email", q.email>>, "update")
      <4> DEFINE l == Lock(<<"email", q.email>>, "update")
      <4>1. l \in RowLock(q)
        BY <2>3, <3>1 DEF RowLock
      <4>2. l.row = <<"email", q.email>> /\ l.mode = "update"
        BY DEF Lock
      <4> HIDE DEF l
      <4>3. Free(q, l.row, l.mode)
        BY <1>1, <4>1
      <4> QED BY <4>2, <4>3
    <3>4. Compatible("update", "update")
      BY <1>7, <3>2, <3>3 DEF Free, Lock
    <3> QED BY <3>4 DEF Compatible
  <2> QED BY <2>2, <2>3
<1>8. PatchesApart'
  <2>1. \A p \in Requests : p # q /\ Patching(p)' => Patching(p)
    BY <1>0, OthersKeep
  <2> QED BY <1>7, <2>1 DEF BindInv, PatchesApart
<1>9. ~drifted => ReadsStand(q)'
  BY <1>0, <1>1, <1>3, <1>5 DEF BindInv, UsersAgree, ReadsStand, At
<1> QED BY <1>0, <1>1, <1>2, <1>3, <1>6, <1>8, <1>9, UsersUntouched

\* A status, or the mark of an invitation, is written.
LEMMA UserIsMarked ==
    ASSUME BindInv, SessionType, NEW q \in Requests, SetUserStatus(q) \/ MarkInvited(q)
    PROVE  BindInv'
<1>0. Only(q) /\ q.op \in {"transition_user", "send_invitation"} /\ q.user \in Users
  BY UserSession, UserRequestsAssumption DEF UserStep, SetUserStatus, MarkInvited, At, UserOps
<1>1. /\ UNCHANGED <<identities, orgs, asked, drifted>>
      /\ step[q] \in {"set_status", "mark_invited"} /\ step'[q] = "answered"
  BY DEF SetUserStatus, MarkInvited, At, Answer, AnswerAudited, Done, SessionType
<1>2. q.user \in Here(users)
  BY <1>0, <1>1 DEF BindInv, KnowsUser, InFlight
<1>3. users[q.user] \in UserRows /\ DOMAIN users = Users
  BY <1>0, <1>2 DEF BindInv, UsersType, Here
<1>4. PICK row \in UserRows :
         /\ users' = [users EXCEPT ![q.user] = row]
         /\ row.email = users[q.user].email /\ row.sub = users[q.user].sub /\ row.tenant = users[q.user].tenant
         /\ row.roles = users[q.user].roles
         /\ users[q.user].status # "INVITED" => row.status # "INVITED"
  <2>1. CASE SetUserStatus(q)
    <3> DEFINE row == [users[q.user] EXCEPT !.status = q.status, !.suspended = (q.status = "SUSPENDED")]
    <3>1. q.status \in {"SUSPENDED", "ACTIVE"}
      BY <2>1, UserRequestsAssumption DEF SetUserStatus, At
    <3>2. row \in UserRows /\ row.email = users[q.user].email /\ row.sub = users[q.user].sub
          /\ row.tenant = users[q.user].tenant /\ row.roles = users[q.user].roles /\ row.status # "INVITED"
      BY <1>3, <3>1 DEF UserRows, UserStatus
    <3>3. users' = [users EXCEPT ![q.user] = row]
      BY <1>0, <1>3, <2>1 DEF SetUserStatus
    <3> QED BY <3>2, <3>3
  <2>2. CASE MarkInvited(q)
    <3> DEFINE row == [users[q.user] EXCEPT !.invited = TRUE]
    <3>1. row \in UserRows /\ row.email = users[q.user].email /\ row.sub = users[q.user].sub
          /\ row.tenant = users[q.user].tenant /\ row.roles = users[q.user].roles /\ row.status = users[q.user].status
      BY <1>3 DEF UserRows
    <3>2. users' = [users EXCEPT ![q.user] = row]
      BY <1>0, <1>3, <2>2 DEF MarkInvited
    <3> QED BY <3>1, <3>2
  <2> QED BY <2>1, <2>2
<1>5. row # None
  BY <1>4, UserRequestsAssumption
<1>6. /\ Here(users') = Here(users)
      /\ \A u \in Here(users) : users'[u] = IF u = q.user THEN row ELSE users[u]
  BY <1>2, <1>3, <1>4, <1>5 DEF Here
<1>7. SameUsers
  BY <1>4, <1>6 DEF SameUsers
<1>8. UsersType'
  BY <1>0, <1>1, <1>4 DEF BindInv, UsersType
<1>9. BoundUsers'
  BY <1>1, <1>2, <1>4, <1>6 DEF BindInv, BoundUsers, Here
<1>10. /\ KnowsUser(q)' /\ ReadsStand(q)' /\ ~Patching(q)' /\ ~At(q, "patch_user", "commit_user")'
       /\ ~At(q, "patch_user", "commit_user") /\ q.op \notin BindingOps
  BY <1>0, <1>1, NothingKnown DEF At, BindingOps
<1>11. PatchesApart'
  BY <1>0, <1>10, OthersKeep DEF BindInv, PatchesApart
<1> QED BY <1>0, <1>1, <1>7, <1>8, <1>9, <1>10, <1>11, UsersUntouched

\* A user is inserted.
LEMMA UserIsInserted ==
    ASSUME BindInv, SessionType, NEW q \in Requests, InsertUser(q)
    PROVE  BindInv'
<1>0. /\ Only(q) /\ q.op = "create_user" /\ q.user \in Users /\ q.tenant \in Tenants
      /\ q.email \in Emails /\ q.roles \subseteq [role : RoleIds, node : Nodes]
  BY UserSession, UserRequestsAssumption DEF UserStep, InsertUser, At, UserOps
<1> DEFINE row == UserRow(q.tenant, q.email, q.roles)
<1>1. /\ UNCHANGED <<identities, orgs, drifted>>
      /\ users' = [users EXCEPT ![q.user] = row] /\ asked' = [asked EXCEPT ![q.user] = q.roles]
      /\ users[q.user] = None /\ step'[q] = "answered"
      /\ ~EmailInUse(q.email, None) /\ Free(q, <<"email", q.email>>, "update")
  BY DEF InsertUser, At, AnswerAudited, Done, SessionType
<1>2. /\ row \in UserRows /\ row # None /\ row.email = q.email /\ row.sub = None
      /\ row.roles = q.roles /\ row.status = "INVITED"
  <2>1. row \in UserRows
    BY <1>0 DEF UserRow, UserRows, UserStatus
  <2> QED BY <2>1, UserRequestsAssumption DEF UserRow
<1> HIDE DEF row
<1>3. DOMAIN users = Users /\ DOMAIN asked = Users
  BY DEF BindInv, UsersType
<1>4. /\ Here(users)' = Here(users) \cup {q.user} /\ q.user \notin Here(users)
      /\ users'[q.user] = row /\ asked'[q.user] = q.roles
      /\ \A u \in Here(users) : users'[u] = users[u] /\ asked'[u] = asked[u]
      /\ Here(identities)' = Here(identities)
  BY <1>0, <1>1, <1>2, <1>3 DEF Here
<1>5. UsersType'
  BY <1>0, <1>1, <1>2 DEF BindInv, UsersType
<1>6. \A u \in Here(users) : users[u].email # q.email
  <2>1. None \notin Here(users)
    BY <1>3, UserRequestsAssumption DEF Here
  <2> QED BY <1>1, <2>1 DEF EmailInUse
<1>7. UniqueUsers'
  <2>0. UniqueUsers
    BY DEF BindInv
  <2>1. \A u, v \in Here(users)' : users'[u].email = users'[v].email => u = v
    BY <1>2, <1>4, <1>6, <2>0 DEF UniqueUsers
  <2>2. \A u, v \in Here(users)' :
           users'[u].sub = users'[v].sub /\ users'[u].tenant = users'[v].tenant => users'[u].sub = None \/ u = v
    BY <1>2, <1>4, <2>0 DEF UniqueUsers
  <2>3. \A r, s \in Here(identities)' : identities'[r].email = identities'[s].email => r = s
    BY <1>1, <1>4, <2>0 DEF UniqueUsers
  <2> QED BY <2>1, <2>2, <2>3 DEF UniqueUsers
<1>8. BoundUsers'
  BY <1>1, <1>2, <1>4 DEF BindInv, BoundUsers
<1>9. KnowsUser(q)' /\ ReadsStand(q)' /\ ~Patching(q)' /\ ~InFlight(q)' /\ ~At(q, "patch_user", "commit_user")
  BY <1>0, <1>1, NothingKnown DEF At, InFlight
<1>10. PatchesApart'
  BY <1>0, <1>9, OthersKeep DEF BindInv, PatchesApart
<1>11. ASSUME NEW p \in Requests, p # q PROVE KnowsUser(p)'
  <2>1. KnowsUser(p)
    BY DEF BindInv
  <2>2. Patching(p) => InFlight(p) /\ p.op = "patch_user" /\ p.user \in Here(users)
    BY <2>1 DEF Patching, InFlight, KnowsUser
  <2>3. At(p, "patch_user", "commit_user") => Patching(p)
    BY DEF At, Patching
  <2>4. ASSUME Patching(p), p.email # None PROVE ~EmailInUse(p.email, p.user)'
    <3>1. Lock(<<"email", p.email>>, "update") \in locks[p] /\ ~EmailInUse(p.email, p.user)
      BY <2>1, <2>4 DEF KnowsUser, RowLock
    <3>2. ~Compatible("update", "update")
      BY DEF Compatible
    <3>3. p.email # q.email
      BY <1>1, <1>11, <3>1, <3>2 DEF Free, Lock
    <3> QED BY <1>2, <1>4, <3>1, <3>3 DEF EmailInUse
  <2> QED BY <1>4, <1>0, <1>1, <1>11, <2>1, <2>2, <2>3, <2>4, OthersKeep DEF KnowsUser, RowLock
<1>12. ASSUME ~drifted' PROVE UsersAgree'
  <2>0. UsersAgree /\ BoundUsers /\ \A p \in Requests : KnowsUser(p)
    BY <1>1, <1>12 DEF BindInv
  <2>1. \A p, r \in Requests :
           p.op \in BindingOps /\ r.op \in BindingOps /\ InFlight(p)' /\ InFlight(r)' => p = r
    BY <1>0, <1>9, <2>0, OthersKeep DEF UsersAgree
  <2>2. ASSUME NEW p \in Requests PROVE ReadsStand(p)'
    <3>1. CASE p = q
      BY <1>9, <3>1
    <3>2. CASE p # q
      <4>1. ReadsStand(p) /\ KnowsUser(p)
        BY <2>0 DEF UsersAgree
      <4>2. At(p, "patch_user", "commit_user") => InFlight(p) /\ p.op = "patch_user"
        BY DEF At, InFlight
      <4> QED BY <1>0, <1>1, <1>4, <3>2, <4>1, <4>2, OthersKeep DEF ReadsStand, KnowsUser
    <3> QED BY <3>1, <3>2
  <2>3. \A r, s \in Here(identities)' : identities'[r].user = identities'[s].user => r = s
    BY <1>1, <1>4, <2>0 DEF UsersAgree
  <2>4. \A u \in Here(users)' : users'[u].sub # None => identities'[users'[u].sub].user = u
    BY <1>1, <1>2, <1>4, <2>0 DEF UsersAgree
  <2>5. ASSUME NEW s \in Here(identities)'
        PROVE  \/ identities'[s].email = users'[identities'[s].user].email
               \/ \E p \in Requests : /\ At(p, "patch_user", "commit_user")'
                                      /\ p.user = identities'[s].user /\ users'[p.user].sub = s
    <3>1. s \in Here(identities) /\ identities[s].user \in Here(users)
      BY <1>4, <2>0 DEF BoundUsers
    <3>2. CASE identities[s].email = users[identities[s].user].email
      BY <1>1, <1>4, <3>1, <3>2
    <3>3. CASE \E p \in Requests : /\ At(p, "patch_user", "commit_user")
                                   /\ p.user = identities[s].user /\ users[p.user].sub = s
      <4>1. PICK p \in Requests : /\ At(p, "patch_user", "commit_user")
                                  /\ p.user = identities[s].user /\ users[p.user].sub = s
        BY <3>3
      <4>2. p # q /\ At(p, "patch_user", "commit_user")'
        BY <1>0, <1>9, <4>1, OthersKeep
      <4>3. p.user = identities'[s].user /\ users'[p.user].sub = s
        BY <1>1, <1>4, <3>1, <4>1
      <4> QED BY <4>2, <4>3
    <3> QED BY <2>0, <3>1, <3>2, <3>3 DEF UsersAgree
  <2> QED BY <2>1, <2>2, <2>3, <2>4, <2>5 DEF UsersAgree
<1> QED BY <1>5, <1>7, <1>8, <1>9, <1>10, <1>11, <1>12 DEF BindInv

\* A PATCH changes the address in Auth0, before it commits.
LEMMA AddressIsSent ==
    ASSUME BindInv, SessionType, NEW q \in Requests, UpdateUserEmail(q)
    PROVE  BindInv'
<1>0. /\ Only(q) /\ q.op = "patch_user" /\ q.email \in Emails \cup {None}
  BY UserSession, UserRequestsAssumption DEF UserStep, UpdateUserEmail, At
<1> DEFINE u0 == q.user
           s0 == users[q.user].sub
<1>1. /\ UNCHANGED <<users, orgs, asked, drifted>>
      /\ step[q] = "apply" /\ step'[q] = "commit_user" /\ local'[q] = local[q] /\ locks'[q] = locks[q]
      /\ identities' = [identities EXCEPT ![s0].email = q.email]
      /\ q.email # None /\ q.email # local[q].email /\ s0 # None
      /\ \A s \in Subs : identities[s] # None /\ identities[s].email = q.email => s = s0
  BY DEF UpdateUserEmail, At, Proceed, SessionType, CallsAuth0, IdentitiesAt
<1>2. /\ KnowsUser(q) /\ InFlight(q) /\ Patching(q) /\ u0 \in Here(users)
      /\ InFlight(q)' /\ Patching(q)' /\ At(q, "patch_user", "commit_user")'
  BY <1>0, <1>1 DEF InFlight, Patching, BindInv, KnowsUser, At
<1>3. s0 \in Here(identities) /\ s0 \in Subs
  BY <1>1, <1>2 DEF BindInv, BoundUsers, UsersType, Here
<1> HIDE DEF u0, s0
<1>4. identities[s0] \in IdentityRows /\ DOMAIN identities = Subs
  BY <1>3 DEF BindInv, UsersType, Here
<1> DEFINE row == [identities[s0] EXCEPT !.email = q.email]
<1>5. /\ row \in IdentityRows /\ row # None /\ row.email = q.email /\ row.user = identities[s0].user
      /\ identities' = [identities EXCEPT ![s0] = row]
  <2>1. row \in IdentityRows /\ row.email = q.email /\ row.user = identities[s0].user
    BY <1>0, <1>1, <1>4 DEF IdentityRows
  <2>2. identities' = [identities EXCEPT ![s0] = row]
    BY <1>1
  <2> QED BY <2>1, <2>2, UserRequestsAssumption
<1> HIDE DEF row
<1>6. /\ Here(identities)' = Here(identities) /\ identities'[s0] = row
      /\ \A s \in Here(identities) \ {s0} : identities'[s] = identities[s]
      /\ Here(users)' = Here(users)
  BY <1>1, <1>3, <1>4, <1>5 DEF Here
<1>7. UsersType'
  BY <1>1, <1>3, <1>5 DEF BindInv, UsersType
<1>8. UniqueUsers'
  <2>0. UniqueUsers
    BY DEF BindInv
  <2>1. \A s \in Here(identities) \ {s0} : identities[s].email # q.email
    BY <1>1, <1>4 DEF Here
  <2>2. \A r, s \in Here(identities)' : identities'[r].email = identities'[s].email => r = s
    BY <1>5, <1>6, <2>0, <2>1 DEF UniqueUsers
  <2> QED BY <1>1, <1>6, <2>0, <2>2 DEF UniqueUsers
<1>9. BoundUsers'
  BY <1>1, <1>5, <1>6 DEF BindInv, BoundUsers
<1>10. \A p \in Requests : Patching(p)' <=> Patching(p)
  BY <1>0, <1>2, OthersKeep
<1>11. PatchesApart'
  BY <1>10 DEF BindInv, PatchesApart
<1>12. ASSUME NEW p \in Requests PROVE KnowsUser(p)'
  <2>1. KnowsUser(p)
    BY DEF BindInv
  <2>2. EmailInUse(p.email, p.user)' => EmailInUse(p.email, p.user)
    BY <1>1, <1>6 DEF EmailInUse
  <2>3. local'[p] = local[p] /\ locks'[p] = locks[p] /\ (InFlight(p)' <=> InFlight(p))
    BY <1>0, <1>1, <1>2, OthersKeep
  <2>4. CASE p = q
    <3>1. users[q.user].sub # None
      BY <1>1 DEF s0
    <3> QED BY <1>0, <1>1, <1>2, <1>6, <2>1, <2>2, <2>3, <2>4, <3>1 DEF KnowsUser, RowLock
  <2>5. CASE p # q
    BY <1>0, <1>1, <1>6, <1>10, <2>1, <2>2, <2>3, <2>5, OthersKeep DEF KnowsUser, RowLock
  <2> QED BY <2>4, <2>5
<1>13. ASSUME ~drifted' PROVE UsersAgree'
  <2>0. UsersAgree /\ BoundUsers /\ \A p \in Requests : KnowsUser(p)
    BY <1>1, <1>13 DEF BindInv
  <2>1. \A p \in Requests : InFlight(p)' <=> InFlight(p)
    BY <1>0, <1>2, OthersKeep
  <2>2. \A p \in Requests : p.op \in BindingOps /\ InFlight(p) => p = q
    BY <1>0, <1>2, <2>0 DEF UsersAgree, BindingOps
  <2>3. ASSUME NEW p \in Requests PROVE ReadsStand(p)'
    <3>1. CASE p = q
      <4>1. local[q].email = users[q.user].email
        BY <1>0, <1>2, <2>0 DEF UsersAgree, ReadsStand
      <4>2. identities'[users'[q.user].sub].email = q.email
        BY <1>1, <1>5, <1>6 DEF s0
      <4> QED BY <1>0, <1>1, <3>1, <4>1, <4>2 DEF ReadsStand
    <3>2. CASE p # q
      <4>1. ~(p.op \in BindingOps /\ InFlight(p)')
        BY <2>1, <2>2, <3>2
      <4>2. ~At(p, "patch_user", "commit_user")'
        BY <4>1 DEF At, InFlight, BindingOps
      <4> QED BY <4>1, <4>2 DEF ReadsStand, BindingOps
    <3> QED BY <3>1, <3>2
  <2>4. \A s \in Here(identities) : identities'[s].user = identities[s].user
    BY <1>5, <1>6
  <2>5. \A r, s \in Here(identities)' : identities'[r].user = identities'[s].user => r = s
    BY <1>6, <2>0, <2>4 DEF UsersAgree
  <2>6. \A u \in Here(users)' : users'[u].sub # None => identities'[users'[u].sub].user = u
    BY <1>1, <1>6, <2>0, <2>4 DEF UsersAgree, BoundUsers
  <2>7. identities[s0].user = q.user
    BY <1>1, <1>2, <2>0 DEF UsersAgree, s0, u0
  <2>8. \A p \in Requests : ~At(p, "patch_user", "commit_user")
    BY <1>1, <2>2 DEF At, InFlight, BindingOps
  <2>9. ASSUME NEW s \in Here(identities)'
        PROVE  \/ identities'[s].email = users'[identities'[s].user].email
               \/ \E p \in Requests : /\ At(p, "patch_user", "commit_user")'
                                      /\ p.user = identities'[s].user /\ users'[p.user].sub = s
    <3>1. CASE s = s0
      <4>1. q.user = identities'[s].user /\ users'[q.user].sub = s
        BY <1>1, <1>3, <2>4, <2>7, <3>1 DEF s0
      <4> QED BY <1>2, <4>1
    <3>2. CASE s # s0
      <4>1. s \in Here(identities) /\ identities'[s] = identities[s]
        BY <1>6, <3>2
      <4>2. identities[s].email = users[identities[s].user].email
        BY <2>0, <2>8, <4>1 DEF UsersAgree
      <4> QED BY <1>1, <4>1, <4>2
    <3> QED BY <3>1, <3>2
  <2> QED BY <2>1, <2>2, <2>3, <2>5, <2>6, <2>9 DEF UsersAgree
<1> QED BY <1>7, <1>8, <1>9, <1>11, <1>12, <1>13 DEF BindInv

\* A PATCH commits: the row, with the assignments that were asked for.
LEMMA UserIsPatched ==
    ASSUME BindInv, SessionType, NEW q \in Requests, CommitUser(q)
    PROVE  BindInv'
<1>0. /\ Only(q) /\ q.op = "patch_user" /\ q.user \in Users /\ q.email \in Emails \cup {None}
      /\ q.roles \in (SUBSET [role : RoleIds, node : Nodes]) \cup {None}
  BY UserSession, UserRequestsAssumption DEF UserStep, CommitUser, At, UserOps
<1>1. /\ UNCHANGED <<identities, orgs>> /\ step'[q] = "answered"
      /\ step[q] = "commit_user" \/ (step[q] = "apply" /\ ~CallsAuth0(q))
      /\ users' = [users EXCEPT
             ![q.user].email = IF q.email = None THEN @ ELSE q.email,
             ![q.user].roles = IF q.roles = None THEN @
                               ELSE DiffApplied(@, local[q].current, q.roles)]
      /\ asked' = [asked EXCEPT ![q.user] = IF q.roles = None THEN @ ELSE q.roles]
      /\ drifted' = (drifted \/ (q.email # None /\ users[q.user].sub = None))
  BY DEF CommitUser, At, Answer, Done, SessionType
<1>2. KnowsUser(q) /\ InFlight(q) /\ Patching(q) /\ q.user \in Here(users)
  BY <1>0, <1>1 DEF InFlight, Patching, BindInv, KnowsUser
<1>3. users[q.user] \in UserRows /\ DOMAIN users = Users /\ DOMAIN asked = Users
  BY <1>0, <1>2 DEF BindInv, UsersType, Here
<1>4. local[q].current = users[q.user].roles
  BY <1>2 DEF KnowsUser
<1>5. PICK row \in UserRows :
         /\ users' = [users EXCEPT ![q.user] = row]
         /\ row.email = IF q.email = None THEN users[q.user].email ELSE q.email
         /\ row.roles = IF q.roles = None THEN users[q.user].roles ELSE q.roles
         /\ row.sub = users[q.user].sub /\ row.status = users[q.user].status
         /\ row.tenant = users[q.user].tenant
  <2> DEFINE e == IF q.email = None THEN users[q.user].email ELSE q.email
             r == IF q.roles = None THEN users[q.user].roles
                  ELSE DiffApplied(users[q.user].roles, local[q].current, q.roles)
             row == [users[q.user] EXCEPT !.email = e, !.roles = r]
  <2>1. r = IF q.roles = None THEN users[q.user].roles ELSE q.roles
    BY <1>4 DEF DiffApplied
  <2>2. e \in Emails
    BY <1>0, <1>3 DEF UserRows
  <2>3. r \in SUBSET [role : RoleIds, node : Nodes]
    <3>1. users[q.user].roles \in SUBSET [role : RoleIds, node : Nodes]
      BY <1>3 DEF UserRows
    <3> QED BY <1>0, <2>1, <3>1
  <2>4. users' = [users EXCEPT ![q.user] = row]
    BY <1>0, <1>1, <1>3
  <2> HIDE DEF e, r
  <2>5. /\ row \in UserRows /\ row.email = e /\ row.roles = r
        /\ row.sub = users[q.user].sub /\ row.status = users[q.user].status
        /\ row.tenant = users[q.user].tenant
    BY <1>3, <2>2, <2>3 DEF UserRows
  <2> QED BY <2>1, <2>4, <2>5 DEF e
<1>6. row # None
  BY UserRequestsAssumption
<1>7. /\ Here(users)' = Here(users) /\ users'[q.user] = row
      /\ \A u \in Here(users) \ {q.user} : users'[u] = users[u] /\ asked'[u] = asked[u]
      /\ asked'[q.user] = IF q.roles = None THEN asked[q.user] ELSE q.roles
      /\ Here(identities)' = Here(identities)
  <2>1. /\ users'[q.user] = row /\ DOMAIN users' = DOMAIN users
        /\ \A u \in Users \ {q.user} : users'[u] = users[u]
    BY <1>0, <1>3, <1>5
  <2>2. /\ asked'[q.user] = IF q.roles = None THEN asked[q.user] ELSE q.roles
        /\ \A u \in Users \ {q.user} : asked'[u] = asked[u]
    BY <1>0, <1>1, <1>3
  <2>3. Here(users) \subseteq Users
    BY <1>3 DEF Here
  <2>4. Here(users)' = Here(users)
    BY <1>0, <1>2, <1>3, <1>6, <2>1 DEF Here
  <2>5. Here(identities)' = Here(identities)
    BY <1>1 DEF Here
  <2> QED BY <2>1, <2>2, <2>3, <2>4, <2>5
<1>8. UsersType'
  BY <1>0, <1>1, <1>5 DEF BindInv, UsersType
<1>9. \A u \in Here(users) \ {q.user} : users[u].email # row.email
  <2>1. CASE q.email = None
    BY <1>2, <1>5, <2>1 DEF BindInv, UniqueUsers
  <2>2. CASE q.email # None
    BY <1>2, <1>5, <2>2 DEF KnowsUser, EmailInUse
  <2> QED BY <2>1, <2>2
<1>10. UniqueUsers'
  <2>0. UniqueUsers
    BY DEF BindInv
  <2>1. \A u, v \in Here(users)' : users'[u].email = users'[v].email => u = v
    BY <1>7, <1>9, <2>0 DEF UniqueUsers
  <2>2. \A u \in Here(users) : users'[u].sub = users[u].sub /\ users'[u].tenant = users[u].tenant
    BY <1>5, <1>7
  <2>3. \A u, v \in Here(users)' :
           users'[u].sub = users'[v].sub /\ users'[u].tenant = users'[v].tenant => users'[u].sub = None \/ u = v
    BY <1>7, <2>0, <2>2 DEF UniqueUsers
  <2> QED BY <1>1, <1>7, <2>0, <2>1, <2>3 DEF UniqueUsers
<1>11. BoundUsers'
  <2>1. \A u \in Here(users)' : users'[u].roles = asked'[u]
    BY <1>2, <1>5, <1>7 DEF BindInv, BoundUsers
  <2>2. \A u \in Here(users) : users'[u].sub = users[u].sub /\ users'[u].status = users[u].status
    BY <1>5, <1>7
  <2>3. \A u \in Here(users)' : users'[u].sub # None =>
           users'[u].status # "INVITED" /\ users'[u].sub \in Here(identities)'
    BY <1>7, <2>2 DEF BindInv, BoundUsers
  <2>4. \A s \in Here(identities)' : identities'[s].user \in Here(users)'
    BY <1>1, <1>7 DEF BindInv, BoundUsers
  <2> QED BY <2>1, <2>3, <2>4 DEF BoundUsers
<1>12. /\ KnowsUser(q)' /\ ReadsStand(q)' /\ ~Patching(q)' /\ ~InFlight(q)'
       /\ ~At(q, "patch_user", "commit_user")'
  BY <1>0, <1>1, NothingKnown DEF InFlight
<1>13. PatchesApart'
  BY <1>0, <1>12, OthersKeep DEF BindInv, PatchesApart
<1>14. ASSUME NEW p \in Requests, p # q PROVE KnowsUser(p)'
  <2>1. KnowsUser(p)
    BY DEF BindInv
  <2>2. Patching(p) => InFlight(p) /\ p.op = "patch_user" /\ p.user \in Here(users)
    BY <2>1 DEF Patching, InFlight, KnowsUser
  <2>3. At(p, "patch_user", "commit_user") => Patching(p)
    BY DEF At, Patching
  <2>4. Patching(p) => p.user # q.user /\ (p.email = None \/ p.email # q.email)
    BY <1>2, <1>14 DEF BindInv, PatchesApart
  <2>5. ASSUME Patching(p), p.email # None PROVE ~EmailInUse(p.email, p.user)'
    <3>1. \A u \in Here(users) \ {p.user} : users[u].email # p.email
      BY <2>1, <2>5 DEF KnowsUser, EmailInUse
    <3>2. row.email # p.email
      BY <1>2, <1>5, <2>4, <2>5, <3>1
    <3> QED BY <1>7, <3>1, <3>2 DEF EmailInUse
  <2>6. \A u \in Here(users) : users'[u].sub = users[u].sub
    BY <1>5, <1>7
  <2> QED BY <1>0, <1>1, <1>7, <1>14, <2>1, <2>2, <2>3, <2>4, <2>5, <2>6, OthersKeep DEF KnowsUser, RowLock
<1>15. ASSUME ~drifted' PROVE UsersAgree'
  <2>0. UsersAgree /\ BoundUsers /\ ~drifted /\ (q.email = None \/ users[q.user].sub # None)
    BY <1>1, <1>15 DEF BindInv, UsersType
  <2>1. \A p \in Requests : p.op \in BindingOps => ~InFlight(p)'
    BY <1>0, <1>2, <1>12, <2>0, OthersKeep DEF UsersAgree, BindingOps
  <2>2. \A p \in Requests : ~At(p, "patch_user", "commit_user")'
    BY <2>1 DEF At, InFlight, BindingOps
  <2>3. \A p \in Requests : ReadsStand(p)'
    BY <2>1, <2>2 DEF ReadsStand, BindingOps
  <2>4. \A p \in Requests : At(p, "patch_user", "commit_user") => p = q
    BY <1>0, <1>2, <2>0 DEF UsersAgree, At, InFlight, BindingOps
  <2>5. ReadsStand(q)
    BY <2>0 DEF UsersAgree
  <2>6. \A u \in Here(users)' : users'[u].sub # None => identities'[users'[u].sub].user = u
    <3>1. \A u \in Here(users) : users'[u].sub = users[u].sub
      BY <1>5, <1>7
    <3> QED BY <1>1, <1>7, <2>0, <3>1 DEF UsersAgree
  <2>7. ASSUME NEW s \in Here(identities)
        PROVE  identities[s].email = users'[identities[s].user].email
    <3>0. identities[s].user \in Here(users)
      BY <2>0 DEF BoundUsers
    <3>1. CASE identities[s].user # q.user
      <4>1. identities[s].email = users[identities[s].user].email
        BY <2>0, <2>4, <3>1 DEF UsersAgree
      <4> QED BY <1>7, <3>0, <3>1, <4>1
    <3>2. CASE identities[s].user = q.user /\ q.email = None
      <4>1. ~At(q, "patch_user", "commit_user")
        BY <1>2, <3>2 DEF KnowsUser
      <4>2. identities[s].email = users[identities[s].user].email
        BY <2>0, <2>4, <4>1 DEF UsersAgree
      <4> QED BY <1>5, <1>7, <3>2, <4>2
    <3>3. CASE identities[s].user = q.user /\ q.email # None
      <4>1. users[q.user].sub # None /\ users[q.user].sub \in Here(identities)
        BY <1>2, <2>0, <3>3 DEF BoundUsers
      <4>2. s = users[q.user].sub
        BY <1>2, <2>0, <3>3, <4>1 DEF UsersAgree
      <4>3. users'[identities[s].user].email = q.email
        BY <1>5, <1>7, <3>3
      <4>4. CASE step[q] = "commit_user"
        BY <1>0, <2>5, <4>2, <4>3, <4>4 DEF ReadsStand, At
      <4>5. CASE step[q] = "apply" /\ ~CallsAuth0(q)
        <5>1. q.email = local[q].email
          BY <3>3, <4>1, <4>5 DEF CallsAuth0
        <5>2. local[q].email = users[q.user].email
          BY <1>0, <1>2, <2>5 DEF ReadsStand
        <5>3. ~At(q, "patch_user", "commit_user")
          BY <4>5 DEF At
        <5>4. identities[s].email = users[identities[s].user].email
          BY <2>0, <2>4, <5>3 DEF UsersAgree
        <5> QED BY <3>3, <4>3, <5>1, <5>2, <5>4
      <4> QED BY <1>1, <4>4, <4>5
    <3> QED BY <3>1, <3>2, <3>3
  <2>8. \A r, s \in Here(identities)' : identities'[r].user = identities'[s].user => r = s
    BY <1>1, <1>7, <2>0 DEF UsersAgree
  <2>9. \A s \in Here(identities)' : identities'[s].email = users'[identities'[s].user].email
    BY <1>1, <1>7, <2>7
  <2> QED BY <2>1, <2>3, <2>6, <2>8, <2>9 DEF UsersAgree
<1> QED BY <1>8, <1>10, <1>11, <1>12, <1>13, <1>14, <1>15 DEF BindInv

\* An identity is found by its address, or created, and stamped with the user.
LEMMA UserIsProvisioned ==
    ASSUME BindInv, SessionType, NEW q \in Requests, ProvisionUser(q)
    PROVE  BindInv'
<1>0. Only(q) /\ q.op = "provision_user" /\ q.user \in Users
  BY UserSession, UserRequestsAssumption DEF UserStep, ProvisionUser, At, UserOps
<1>1. /\ UNCHANGED <<users, orgs, asked, drifted>> /\ step[q] = "get_user" /\ step'[q] = "answered"
  BY DEF ProvisionUser, At, Answer, Done, SessionType
<1>2. KnowsUser(q) /\ InFlight(q)
  BY <1>1 DEF InFlight, BindInv
<1>3. q.user \in Here(users) /\ local[q] \in UserRows
  BY <1>0, <1>2 DEF KnowsUser
<1> DEFINE e == local[q].email
           row == [email |-> e, user |-> q.user]
<1>4. PICK s0 \in Subs :
         /\ IF IdentitiesAt(e) = {} THEN identities[s0] = None ELSE s0 \in IdentitiesAt(e)
         /\ identities' = [identities EXCEPT ![s0] = row]
  BY DEF ProvisionUser
<1>5. row \in IdentityRows /\ row # None /\ row.email = e /\ row.user = q.user
  <2>1. e \in Emails
    BY <1>3 DEF UserRows
  <2>2. row \in IdentityRows
    BY <1>0, <2>1 DEF IdentityRows
  <2> QED BY <2>2, UserRequestsAssumption
<1> HIDE DEF row, e
<1>6. DOMAIN identities = Subs
  BY DEF BindInv, UsersType
<1>7. /\ Here(identities)' = Here(identities) \cup {s0} /\ identities'[s0] = row
      /\ \A s \in Here(identities) \ {s0} : identities'[s] = identities[s]
      /\ Here(users)' = Here(users)
  BY <1>1, <1>4, <1>5, <1>6 DEF Here
<1>8. UsersType'
  BY <1>1, <1>4, <1>5 DEF BindInv, UsersType
<1>9. /\ \A s \in Here(identities) : identities[s].email = e => s = s0
      /\ s0 \in Here(identities) => identities[s0].email = e
  BY <1>4, <1>6 DEF IdentitiesAt, Here, BindInv, UniqueUsers
<1>10. UniqueUsers'
  <2>0. UniqueUsers
    BY DEF BindInv
  <2>1. \A r, s \in Here(identities)' : identities'[r].email = identities'[s].email => r = s
    BY <1>5, <1>7, <1>9, <2>0 DEF UniqueUsers
  <2> QED BY <1>1, <1>7, <2>0, <2>1 DEF UniqueUsers
<1>11. BoundUsers'
  BY <1>1, <1>3, <1>5, <1>7 DEF BindInv, BoundUsers
<1>12. /\ KnowsUser(q)' /\ ReadsStand(q)' /\ ~Patching(q)' /\ ~InFlight(q)'
       /\ ~At(q, "patch_user", "commit_user")'
  BY <1>0, <1>1, NothingKnown DEF InFlight
<1>13. PatchesApart'
  BY <1>0, <1>12, OthersKeep DEF BindInv, PatchesApart
<1>14. ASSUME NEW p \in Requests, p # q PROVE KnowsUser(p)'
  <2>1. KnowsUser(p)
    BY DEF BindInv
  <2>2. EmailInUse(p.email, p.user)' => EmailInUse(p.email, p.user)
    BY <1>1, <1>7 DEF EmailInUse
  <2> QED BY <1>0, <1>1, <1>7, <1>14, <2>1, <2>2, OthersKeep DEF KnowsUser, RowLock
<1>15. ASSUME ~drifted' PROVE UsersAgree'
  <2>0. UsersAgree /\ BoundUsers /\ ~drifted
    BY <1>1, <1>15 DEF BindInv
  <2>1. \A p \in Requests : p.op \in BindingOps => ~InFlight(p)'
    BY <1>0, <1>2, <1>12, <2>0, OthersKeep DEF UsersAgree, BindingOps
  <2>2. \A p \in Requests : ~At(p, "patch_user", "commit_user")'
    BY <2>1 DEF At, InFlight, BindingOps
  <2>3. \A p \in Requests : ReadsStand(p)'
    BY <2>1, <2>2 DEF ReadsStand, BindingOps
  <2>4. \A p \in Requests : ~At(p, "patch_user", "commit_user")
    <3>1. \A p \in Requests : p.op \in BindingOps /\ InFlight(p) => p = q
      BY <1>0, <1>2, <2>0 DEF UsersAgree, BindingOps
    <3> QED BY <1>0, <3>1 DEF At, InFlight, BindingOps
  <2>5. e = users[q.user].email
    BY <1>0, <1>2, <2>0 DEF UsersAgree, ReadsStand, e
  <2>6. \A s \in Here(identities) : identities[s].email = users[identities[s].user].email
    BY <2>0, <2>4 DEF UsersAgree
  <2>7. s0 \in Here(identities) => identities[s0].user = q.user
    BY <1>3, <1>9, <2>0, <2>5, <2>6 DEF BindInv, UniqueUsers, BoundUsers
  <2>8. \A s \in Here(identities) : identities[s].user = q.user => s = s0
    BY <1>9, <2>5, <2>6
  <2>9. \A r, s \in Here(identities)' : identities'[r].user = identities'[s].user => r = s
    BY <1>5, <1>7, <2>0, <2>8 DEF UsersAgree
  <2>10. \A u \in Here(users)' : users'[u].sub # None => identities'[users'[u].sub].user = u
    BY <1>1, <1>5, <1>7, <2>0, <2>7 DEF UsersAgree, BoundUsers
  <2>11. \A s \in Here(identities)' : identities'[s].email = users'[identities'[s].user].email
    BY <1>1, <1>5, <1>7, <2>5, <2>6
  <2> QED BY <2>1, <2>3, <2>9, <2>10, <2>11 DEF UsersAgree
<1> QED BY <1>8, <1>10, <1>11, <1>12, <1>13, <1>14, <1>15 DEF BindInv

\* The first sign-in binds the user to the identity.
LEMMA UserHasAccepted ==
    ASSUME BindInv, SessionType, NEW q \in Requests, AcceptInvitation(q)
    PROVE  BindInv'
<1>0. Only(q) /\ q.op = "login" /\ q.sub \in Subs
  BY UserSession, UserRequestsAssumption DEF UserStep, AcceptInvitation, At
<1> DEFINE u0 == local[q]
<1>1. /\ UNCHANGED <<identities, orgs, asked, drifted>> /\ step[q] = "accept" /\ step'[q] = "answered"
      /\ users[u0].status = "INVITED"
      /\ \A u \in Here(users) : users[u].tenant = users[u0].tenant => users[u].sub # q.sub
      /\ users' = [users EXCEPT ![u0].status = "ACTIVE", ![u0].sub = q.sub, ![u0].accepted = TRUE]
  BY DEF AcceptInvitation, StillInvited, At, AnswerAudited, Done, SessionType
<1>2. KnowsUser(q) /\ InFlight(q)
  BY <1>1 DEF InFlight, BindInv
<1>3. u0 \in Here(users) /\ q.sub \in Here(identities)
  BY <1>0, <1>2 DEF KnowsUser
<1> HIDE DEF u0
<1>4. u0 \in Users /\ users[u0] \in UserRows /\ DOMAIN users = Users
  BY <1>3 DEF BindInv, UsersType, Here
<1>5. PICK row \in UserRows :
         /\ users' = [users EXCEPT ![u0] = row]
         /\ row.email = users[u0].email /\ row.roles = users[u0].roles /\ row.tenant = users[u0].tenant
         /\ row.sub = q.sub /\ row.status = "ACTIVE"
  <2> DEFINE row == [users[u0] EXCEPT !.status = "ACTIVE", !.sub = q.sub, !.accepted = TRUE]
  <2>1. /\ row \in UserRows /\ row.email = users[u0].email /\ row.roles = users[u0].roles
        /\ row.tenant = users[u0].tenant
        /\ row.sub = q.sub /\ row.status = "ACTIVE"
    BY <1>0, <1>4 DEF UserRows, UserStatus
  <2>2. users' = [users EXCEPT ![u0] = row]
    BY <1>1, <1>4
  <2> QED BY <2>1, <2>2
<1>6. row # None /\ q.sub # None
  BY <1>0, UserRequestsAssumption
<1>7. /\ Here(users)' = Here(users) /\ users'[u0] = row
      /\ \A u \in Here(users) \ {u0} : users'[u] = users[u]
      /\ Here(identities)' = Here(identities)
      /\ \A u \in Here(users) : users'[u].email = users[u].email /\ users'[u].roles = users[u].roles
  BY <1>1, <1>3, <1>4, <1>5, <1>6 DEF Here
<1>8. UsersType'
  BY <1>1, <1>4, <1>5 DEF BindInv, UsersType
<1>9. UniqueUsers'
  <2>0. UniqueUsers
    BY DEF BindInv
  <2>1. \A u, v \in Here(users)' : users'[u].email = users'[v].email => u = v
    BY <1>7, <2>0 DEF UniqueUsers
  <2>2. \A u, v \in Here(users)' :
           users'[u].sub = users'[v].sub /\ users'[u].tenant = users'[v].tenant => users'[u].sub = None \/ u = v
    <3>1. \A u \in Here(users) : /\ users'[u].sub = IF u = u0 THEN q.sub ELSE users[u].sub
                                 /\ users'[u].tenant = users[u].tenant
      BY <1>5, <1>7
    <3>2. \A u \in Here(users) : users[u].tenant = users[u0].tenant => users[u].sub # q.sub
      BY <1>1
    <3> QED BY <1>3, <1>7, <2>0, <3>1, <3>2 DEF UniqueUsers
  <2> QED BY <1>1, <1>7, <2>0, <2>1, <2>2 DEF UniqueUsers
<1>10. BoundUsers'
  <2>1. \A u \in Here(users)' : users'[u].roles = asked'[u]
    BY <1>1, <1>7 DEF BindInv, BoundUsers
  <2>2. \A u \in Here(users)' : users'[u].sub # None =>
           users'[u].status # "INVITED" /\ users'[u].sub \in Here(identities)'
    BY <1>3, <1>5, <1>7 DEF BindInv, BoundUsers
  <2>3. \A s \in Here(identities)' : identities'[s].user \in Here(users)'
    BY <1>1, <1>7 DEF BindInv, BoundUsers
  <2> QED BY <2>1, <2>2, <2>3 DEF BoundUsers
<1>11. /\ KnowsUser(q)' /\ ReadsStand(q)' /\ ~Patching(q)' /\ ~InFlight(q)'
       /\ ~At(q, "patch_user", "commit_user")'
  BY <1>0, <1>1, NothingKnown DEF InFlight
<1>12. PatchesApart'
  BY <1>0, <1>11, OthersKeep DEF BindInv, PatchesApart
<1>13. ASSUME NEW p \in Requests, p # q PROVE KnowsUser(p)'
  <2>1. KnowsUser(p)
    BY DEF BindInv
  <2>2. EmailInUse(p.email, p.user)' => EmailInUse(p.email, p.user)
    BY <1>7 DEF EmailInUse
  <2>3. Patching(p) => InFlight(p) /\ p.op = "patch_user" /\ p.user \in Here(users)
    BY <2>1 DEF Patching, InFlight, KnowsUser
  <2>4. At(p, "patch_user", "commit_user") => Patching(p)
    BY DEF At, Patching
  <2>5. \A u \in Here(users) : users[u].sub # None => users'[u].sub # None
    BY <1>5, <1>6, <1>7
  <2> QED BY <1>0, <1>1, <1>7, <1>13, <2>1, <2>2, <2>3, <2>4, <2>5, OthersKeep DEF KnowsUser, RowLock
<1>14. ASSUME ~drifted' PROVE UsersAgree'
  <2>0. UsersAgree /\ BoundUsers /\ ~drifted
    BY <1>1, <1>14 DEF BindInv
  <2>1. \A p \in Requests : p.op \in BindingOps => ~InFlight(p)'
    BY <1>0, <1>2, <1>11, <2>0, OthersKeep DEF UsersAgree, BindingOps
  <2>2. \A p \in Requests : ~At(p, "patch_user", "commit_user")'
    BY <2>1 DEF At, InFlight, BindingOps
  <2>3. \A p \in Requests : ReadsStand(p)'
    BY <2>1, <2>2 DEF ReadsStand, BindingOps
  <2>4. \A p \in Requests : ~At(p, "patch_user", "commit_user")
    <3>1. \A p \in Requests : p.op \in BindingOps /\ InFlight(p) => p = q
      BY <1>0, <1>2, <2>0 DEF UsersAgree, BindingOps
    <3> QED BY <1>0, <3>1 DEF At, InFlight, BindingOps
  <2>5. identities[q.sub].user = u0
    BY <1>0, <1>2, <2>0 DEF UsersAgree, ReadsStand, u0
  <2>6. \A r, s \in Here(identities)' : identities'[r].user = identities'[s].user => r = s
    BY <1>1, <1>7, <2>0 DEF UsersAgree
  <2>7. \A u \in Here(users)' : users'[u].sub # None => identities'[users'[u].sub].user = u
    <3>1. \A u \in Here(users) : users'[u].sub = IF u = u0 THEN q.sub ELSE users[u].sub
      BY <1>5, <1>7
    <3>2. identities' = identities /\ Here(users)' = Here(users)
      BY <1>1, <1>7
    <3>3. \A u \in Here(users) : users[u].sub # None => identities[users[u].sub].user = u
      BY <2>0 DEF UsersAgree
    <3> HIDE DEF u0
    <3> QED BY <2>5, <3>1, <3>2, <3>3
  <2>8. \A s \in Here(identities)' : identities'[s].email = users'[identities'[s].user].email
    <3> SUFFICES ASSUME NEW s \in Here(identities)
                 PROVE  identities[s].email = users'[identities[s].user].email
      BY <1>1, <1>7
    <3>1. identities[s].email = users[identities[s].user].email
      BY <2>0, <2>4 DEF UsersAgree
    <3>2. identities[s].user \in Here(users)
      BY <2>0 DEF BoundUsers
    <3> QED BY <1>7, <3>1, <3>2
  <2> QED BY <2>1, <2>3, <2>6, <2>7, <2>8 DEF UsersAgree
<1> QED BY <1>8, <1>9, <1>10, <1>11, <1>12, <1>13, <1>14 DEF BindInv

\* Of the steps on tenants, the one that creates an organisation concerns Auth0.
LEMMA TenantsLeaveUsers ==
    ASSUME NEW q \in Requests, TenantStep(q)
    PROVE  UNCHANGED <<users, identities, asked, drifted>> /\ (ProvisionOrganization(q) \/ UNCHANGED orgs)
<1> USE DEF userVars
<1>1. CASE CheckName(q)
  BY <1>1 DEF CheckName
<1>2. CASE UpdateTenant(q)
  BY <1>2 DEF UpdateTenant
<1>3. CASE LockTenant(q)
  BY <1>3 DEF LockTenant
<1>4. CASE TransitionTenant(q)
  BY <1>4 DEF TransitionTenant
<1>5. CASE CheckPresence(q)
  BY <1>5 DEF CheckPresence
<1>6. CASE CompleteOnboarding(q)
  BY <1>6 DEF CompleteOnboarding
<1>7. CASE ProvisionOrganization(q)
  BY <1>7 DEF ProvisionOrganization
<1>8. CASE SetAuth0OrgId(q)
  BY <1>8 DEF SetAuth0OrgId
<1>9. CASE upsert_legal_profile(q)
  BY <1>9 DEF upsert_legal_profile, Upsert
<1>10. CASE upsert_billing_profile(q)
  BY <1>10 DEF upsert_billing_profile, Upsert
<1>11. CASE replace_contacts(q)
  BY <1>11 DEF replace_contacts, Replace
<1>12. CASE replace_tax_registrations(q)
  BY <1>12 DEF replace_tax_registrations, Replace
<1>13. CASE CheckNotCompleted(q)
  BY <1>13 DEF CheckNotCompleted
<1>14. CASE UpsertOnboarding(q)
  BY <1>14 DEF UpsertOnboarding
<1>15. CASE CreatePending(q)
  BY <1>15 DEF CreatePending
<1>16. CASE LockDocument(q)
  BY <1>16 DEF LockDocument
<1>17. CASE verify(q)
  BY <1>17 DEF verify, SetReview
<1>18. CASE reject(q)
  BY <1>18 DEF reject, SetReview
<1>19. CASE DeleteObject(q)
  BY <1>19 DEF DeleteObject
<1>20. CASE DeleteDocument(q)
  BY <1>20 DEF DeleteDocument
<1>21. CASE SelectModule(q)
  BY <1>21 DEF SelectModule
<1>22. CASE enable(q)
  BY <1>22 DEF enable, WriteModule
<1>23. CASE disable(q)
  BY <1>23 DEF disable, WriteModule
<1>24. CASE UpsertChannel(q)
  BY <1>24 DEF UpsertChannel
<1>25. CASE WriteSecret(q)
  BY <1>25 DEF WriteSecret
<1>26. CASE CommitChannel(q)
  BY <1>26 DEF CommitChannel
<1>27. CASE CreateTenant(q)
  BY <1>27 DEF CreateTenant
<1> QED BY <1>1, <1>2, <1>3, <1>4, <1>5, <1>6, <1>7, <1>8, <1>9, <1>10, <1>11, <1>12, <1>13, <1>14, <1>15, <1>16, <1>17, <1>18, <1>19, <1>20, <1>21, <1>22, <1>23, <1>24, <1>25, <1>26, <1>27 DEF TenantStep

LEMMA UsersKept == TreeInv /\ BindInv /\ [Next]_vars => BindInv'
<1> SUFFICES ASSUME TreeInv, BindInv, [Next]_vars PROVE BindInv'
  OBVIOUS
<1>0. SessionType
  BY DEF TreeInv
<1>1. CASE Next
  <2>1. PICK q \in Requests :
          \/ Authorize(q) /\ UNCHANGED mirrorVars
          \/ OrgTreeStep(q) /\ UNCHANGED <<userVars, tenantVars, mirrorVars, roleVars>>
          \/ UserStep(q) /\ UNCHANGED <<tenantVars, mirrorVars, roleVars>>
          \/ TenantStep(q) /\ UNCHANGED <<mirrorVars, roleVars>>
          \/ MirrorStep(q) /\ UNCHANGED roleVars
          \/ RoleStep(q) /\ UNCHANGED <<treeVars, userVars, tenantVars, mirrorVars>>
          \/ RollbackTenant(q) /\ UNCHANGED <<mirrorVars, roleVars>>
    BY <1>1 DEF Next
  <2>2. CASE UserStep(q)
    BY <1>0, <2>2, UserReads, BindingStarts, UserIsLocked, UserIsMarked, UserIsInserted, AddressIsSent,
       UserIsPatched, UserIsProvisioned, UserHasAccepted DEF UserStep
  <2>3. CASE ~UserStep(q)
    <3>1. Only(q) /\ (q.op \notin UserOps \/ step'[q] \in {"received", "answered"})
      BY <1>0, <2>1, <2>3, GateSession, TreeSession, TenantSession, MirrorSession, RoleSession, FailureSession
         DEF TreeOps, TenantOps, MirrorOps, RoleOps, UserOps
    <3>2. /\ UNCHANGED <<users, identities, asked>> /\ orgs' \subseteq Tenants
          /\ drifted' = (drifted \/ At(q, "patch_user", "commit_user"))
      <4>1. CASE Authorize(q)
        BY <4>1 DEF Authorize, At, userVars, BindInv, UsersType
      <4>2. CASE OrgTreeStep(q) /\ UNCHANGED userVars
        BY <1>0, <4>2, TreeSession DEF TreeOps, At, userVars, BindInv, UsersType
      <4>3. CASE TenantStep(q)
        <5>1. q.op \in TenantOps /\ UNCHANGED <<users, identities, asked, drifted>>
          BY <1>0, <4>3, TenantSession, TenantsLeaveUsers
        <5>2. CASE UNCHANGED orgs
          BY <5>1, <5>2 DEF TenantOps, At, BindInv, UsersType
        <5>3. CASE ProvisionOrganization(q)
          <6>1. orgs' = orgs \cup {q.tenant} /\ q.tenant \in Tenants
            BY <5>3, RequestsAssumption DEF ProvisionOrganization, At
          <6> QED BY <5>1, <6>1 DEF TenantOps, At, BindInv, UsersType
        <5> QED BY <4>3, <5>2, <5>3, TenantsLeaveUsers
      <4>4. CASE MirrorStep(q)
        BY <1>0, <4>4, MirrorSession DEF MirrorOps, At, userVars, BindInv, UsersType
      <4>5. CASE RoleStep(q) /\ UNCHANGED userVars
        BY <1>0, <4>5, RoleSession DEF RoleOps, At, userVars, BindInv, UsersType
      <4>6. CASE RollbackTenant(q)
        BY <4>6 DEF RollbackTenant, RollbackUser, BindInv, UsersType
      <4> QED BY <2>1, <2>3, <4>1, <4>2, <4>3, <4>4, <4>5, <4>6
    <3>3. SameUsers /\ BoundUsers' /\ UsersType'
      BY <3>2 DEF SameUsers, BindInv, BoundUsers, UsersType, Here
    <3>4. /\ KnowsUser(q)' /\ ReadsStand(q)' /\ ~Patching(q)'
          /\ ~At(q, "patch_user", "commit_user")'
          /\ q.op \notin BindingOps \/ ~InFlight(q)'
      BY <3>1, NothingKnown
    <3>5. PatchesApart'
      BY <3>1, <3>4, OthersKeep DEF BindInv, PatchesApart
    <3>6. (drifted => drifted') /\ (~drifted' => ~At(q, "patch_user", "commit_user"))
      BY <3>2 DEF At
    <3> QED BY <3>1, <3>2, <3>3, <3>4, <3>5, <3>6, UsersUntouched
  <2> QED BY <2>2, <2>3
<1>2. CASE UNCHANGED vars
  <2>1. UNCHANGED <<users, identities, orgs, asked, drifted, step, local, locks>>
    BY <1>2 DEF vars, userVars, sessionVars
  <2>2. UsersType' /\ UniqueUsers' /\ BoundUsers' /\ PatchesApart'
    BY <2>1 DEF BindInv, UsersType, UniqueUsers, BoundUsers, PatchesApart, Patching, Here
  <2>3. \A p \in Requests : KnowsUser(p)'
    BY <2>1 DEF BindInv, KnowsUser, Patching, InFlight, At, EmailInUse, RowLock, Here
  <2>4. ~drifted' => UsersAgree'
    BY <2>1 DEF BindInv, UsersAgree, ReadsStand, InFlight, At, Here
  <2> QED BY <2>2, <2>3, <2>4 DEF BindInv
<1> QED BY <1>1, <1>2

LEMMA UsersStart == Init => BindInv
<1> SUFFICES ASSUME Init PROVE BindInv
  OBVIOUS
<1>1. \A q \in Requests : step[q] \in {"answered", "received", "arrived"}
  BY DEF Init, SessionInit
<1>2. /\ users = SeedUsers /\ identities = SeedIdentities /\ orgs \subseteq Tenants
      /\ asked = [u \in Users |-> IF SeedUsers[u] = None THEN {} ELSE SeedUsers[u].roles]
      /\ drifted = FALSE
  BY DEF Init
<1>3. UsersType
  BY <1>2, SeedUsersAssumption DEF UsersType
<1>4. UniqueUsers
  <2>1. \A u, v \in Here(users) : users[u].email = users[v].email => u = v
    BY <1>2, SeedUsersAssumption
  <2>2. \A u, v \in Here(users) :
           users[u].sub = users[v].sub /\ users[u].tenant = users[v].tenant => users[u].sub = None \/ u = v
    BY <1>2, SeedUsersAssumption
  <2>3. \A r, s \in Here(identities) : identities[r].email = identities[s].email => r = s
    BY <1>2, SeedUsersAssumption
  <2> QED BY <2>1, <2>2, <2>3 DEF UniqueUsers
<1>5. BoundUsers
  <2>1. \A u \in Here(users) : users[u].roles = asked[u]
    BY <1>2, SeedUsersAssumption DEF Here
  <2>2. /\ \A u \in Here(users) : users[u].sub # None =>
              users[u].status # "INVITED" /\ users[u].sub \in Here(identities)
        /\ \A s \in Here(identities) : identities[s].user \in Here(users)
    BY <1>2, SeedUsersAssumption
  <2> QED BY <2>1, <2>2 DEF BoundUsers
<1>6. \A q \in Requests : ~InFlight(q) /\ ~Patching(q) /\ ~At(q, "patch_user", "commit_user")
  BY <1>1 DEF InFlight, Patching, At
<1>7. PatchesApart /\ \A q \in Requests : KnowsUser(q) /\ ReadsStand(q)
  BY <1>6 DEF PatchesApart, KnowsUser, ReadsStand
<1>8. UsersAgree
  <2>1. \A s \in Here(identities) : identities[s].email = users[identities[s].user].email
    BY <1>2, SeedUsersAssumption
  <2>2. \A r, s \in Here(identities) : identities[r].user = identities[s].user => r = s
    BY <1>4, <2>1 DEF UniqueUsers
  <2>3. \A u \in Here(users) : users[u].sub # None => identities[users[u].sub].user = u
    BY <1>2, SeedUsersAssumption
  <2> QED BY <1>6, <1>7, <2>1, <2>2, <2>3 DEF UsersAgree
<1> QED BY <1>3, <1>4, <1>5, <1>7, <1>8 DEF BindInv

\* The three views of a user agree (tenant_users.py update, accept_invitation; me.py): the
\* assignments are those of the last commit, and an identity is one user's and carries its
\* id and address, until overlapping or failed requests, or a change of address before the
\* first sign-in, let Auth0 and the database drift apart.  After that users of two tenants
\* may share an identity; two of one tenant never do.
THEOREM UsersStayBound == Spec => []UsersAreBound
<1>1. BindInv => UsersAreBound
  <2> SUFFICES ASSUME BindInv PROVE UsersAreBound
    OBVIOUS
  <2>1. UsersTypeOK
    BY DEF BindInv, UsersType, UsersTypeOK, UserRows, IdentityRows
  <2>2. ASSUME NEW u \in Here(users)
        PROVE  /\ users[u].roles = asked[u]
               /\ \A v \in Here(users) \ {u} :
                     (users[u].sub # None /\ users[v].sub = users[u].sub) =>
                         drifted /\ users[u].tenant # users[v].tenant
    BY DEF BindInv, BoundUsers, UniqueUsers, UsersAgree
  <2>3. ASSUME NEW u \in Here(users), ~drifted, users[u].sub # None,
               \A q \in Requests : ~At(q, "patch_user", "commit_user")
        PROVE  identities[users[u].sub] = [email |-> users[u].email, user |-> u]
    <3> DEFINE s == users[u].sub
    <3>1. s \in Here(identities)
      BY <2>3 DEF BindInv, BoundUsers
    <3>2. identities[s].user = u
      BY <2>3 DEF BindInv, UsersAgree
    <3>3. identities[s].email = users[identities[s].user].email
      BY <2>3, <3>1 DEF BindInv, UsersAgree
    <3>4. identities[s] \in IdentityRows
      BY <3>1 DEF BindInv, UsersType, Here
    <3> HIDE DEF s
    <3>5. identities[s] = [email |-> users[u].email, user |-> u]
      BY <3>2, <3>3, <3>4 DEF IdentityRows
    <3> QED BY <3>5 DEF s
  <2> QED BY <2>1, <2>2, <2>3 DEF UsersAreBound
<1> QED BY <1>1, TreeStarts, TreeKept, UsersStart, UsersKept, PTL DEF Spec

-----------------------------------------------------------------------------
(* Tenants, their documents and channels. *)

TenantTablesType ==
    /\ sections \in [Tenants -> SUBSET Sections]
    /\ docs \in [Docs -> DocRows \cup {None}] /\ DOMAIN files = Docs
    /\ modules \in [Tenants -> [Modules -> {"ENABLED", "DISABLED", None}]]
    /\ DOMAIN channels = Tenants /\ DOMAIN secrets = Tenants /\ DOMAIN completedWith = Tenants
    /\ half \in BOOLEAN

\* The requests that hold a document, and those that hold a channel.
Reviewing(q) ==
    \/ At(q, "review_document", "write_document")
    \/ At(q, "delete_document", "write_document") \/ At(q, "delete_document", "commit_delete")
Connecting(q) == At(q, "upsert_channel", "write_secret") \/ At(q, "upsert_channel", "commit_channel")

\* What nothing takes away from a tenant again, and its documents.
Profile(t) ==
    /\ {"legal", "billing"} \subseteq sections[t] /\ tenants[t].org /\ t \in orgs
    /\ \E u \in Here(users) : users[u].tenant = t /\ users[u].invited
Reviewed(ds) == ds # {} /\ \A d \in ds : d \in Here(docs) /\ docs[d].status = "VERIFIED"

\* A tenant has a root; an organisation is on record in Auth0; one past ONBOARDING was complete.
TenantRowsInv ==
    \A t \in Here(tenants) :
        /\ NodesOf(t) # {}
        /\ tenants[t].org => t \in orgs
        /\ tenants[t].completed <=> tenants[t].status # "ONBOARDING"
        /\ tenants[t].completed => Profile(t) /\ Reviewed(completedWith[t])

\* What a request knows of its tenant, document or channel.
KnowsTenant(q) ==
    /\ At(q, "transition_tenant", "check") => tenants[q.tenant].status # "ONBOARDING"
    /\ At(q, "complete_onboarding", "check") \/ At(q, "complete_onboarding", "complete") =>
          TenantLock(q) \subseteq locks[q]
    /\ At(q, "complete_onboarding", "complete") => Profile(q.tenant) /\ Reviewed(DocsOf(q.tenant))
    /\ At(q, "provision_tenant", "set_org") => q.tenant \in orgs
    /\ Reviewing(q) => /\ Lock(<<"doc", q.doc>>, "update") \in locks[q]
                       /\ q.doc \in Here(docs) /\ docs[q.doc].status = "PENDING_REVIEW"
    /\ Connecting(q) => ChannelLock(q) \subseteq locks[q]
    /\ At(q, "upsert_channel", "commit_channel") => secrets[q.by.tenant] = q.provider

HoldersApart ==
    \A p, q \in Requests : p # q =>
        /\ Reviewing(p) /\ Reviewing(q) => p.doc # q.doc
        /\ Connecting(p) /\ Connecting(q) => p.by.tenant # q.by.tenant

DeskInv ==
    /\ TenantTablesType /\ TenantRowsInv /\ HoldersApart /\ OutsideIsInStep
    /\ \A q \in Requests : KnowsTenant(q)

\* What a step of q may do to the tenants' rows, to what a profile rests on, to the documents
\* and to the channels.
TenantsAccrue ==
    /\ \A t \in Here(tenants) :
          /\ t \in Here(tenants')
          /\ tenants[t].org => tenants'[t].org
          /\ tenants[t].status # "ONBOARDING" => tenants'[t].status # "ONBOARDING"
    /\ \A t \in Here(tenants') :
          /\ tenants'[t].org => t \in orgs'
          /\ tenants'[t].completed <=> tenants'[t].status # "ONBOARDING"
          /\ tenants'[t].completed =>
                /\ t \in Here(tenants)
                /\ \/ tenants[t].completed /\ completedWith'[t] = completedWith[t]
                   \/ Profile(t) /\ Reviewed(DocsOf(t)) /\ completedWith'[t] = DocsOf(t)
          /\ t \in Here(tenants) \/ NodesOf(t)' # {}

ProfilesAccrue ==
    /\ orgs \subseteq orgs'
    /\ \A t \in Tenants : \A s \in {"legal", "billing"} : s \in sections[t] => s \in sections'[t]
    /\ \A u \in Here(users) : /\ u \in Here(users')
                              /\ users'[u].tenant = users[u].tenant
                              /\ users[u].invited => users'[u].invited

DocsAccrue(q) ==
    /\ \A d \in Here(docs) : docs'[d] = docs[d] \/ (Reviewing(q) /\ q.doc = d)
    /\ \A d \in Here(docs') :
          /\ IF d \in Here(docs) THEN docs'[d].tenant = docs[d].tenant
             ELSE Free(q, <<"tenant", docs'[d].tenant>>, "key_share")
          /\ files'[d] = "deleted" =>
                \/ At(q, "delete_document", "commit_delete")' /\ q.doc = d
                \/ /\ d \in Here(docs) /\ files[d] = "deleted"
                   /\ half' \/ ~(At(q, "delete_document", "commit_delete") /\ q.doc = d)

ChannelsAccrue(q) ==
    \A t \in Tenants :
        /\ secrets'[t] = secrets[t] \/ (Connecting(q) /\ q.by.tenant = t)
        /\ channels'[t] # secrets'[t] =>
              \/ At(q, "upsert_channel", "commit_channel")' /\ q.by.tenant = t
              \/ /\ channels[t] # secrets[t]
                 /\ half' \/ ~(At(q, "upsert_channel", "commit_channel") /\ q.by.tenant = t)

\* A step of that kind keeps the invariant, if it keeps what its own request knows.
LEMMA DeskAccrues ==
    ASSUME DeskInv, TreeInv, NEW q \in Requests, Only(q), RowsStay,
           TenantsAccrue, ProfilesAccrue, DocsAccrue(q), ChannelsAccrue(q), half => half',
           TenantTablesType', HoldersApart', KnowsTenant(q)'
    PROVE  DeskInv'
<1>0. /\ Here(tenants)' = Here(tenants') /\ Here(docs)' = Here(docs') /\ Here(users)' = Here(users')
      /\ Here(tenants) \subseteq Tenants
  BY DEF Here, TreeInv, TableInv, TablesType
<1>1. ASSUME NEW t \in Here(tenants), Profile(t) PROVE Profile(t)'
  <2>1. PICK u \in Here(users) : users[u].tenant = t /\ users[u].invited
    BY <1>1 DEF Profile
  <2>2. \E v \in Here(users)' : users'[v].tenant = t /\ users'[v].invited
    BY <1>0, <2>1 DEF ProfilesAccrue
  <2>3. {"legal", "billing"} \subseteq sections'[t] /\ tenants'[t].org /\ t \in orgs'
    BY <1>0, <1>1 DEF Profile, ProfilesAccrue, TenantsAccrue
  <2> QED BY <2>2, <2>3 DEF Profile
<1>2. \A d \in Here(docs) : docs[d].status = "VERIFIED" => d \in Here(docs') /\ docs'[d] = docs[d]
  <2> SUFFICES ASSUME NEW d \in Here(docs), docs[d].status = "VERIFIED"
               PROVE  d \in Here(docs') /\ docs'[d] = docs[d]
    OBVIOUS
  <2>1. ~(Reviewing(q) /\ q.doc = d)
    BY DEF DeskInv, KnowsTenant
  <2>2. docs'[d] = docs[d]
    BY <2>1 DEF DocsAccrue
  <2>3. d \in DOMAIN docs' /\ docs[d] # None
    BY DEF Here, DeskInv, TenantTablesType
  <2> QED BY <2>2, <2>3 DEF Here
<1>3. TenantRowsInv'
  <2> SUFFICES ASSUME NEW t \in Here(tenants')
               PROVE  /\ NodesOf(t)' # {}
                      /\ tenants'[t].org => t \in orgs'
                      /\ tenants'[t].completed <=> tenants'[t].status # "ONBOARDING"
                      /\ tenants'[t].completed => Profile(t)' /\ Reviewed(completedWith[t])'
    BY <1>0 DEF TenantRowsInv
  <2>1. NodesOf(t)' # {}
    <3>1. CASE t \notin Here(tenants)
      BY <3>1 DEF TenantsAccrue
    <3>2. CASE t \in Here(tenants)
      <4>1. PICK n \in NodesOf(t) : TRUE
        BY <3>2 DEF DeskInv, TenantRowsInv
      <4>2. n \in NodesOf(t)'
        BY <4>1 DEF NodesOf, RowsStay, Here
      <4> QED BY <4>2
    <3> QED BY <3>1, <3>2
  <2>2. ASSUME tenants'[t].completed PROVE Profile(t)' /\ Reviewed(completedWith[t])'
    <3>1. t \in Here(tenants)
      BY <2>2 DEF TenantsAccrue
    <3>2. CASE tenants[t].completed /\ completedWith'[t] = completedWith[t]
      <4>1. Profile(t) /\ Reviewed(completedWith[t])
        BY <3>1, <3>2 DEF DeskInv, TenantRowsInv
      <4>2. Reviewed(completedWith[t])'
        BY <1>0, <1>2, <3>2, <4>1 DEF Reviewed
      <4> QED BY <1>1, <3>1, <4>1, <4>2
    <3>3. CASE Profile(t) /\ Reviewed(DocsOf(t)) /\ completedWith'[t] = DocsOf(t)
      <4>1. Reviewed(completedWith[t])'
        BY <1>0, <1>2, <3>3 DEF Reviewed
      <4> QED BY <1>1, <3>1, <3>3, <4>1
    <3> QED BY <2>2, <3>2, <3>3 DEF TenantsAccrue
  <2> QED BY <2>1, <2>2 DEF TenantsAccrue
<1>4. ASSUME NEW p \in Requests, p # q PROVE KnowsTenant(p)'
  <2>0. KnowsTenant(p) /\ TenantInv(p)
    BY DEF DeskInv, TreeInv, LocalInv
  <2>1. step'[p] = step[p] /\ locks'[p] = locks[p]
    BY <1>4 DEF Only
  <2>2. At(p, "transition_tenant", "check")' => tenants'[p.tenant].status # "ONBOARDING"
    BY <2>0, <2>1 DEF KnowsTenant, TenantInv, TenantStepsOnRow, At, TenantsAccrue
  <2>3. At(p, "complete_onboarding", "check")' \/ At(p, "complete_onboarding", "complete")' =>
           TenantLock(p)' \subseteq locks'[p]
    BY <2>0, <2>1 DEF KnowsTenant, At, TenantLock
  <2>4. ASSUME At(p, "complete_onboarding", "complete")'
        PROVE  Profile(p.tenant)' /\ Reviewed(DocsOf(p.tenant))'
    <3>1. At(p, "complete_onboarding", "complete") /\ p.tenant \in Here(tenants)
      BY <2>0, <2>1, <2>4 DEF At, TenantInv, TenantStepsOnRow
    <3>2. Profile(p.tenant) /\ Reviewed(DocsOf(p.tenant)) /\ TenantLock(p) \subseteq locks[p]
      BY <2>0, <3>1 DEF KnowsTenant
    <3> DEFINE t == p.tenant
    <3>3. ~Free(q, <<"tenant", t>>, "key_share")
      <4>1. Lock(<<"tenant", t>>, "update") \in locks[p]
        BY <3>2 DEF TenantLock
      <4>2. ~Compatible("update", "key_share")
        BY DEF Compatible
      <4> QED BY <1>4, <4>1, <4>2 DEF Free, Lock
    <3>4. DocsOf(t)' = DocsOf(t)
      <4>1. \A d \in DocsOf(t) : d \in DocsOf(t)'
        BY <1>0, <1>2, <3>2 DEF DocsOf, Reviewed
      <4>2. \A d \in DocsOf(t)' : d \in DocsOf(t)
        BY <1>0, <3>3 DEF DocsOf, DocsAccrue
      <4> QED BY <4>1, <4>2
    <3>5. Reviewed(DocsOf(p.tenant))'
      BY <1>0, <1>2, <3>2, <3>4 DEF Reviewed
    <3> QED BY <1>1, <3>1, <3>2, <3>5
  <2>5. At(p, "provision_tenant", "set_org")' => p.tenant \in orgs'
    BY <2>0, <2>1 DEF KnowsTenant, At, ProfilesAccrue
  <2>6. ASSUME Reviewing(p)'
        PROVE  /\ Lock(<<"doc", p.doc>>, "update") \in locks'[p]
               /\ p.doc \in Here(docs)' /\ docs'[p.doc].status = "PENDING_REVIEW"
    <3>1. Reviewing(p)
      BY <2>1, <2>6 DEF Reviewing, At
    <3>2. ~(Reviewing(q) /\ q.doc = p.doc)
      BY <1>4, <3>1 DEF DeskInv, HoldersApart
    <3>3. p.doc \in Here(docs) /\ docs'[p.doc] = docs[p.doc]
      BY <2>0, <3>1, <3>2 DEF KnowsTenant, DocsAccrue
    <3>4. p.doc \in DOMAIN docs' /\ docs[p.doc] # None
      BY <3>3 DEF Here, DeskInv, TenantTablesType
    <3> QED BY <2>0, <2>1, <3>1, <3>3, <3>4 DEF KnowsTenant, Here
  <2>7. Connecting(p)' => ChannelLock(p)' \subseteq locks'[p]
    BY <2>0, <2>1 DEF KnowsTenant, Connecting, At, ChannelLock
  <2>8. ASSUME At(p, "upsert_channel", "commit_channel")' PROVE secrets'[p.by.tenant] = p.provider
    <3>1. At(p, "upsert_channel", "commit_channel") /\ Connecting(p) /\ p.by.tenant \in Tenants
      BY <2>1, <2>8, TenantRequestsAssumption DEF At, Connecting
    <3>2. ~(Connecting(q) /\ q.by.tenant = p.by.tenant)
      BY <1>4, <3>1 DEF DeskInv, HoldersApart
    <3> QED BY <2>0, <3>1, <3>2 DEF KnowsTenant, ChannelsAccrue
  <2> QED BY <2>2, <2>3, <2>4, <2>5, <2>6, <2>7, <2>8 DEF KnowsTenant
<1>5. OutsideIsInStep'
  <2> SUFFICES ASSUME ~half'
               PROVE  /\ \A d \in Here(docs') : files'[d] = "deleted" =>
                            \E p \in Requests : At(p, "delete_document", "commit_delete")' /\ p.doc = d
                      /\ \A t \in Tenants : channels'[t] # secrets'[t] =>
                            \E p \in Requests : At(p, "upsert_channel", "commit_channel")' /\ p.by.tenant = t
    BY <1>0 DEF OutsideIsInStep
  <2>0. /\ \A d \in Here(docs) : files[d] = "deleted" =>
              \E p \in Requests : At(p, "delete_document", "commit_delete") /\ p.doc = d
        /\ \A t \in Tenants : channels[t] # secrets[t] =>
              \E p \in Requests : At(p, "upsert_channel", "commit_channel") /\ p.by.tenant = t
    BY DEF DeskInv, OutsideIsInStep
  <2>1. ASSUME NEW d \in Here(docs'), files'[d] = "deleted"
        PROVE  \E p \in Requests : At(p, "delete_document", "commit_delete")' /\ p.doc = d
    <3>1. CASE At(q, "delete_document", "commit_delete")' /\ q.doc = d
      BY <3>1
    <3>2. CASE /\ d \in Here(docs) /\ files[d] = "deleted"
               /\ ~(At(q, "delete_document", "commit_delete") /\ q.doc = d)
      <4>1. PICK p \in Requests : At(p, "delete_document", "commit_delete") /\ p.doc = d
        BY <2>0, <3>2
      <4>2. At(p, "delete_document", "commit_delete")'
        BY <3>2, <4>1 DEF Only, At
      <4> QED BY <4>1, <4>2
    <3> QED BY <2>1, <3>1, <3>2 DEF DocsAccrue
  <2>2. ASSUME NEW t \in Tenants, channels'[t] # secrets'[t]
        PROVE  \E p \in Requests : At(p, "upsert_channel", "commit_channel")' /\ p.by.tenant = t
    <3>1. CASE At(q, "upsert_channel", "commit_channel")' /\ q.by.tenant = t
      BY <3>1
    <3>2. CASE /\ channels[t] # secrets[t]
               /\ ~(At(q, "upsert_channel", "commit_channel") /\ q.by.tenant = t)
      <4>1. PICK p \in Requests : At(p, "upsert_channel", "commit_channel") /\ p.by.tenant = t
        BY <2>0, <3>2
      <4>2. At(p, "upsert_channel", "commit_channel")'
        BY <3>2, <4>1 DEF Only, At
      <4> QED BY <4>1, <4>2
    <3> QED BY <2>2, <3>1, <3>2 DEF ChannelsAccrue
  <2> QED BY <2>1, <2>2
<1> QED BY <1>3, <1>4, <1>5 DEF DeskInv

DeskStep(q) ==
    /\ TenantsAccrue /\ ProfilesAccrue /\ DocsAccrue(q) /\ ChannelsAccrue(q) /\ (half => half')
    /\ TenantTablesType' /\ HoldersApart' /\ KnowsTenant(q)'

\* What a step leaves alone.
LEMMA TenantsSame ==
    ASSUME DeskInv, UNCHANGED <<tenants, completedWith>>, orgs \subseteq orgs'
    PROVE  TenantsAccrue
BY DEF TenantsAccrue, DeskInv, TenantRowsInv

LEMMA ProfilesSame ==
    ASSUME UNCHANGED <<users, sections>>, orgs \subseteq orgs'
    PROVE  ProfilesAccrue
BY DEF ProfilesAccrue

LEMMA DocsSame ==
    ASSUME NEW q \in Requests, UNCHANGED <<docs, files>>,
           half' \/ ~At(q, "delete_document", "commit_delete")
    PROVE  DocsAccrue(q)
BY DEF DocsAccrue

LEMMA ChannelsSame ==
    ASSUME NEW q \in Requests, UNCHANGED <<channels, secrets>>,
           half' \/ ~At(q, "upsert_channel", "commit_channel")
    PROVE  ChannelsAccrue(q)
BY DEF ChannelsAccrue

LEMMA HoldersStayApart ==
    ASSUME DeskInv, NEW q \in Requests, Only(q),
           Reviewing(q)' => Reviewing(q), Connecting(q)' => Connecting(q)
    PROVE  HoldersApart'
<1>1. \A p \in Requests : (Reviewing(p)' => Reviewing(p)) /\ (Connecting(p)' => Connecting(p))
  BY DEF Only, Reviewing, Connecting, At
<1> QED BY <1>1 DEF DeskInv, HoldersApart

LEMMA NoTenantKnown ==
    ASSUME NEW q \in Requests, q.op \notin TenantOps \/ step'[q] \in {"received", "answered"}
    PROVE  KnowsTenant(q)' /\ ~Reviewing(q)' /\ ~Connecting(q)'
BY DEF KnowsTenant, Reviewing, Connecting, At, TenantOps

\* The other requests' statements, and failures.
LEMMA OthersLeaveTenants ==
    ASSUME DeskInv, NEW q \in Requests, Only(q),
           q.op \notin TenantOps \/ step'[q] \in {"received", "answered"},
           UNCHANGED <<tenants, sections, docs, files, modules, channels, secrets, completedWith>>,
           ProfilesAccrue, half' \in BOOLEAN, half => half',
           ~half' => /\ ~At(q, "delete_document", "commit_delete")
                     /\ ~At(q, "upsert_channel", "commit_channel")
    PROVE  DeskStep(q)
<1>1. KnowsTenant(q)' /\ HoldersApart'
  BY NoTenantKnown, HoldersStayApart
<1>2. orgs \subseteq orgs'
  BY DEF ProfilesAccrue
<1>3. TenantTablesType'
  BY DEF DeskInv, TenantTablesType
<1>4. DocsAccrue(q) /\ ChannelsAccrue(q)
  BY DocsSame, ChannelsSame
<1> QED BY <1>1, <1>2, <1>3, <1>4, TenantsSame DEF DeskStep

\* A user stays with its tenant, and stays invited.
LEMMA UsersAccrue ==
    ASSUME BindInv, NEW q \in Requests, UserStep(q)
    PROVE  /\ orgs \subseteq orgs'
           /\ \A u \in Here(users) : /\ u \in Here(users')
                                     /\ users'[u].tenant = users[u].tenant
                                     /\ users[u].invited => users'[u].invited
<1>0. UsersType /\ KnowsUser(q)
  BY DEF BindInv
<1>1. CASE UNCHANGED <<users, orgs>> \/ GetOrCreateOrg(q)
  BY <1>1 DEF GetOrCreateOrg
<1>2. ASSUME NEW u0 \in Users, NEW row \in UserRows, UNCHANGED orgs,
             users' = [users EXCEPT ![u0] = row], 
             u0 \in Here(users) => row.tenant = users[u0].tenant /\ (users[u0].invited => row.invited)
      PROVE  /\ orgs \subseteq orgs'
             /\ \A u \in Here(users) : /\ u \in Here(users')
                                       /\ users'[u].tenant = users[u].tenant
                                       /\ users[u].invited => users'[u].invited
  <2>1. row # None
    BY UserRequestsAssumption
  <2> QED BY <1>0, <1>2, <2>1 DEF UsersType, Here
<1>3. \A u \in Here(users) : u \in Users /\ users[u] \in UserRows
  BY <1>0 DEF UsersType, Here
<1>4. CASE InsertUser(q)
  <2> DEFINE row == UserRow(q.tenant, q.email, q.roles)
  <2>1. /\ q.user \in Users /\ users[q.user] = None /\ UNCHANGED orgs
        /\ users' = [users EXCEPT ![q.user] = row]
        /\ q.tenant \in Tenants /\ q.email \in Emails /\ q.roles \subseteq [role : RoleIds, node : Nodes]
    BY <1>4, UserRequestsAssumption DEF InsertUser, At, UserOps
  <2>2. row \in UserRows
    BY <2>1 DEF UserRow, UserRows, UserStatus
  <2>3. q.user \notin Here(users)
    BY <2>1 DEF Here
  <2> HIDE DEF row
  <2> QED BY <1>2, <2>1, <2>2, <2>3
<1>5. CASE SetUserStatus(q)
  <2>1. q.op = "transition_user" /\ InFlight(q) /\ q.status \in {"SUSPENDED", "ACTIVE"}
    BY <1>5, UserRequestsAssumption DEF SetUserStatus, At, InFlight
  <2>2. q.user \in Here(users)
    BY <1>0, <2>1 DEF KnowsUser
  <2> DEFINE row == [users[q.user] EXCEPT !.status = q.status, !.suspended = (q.status = "SUSPENDED")]
  <2>3. row \in UserRows /\ row.tenant = users[q.user].tenant /\ row.invited = users[q.user].invited
    <3>1. users[q.user] \in UserRows
      BY <1>3, <2>2
    <3> QED BY <2>1, <3>1 DEF UserRows, UserStatus
  <2>4. users' = [users EXCEPT ![q.user] = row] /\ UNCHANGED orgs
    BY <1>0, <1>3, <1>5, <2>2 DEF SetUserStatus, UsersType
  <2> HIDE DEF row
  <2> QED BY <1>2, <1>3, <2>2, <2>3, <2>4
<1>6. CASE MarkInvited(q)
  <2>1. q.op = "send_invitation" /\ InFlight(q)
    BY <1>6 DEF MarkInvited, At, InFlight
  <2>2. q.user \in Here(users)
    BY <1>0, <2>1 DEF KnowsUser
  <2> DEFINE row == [users[q.user] EXCEPT !.invited = TRUE]
  <2>3. row \in UserRows /\ row.tenant = users[q.user].tenant /\ row.invited
    <3>1. users[q.user] \in UserRows
      BY <1>3, <2>2
    <3> QED BY <3>1 DEF UserRows
  <2>4. users' = [users EXCEPT ![q.user] = row] /\ UNCHANGED orgs
    BY <1>0, <1>3, <1>6, <2>2 DEF MarkInvited, UsersType
  <2> HIDE DEF row
  <2> QED BY <1>2, <1>3, <2>2, <2>3, <2>4
<1>7. CASE AcceptInvitation(q)
  <2>1. q.op = "login" /\ InFlight(q) /\ q.sub \in Subs
    BY <1>7, UserRequestsAssumption DEF AcceptInvitation, At, InFlight
  <2>2. local[q] \in Here(users)
    BY <1>0, <2>1 DEF KnowsUser
  <2> DEFINE row == [users[local[q]] EXCEPT !.status = "ACTIVE", !.sub = q.sub, !.accepted = TRUE]
  <2>3. row \in UserRows /\ row.tenant = users[local[q]].tenant /\ row.invited = users[local[q]].invited
    <3>1. users[local[q]] \in UserRows
      BY <1>3, <2>2
    <3> QED BY <2>1, <3>1 DEF UserRows, UserStatus
  <2>4. users' = [users EXCEPT ![local[q]] = row] /\ UNCHANGED orgs
    BY <1>0, <1>3, <1>7, <2>2 DEF AcceptInvitation, UsersType
  <2> HIDE DEF row
  <2> QED BY <1>2, <1>3, <2>2, <2>3, <2>4
<1>8. CASE CommitUser(q)
  <2>1. q.op = "patch_user" /\ InFlight(q)
    BY <1>8 DEF CommitUser, At, InFlight
  <2>2. q.user \in Here(users)
    BY <1>0, <2>1 DEF KnowsUser
  <2> DEFINE e == IF q.email = None THEN users[q.user].email ELSE q.email
             r == IF q.roles = None THEN users[q.user].roles
                  ELSE DiffApplied(users[q.user].roles, local[q].current, q.roles)
             row == [users[q.user] EXCEPT !.email = e, !.roles = r]
  <2>3. users' = [users EXCEPT ![q.user] = row] /\ UNCHANGED orgs
    BY <1>0, <1>3, <1>8, <2>2 DEF CommitUser, UsersType
  <2>4. e \in Emails
    BY <1>3, <2>1, <2>2, UserRequestsAssumption DEF UserRows
  <2>5. r \in SUBSET [role : RoleIds, node : Nodes]
    <3>1. users[q.user].roles \in SUBSET [role : RoleIds, node : Nodes]
      BY <1>3, <2>2 DEF UserRows
    <3>2. q.roles # None => q.roles \in SUBSET [role : RoleIds, node : Nodes]
      BY <2>1, UserRequestsAssumption
    <3> QED BY <3>1, <3>2 DEF DiffApplied
  <2> HIDE DEF e, r
  <2>6. row \in UserRows /\ row.tenant = users[q.user].tenant /\ row.invited = users[q.user].invited
    BY <1>3, <2>2, <2>4, <2>5 DEF UserRows
  <2> HIDE DEF row
  <2> QED BY <1>2, <1>3, <2>2, <2>3, <2>6
<1> QED BY <1>1, <1>4, <1>5, <1>6, <1>7, <1>8 DEF UserStep, ValidateUser, ReadUser, LockUser, UpdateUserEmail,
        LockForStatus, ReadForProvision, ProvisionUser, SendInvitation, ReconcileAcceptance, userVars

\* The statements that only read, or lock.
LEMMA TenantIsRead ==
    ASSUME DeskInv, TreeInv, NEW q \in Requests,
           \/ CheckName(q) \/ LockTenant(q) \/ CheckPresence(q) \/ ProvisionOrganization(q)
           \/ CheckNotCompleted(q) \/ LockDocument(q) \/ SelectModule(q) \/ UpsertChannel(q)
    PROVE  DeskStep(q)
<1>0. SessionType /\ Only(q)
  BY TenantSession DEF TreeInv, TenantStep
<1>1. /\ UNCHANGED tenantVars /\ UNCHANGED users /\ orgs \subseteq orgs'
      /\ step'[q] \notin {"commit_delete", "commit_channel"}
      /\ step[q] \notin {"commit_delete", "commit_channel"}
  BY <1>0 DEF CheckName, LockTenant, CheckPresence, ProvisionOrganization, CheckNotCompleted, LockDocument,
       SelectModule, UpsertChannel, At, Proceed, userVars, tenantVars, SessionType
<1>2. UNCHANGED <<tenants, sections, docs, files, modules, channels, secrets, completedWith, half>>
  BY <1>1 DEF tenantVars
<1>3. TenantsAccrue /\ ProfilesAccrue /\ (half => half') /\ TenantTablesType'
  BY <1>1, <1>2, TenantsSame, ProfilesSame DEF DeskInv, TenantTablesType
<1>4. DocsAccrue(q) /\ ChannelsAccrue(q)
  BY <1>1, <1>2, DocsSame, ChannelsSame DEF At
<1> SUFFICES HoldersApart' /\ KnowsTenant(q)'
  BY <1>3, <1>4 DEF DeskStep
<1>5. CASE CheckName(q) \/ CheckNotCompleted(q) \/ SelectModule(q)
  <2>1. q.op \in {"create_tenant", "update_tenant", "patch_onboarding", "enable_module", "disable_module"}
    BY <1>5 DEF CheckName, CheckNotCompleted, SelectModule, At
  <2>2. ~Reviewing(q)' /\ ~Connecting(q)' /\ KnowsTenant(q)'
    BY <2>1 DEF KnowsTenant, Reviewing, Connecting, At
  <2> QED BY <1>0, <2>2, HoldersStayApart
<1>6. CASE LockTenant(q)
  <2>1. /\ q.op \in {"transition_tenant", "complete_onboarding"} /\ step'[q] = "check"
        /\ locks'[q] = locks[q] \cup TenantLock(q)
        /\ tenants[q.tenant].status \in _TRANSITION_ALLOWED_SOURCES[Target_status(q)]
    BY <1>0, <1>6 DEF LockTenant, At, Proceed, SessionType
  <2>2. q.op = "transition_tenant" => tenants[q.tenant].status # "ONBOARDING"
    <3> SUFFICES ASSUME q.op = "transition_tenant" PROVE tenants[q.tenant].status # "ONBOARDING"
      OBVIOUS
    <3>1. q.status \in {"SUSPENDED", "ACTIVE"} /\ Target_status(q) = q.status
      BY RequestsAssumption DEF Target_status
    <3> QED BY <2>1, <3>1 DEF _TRANSITION_ALLOWED_SOURCES
  <2>3. ~Reviewing(q)' /\ ~Connecting(q)'
    BY <2>1 DEF Reviewing, Connecting, At
  <2>4. KnowsTenant(q)'
    BY <1>2, <2>1, <2>2, <2>3 DEF KnowsTenant, At, TenantLock
  <2> QED BY <1>0, <2>3, <2>4, HoldersStayApart
<1>7. CASE CheckPresence(q)
  <2>1. /\ At(q, "complete_onboarding", "check") /\ step'[q] = "complete" /\ locks'[q] = locks[q]
        /\ NothingMissing(q.tenant) /\ UNCHANGED orgs
    BY <1>0, <1>7 DEF CheckPresence, At, Proceed, SessionType, userVars
  <2>2. TenantLock(q) \subseteq locks[q] /\ q.tenant \in Here(tenants)
    BY <2>1 DEF DeskInv, KnowsTenant, TreeInv, LocalInv, TenantInv, TenantStepsOnRow, At
  <2>3. Profile(q.tenant) /\ Reviewed(DocsOf(q.tenant))
    <3>1. q.tenant \in orgs
      BY <2>1, <2>2 DEF DeskInv, TenantRowsInv, NothingMissing
    <3> QED BY <2>1, <3>1 DEF NothingMissing, Profile, Reviewed, DocsOf
  <2>4. Profile(q.tenant)' /\ Reviewed(DocsOf(q.tenant))'
    BY <1>1, <1>2, <2>1, <2>3 DEF Profile, Reviewed, DocsOf, Here
  <2>5. ~Reviewing(q)' /\ ~Connecting(q)'
    BY <2>1 DEF Reviewing, Connecting, At
  <2>6. KnowsTenant(q)'
    BY <2>1, <2>2, <2>4, <2>5 DEF KnowsTenant, At, TenantLock
  <2> QED BY <1>0, <2>5, <2>6, HoldersStayApart
<1>8. CASE ProvisionOrganization(q)
  <2>1. q.op = "provision_tenant" /\ orgs' = orgs \cup {q.tenant}
    BY <1>8 DEF ProvisionOrganization, At
  <2>2. ~Reviewing(q)' /\ ~Connecting(q)' /\ KnowsTenant(q)'
    BY <2>1 DEF KnowsTenant, Reviewing, Connecting, At
  <2> QED BY <1>0, <2>2, HoldersStayApart
<1>9. CASE LockDocument(q)
  <2>1. /\ q.op \in {"review_document", "delete_document"} /\ step'[q] = "write_document" /\ q.doc \in Docs
        /\ docs[q.doc] # None /\ docs[q.doc].status = "PENDING_REVIEW"
        /\ Free(q, <<"doc", q.doc>>, "update") /\ Lock(<<"doc", q.doc>>, "update") \in locks'[q]
    BY <1>0, <1>9, TenantRequestsAssumption DEF LockDocument, At, Proceed, SessionType
  <2>2. ~Connecting(q)' /\ KnowsTenant(q)'
    BY <1>2, <2>1 DEF KnowsTenant, Connecting, Reviewing, At, Here, DeskInv, TenantTablesType
  <2>3. ASSUME NEW p \in Requests, p # q, Reviewing(p) PROVE p.doc # q.doc
    <3>1. SUFFICES ASSUME p.doc = q.doc PROVE FALSE
      OBVIOUS
    <3>2. Lock(<<"doc", q.doc>>, "update") \in locks[p]
      BY <2>3, <3>1 DEF DeskInv, KnowsTenant
    <3>3. Compatible("update", "update")
      BY <2>1, <2>3, <3>2 DEF Free, Lock
    <3> QED BY <3>3 DEF Compatible
  <2>4. \A p \in Requests \ {q} : (Reviewing(p)' => Reviewing(p)) /\ (Connecting(p)' => Connecting(p))
    BY <1>0 DEF Only, Reviewing, Connecting, At
  <2>5. HoldersApart'
    BY <2>2, <2>3, <2>4 DEF DeskInv, HoldersApart
  <2> QED BY <2>2, <2>5
<1>10. CASE UpsertChannel(q)
  <2>1. /\ q.op = "upsert_channel" /\ step'[q] = "write_secret"
        /\ \A l \in ChannelLock(q) : Free(q, l.row, l.mode)
        /\ ChannelLock(q) \subseteq locks'[q]
    BY <1>0, <1>10 DEF UpsertChannel, At, Proceed, SessionType
  <2>2. ~Reviewing(q)' /\ KnowsTenant(q)'
    BY <2>1 DEF KnowsTenant, Connecting, Reviewing, At, ChannelLock
  <2>3. ASSUME NEW p \in Requests, p # q, Connecting(p) PROVE p.by.tenant # q.by.tenant
    <3>1. SUFFICES ASSUME p.by.tenant = q.by.tenant PROVE FALSE
      OBVIOUS
    <3>2. Lock(<<"channel", q.by.tenant>>, "no_key") \in locks[p]
      BY <2>3, <3>1 DEF DeskInv, KnowsTenant, ChannelLock
    <3>3. Free(q, <<"channel", q.by.tenant>>, "no_key")
      <4> DEFINE l == Lock(<<"channel", q.by.tenant>>, "no_key")
      <4>1. l \in ChannelLock(q)
        BY DEF ChannelLock
      <4>2. l.row = <<"channel", q.by.tenant>> /\ l.mode = "no_key"
        BY DEF Lock
      <4> HIDE DEF l
      <4>3. Free(q, l.row, l.mode)
        BY <2>1, <4>1
      <4> QED BY <4>2, <4>3
    <3>4. Compatible("no_key", "no_key")
      BY <2>3, <3>2, <3>3 DEF Free, Lock
    <3> QED BY <3>4 DEF Compatible
  <2>4. \A p \in Requests \ {q} : (Reviewing(p)' => Reviewing(p)) /\ (Connecting(p)' => Connecting(p))
    BY <1>0 DEF Only, Reviewing, Connecting, At
  <2>5. HoldersApart'
    BY <2>2, <2>3, <2>4 DEF DeskInv, HoldersApart
  <2> QED BY <2>2, <2>5
<1> QED BY <1>5, <1>6, <1>7, <1>8, <1>9, <1>10

\* The statements that write a tenant's row.
LEMMA TenantIsWritten ==
    ASSUME DeskInv, TreeInv, NEW q \in Requests,
           \/ UpdateTenant(q) \/ TransitionTenant(q) \/ CompleteOnboarding(q)
           \/ SetAuth0OrgId(q) \/ UpsertOnboarding(q)
    PROVE  DeskStep(q)
<1>0. SessionType /\ Only(q)
  BY TenantSession DEF TreeInv, TenantStep
<1>1. /\ UNCHANGED <<users, orgs, sections, docs, files, modules, channels, secrets, half>>
      /\ step'[q] = "answered" /\ step[q] \notin {"commit_delete", "commit_channel"}
      /\ q.tenant \in Tenants
  BY <1>0, RequestsAssumption
     DEF UpdateTenant, TransitionTenant, CompleteOnboarding, SetAuth0OrgId, UpsertOnboarding, At, Answer,
         AnswerAudited, Done, userVars, docVars, channelVars, SessionType
<1>2. /\ KnowsTenant(q)' /\ HoldersApart' /\ ProfilesAccrue
      /\ DocsAccrue(q) /\ ChannelsAccrue(q)
  BY <1>0, <1>1, NoTenantKnown, HoldersStayApart, ProfilesSame, DocsSame, ChannelsSame DEF At
<1>3. q.tenant \in Here(tenants) /\ KnowsTenant(q)
  <2>1. <<q.op, step[q]>> \in TenantStepsOnRow
    BY DEF UpdateTenant, TransitionTenant, CompleteOnboarding, SetAuth0OrgId, UpsertOnboarding, At, TenantStepsOnRow
  <2> QED BY <2>1 DEF TreeInv, LocalInv, TenantInv, DeskInv
<1>4. tenants \in [Tenants -> TenantRows \cup {None}] /\ tenants[q.tenant] \in TenantRows
  BY <1>1, <1>3 DEF TreeInv, TableInv, TablesType, Here
<1> DEFINE t0 == q.tenant
           old == tenants[q.tenant]
<1>5. PICK row :
         /\ row # None /\ tenants' = [tenants EXCEPT ![t0] = row]
         /\ old.org => row.org
         /\ row.org => t0 \in orgs
         /\ old.status # "ONBOARDING" => row.status # "ONBOARDING"
         /\ row.completed <=> row.status # "ONBOARDING"
         /\ \/ row.completed = old.completed /\ UNCHANGED completedWith
            \/ /\ Profile(t0) /\ Reviewed(DocsOf(t0))
               /\ completedWith' = [completedWith EXCEPT ![t0] = DocsOf(t0)]
  <2>0. old.completed <=> old.status # "ONBOARDING"
    BY <1>3 DEF DeskInv, TenantRowsInv
  <2>1. old.org => t0 \in orgs
    BY <1>3 DEF DeskInv, TenantRowsInv
  <2>2. CASE UpdateTenant(q)
    <3> DEFINE row == [old EXCEPT !.name = q.name]
    <3>1. row \in TenantRows
      BY <1>4, <2>2, RequestsAssumption DEF UpdateTenant, At, TenantRows
    <3>2. row.org = old.org /\ row.status = old.status /\ row.completed = old.completed
      BY <1>4 DEF TenantRows
    <3>3. tenants' = [tenants EXCEPT ![t0] = row] /\ UNCHANGED completedWith
      BY <1>4, <2>2 DEF UpdateTenant
    <3> HIDE DEF row
    <3> QED BY <2>0, <2>1, <3>1, <3>2, <3>3, NoneAssumption
  <2>3. CASE TransitionTenant(q)
    <3> DEFINE row == [old EXCEPT !.status = q.status, !.suspended = (q.status = "SUSPENDED")]
    <3>1. q.status \in {"SUSPENDED", "ACTIVE"} /\ old.status # "ONBOARDING"
      BY <1>3, <2>3, RequestsAssumption DEF TransitionTenant, At, KnowsTenant
    <3>2. row \in TenantRows
      BY <1>4, <3>1 DEF TenantRows, TenantStatus
    <3>3. row.org = old.org /\ row.status = q.status /\ row.completed = old.completed
      BY <1>4 DEF TenantRows
    <3>4. tenants' = [tenants EXCEPT ![t0] = row] /\ UNCHANGED completedWith
      BY <1>4, <2>3 DEF TransitionTenant
    <3> HIDE DEF row
    <3> QED BY <2>0, <2>1, <3>1, <3>2, <3>3, <3>4, NoneAssumption
  <2>4. CASE CompleteOnboarding(q)
    <3> DEFINE row == [old EXCEPT !.status = "TRIAL", !.completed = TRUE]
    <3>1. Profile(t0) /\ Reviewed(DocsOf(t0))
      BY <1>3, <2>4 DEF CompleteOnboarding, KnowsTenant
    <3>2. row \in TenantRows
      BY <1>4 DEF TenantRows, TenantStatus
    <3>3. row.org = old.org /\ row.status = "TRIAL" /\ row.completed = TRUE
      BY <1>4 DEF TenantRows
    <3>4. /\ tenants' = [tenants EXCEPT ![t0] = row]
          /\ completedWith' = [completedWith EXCEPT ![t0] = DocsOf(t0)]
      BY <1>4, <2>4 DEF CompleteOnboarding
    <3> HIDE DEF row
    <3> QED BY <2>1, <3>1, <3>2, <3>3, <3>4, NoneAssumption
  <2>5. CASE SetAuth0OrgId(q)
    <3> DEFINE row == [old EXCEPT !.org = TRUE]
    <3>1. t0 \in orgs
      BY <1>3, <2>5 DEF SetAuth0OrgId, KnowsTenant
    <3>2. row \in TenantRows
      BY <1>4 DEF TenantRows
    <3>3. row.status = old.status /\ row.completed = old.completed /\ row.org
      BY <1>4 DEF TenantRows
    <3>4. tenants' = [tenants EXCEPT ![t0] = row] /\ UNCHANGED completedWith
      BY <1>4, <2>5 DEF SetAuth0OrgId
    <3> HIDE DEF row
    <3> QED BY <2>0, <3>1, <3>2, <3>3, <3>4, NoneAssumption
  <2>6. CASE UpsertOnboarding(q)
    <3> DEFINE row == [old EXCEPT !.resume = q.section]
    <3>1. row \in TenantRows
      BY <1>4, <2>6, RequestsAssumption DEF UpsertOnboarding, At, TenantRows
    <3>2. row.org = old.org /\ row.status = old.status /\ row.completed = old.completed
      BY <1>4 DEF TenantRows
    <3>3. tenants' = [tenants EXCEPT ![t0] = row] /\ UNCHANGED completedWith
      BY <1>4, <2>6 DEF UpsertOnboarding
    <3> HIDE DEF row
    <3> QED BY <2>0, <2>1, <3>1, <3>2, <3>3, NoneAssumption
  <2> QED BY <2>2, <2>3, <2>4, <2>5, <2>6
<1>6. /\ Here(tenants') = Here(tenants) /\ tenants'[t0] = row
      /\ \A t \in Here(tenants) \ {t0} : tenants'[t] = tenants[t] /\ completedWith'[t] = completedWith[t]
  BY <1>3, <1>4, <1>5 DEF Here, DeskInv, TenantTablesType
<1>7. row.completed => \/ old.completed /\ completedWith'[t0] = completedWith[t0]
                       \/ Profile(t0) /\ Reviewed(DocsOf(t0)) /\ completedWith'[t0] = DocsOf(t0)
  BY <1>1, <1>5 DEF DeskInv, TenantTablesType
<1>8. TenantsAccrue
  <2>1. ASSUME NEW t \in Here(tenants)
        PROVE  /\ tenants[t].org => tenants'[t].org
               /\ tenants[t].status # "ONBOARDING" => tenants'[t].status # "ONBOARDING"
    BY <1>5, <1>6
  <2>2. ASSUME NEW t \in Here(tenants)
        PROVE  /\ tenants'[t].org => t \in orgs'
               /\ tenants'[t].completed <=> tenants'[t].status # "ONBOARDING"
               /\ tenants'[t].completed =>
                     \/ tenants[t].completed /\ completedWith'[t] = completedWith[t]
                     \/ Profile(t) /\ Reviewed(DocsOf(t)) /\ completedWith'[t] = DocsOf(t)
    <3>1. CASE t = t0
      BY <1>1, <1>5, <1>6, <1>7, <3>1
    <3>2. CASE t # t0
      <4>1. tenants'[t] = tenants[t] /\ completedWith'[t] = completedWith[t]
        BY <1>6, <3>2
      <4>2. /\ tenants[t].org => t \in orgs
            /\ tenants[t].completed <=> tenants[t].status # "ONBOARDING"
        BY DEF DeskInv, TenantRowsInv
      <4> QED BY <1>1, <4>1, <4>2
    <3> QED BY <3>1, <3>2
  <2> QED BY <1>6, <2>1, <2>2 DEF TenantsAccrue
<1>9. TenantTablesType'
  BY <1>1, <1>5 DEF DeskInv, TenantTablesType
<1> QED BY <1>1, <1>2, <1>8, <1>9 DEF DeskStep

\* A tenant is created, with its root and its modules.
LEMMA TenantIsCreated ==
    ASSUME DeskInv, TreeInv, NEW q \in Requests, CreateTenant(q)
    PROVE  DeskStep(q)
<1>0. SessionType /\ Only(q)
  BY TenantSession DEF TreeInv, TenantStep
<1> DEFINE t0 == q.tenant
           row == TenantRow(q.name)
           n0 == FreshNode
           node == NodeRow(q.tenant, TENANT, None, q.name, <<q.name>>)
<1>1. /\ UNCHANGED <<users, orgs, sections, docs, files, channels, secrets, completedWith, half>>
      /\ step'[q] = "answered" /\ step[q] = "write_tenant" /\ q.tenant \in Tenants
      /\ tenants[t0] = None /\ tenants' = [tenants EXCEPT ![t0] = row]
      /\ NodeLeft /\ nodes' = [nodes EXCEPT ![n0] = node]
      /\ modules' = [modules EXCEPT ![t0] = [m \in Modules |-> IF m \in q.modules THEN "ENABLED" ELSE None]]
  BY <1>0, RequestsAssumption
     DEF CreateTenant, At, AnswerAudited, Done, userVars, docVars, channelVars, SessionType
<1>2. /\ KnowsTenant(q)' /\ HoldersApart' /\ ProfilesAccrue
      /\ DocsAccrue(q) /\ ChannelsAccrue(q)
  BY <1>0, <1>1, NoTenantKnown, HoldersStayApart, ProfilesSame, DocsSame, ChannelsSame DEF At
<1>3. row # None /\ row.org = FALSE /\ row.completed = FALSE /\ row.status = "ONBOARDING"
  <2>1. q.name \in Names
    BY RequestsAssumption DEF CreateTenant, At
  <2>2. row \in TenantRows
    BY <2>1 DEF TenantRow, TenantRows, TenantStatus
  <2> QED BY <2>2, NoneAssumption DEF TenantRow
<1>4. node.tenant = t0 /\ node # None
  <2>1. q.name \in Codes /\ <<q.name>> \in Paths
    BY RequestsAssumption DEF CreateTenant, At, Paths
  <2>2. node \in NodeRows
    BY <1>1, <2>1 DEF NodeRow, NodeRows, NodeType, TENANT, OrgNodeStatus
  <2> QED BY <2>2, NoneAssumption DEF NodeRow
<1> HIDE DEF row, node, n0
<1>5. n0 \in NodesOf(t0)'
  <2>1. n0 \in DOMAIN nodes
    BY <1>1, FreshIsFree DEF TreeInv, TableInv, n0, TablesType
  <2> QED BY <1>1, <1>4, <2>1 DEF NodesOf, Here
<1>6. /\ Here(tenants') = Here(tenants) \cup {t0} /\ t0 \notin Here(tenants) /\ tenants'[t0] = row
      /\ \A t \in Here(tenants) : tenants'[t] = tenants[t]
  BY <1>1, <1>3 DEF Here, TreeInv, TableInv, TablesType
<1>7. TenantsAccrue
  <2>1. ASSUME NEW t \in Here(tenants)
        PROVE  /\ tenants[t].org => t \in orgs
               /\ tenants[t].completed <=> tenants[t].status # "ONBOARDING"
    BY DEF DeskInv, TenantRowsInv
  <2>2. ASSUME NEW t \in Here(tenants')
        PROVE  /\ tenants'[t].org => t \in orgs'
               /\ tenants'[t].completed <=> tenants'[t].status # "ONBOARDING"
               /\ tenants'[t].completed =>
                     t \in Here(tenants) /\ tenants[t].completed /\ completedWith'[t] = completedWith[t]
               /\ t \in Here(tenants) \/ NodesOf(t)' # {}
    <3>1. CASE t = t0
      BY <1>3, <1>5, <1>6, <3>1
    <3>2. CASE t \in Here(tenants)
      BY <1>1, <1>6, <2>1, <3>2
    <3> QED BY <1>6, <3>1, <3>2
  <2> QED BY <1>6, <2>2 DEF TenantsAccrue
<1>8. TenantTablesType'
  BY <1>1 DEF DeskInv, TenantTablesType
<1> QED BY <1>1, <1>2, <1>7, <1>8 DEF DeskStep

\* A section of the profile is written.
LEMMA SectionIsWritten ==
    ASSUME DeskInv, TreeInv, NEW q \in Requests,
           \/ upsert_legal_profile(q) \/ upsert_billing_profile(q)
           \/ replace_contacts(q) \/ replace_tax_registrations(q)
    PROVE  DeskStep(q)
<1>0. SessionType /\ Only(q)
  BY TenantSession DEF TreeInv, TenantStep
<1>1. /\ UNCHANGED <<users, orgs, tenants, docs, files, modules, channels, secrets, completedWith, half>>
      /\ step'[q] = "answered" /\ q.op = "put_section" /\ q.tenant \in Tenants
      /\ \E S \in SUBSET Sections :
            /\ sections' = [sections EXCEPT ![q.tenant] = S]
            /\ \A s \in {"legal", "billing"} : s \in sections[q.tenant] => s \in S
  <2>0. sections[q.tenant] \subseteq Sections
    BY TenantRequestsAssumption DEF DeskInv, TenantTablesType, upsert_legal_profile, upsert_billing_profile,
       replace_contacts, replace_tax_registrations, Upsert, Replace, At
  <2>1. ASSUME NEW section \in Sections, Upsert(q, section)
        PROVE  \E S \in SUBSET Sections :
                  /\ sections' = [sections EXCEPT ![q.tenant] = S]
                  /\ \A s \in {"legal", "billing"} : s \in sections[q.tenant] => s \in S
    <3> DEFINE S0 == sections[q.tenant] \cup {section}
    <3>1. sections' = [sections EXCEPT ![q.tenant] = S0]
      BY <2>1 DEF Upsert
    <3>2. S0 \in SUBSET Sections /\ \A s \in {"legal", "billing"} : s \in sections[q.tenant] => s \in S0
      BY <2>0
    <3> HIDE DEF S0
    <3> QED BY <3>1, <3>2
  <2>2. ASSUME NEW section \in {"contacts", "tax"}, Replace(q, section)
        PROVE  \E S \in SUBSET Sections :
                  /\ sections' = [sections EXCEPT ![q.tenant] = S]
                  /\ \A s \in {"legal", "billing"} : s \in sections[q.tenant] => s \in S
    <3> DEFINE S0 == IF q.empty THEN sections[q.tenant] \ {section} ELSE sections[q.tenant] \cup {section}
    <3>1. sections' = [sections EXCEPT ![q.tenant] = S0]
      BY <2>2 DEF Replace
    <3>2. S0 \in SUBSET Sections /\ \A s \in {"legal", "billing"} : s \in sections[q.tenant] => s \in S0
      BY <2>0 DEF Sections
    <3> HIDE DEF S0
    <3> QED BY <3>1, <3>2
  <2>3. \E S \in SUBSET Sections :
            /\ sections' = [sections EXCEPT ![q.tenant] = S]
            /\ \A s \in {"legal", "billing"} : s \in sections[q.tenant] => s \in S
    BY <2>1, <2>2 DEF upsert_legal_profile, upsert_billing_profile, replace_contacts, replace_tax_registrations,
       Sections
  <2>4. /\ UNCHANGED <<users, orgs, tenants, docs, files, modules, channels, secrets, completedWith, half>>
        /\ step'[q] = "answered" /\ q.op = "put_section" /\ q.tenant \in Tenants
    BY <1>0, TenantRequestsAssumption
       DEF upsert_legal_profile, upsert_billing_profile, replace_contacts, replace_tax_registrations,
           Upsert, Replace, At, Answer, Done, userVars, docVars, channelVars, SessionType
  <2> QED BY <2>3, <2>4
<1>2. KnowsTenant(q)' /\ HoldersApart' /\ TenantsAccrue /\ DocsAccrue(q) /\ ChannelsAccrue(q)
  BY <1>0, <1>1, NoTenantKnown, HoldersStayApart, TenantsSame, DocsSame, ChannelsSame DEF At
<1>3. PICK S \in SUBSET Sections :
            /\ sections' = [sections EXCEPT ![q.tenant] = S]
            /\ \A s \in {"legal", "billing"} : s \in sections[q.tenant] => s \in S
  BY <1>1
<1>4. ProfilesAccrue
  BY <1>1, <1>3 DEF ProfilesAccrue, DeskInv, TenantTablesType
<1>5. TenantTablesType'
  BY <1>1, <1>3 DEF DeskInv, TenantTablesType
<1> QED BY <1>1, <1>2, <1>4, <1>5 DEF DeskStep

\* Access to a module is written.
LEMMA ModuleIsWritten ==
    ASSUME DeskInv, TreeInv, NEW q \in Requests, enable(q) \/ disable(q)
    PROVE  DeskStep(q)
<1>0. SessionType /\ Only(q)
  BY TenantSession DEF TreeInv, TenantStep
<1>1. /\ UNCHANGED <<users, orgs, tenants, sections, docs, files, channels, secrets, completedWith, half>>
      /\ step'[q] = "answered" /\ q.op \in {"enable_module", "disable_module"}
      /\ q.tenant \in Tenants /\ q.module \in Modules
  BY <1>0, TenantRequestsAssumption
     DEF enable, disable, WriteModule, At, Answer, AnswerAudited, Done, userVars, docVars, channelVars, SessionType
<1>2. /\ KnowsTenant(q)' /\ HoldersApart' /\ TenantsAccrue /\ ProfilesAccrue
      /\ DocsAccrue(q) /\ ChannelsAccrue(q)
  BY <1>0, <1>1, NoTenantKnown, HoldersStayApart, TenantsSame, ProfilesSame, DocsSame, ChannelsSame DEF At
<1>3. modules' \in [Tenants -> [Modules -> {"ENABLED", "DISABLED", None}]]
  <2>1. PICK status \in {"ENABLED", "DISABLED"} :
           modules' = [modules EXCEPT ![q.tenant][q.module] = status]
    BY DEF enable, disable, WriteModule
  <2> QED BY <1>1, <2>1 DEF DeskInv, TenantTablesType
<1>4. TenantTablesType'
  BY <1>1, <1>3 DEF DeskInv, TenantTablesType
<1> QED BY <1>1, <1>2, <1>4 DEF DeskStep

\* The credential is written to Secret Manager, and the row that names it is committed.
LEMMA ChannelIsWritten ==
    ASSUME DeskInv, TreeInv, NEW q \in Requests, WriteSecret(q) \/ CommitChannel(q)
    PROVE  DeskStep(q)
<1>0. SessionType /\ Only(q)
  BY TenantSession DEF TreeInv, TenantStep
<1>1. /\ UNCHANGED <<users, orgs, tenants, sections, docs, files, modules, completedWith, half>>
      /\ q.op = "upsert_channel" /\ q.by.tenant \in Tenants /\ Connecting(q)
  BY TenantRequestsAssumption DEF WriteSecret, CommitChannel, At, userVars, docVars, Connecting
<1>2. KnowsTenant(q) /\ ChannelLock(q) \subseteq locks[q]
  BY <1>1 DEF DeskInv, KnowsTenant
<1>3. ~Reviewing(q)' /\ TenantsAccrue /\ ProfilesAccrue /\ DocsAccrue(q)
  BY <1>1, TenantsSame, ProfilesSame, DocsSame DEF At, Reviewing
<1>4. HoldersApart'
  BY <1>0, <1>1, <1>3, HoldersStayApart
<1>5. DOMAIN channels = Tenants /\ DOMAIN secrets = Tenants
  BY DEF DeskInv, TenantTablesType
<1>6. CASE WriteSecret(q)
  <2>1. /\ UNCHANGED channels /\ secrets' = [secrets EXCEPT ![q.by.tenant] = q.provider]
        /\ step[q] = "write_secret" /\ step'[q] = "commit_channel" /\ locks'[q] = locks[q]
    BY <1>0, <1>6 DEF WriteSecret, At, Proceed, SessionType
  <2>2. secrets'[q.by.tenant] = q.provider /\ \A t \in Tenants \ {q.by.tenant} : secrets'[t] = secrets[t]
    BY <1>1, <1>5, <2>1
  <2>3. ChannelsAccrue(q)
    BY <1>1, <2>1, <2>2 DEF ChannelsAccrue, At
  <2>4. KnowsTenant(q)'
    BY <1>1, <1>2, <1>3, <2>1, <2>2 DEF KnowsTenant, At, ChannelLock
  <2>5. TenantTablesType'
    BY <1>1, <2>1 DEF DeskInv, TenantTablesType
  <2> QED BY <1>1, <1>3, <1>4, <2>3, <2>4, <2>5 DEF DeskStep
<1>7. CASE CommitChannel(q)
  <2>1. /\ UNCHANGED secrets /\ channels' = [channels EXCEPT ![q.by.tenant] = q.provider]
        /\ step[q] = "commit_channel" /\ step'[q] = "answered"
    BY <1>0, <1>7 DEF CommitChannel, At, Answer, Done, SessionType
  <2>2. secrets[q.by.tenant] = q.provider
    BY <1>1, <1>2, <2>1 DEF KnowsTenant, At
  <2>3. channels'[q.by.tenant] = q.provider /\ \A t \in Tenants \ {q.by.tenant} : channels'[t] = channels[t]
    BY <1>1, <1>5, <2>1
  <2>4. ChannelsAccrue(q)
    BY <2>1, <2>2, <2>3 DEF ChannelsAccrue
  <2>5. KnowsTenant(q)'
    BY <2>1, NoTenantKnown
  <2>6. TenantTablesType'
    BY <1>1, <2>1 DEF DeskInv, TenantTablesType
  <2> QED BY <1>1, <1>3, <1>4, <2>4, <2>5, <2>6 DEF DeskStep
<1> QED BY <1>6, <1>7

\* A document is uploaded, reviewed, or deleted with its file.
LEMMA DocumentIsWritten ==
    ASSUME DeskInv, TreeInv, NEW q \in Requests,
           CreatePending(q) \/ verify(q) \/ reject(q) \/ DeleteObject(q) \/ DeleteDocument(q)
    PROVE  DeskStep(q)
<1>0. SessionType /\ Only(q)
  BY TenantSession DEF TreeInv, TenantStep
<1>1. /\ UNCHANGED <<users, orgs, tenants, sections, modules, channels, secrets, completedWith, half>>
      /\ q.op \in {"create_document", "review_document", "delete_document"} /\ q.doc \in Docs
  BY TenantRequestsAssumption
     DEF CreatePending, verify, reject, SetReview, DeleteObject, DeleteDocument, At, userVars, channelVars
<1>2. TenantsAccrue /\ ProfilesAccrue /\ ChannelsAccrue(q) /\ ~Connecting(q)'
  BY <1>1, TenantsSame, ProfilesSame, ChannelsSame DEF At, Connecting
<1>3. KnowsTenant(q) /\ docs \in [Docs -> DocRows \cup {None}] /\ DOMAIN files = Docs
  BY DEF DeskInv, TenantTablesType
<1>4. \A d \in Docs : docs[d] # None <=> d \in Here(docs)
  BY <1>3 DEF Here
<1>5. CASE CreatePending(q)
  <2> DEFINE row == [tenant |-> q.tenant, status |-> "PENDING_REVIEW"]
  <2>1. /\ docs[q.doc] = None /\ Free(q, <<"tenant", q.tenant>>, "key_share") /\ step'[q] = "answered"
        /\ docs' = [docs EXCEPT ![q.doc] = row] /\ files' = [files EXCEPT ![q.doc] = "stored"]
        /\ q.tenant \in Tenants /\ q.op = "create_document"
    BY <1>0, <1>5, TenantRequestsAssumption DEF CreatePending, At, Answer, Done, SessionType
  <2>2. row \in DocRows /\ row.tenant = q.tenant
    BY <2>1 DEF DocRows
  <2> HIDE DEF row
  <2>3. KnowsTenant(q)' /\ HoldersApart'
    BY <1>0, <2>1, NoTenantKnown, HoldersStayApart
  <2>4. TenantTablesType'
    BY <1>1, <1>3, <2>1, <2>2 DEF DeskInv, TenantTablesType
  <2>5. DocsAccrue(q)
    <3>1. \A d \in Here(docs) : d # q.doc /\ docs'[d] = docs[d]
      BY <1>1, <1>3, <2>1 DEF Here
    <3>2. ASSUME NEW d \in Here(docs')
          PROVE  /\ IF d \in Here(docs) THEN docs'[d].tenant = docs[d].tenant
                    ELSE Free(q, <<"tenant", docs'[d].tenant>>, "key_share")
                 /\ files'[d] = "deleted" => d \in Here(docs) /\ files[d] = "deleted"
      <4>1. CASE d = q.doc
        BY <1>1, <1>3, <2>1, <2>2, <3>1, <4>1
      <4>2. CASE d # q.doc
        <5>1. d \in Here(docs)
          BY <1>3, <2>1, <3>2, <4>2 DEF Here
        <5> QED BY <1>3, <2>1, <3>1, <4>2, <5>1
      <4> QED BY <4>1, <4>2
    <3>3. ~At(q, "delete_document", "commit_delete")
      BY <2>1 DEF At
    <3> QED BY <3>1, <3>2, <3>3 DEF DocsAccrue
  <2> QED BY <1>1, <1>2, <2>3, <2>4, <2>5 DEF DeskStep
<1>6. CASE verify(q) \/ reject(q)
  <2>1. PICK status \in {"VERIFIED", "REJECTED"} : SetReview(q, status)
    BY <1>6 DEF verify, reject
  <2>2. /\ At(q, "review_document", "write_document") /\ UNCHANGED files /\ step'[q] = "answered"
        /\ docs' = [docs EXCEPT ![q.doc].status = status]
    BY <1>0, <2>1 DEF SetReview, Answer, Done, SessionType
  <2>3. Reviewing(q) /\ q.doc \in Here(docs) /\ docs[q.doc] \in DocRows
    BY <1>1, <1>3, <1>4, <2>2 DEF Reviewing, KnowsTenant
  <2> DEFINE row == [docs[q.doc] EXCEPT !.status = status]
  <2>4. row \in DocRows /\ row.tenant = docs[q.doc].tenant /\ row # None
    BY <2>3, TenantRequestsAssumption DEF DocRows
  <2>5. docs' = [docs EXCEPT ![q.doc] = row]
    BY <2>2
  <2> HIDE DEF row
  <2>6. KnowsTenant(q)' /\ HoldersApart'
    BY <1>0, <2>2, NoTenantKnown, HoldersStayApart
  <2>7. TenantTablesType'
    BY <1>1, <1>3, <2>2, <2>4, <2>5 DEF DeskInv, TenantTablesType
  <2>8. /\ Here(docs') = Here(docs) /\ \A d \in Here(docs) : d # q.doc => docs'[d] = docs[d]
        /\ docs'[q.doc] = row
    BY <1>1, <1>3, <2>3, <2>4, <2>5 DEF Here
  <2>9. DocsAccrue(q)
    <3>1. ~At(q, "delete_document", "commit_delete")
      BY <2>2 DEF At
    <3>2. \A d \in Here(docs) : docs'[d].tenant = docs[d].tenant
      BY <2>4, <2>8
    <3> QED BY <2>2, <2>3, <2>8, <3>1, <3>2 DEF DocsAccrue
  <2> QED BY <1>1, <1>2, <2>6, <2>7, <2>9 DEF DeskStep
<1>7. CASE DeleteObject(q)
  <2>1. /\ At(q, "delete_document", "write_document") /\ UNCHANGED docs
        /\ files' \in {files, [files EXCEPT ![q.doc] = "deleted"]}
        /\ step'[q] = "commit_delete" /\ locks'[q] = locks[q]
    BY <1>0, <1>7 DEF DeleteObject, At, Proceed, SessionType
  <2>2. Reviewing(q) /\ At(q, "delete_document", "commit_delete")'
    BY <2>1 DEF Reviewing, At
  <2>3. KnowsTenant(q)'
    BY <1>2, <1>3, <2>1, <2>2 DEF KnowsTenant, At, Here
  <2>4. HoldersApart'
    BY <1>0, <1>2, <2>2, HoldersStayApart
  <2>5. TenantTablesType'
    BY <1>1, <1>3, <2>1 DEF DeskInv, TenantTablesType
  <2>6. DocsAccrue(q)
    <3>1. \A d \in Docs : d # q.doc => files'[d] = files[d]
      BY <1>3, <2>1
    <3>2. Here(docs') = Here(docs) /\ Here(docs) \subseteq Docs
      BY <1>3, <2>1 DEF Here
    <3> QED BY <2>1, <2>2, <3>1, <3>2 DEF DocsAccrue
  <2> QED BY <1>1, <1>2, <2>3, <2>4, <2>5, <2>6 DEF DeskStep
<1>8. CASE DeleteDocument(q)
  <2>1. /\ At(q, "delete_document", "commit_delete") /\ UNCHANGED files /\ step'[q] = "answered"
        /\ docs' = [docs EXCEPT ![q.doc] = None]
    BY <1>0, <1>8 DEF DeleteDocument, Answer, Done, SessionType
  <2>2. Reviewing(q)
    BY <2>1 DEF Reviewing
  <2>3. KnowsTenant(q)' /\ HoldersApart'
    BY <1>0, <2>1, NoTenantKnown, HoldersStayApart
  <2>4. TenantTablesType'
    BY <1>1, <1>3, <2>1 DEF DeskInv, TenantTablesType
  <2>5. Here(docs') = Here(docs) \ {q.doc} /\ \A d \in Here(docs) \ {q.doc} : docs'[d] = docs[d]
    BY <1>1, <1>3, <2>1 DEF Here
  <2>6. DocsAccrue(q)
    BY <2>1, <2>2, <2>5 DEF DocsAccrue
  <2> QED BY <1>1, <1>2, <2>3, <2>4, <2>6 DEF DeskStep
<1> QED BY <1>5, <1>6, <1>7, <1>8

LEMMA TenantStepKeeps ==
    ASSUME DeskInv, TreeInv, NEW q \in Requests, TenantStep(q)
    PROVE  DeskStep(q)
BY TenantIsRead, TenantIsWritten, TenantIsCreated, SectionIsWritten, ModuleIsWritten, ChannelIsWritten,
   DocumentIsWritten DEF TenantStep

LEMMA TenantsKept == TreeInv /\ BindInv /\ DeskInv /\ [Next]_vars => DeskInv'
<1> SUFFICES ASSUME TreeInv, BindInv, DeskInv, [Next]_vars PROVE DeskInv'
  OBVIOUS
<1>0. SessionType
  BY DEF TreeInv
<1>1. CASE Next
  <2>0. RowsStay
    BY <1>1, EveryStep
  <2>1. PICK q \in Requests :
          \/ Authorize(q) /\ UNCHANGED mirrorVars
          \/ OrgTreeStep(q) /\ UNCHANGED <<userVars, tenantVars, mirrorVars, roleVars>>
          \/ UserStep(q) /\ UNCHANGED <<tenantVars, mirrorVars, roleVars>>
          \/ TenantStep(q) /\ UNCHANGED <<mirrorVars, roleVars>>
          \/ MirrorStep(q) /\ UNCHANGED roleVars
          \/ RoleStep(q) /\ UNCHANGED <<treeVars, userVars, tenantVars, mirrorVars>>
          \/ RollbackTenant(q) /\ UNCHANGED <<mirrorVars, roleVars>>
    BY <1>1 DEF Next
  <2>2. DeskStep(q) /\ Only(q)
    <3>1. CASE TenantStep(q)
      BY <1>0, <3>1, TenantStepKeeps, TenantSession
    <3>2. CASE ~TenantStep(q)
      <4>1. Only(q) /\ (q.op \notin TenantOps \/ step'[q] \in {"received", "answered"})
        BY <1>0, <2>1, <3>2, GateSession, TreeSession, UserSession, MirrorSession, RoleSession, FailureSession
           DEF TreeOps, TenantOps, MirrorOps, RoleOps, UserOps
      <4>2. CASE RollbackTenant(q)
        <5>1. /\ UNCHANGED <<tenants, sections, docs, files, modules, channels, secrets, completedWith, users, orgs>>
              /\ half' = (half \/ step[q] \in {"commit_delete", "commit_channel"})
          BY <4>2 DEF RollbackTenant, RollbackUser, docVars, channelVars
        <5>2. ProfilesAccrue
          BY <5>1, ProfilesSame
        <5>3. /\ half' \in BOOLEAN /\ (half => half')
              /\ ~half' => /\ ~At(q, "delete_document", "commit_delete")
                           /\ ~At(q, "upsert_channel", "commit_channel")
          BY <5>1 DEF At, DeskInv, TenantTablesType
        <5> QED BY <4>1, <5>1, <5>2, <5>3, OthersLeaveTenants
      <4>3. CASE ~RollbackTenant(q)
        <5>1. UNCHANGED tenantVars
          BY <1>0, <2>1, <3>2, <4>3, MirrorSession DEF Authorize
        <5>2. UNCHANGED <<tenants, sections, docs, files, modules, channels, secrets, completedWith, half>>
          BY <5>1 DEF tenantVars
        <5>3. ProfilesAccrue
          <6>1. CASE UserStep(q)
            BY <5>2, <6>1, UsersAccrue DEF ProfilesAccrue
          <6>2. CASE ~UserStep(q)
            <7>1. UNCHANGED userVars
              BY <1>0, <2>1, <3>2, <4>3, <6>2, MirrorSession DEF Authorize
            <7>2. UNCHANGED <<users, orgs, sections>>
              BY <5>2, <7>1 DEF userVars
            <7> QED BY <7>2, ProfilesSame
          <6> QED BY <6>1, <6>2
        <5>4. ~At(q, "delete_document", "commit_delete") /\ ~At(q, "upsert_channel", "commit_channel")
          BY <1>0, <2>1, <3>2, <4>3, GateSession, TreeSession, UserSession, MirrorSession, RoleSession
             DEF At, TreeOps, UserOps, MirrorOps, RoleOps
        <5>5. half' \in BOOLEAN /\ (half => half')
          BY <5>2 DEF DeskInv, TenantTablesType
        <5> QED BY <4>1, <5>2, <5>3, <5>4, <5>5, OthersLeaveTenants
      <4> QED BY <4>1, <4>2, <4>3
    <3> QED BY <3>1, <3>2
  <2> QED BY <2>0, <2>2, DeskAccrues DEF DeskStep
<1>2. CASE UNCHANGED vars
  <2>1. /\ UNCHANGED <<tenants, sections, docs, files, modules, channels, secrets, completedWith, half>>
        /\ UNCHANGED <<users, orgs, nodes, step, locks>>
    BY <1>2 DEF vars, tenantVars, userVars, treeVars, sessionVars
  <2>2. TenantTablesType' /\ HoldersApart'
    BY <2>1 DEF DeskInv, TenantTablesType, HoldersApart, Reviewing, Connecting, At
  <2>3. OutsideIsInStep'
    BY <2>1 DEF DeskInv, OutsideIsInStep, At, Here
  <2>4. TenantRowsInv'
    BY <2>1 DEF DeskInv, TenantRowsInv, Profile, Reviewed, NodesOf, Here
  <2>5. ASSUME NEW p \in Requests PROVE KnowsTenant(p)'
    <3>0. KnowsTenant(p)
      BY DEF DeskInv
    <3>1. (Reviewing(p)' => Reviewing(p)) /\ (Connecting(p)' => Connecting(p))
      BY <2>1 DEF Reviewing, Connecting, At
    <3>2. Profile(p.tenant) /\ Reviewed(DocsOf(p.tenant)) => Profile(p.tenant)' /\ Reviewed(DocsOf(p.tenant))'
      BY <2>1 DEF Profile, Reviewed, DocsOf, Here
    <3> QED BY <2>1, <3>0, <3>1, <3>2 DEF KnowsTenant, At, TenantLock, ChannelLock, Here
  <2> QED BY <2>2, <2>3, <2>4, <2>5 DEF DeskInv
<1> QED BY <1>1, <1>2

LEMMA TenantsStart == Init => DeskInv
<1> SUFFICES ASSUME Init PROVE DeskInv
  OBVIOUS
<1>1. \A q \in Requests : step[q] \in {"answered", "received", "arrived"}
  BY DEF Init, SessionInit
<1>2. /\ tenants = SeedTenants /\ sections = SeedSections /\ docs = SeedDocs /\ modules = SeedModules
      /\ users = SeedUsers /\ nodes = SeedNodes /\ half = FALSE
      /\ files = [d \in Docs |-> IF SeedDocs[d] = None THEN "absent" ELSE "stored"]
      /\ channels = [t \in Tenants |-> None] /\ secrets = [t \in Tenants |-> None]
      /\ orgs = {t \in Tenants : SeedTenants[t] # None /\ SeedTenants[t].org}
      /\ completedWith = [t \in Tenants |-> {d \in Docs : docs[d] # None /\ docs[d].tenant = t}]
  BY DEF Init
<1>3. TenantTablesType
  BY <1>2, SeedTenantsAssumption DEF TenantTablesType
<1>4. OutsideIsInStep
  <2>1. \A d \in Here(docs) : files[d] # "deleted"
    BY <1>2, <1>3 DEF Here, TenantTablesType
  <2>2. \A t \in Tenants : channels[t] = secrets[t]
    BY <1>2
  <2> QED BY <2>1, <2>2 DEF OutsideIsInStep
<1>5. HoldersApart /\ \A q \in Requests : KnowsTenant(q)
  BY <1>1 DEF HoldersApart, KnowsTenant, Reviewing, Connecting, At
<1>6. TenantRowsInv
  <2> SUFFICES ASSUME NEW t \in Here(tenants)
               PROVE  /\ NodesOf(t) # {}
                      /\ tenants[t].org => t \in orgs
                      /\ tenants[t].completed <=> tenants[t].status # "ONBOARDING"
                      /\ tenants[t].completed => Profile(t) /\ Reviewed(completedWith[t])
    BY DEF TenantRowsInv
  <2>1. t \in Tenants /\ tenants[t] # None
    BY <1>2, SeedAssumption DEF Here
  <2>2. t \in Here(SeedTenants)
    BY <1>2
  <2>3. NodesOf(t) # {}
    BY <1>2, <2>2, SeedTenantsAssumption DEF NodesOf
  <2>4. tenants[t].org => t \in orgs
    BY <1>2, <2>1
  <2>5. tenants[t].completed <=> tenants[t].status # "ONBOARDING"
    BY <1>2, <2>2, SeedTenantsAssumption
  <2>6. ASSUME tenants[t].completed PROVE Profile(t) /\ Reviewed(completedWith[t])
    <3>1. /\ {"legal", "billing"} \subseteq sections[t] /\ tenants[t].org
          /\ \E u \in Here(users) : users[u].tenant = t /\ users[u].invited
          /\ \E d \in Here(docs) : docs[d].tenant = t
          /\ \A d \in Here(docs) : docs[d].tenant = t => docs[d].status = "VERIFIED"
      BY <1>2, <2>2, <2>6, SeedTenantsAssumption
    <3>2. completedWith[t] = {d \in Here(docs) : docs[d].tenant = t}
      BY <1>2, <1>3, <2>1 DEF Here, TenantTablesType
    <3> QED BY <2>4, <3>1, <3>2 DEF Profile, Reviewed
  <2> QED BY <2>3, <2>4, <2>5, <2>6
<1> QED BY <1>3, <1>4, <1>5, <1>6 DEF DeskInv

\* Onboarding cannot be completed around (tenants.py complete_onboarding, transition;
\* documents.py): a tenant past ONBOARDING had its profile, its organisation, an invited
\* administrator and only verified documents, and keeps them; and a document's file and a
\* channel's credential are what the database says, unless a request failed after changing
\* one (documents.py delete, channels.py upsert).
THEOREM TenantsStaySound == Spec => []TenantsAreSound
<1>1. TreeInv /\ DeskInv => TenantsAreSound
  <2> SUFFICES ASSUME TreeInv, DeskInv PROVE TenantsAreSound
    OBVIOUS
  <2>1. TenantsTypeOK
    <3>1. \A t \in Tenants : tenants[t] # None => t \in Here(tenants) /\ tenants[t] \in TenantRows
      BY DEF TreeInv, TableInv, TablesType, Here
    <3>2. \A t \in Tenants : tenants[t] # None =>
             tenants[t].status \in TenantStatus /\ tenants[t].name \in Names /\ NodesOf(t) # {}
      BY <3>1 DEF TenantRows, DeskInv, TenantRowsInv
    <3>3. \A d \in Docs : docs[d] # None => docs[d].status \in {"PENDING_REVIEW", "VERIFIED", "REJECTED"}
      BY DEF DeskInv, TenantTablesType, DocRows
    <3> QED BY <3>2, <3>3 DEF TenantsTypeOK, DeskInv, TenantTablesType
  <2>2. OnboardingWasComplete
    BY DEF DeskInv, TenantRowsInv, OnboardingWasComplete, Profile, Reviewed, Here
  <2>3. OutsideIsInStep
    BY DEF DeskInv
  <2> QED BY <2>1, <2>2, <2>3 DEF TenantsAreSound
<1> QED BY <1>1, TreeStarts, TreeKept, UsersStart, UsersKept, TenantsStart, TenantsKept, PTL DEF Spec

-----------------------------------------------------------------------------
(* Requests of a tenant's users. *)

\* The endpoints whose audience is PLATFORM.
PlatformOps == (TenantOps \ {"upsert_channel"}) \cup {"provision_user", "send_invitation", "update_role"}

\* The row a request is about is of the caller's tenant.
UserIsOwn(q, u) == u \in Here(users) /\ users[u].tenant = q.by.tenant
RowIsOwn(q) ==
    /\ q.op \in {"create_user", "add_node", "create_store"} => q.tenant = q.by.tenant
    /\ q.op \in {"patch_user", "transition_user"} => UserIsOwn(q, q.user)
    /\ q.op = "edit_node" => q.node \in Here(nodes) /\ nodes[q.node].tenant = q.by.tenant
    /\ q.op \in {"update_store", "transition_store"} =>
          q.store \in Here(stores) /\ nodes[stores[q.store].node].tenant = q.by.tenant

\* Past the gate, a tenant user's request is for one of the other endpoints; past its first
\* statement, which runs under the row policies, it is about a row of its own tenant.
OwnInv(q) ==
    q.by.type = "TENANT" =>
        /\ q.op \in PlatformOps => step[q] \in {"arrived", "answered"}
        /\ InFlight(q) => RowIsOwn(q) /\ (q.op = "login" => UserIsOwn(q, local[q]))

\* A user stays with its tenant.
UsersStay ==
    \A u \in Here(users) : u \in Here(users') /\ users'[u].tenant = users[u].tenant

LEMMA GateIsPassed ==
    ASSUME NEW q \in Requests, q.by.type = "TENANT", Permitted(q)
    PROVE  q.op \notin PlatformOps
<1>1. ~_check_audience(q, "PLATFORM")
  BY UserRequestsAssumption DEF _check_audience
<1> QED
  BY <1>1 DEF Permitted, create_tenant, patch_tenant, suspend_tenant, activate_tenant, complete_tenant_onboarding,
     provision_tenant_auth0, put_legal_profile, put_tax_registrations, put_billing_profile, put_contacts, PutSection,
     patch_onboarding, create_document_upload_url, verify_document, reject_document, delete_document,
     enable_module_for_tenant, disable_module_for_tenant, create_tenant_user, patch_tenant_user,
     suspend_tenant_user, activate_tenant_user, provision_tenant_user_auth0, send_invitation, ProvisionUsers,
     create_store, patch_store, set_store_status, add_org_node, edit_org_node, upsert_my_channel, patch_role,
     ConfigureTenants, OverrideTenants, OverrideModules, require, require_at, PlatformOps, TenantOps

\* Only the gate lets a request in.
LEMMA StepsPassTheGate ==
    ASSUME NEW q \in Requests,
           OrgTreeStep(q) \/ UserStep(q) \/ TenantStep(q) \/ MirrorStep(q) \/ RoleStep(q)
    PROVE  step[q] \notin {"arrived", "answered"}
<1>1. CASE OrgTreeStep(q)
  BY <1>1 DEF OrgTreeStep, LockParent, InsertNode, InsertStore, LockStore, LockTarget, Place, Repath, SaveNode,
     LockForTransition, SetStatus, At
<1>2. CASE UserStep(q)
  BY <1>2 DEF UserStep, ValidateUser, InsertUser, ReadUser, LockUser, UpdateUserEmail, CommitUser, LockForStatus,
     SetUserStatus, ReadForProvision, GetOrCreateOrg, ProvisionUser, SendInvitation, MarkInvited,
     ReconcileAcceptance, AcceptInvitation, At
<1>3. CASE TenantStep(q)
  BY <1>3 DEF TenantStep, CheckName, CreateTenant, UpdateTenant, LockTenant, TransitionTenant, CheckPresence,
     CompleteOnboarding, ProvisionOrganization, SetAuth0OrgId, upsert_legal_profile, upsert_billing_profile, Upsert,
     replace_contacts, replace_tax_registrations, Replace, CheckNotCompleted, UpsertOnboarding, CreatePending,
     LockDocument, verify, reject, SetReview, DeleteObject, DeleteDocument, SelectModule, enable, disable,
     UpsertChannel, WriteSecret, CommitChannel, At
<1>4. CASE MirrorStep(q)
  BY <1>4 DEF MirrorStep, ReadTenants, ReadStores, FinishPass, UpsertTenant, At
<1>5. CASE RoleStep(q)
  BY <1>5 DEF RoleStep, ReadRole, CountHolders, WriteRole, CommitRole, At
<1> QED BY <1>1, <1>2, <1>3, <1>4, <1>5

\* What a request's first statement has looked at is its tenant's.
LEMMA FirstStatement ==
    ASSUME NEW q \in Requests, q.by.type = "TENANT", SessionType, TreeInv, BindInv,
           OrgTreeStep(q) \/ UserStep(q), step[q] = "received"
    PROVE  InFlight(q)' => RowIsOwn(q) /\ (q.op = "login" => UserIsOwn(q, local'[q]))
<1> USE DEF RowIsOwn, UserIsOwn
<1>0. \A t : Sees(q, t) => t = q.by.tenant
  BY DEF Sees
<1>1. CASE OrgTreeStep(q)
  <2>1. LockParent(q) \/ LockStore(q) \/ (At(q, "edit_node", "received") /\ LockTarget(q)) \/ LockForTransition(q)
    BY <1>1 DEF OrgTreeStep, InsertNode, InsertStore, LockTarget, Place, Repath, SaveNode, SetStatus, At
  <2>2. CASE LockParent(q)
    BY <1>0, <2>2 DEF LockParent, At
  <2>3. CASE At(q, "edit_node", "received") /\ LockTarget(q)
    BY <1>0, <2>3 DEF LockTarget, At, NodesOf
  <2>4. CASE LockStore(q) \/ LockForTransition(q)
    <3>1. /\ q.op \in {"update_store", "transition_store"} /\ stores[q.store] # None
          /\ nodes[stores[q.store].node].tenant = q.by.tenant
      BY <1>0, <2>4 DEF LockStore, LockForTransition, At
    <3>2. q.store \in Here(stores)
      BY <3>1, RequestsAssumption DEF Here, TreeInv, TableInv, TablesType
    <3> QED BY <3>1, <3>2
  <2> QED BY <2>1, <2>2, <2>3, <2>4
<1>2. CASE UserStep(q)
  <2>1. \/ ValidateUser(q) \/ ReadUser(q) \/ LockForStatus(q) \/ ReadForProvision(q) \/ SendInvitation(q)
        \/ ReconcileAcceptance(q)
    BY <1>2 DEF UserStep, InsertUser, LockUser, UpdateUserEmail, CommitUser, SetUserStatus, GetOrCreateOrg,
       ProvisionUser, MarkInvited, AcceptInvitation, At
  <2>2. CASE ValidateUser(q)
    BY <1>0, <2>2 DEF ValidateUser, At
  <2>3. CASE ReadUser(q) \/ LockForStatus(q)
    <3>1. /\ q.op \in {"patch_user", "transition_user"} /\ users[q.user] # None
          /\ users[q.user].tenant = q.by.tenant
      BY <1>0, <2>3 DEF ReadUser, LockForStatus, At
    <3>2. q.user \in Here(users)
      BY <3>1, UserRequestsAssumption DEF Here, BindInv, UsersType, UserOps
    <3> QED BY <3>1, <3>2
  <2>4. CASE ReadForProvision(q) \/ SendInvitation(q)
    BY <2>4 DEF ReadForProvision, SendInvitation, At
  <2>5. CASE ReconcileAcceptance(q)
    <3>1. /\ q.op = "login" /\ q.sub \in Subs /\ identities[q.sub] # None /\ local'[q] = identities[q.sub].user
          /\ users[identities[q.sub].user].tenant = q.by.tenant
      BY <1>0, <2>5, UserRequestsAssumption DEF ReconcileAcceptance, At, Proceed, SessionType
    <3>2. q.sub \in Here(identities)
      BY <3>1 DEF Here, BindInv, UsersType
    <3>3. identities[q.sub].user \in Here(users)
      BY <3>2 DEF BindInv, BoundUsers
    <3> QED BY <3>1, <3>3
  <2> QED BY <2>1, <2>2, <2>3, <2>4, <2>5
<1> QED BY <1>1, <1>2

\* A row that is its tenant's stays so.
LEMMA OwnRowsStay ==
    ASSUME NEW q \in Requests, KeysInv, RowsStay, UsersStay,
           RowIsOwn(q) /\ (q.op = "login" => UserIsOwn(q, local'[q]))
    PROVE  (RowIsOwn(q) /\ (q.op = "login" => UserIsOwn(q, local[q])))'
<1>1. \A u : UserIsOwn(q, u) => u \in Here(users') /\ users'[u].tenant = q.by.tenant
  BY DEF UserIsOwn, UsersStay
<1>2. \A n \in Here(nodes) : n \in Here(nodes') /\ nodes'[n].tenant = nodes[n].tenant
  BY DEF RowsStay
<1>3. \A s \in Here(stores) : /\ s \in Here(stores') /\ stores'[s].node = stores[s].node
                              /\ nodes'[stores[s].node].tenant = nodes[stores[s].node].tenant
  BY <1>2 DEF RowsStay, KeysInv
<1>4. RowIsOwn(q)'
  BY <1>1, <1>2, <1>3 DEF RowIsOwn, UserIsOwn, Here
<1>5. q.op = "login" => UserIsOwn(q, local[q])'
  BY <1>1 DEF UserIsOwn, Here
<1> QED BY <1>4, <1>5

\* Every step is a step of one request, and moves no user to another tenant.
LEMMA OneMoves ==
    ASSUME TreeInv, BindInv, NEW q \in Requests,
           \/ Authorize(q)
           \/ OrgTreeStep(q) /\ UNCHANGED userVars
           \/ UserStep(q) \/ TenantStep(q) \/ MirrorStep(q)
           \/ RoleStep(q) /\ UNCHANGED userVars
           \/ RollbackTenant(q)
    PROVE  Only(q) /\ UsersStay
<1>0. SessionType
  BY DEF TreeInv
<1>1. Only(q)
  BY <1>0, GateSession, TreeSession, UserSession, TenantSession, MirrorSession, RoleSession, FailureSession
<1>2. CASE UserStep(q)
  BY <1>1, <1>2, UsersAccrue DEF UsersStay
<1>3. CASE ~UserStep(q)
  <2>1. UNCHANGED users
    BY <1>0, <1>3, TenantsLeaveUsers, MirrorSession
       DEF Authorize, RollbackTenant, RollbackUser, userVars
  <2> QED BY <1>1, <2>1 DEF UsersStay
<1> QED BY <1>1, <1>2, <1>3

\* Signing in takes two statements.
LEMMA SignInEnds ==
    ASSUME NEW q \in Requests, SessionType, UserStep(q), q.op = "login", step[q] # "received"
    PROVE  step'[q] = "answered"
<1>1. AcceptInvitation(q)
  BY DEF UserStep, ValidateUser, InsertUser, ReadUser, LockUser, UpdateUserEmail, CommitUser, LockForStatus,
     SetUserStatus, ReadForProvision, GetOrCreateOrg, ProvisionUser, SendInvitation, MarkInvited,
     ReconcileAcceptance, At
<1> QED BY <1>1 DEF AcceptInvitation, AnswerAudited, Done, SessionType

\* The request that moves.
LEMMA MoverKeepsOwn ==
    ASSUME TreeInv, BindInv, RowsStay, NEW q \in Requests, OwnInv(q),
           \/ Authorize(q)
           \/ OrgTreeStep(q) /\ UNCHANGED userVars
           \/ UserStep(q) \/ TenantStep(q) \/ MirrorStep(q)
           \/ RoleStep(q) /\ UNCHANGED userVars
           \/ RollbackTenant(q)
    PROVE  OwnInv(q)'
<1> SUFFICES ASSUME q.by.type = "TENANT"
             PROVE  /\ q.op \in PlatformOps => step'[q] \in {"arrived", "answered"}
                    /\ InFlight(q)' => (RowIsOwn(q) /\ (q.op = "login" => UserIsOwn(q, local[q])))'
  BY DEF OwnInv
<1>0. SessionType /\ KeysInv /\ UsersStay
  BY OneMoves DEF TreeInv, TableInv
<1>1. CASE Authorize(q)
  <2>1. q.op \notin PlatformOps /\ step'[q] = "received"
    BY <1>0, <1>1, GateIsPassed, GateSession DEF Authorize
  <2> QED BY <2>1 DEF InFlight
<1>2. CASE RollbackTenant(q)
  BY <1>0, <1>2, FailureSession DEF InFlight
<1>3. CASE TenantStep(q) \/ MirrorStep(q) \/ RoleStep(q)
  <2>1. q.op \notin PlatformOps
    BY <1>3, StepsPassTheGate DEF OwnInv
  <2>2. q.op \in TenantOps \cup MirrorOps \cup RoleOps
    BY <1>0, <1>3, TenantSession, MirrorSession, RoleSession
  <2>3. RowIsOwn(q)' /\ q.op # "login"
    BY <2>2 DEF RowIsOwn, TenantOps, MirrorOps, RoleOps
  <2> QED BY <2>1, <2>3
<1>4. CASE OrgTreeStep(q) \/ UserStep(q)
  <2>1. step[q] \notin {"arrived", "answered"} /\ q.op \notin PlatformOps
    BY <1>4, StepsPassTheGate DEF OwnInv
  <2>2. InFlight(q)' => RowIsOwn(q) /\ (q.op = "login" => UserIsOwn(q, local'[q]))
    <3>1. CASE step[q] = "received"
      BY <1>0, <1>4, <3>1, FirstStatement
    <3>2. CASE step[q] # "received"
      <4>1. RowIsOwn(q)
        BY <2>1, <3>2 DEF OwnInv, InFlight
      <4>2. q.op = "login" => ~InFlight(q)'
        <5>1. q.op \in TreeOps \/ UserStep(q)
          BY <1>0, <1>4, TreeSession
        <5> QED BY <1>0, <3>2, <5>1, SignInEnds DEF TreeOps, InFlight
      <4> QED BY <4>1, <4>2
    <3> QED BY <3>1, <3>2
  <2> QED BY <1>0, <2>1, <2>2, OwnRowsStay
<1> QED BY <1>1, <1>2, <1>3, <1>4

OwnersInv == \A q \in Requests : OwnInv(q)

LEMMA OwnersStart == Init => OwnersInv
<1> SUFFICES ASSUME Init, NEW q \in Requests PROVE OwnInv(q)
  BY DEF OwnersInv
<1>1. step[q] \in {"arrived", "received", "answered"} /\ (step[q] = "received" => q.op \in Ungated)
  BY DEF Init, SessionInit
<1> QED BY <1>1 DEF OwnInv, InFlight, Ungated, PlatformOps, TenantOps

LEMMA OwnersKept == TreeInv /\ BindInv /\ OwnersInv /\ [Next]_vars => OwnersInv'
<1> SUFFICES ASSUME TreeInv, BindInv, OwnersInv, [Next]_vars, NEW p \in Requests PROVE OwnInv(p)'
  BY DEF OwnersInv
<1>1. CASE Next
  <2>1. PICK q \in Requests :
          \/ Authorize(q)
          \/ OrgTreeStep(q) /\ UNCHANGED userVars
          \/ UserStep(q) \/ TenantStep(q) \/ MirrorStep(q)
          \/ RoleStep(q) /\ UNCHANGED userVars
          \/ RollbackTenant(q)
    BY <1>1 DEF Next
  <2>2. RowsStay /\ Only(q) /\ UsersStay /\ KeysInv
    BY <1>1, <2>1, EveryStep, OneMoves DEF TreeInv, TableInv
  <2>3. CASE p = q
    BY <2>1, <2>2, <2>3, MoverKeepsOwn DEF OwnersInv
  <2>4. CASE p # q
    <3>1. step'[p] = step[p] /\ local'[p] = local[p] /\ OwnInv(p)
      BY <2>2, <2>4 DEF Only, OwnersInv
    <3>2. CASE p.by.type = "TENANT" /\ InFlight(p)
      <4>1. RowIsOwn(p) /\ (p.op = "login" => UserIsOwn(p, local'[p]))
        BY <3>1, <3>2 DEF OwnInv
      <4>2. (RowIsOwn(p) /\ (p.op = "login" => UserIsOwn(p, local[p])))'
        BY <2>2, <4>1, OwnRowsStay
      <4> QED BY <3>1, <4>2 DEF OwnInv
    <3>3. CASE p.by.type # "TENANT" \/ ~InFlight(p)
      BY <3>1, <3>3 DEF OwnInv, InFlight
    <3> QED BY <3>2, <3>3
  <2> QED BY <2>3, <2>4
<1>2. CASE UNCHANGED vars
  <2>1. UNCHANGED <<step, local, nodes, stores, users>>
    BY <1>2 DEF vars, sessionVars, treeVars, userVars
  <2> QED BY <2>1 DEF OwnersInv, OwnInv, RowIsOwn, UserIsOwn, InFlight, Here
<1> QED BY <1>1, <1>2

-----------------------------------------------------------------------------
(* The rows a step changes. *)

NodesConfined(t) ==
    \A n \in Nodes : nodes'[n] # nodes[n] =>
        (n \in Here(nodes) => nodes[n].tenant = t) /\ (n \in Here(nodes') => nodes'[n].tenant = t)
StoresConfined(t) ==
    \A s \in Stores : stores'[s] # stores[s] =>
        /\ s \in Here(stores) => nodes[stores[s].node].tenant = t
        /\ s \in Here(stores') => nodes'[stores'[s].node].tenant = t
UsersConfined(t) ==
    \A u \in Users : users'[u] # users[u] =>
        (u \in Here(users) => users[u].tenant = t) /\ (u \in Here(users') => users'[u].tenant = t)
AccountConfined(t) ==
    /\ UNCHANGED <<docs, tenants, sections, modules>>
    /\ \A r \in Tenants \ {t} : channels'[r] = channels[r] /\ secrets'[r] = secrets[r]
Confined(t) == NodesConfined(t) /\ StoresConfined(t) /\ UsersConfined(t) /\ AccountConfined(t)

\* What is confined to one tenant leaves the rows of the others as they are.
LEMMA ConfinedStepsIsolate ==
    ASSUME TablesType, TablesType', UsersType, UsersType', KeysInv, RowsStay,
           NEW t, NEW r \in Tenants, r # t, Confined(t)
    PROVE  RowsOf(r)' = RowsOf(r)
<1>0. /\ DOMAIN nodes = Nodes /\ DOMAIN nodes' = Nodes /\ DOMAIN stores = Stores /\ DOMAIN stores' = Stores
      /\ DOMAIN users = Users /\ DOMAIN users' = Users
  BY DEF TablesType, UsersType
<1>1. [n \in NodesOf(r) |-> nodes[n]]' = [n \in NodesOf(r) |-> nodes[n]]
  <2>1. \A n \in Nodes : /\ n \in NodesOf(r)' <=> n \in NodesOf(r)
                         /\ n \in NodesOf(r) => nodes'[n] = nodes[n]
    BY <1>0 DEF NodesOf, Here, Confined, NodesConfined
  <2>2. NodesOf(r)' \subseteq Nodes /\ NodesOf(r) \subseteq Nodes
    BY <1>0 DEF NodesOf, Here
  <2>3. NodesOf(r)' = NodesOf(r)
    BY <2>1, <2>2
  <2> QED BY <2>1, <2>2, <2>3
<1>2. [s \in {s \in Here(stores) : nodes[stores[s].node].tenant = r} |-> stores[s]]'
        = [s \in {s \in Here(stores) : nodes[stores[s].node].tenant = r} |-> stores[s]]
  <2> DEFINE S == {s \in Here(stores) : nodes[stores[s].node].tenant = r}
  <2>1. ASSUME NEW s \in Stores
        PROVE  /\ s \in S' <=> s \in S
               /\ s \in S => stores'[s] = stores[s]
    <3>1. CASE stores'[s] = stores[s] /\ s \in Here(stores)
      <4>1. nodes'[stores[s].node].tenant = nodes[stores[s].node].tenant
        BY <3>1 DEF KeysInv, RowsStay
      <4> QED BY <1>0, <3>1, <4>1 DEF Here
    <3>2. CASE stores'[s] = stores[s] /\ s \notin Here(stores)
      BY <1>0, <3>2 DEF Here
    <3>3. CASE stores'[s] # stores[s]
      <4>1. /\ s \in Here(stores) => nodes[stores[s].node].tenant = t
            /\ s \in Here(stores') => nodes'[stores'[s].node].tenant = t
        BY <3>3 DEF Confined, StoresConfined
      <4> QED BY <4>1 DEF Here
    <3> QED BY <3>1, <3>2, <3>3
  <2>2. S' \subseteq Stores /\ S \subseteq Stores
    BY <1>0 DEF Here
  <2>3. S' = S
    <3> HIDE DEF S
    <3> QED BY <2>1, <2>2
  <2> QED
    <3> HIDE DEF S
    <3>1. [s \in S |-> stores[s]]' = [s \in S |-> stores[s]]
      BY <2>1, <2>2, <2>3
    <3> QED BY <3>1 DEF S
<1>3. [u \in {u \in Here(users) : users[u].tenant = r} |-> users[u]]'
        = [u \in {u \in Here(users) : users[u].tenant = r} |-> users[u]]
  <2> DEFINE S == {u \in Here(users) : users[u].tenant = r}
  <2>1. \A u \in Users : /\ u \in S' <=> u \in S
                         /\ u \in S => users'[u] = users[u]
    BY <1>0 DEF Here, Confined, UsersConfined
  <2>2. S' \subseteq Users /\ S \subseteq Users
    BY <1>0 DEF Here
  <2> HIDE DEF S
  <2>3. S' = S
    BY <2>1, <2>2
  <2>4. [u \in S |-> users[u]]' = [u \in S |-> users[u]]
    BY <2>1, <2>2, <2>3
  <2> QED BY <2>4 DEF S
<1>4. [d \in DocsOf(r) |-> docs[d]]' = [d \in DocsOf(r) |-> docs[d]]
  BY DEF Confined, AccountConfined, DocsOf, Here
<1>5. /\ tenants'[r] = tenants[r] /\ sections'[r] = sections[r] /\ modules'[r] = modules[r]
      /\ channels'[r] = channels[r] /\ secrets'[r] = secrets[r]
  BY DEF Confined, AccountConfined
<1> QED BY <1>1, <1>2, <1>3, <1>4, <1>5 DEF RowsOf

\* A step that leaves a table alone is confined to any tenant.
LEMMA NothingConfined ==
    ASSUME NEW t
    PROVE  /\ UNCHANGED nodes => NodesConfined(t)
           /\ UNCHANGED stores => StoresConfined(t)
           /\ UNCHANGED users => UsersConfined(t)
           /\ UNCHANGED tenantVars => AccountConfined(t)
BY DEF NodesConfined, StoresConfined, UsersConfined, AccountConfined, tenantVars, docVars, channelVars

\* Adding a node or a store.
LEMMA InsertsAreConfined ==
    ASSUME NEW q \in Requests, TreeInv, q.by.type = "TENANT", OwnInv(q), InsertNode(q) \/ InsertStore(q)
    PROVE  NodesConfined(q.by.tenant) /\ StoresConfined(q.by.tenant)
<1> DEFINE row == NodeRow(q.tenant, ChildType(q), ParentOf(q), q.code, Append(local[q], q.code))
<1>1. /\ q.op \in {"add_node", "create_store"} /\ step[q] = "insert_node" /\ NodeLeft
      /\ nodes' = [nodes EXCEPT ![FreshNode] = row]
  BY DEF InsertNode, InsertStore, InsertRow, At
<1>2. q.tenant = q.by.tenant
  BY <1>1 DEF OwnInv, InFlight, RowIsOwn
<1>3. FreshNode \in Nodes /\ nodes[FreshNode] = None
  BY <1>1, FreshIsFree
<1>4. q.tenant \in Tenants /\ TablesType
  BY <1>1, RequestsAssumption DEF TreeInv, TableInv
<1>5. row.tenant = q.tenant
  BY DEF NodeRow
<1> HIDE DEF row
<1>6. NodesConfined(q.by.tenant)
  BY <1>1, <1>2, <1>3, <1>4, <1>5 DEF NodesConfined, Here, TablesType
<1>7. StoresConfined(q.by.tenant)
  <2>1. CASE InsertNode(q)
    BY <2>1, NothingConfined DEF InsertNode
  <2>2. CASE InsertStore(q)
    <3>1. /\ q.store \in Stores /\ stores[q.store] = None
          /\ stores' = [stores EXCEPT ![q.store] = StoreRow(FreshNode, q.code)]
      BY <2>2, RequestsAssumption DEF InsertStore, At
    <3>2. StoreRow(FreshNode, q.code).node = FreshNode
      BY DEF StoreRow
    <3>3. \A s \in Stores : stores'[s] # stores[s] => s = q.store
      BY <1>4, <3>1 DEF TablesType
    <3>4. stores'[q.store].node = FreshNode /\ nodes'[FreshNode].tenant = q.by.tenant /\ q.store \notin Here(stores)
      BY <1>1, <1>2, <1>3, <1>4, <1>5, <3>1, <3>2 DEF TablesType, Here
    <3> QED BY <3>3, <3>4 DEF StoresConfined
  <2> QED BY <2>1, <2>2
<1> QED BY <1>6, <1>7

\* Editing a node or a store: a re-path reaches rows of the node's tenant only.
LEMMA EditsAreConfined ==
    ASSUME NEW q \in Requests, TreeInv, RowsStay, q.by.type = "TENANT", OwnInv(q), SaveNode(q)
    PROVE  NodesConfined(q.by.tenant) /\ StoresConfined(q.by.tenant)
<1> DEFINE k == Target(q)
<1>1. /\ q.op \in {"edit_node", "update_store"} /\ step[q] = "save"
      /\ nodes' = Edited(q)
      /\ IF q.op = "update_store" /\ q.code # None
         THEN stores' = [stores EXCEPT ![q.store].code = q.code]
         ELSE UNCHANGED stores
  BY DEF SaveNode, At
<1>2. k \in Here(nodes) /\ nodes[k].tenant = q.by.tenant
  BY <1>1 DEF OwnInv, InFlight, RowIsOwn, Target, TreeInv, TableInv, KeysInv
<1>3. local[q].rows \subseteq NodesOf(nodes[k].tenant)
  BY <1>1 DEF TreeInv, LocalInv, PlacedInv
<1>4. \A n \in Here(nodes) : nodes'[n].tenant = nodes[n].tenant
  BY DEF RowsStay
<1>5. \A n \in Nodes : nodes'[n] # nodes[n] => n \in NodesOf(q.by.tenant)
  BY <1>1, <1>2, <1>3 DEF Edited, Rewritten, NodesOf
<1>6. NodesConfined(q.by.tenant)
  BY <1>4, <1>5 DEF NodesConfined, NodesOf
<1>7. StoresConfined(q.by.tenant)
  <2>1. CASE UNCHANGED stores
    BY <2>1, NothingConfined
  <2>2. CASE q.op = "update_store" /\ stores' = [stores EXCEPT ![q.store].code = q.code]
    <3>1. q.store \in Here(stores) /\ nodes[stores[q.store].node].tenant = q.by.tenant
      BY <1>1, <2>2 DEF OwnInv, InFlight, RowIsOwn
    <3>2. nodes'[stores'[q.store].node].tenant = q.by.tenant
      BY <3>1 DEF RowsStay, TreeInv, TableInv, KeysInv
    <3>3. \A s \in Stores : stores'[s] # stores[s] => s = q.store
      BY <2>2 DEF TreeInv, TableInv, TablesType
    <3> QED BY <3>1, <3>2, <3>3 DEF StoresConfined
  <2> QED BY <1>1, <2>1, <2>2
<1> QED BY <1>6, <1>7

\* The transition of a store.
LEMMA TransitionsAreConfined ==
    ASSUME NEW q \in Requests, TreeInv, RowsStay, q.by.type = "TENANT", OwnInv(q), SetStatus(q)
    PROVE  NodesConfined(q.by.tenant) /\ StoresConfined(q.by.tenant)
<1> DEFINE k == stores[q.store].node
           srow == Transitioned(stores[q.store], local[q], q.status)
           row == Projected(nodes[k], STORE_STATUS_TO_ORG_NODE_STATUS[q.status])
<1>1. /\ q.op = "transition_store" /\ step[q] = "set_status"
      /\ stores' = [stores EXCEPT ![q.store] = srow] /\ nodes' = [nodes EXCEPT ![k] = row]
  BY DEF SetStatus, At
<1>2. q.store \in Here(stores) /\ nodes[k].tenant = q.by.tenant
  BY <1>1 DEF OwnInv, InFlight, RowIsOwn
<1>3. k \in Here(nodes) /\ TablesType
  BY <1>2 DEF TreeInv, TableInv, KeysInv
<1> HIDE DEF k, row, srow
<1>4. /\ \A n \in Nodes : nodes'[n] # nodes[n] => n = k
      /\ \A s \in Stores : stores'[s] # stores[s] => s = q.store
  BY <1>1, <1>3 DEF TablesType
<1>5. nodes'[k].tenant = q.by.tenant /\ stores'[q.store].node = k
  BY <1>2, <1>3 DEF RowsStay, k
<1> QED BY <1>2, <1>4, <1>5 DEF NodesConfined, StoresConfined, k

\* Every statement on the tree.
LEMMA TreeIsConfined ==
    ASSUME NEW q \in Requests, TreeInv, RowsStay, q.by.type = "TENANT", OwnInv(q), OrgTreeStep(q),
           UNCHANGED <<userVars, tenantVars>>
    PROVE  Confined(q.by.tenant)
<1>1. UsersConfined(q.by.tenant) /\ AccountConfined(q.by.tenant)
  BY NothingConfined DEF userVars
<1>2. CASE UNCHANGED <<nodes, stores>>
  BY <1>1, <1>2, NothingConfined DEF Confined
<1>3. CASE InsertNode(q) \/ InsertStore(q) \/ SaveNode(q) \/ SetStatus(q)
  BY <1>1, <1>3, InsertsAreConfined, EditsAreConfined, TransitionsAreConfined DEF Confined
<1> QED BY <1>2, <1>3 DEF OrgTreeStep, LockParent, LockStore, LockTarget, Place, Repath, LockForTransition, treeVars

\* Every statement on the users.
LEMMA UsersAreConfined ==
    ASSUME NEW q \in Requests, TreeInv, BindInv, UsersStay, q.by.type = "TENANT", OwnInv(q), UserStep(q),
           UNCHANGED tenantVars
    PROVE  Confined(q.by.tenant)
<1>0. SessionType /\ DOMAIN users = Users
  BY DEF TreeInv, BindInv, UsersType
<1>1. NodesConfined(q.by.tenant) /\ StoresConfined(q.by.tenant) /\ AccountConfined(q.by.tenant)
  BY <1>0, UserSession, NothingConfined DEF treeVars
<1>2. CASE UNCHANGED users
  BY <1>1, <1>2, NothingConfined DEF Confined
<1>3. ASSUME NEW u0, UserIsOwn(q, u0), \A u \in Users : u # u0 => users'[u] = users[u]
      PROVE  UsersConfined(q.by.tenant)
  BY <1>3 DEF UserIsOwn, UsersConfined, UsersStay
<1>4. CASE InsertUser(q)
  <2> DEFINE row == UserRow(q.tenant, q.email, q.roles)
  <2>1. /\ q.op = "create_user" /\ InFlight(q) /\ users[q.user] = None /\ q.user \in Users
        /\ users' = [users EXCEPT ![q.user] = row]
    BY <1>4, UserRequestsAssumption DEF InsertUser, At, InFlight, UserOps
  <2>2. q.tenant = q.by.tenant
    BY <2>1 DEF OwnInv, RowIsOwn
  <2>3. row.tenant = q.tenant
    BY DEF UserRow
  <2> HIDE DEF row
  <2>4. UsersConfined(q.by.tenant)
    BY <1>0, <2>1, <2>2, <2>3 DEF UsersConfined, Here
  <2> QED BY <1>1, <2>4 DEF Confined
<1>5. CASE CommitUser(q) \/ SetUserStatus(q)
  <2>1. q.op \in {"patch_user", "transition_user"} /\ InFlight(q) /\ \A u \in Users : u # q.user => users'[u] = users[u]
    BY <1>0, <1>5 DEF CommitUser, SetUserStatus, At, InFlight
  <2>2. UserIsOwn(q, q.user)
    BY <2>1 DEF OwnInv, RowIsOwn
  <2>3. UsersConfined(q.by.tenant)
    BY <1>3, <2>1, <2>2
  <2> QED BY <1>1, <2>3 DEF Confined
<1>6. CASE AcceptInvitation(q)
  <2>1. q.op = "login" /\ InFlight(q) /\ \A u \in Users : u # local[q] => users'[u] = users[u]
    BY <1>0, <1>6 DEF AcceptInvitation, At, InFlight
  <2>2. UserIsOwn(q, local[q])
    BY <2>1 DEF OwnInv
  <2>3. UsersConfined(q.by.tenant)
    BY <1>3, <2>1, <2>2
  <2> QED BY <1>1, <2>3 DEF Confined
<1>7. ~MarkInvited(q)
  BY DEF MarkInvited, At, OwnInv, PlatformOps
<1> QED BY <1>2, <1>4, <1>5, <1>6, <1>7 DEF UserStep, ValidateUser, ReadUser, LockUser, UpdateUserEmail,
        LockForStatus, ReadForProvision, GetOrCreateOrg, ProvisionUser, SendInvitation, ReconcileAcceptance, userVars

\* A tenant's user reaches one endpoint on tenants, for its own.
LEMMA ChannelsAreConfined ==
    ASSUME NEW q \in Requests, TreeInv, TenantTablesType, q.by.type = "TENANT", OwnInv(q), TenantStep(q)
    PROVE  Confined(q.by.tenant)
<1>1. q.op = "upsert_channel"
  <2>1. q.op \in TenantOps /\ q.op \notin PlatformOps
    BY TenantSession, StepsPassTheGate DEF TreeInv, OwnInv
  <2> QED BY <2>1 DEF PlatformOps
<1>2. UpsertChannel(q) \/ WriteSecret(q) \/ CommitChannel(q)
  BY <1>1 DEF TenantStep, CheckName, CreateTenant, UpdateTenant, LockTenant, TransitionTenant, CheckPresence,
     CompleteOnboarding, ProvisionOrganization, SetAuth0OrgId, upsert_legal_profile, upsert_billing_profile, Upsert,
     replace_contacts, replace_tax_registrations, Replace, CheckNotCompleted, UpsertOnboarding, CreatePending,
     LockDocument, verify, reject, SetReview, DeleteObject, DeleteDocument, SelectModule, enable, disable, At
<1>3. /\ UNCHANGED <<nodes, stores, users, docs, tenants, sections, modules>>
  BY <1>2 DEF UpsertChannel, WriteSecret, CommitChannel, treeVars, userVars, tenantVars, docVars
<1>4. \A r \in Tenants \ {q.by.tenant} : channels'[r] = channels[r] /\ secrets'[r] = secrets[r]
  BY <1>2 DEF UpsertChannel, WriteSecret, CommitChannel, tenantVars, channelVars, TenantTablesType
<1> QED BY <1>3, <1>4, NothingConfined DEF Confined, AccountConfined

LEMMA StepsAreIsolated ==
    TreeInv /\ BindInv /\ DeskInv /\ OwnersInv /\ [Next]_vars =>
        [\A q \in Requests :
            q.by.type = "TENANT" /\ step'[q] # step[q] =>
                \A t \in Tenants \ {q.by.tenant} : RowsOf(t)' = RowsOf(t)]_vars
<1> SUFFICES ASSUME TreeInv, BindInv, DeskInv, OwnersInv, Next,
                    NEW p \in Requests, p.by.type = "TENANT", step'[p] # step[p],
                    NEW t \in Tenants \ {p.by.tenant}
             PROVE  RowsOf(t)' = RowsOf(t)
  OBVIOUS
<1>1. PICK q \in Requests :
        \/ Authorize(q)
        \/ OrgTreeStep(q) /\ UNCHANGED <<userVars, tenantVars>>
        \/ UserStep(q) /\ UNCHANGED tenantVars
        \/ TenantStep(q) \/ MirrorStep(q)
        \/ RoleStep(q) /\ UNCHANGED <<treeVars, userVars, tenantVars>>
        \/ RollbackTenant(q)
  BY DEF Next
<1>2. RowsStay /\ Only(q) /\ UsersStay /\ OwnInv(q)
  BY <1>1, EveryStep, OneMoves DEF OwnersInv, userVars
<1>3. p = q
  BY <1>2 DEF Only
<1>4. CASE UNCHANGED <<nodes, stores, users, docs, tenants, sections, modules, channels, secrets>>
  BY <1>4 DEF RowsOf, NodesOf, DocsOf, Here
<1>5. CASE Confined(q.by.tenant)
  <2>1. TablesType /\ TablesType' /\ UsersType /\ UsersType' /\ KeysInv
    BY TreeKept, UsersKept DEF TreeInv, TableInv, BindInv
  <2> QED BY <1>2, <1>3, <1>5, <2>1, ConfinedStepsIsolate
<1>6. CASE Authorize(q) \/ MirrorStep(q) \/ RollbackTenant(q) \/ (RoleStep(q) /\ UNCHANGED <<treeVars, userVars, tenantVars>>)
  <2>1. UNCHANGED <<nodes, stores, users, docs, tenants, sections, modules, channels, secrets>>
    BY <1>6, MirrorSession DEF Authorize, RollbackTenant, RollbackUser, TreeInv, treeVars, userVars, tenantVars, docVars,
       channelVars
  <2> QED BY <1>4, <2>1
<1>7. CASE ~(Authorize(q) \/ MirrorStep(q) \/ RollbackTenant(q) \/ (RoleStep(q) /\ UNCHANGED <<treeVars, userVars, tenantVars>>))
  <2>1. Confined(q.by.tenant)
    BY <1>1, <1>2, <1>3, <1>7, TreeIsConfined, UsersAreConfined, ChannelsAreConfined DEF DeskInv
  <2> QED BY <1>5, <2>1
<1> QED BY <1>6, <1>7

\* No statement of a tenant user's request touches a row, a file's record or a credential of
\* another tenant (auth/permissions.py, auth/anchor_deps.py, db/session.py): the gate keeps
\* the platform's endpoints closed, and behind it the first statement of every handler runs
\* under the row policies, whatever other requests do between two statements.
THEOREM TenantsStayIsolated == Spec => TenantsAreIsolated
BY TreeStarts, TreeKept, UsersStart, UsersKept, TenantsStart, TenantsKept, OwnersStart, OwnersKept,
   StepsAreIsolated, PTL DEF Spec, TenantsAreIsolated
=============================================================================
