------------------------------ MODULE OrgTree ------------------------------
(* The organisation tree of a tenant and its stores: org_nodes rows carry a *)
(* materialised ltree path, and every store is paired with a node of type   *)
(* STORE that repeats its code and projects its status                      *)
(* (repositories/org_nodes.py, repositories/stores.py).                     *)
EXTENDS CmSession

CONSTANTS Nodes,        \* ids of org_nodes rows, numbered in insertion order
          Stores,       \* ids of stores rows
          Codes         \* node and store codes, up to case
ASSUME NodesAssumption == Nodes \subseteq Nat

VARIABLES nodes,        \* nodes[n]: an org_nodes row, or None
          stores,       \* stores[s]: a stores row, or None
          raced         \* history: a re-path statement waited for another writer

treeVars == <<nodes, stores, raced>>

(* _ORDINAL_MAP: the canonical order of node types.                         *)
TENANT == 0
STORE == 5
NodeType == 0..6

OrgNodeStatus == {"ACTIVE", "INACTIVE", "ARCHIVED"}
StoreStatus == {"OPENING", "ACTIVE", "INACTIVE", "CLOSED"}

STORE_STATUS_TO_ORG_NODE_STATUS ==
    [OPENING |-> "ACTIVE", ACTIVE |-> "ACTIVE", INACTIVE |-> "INACTIVE", CLOSED |-> "ARCHIVED"]

(* Every change of status is allowed but one back to OPENING.               *)
TRANSITION_MATRIX ==
    [OPENING  |-> {"ACTIVE", "INACTIVE", "CLOSED"},
     ACTIVE   |-> {"INACTIVE", "CLOSED"},
     INACTIVE |-> {"ACTIVE", "CLOSED"},
     CLOSED   |-> {"ACTIVE", "INACTIVE"}]

Here(rows) == {r \in DOMAIN rows : rows[r] # None}
NodesOf(t) == {n \in Here(nodes) : nodes[n].tenant = t}

(* The TENANT node is created with the tenant.                              *)
Root(t) == CHOOSE n \in NodesOf(t) : nodes[n].type = TENANT

(* New rows take the next id; Nodes is a bound of the model.                *)
NodeLeft == \E n \in Nodes : nodes[n] = None
FreshNode == CHOOSE n \in Nodes : nodes[n] = None /\ \A m \in Nodes : m < n => nodes[m] # None

NodeRow(t, type, parent, code, path) ==
    [tenant |-> t, type |-> type, parent |-> parent, code |-> code, path |-> path,
     status |-> "ACTIVE", archived |-> FALSE]

(* A store has the tenant of its node (fk_stores_org_node_same_tenant).     *)
StoreRow(node, code) == [node |-> node, code |-> code, status |-> "ACTIVE", closed |-> FALSE]

_check_cascade_order(parent, child) == parent < child

(* ltree's path <@ ancestor: at or below.                                   *)
_is_descendant(path, ancestor) ==
    Len(ancestor) <= Len(path) /\ SubSeq(path, 1, Len(ancestor)) = ancestor

(* uq_org_nodes_tenant_code_lower and uq_stores_tenant_store_code_lower.    *)
NodeCodeFree(t, code, self) == \A n \in NodesOf(t) \ {self} : nodes[n].code # code
StoreCodeFree(t, code, self) ==
    \A s \in Here(stores) \ {self} : nodes[stores[s].node].tenant = t => stores[s].code # code

-----------------------------------------------------------------------------
(* POST /org-tree and POST /stores.                                         *)

ChildType(q) == IF q.op = "create_store" THEN STORE ELSE q.type
ParentOf(q) == IF q.parent = None THEN Root(q.tenant) ELSE q.parent

(* _check_parent_node_for_store and _raise_if_store_code_taken.             *)
StoreIsPlaceable(q) ==
    /\ nodes[q.parent].type # STORE
    /\ StoreCodeFree(q.tenant, q.code, None)

(* add_node locks the parent and takes the path from what it read there.    *)
LockParent(q) ==
    /\ At(q, "add_node", "received") \/ At(q, "create_store", "received")
    /\ NodesOf(q.tenant) # {}
    /\ Sees(q, q.tenant) /\ ParentOf(q) \in NodesOf(q.tenant)
    /\ q.op = "create_store" => StoreIsPlaceable(q)
    /\ Free(q, <<"node", ParentOf(q)>>, "update")
    /\ _check_cascade_order(nodes[ParentOf(q)].type, ChildType(q))
    /\ Proceed(q, "insert_node", nodes[ParentOf(q)].path, {Lock(<<"node", ParentOf(q)>>, "update")})
    /\ UNCHANGED treeVars

(* The INSERT of add_node, under uq_org_nodes_tenant_code_lower.            *)
InsertRow(q) ==
    /\ Free(q, <<"tenant", q.tenant>>, "key_share")
    /\ NodeCodeFree(q.tenant, q.code, None)
    /\ NodeLeft
    /\ nodes' = [nodes EXCEPT ![FreshNode] =
           NodeRow(q.tenant, ChildType(q), ParentOf(q), q.code, Append(local[q], q.code))]

InsertNode(q) ==
    /\ At(q, "add_node", "insert_node")
    /\ InsertRow(q)
    /\ Answer(q)
    /\ UNCHANGED <<stores, raced>>

(* StoresRepo.create: the node, and with it the store it is paired with.    *)
InsertStore(q) ==
    /\ At(q, "create_store", "insert_node")
    /\ InsertRow(q)
    /\ stores[q.store] = None
    /\ StoreCodeFree(q.tenant, q.code, None)
    /\ stores' = [stores EXCEPT ![q.store] = StoreRow(FreshNode, q.code)]
    /\ AnswerAudited(q, <<"store", q.store>>, None, "ACTIVE")
    /\ UNCHANGED raced

-----------------------------------------------------------------------------
(* PATCH /org-tree/{node} and PATCH /stores/{store}: both end in edit_node. *)

Target(q) == IF q.op = "update_store" THEN stores[q.store].node ELSE q.node

(* edit_org_node: the root stays where it is, and what a STORE node shares  *)
(* with its store is edited through the store.                              *)
EditIsAllowed(q) ==
    /\ nodes[q.node].type = TENANT => q.parent = None
    /\ nodes[q.node].type = STORE => q.code = None

(* StoresRepo.update: the checks, then the UPDATE of the store's own row.   *)
LockStore(q) ==
    /\ At(q, "update_store", "received")
    /\ stores[q.store] # None /\ Sees(q, nodes[stores[q.store].node].tenant)
    /\ q.parent # None => nodes[q.parent] # None /\ nodes[q.parent].type # STORE
    /\ q.code # None => /\ StoreCodeFree(nodes[Target(q)].tenant, q.code, q.store)
                        /\ Free(q, <<"store", q.store>>, "no_key")
    /\ Proceed(q, "lock_target", None,
               IF q.code = None THEN {} ELSE {Lock(<<"store", q.store>>, "no_key")})
    /\ UNCHANGED treeVars

LockTarget(q) ==
    /\ \/ /\ At(q, "edit_node", "received")
          /\ q.node \in NodesOf(q.tenant) /\ Sees(q, q.tenant) /\ EditIsAllowed(q)
       \/ At(q, "update_store", "lock_target")
    /\ Free(q, <<"node", Target(q)>>, "update")
    /\ Proceed(q, "place", [old |-> nodes[Target(q)].path, new |-> nodes[Target(q)].path],
               {Lock(<<"node", Target(q)>>, "update")})
    /\ UNCHANGED treeVars

Last(path) == path[Len(path)]
Front(path) == SubSeq(path, 1, Len(path) - 1)

(* The path after the edit: the new parent's path if the node moves, and    *)
(* the new code's label if the code changes.                                *)
NewPath(q, path) ==
    Append(IF q.parent = None THEN Front(path) ELSE nodes[q.parent].path,
           IF q.code = None THEN Last(path) ELSE q.code)

(* The new parent is locked and must be neither the node itself, nor a      *)
(* descendant by its path, nor of a type at or below the node's.            *)
Place(q) ==
    /\ At(q, "edit_node", "place") \/ At(q, "update_store", "place")
    /\ q.parent # None =>
          /\ q.parent # Target(q)
          /\ nodes[q.parent] # None /\ nodes[q.parent].tenant = nodes[Target(q)].tenant
          /\ Free(q, <<"node", q.parent>>, "update")
          /\ ~_is_descendant(nodes[q.parent].path, local[q].old)
          /\ _check_cascade_order(nodes[q.parent].type, nodes[Target(q)].type)
    /\ Proceed(q, "repath", [old |-> local[q].old, new |-> NewPath(q, local[q].old)],
               IF q.parent = None THEN {} ELSE {Lock(<<"node", q.parent>>, "update")})
    /\ UNCHANGED treeVars

(* As Subtree below, with the children only.                                *)
Subtree_Children(q) ==
    {n \in NodesOf(nodes[Target(q)].tenant) : local[q].new # local[q].old /\ nodes[n].parent = Target(q)}

(* The subtree UPDATE selects its rows from the snapshot it starts with.  A *)
(* row another transaction has locked makes it wait, with some of the       *)
(* others already locked.                                                   *)
Subtree(q) ==
    {n \in NodesOf(nodes[Target(q)].tenant) \ {Target(q)} :
        local[q].new # local[q].old /\ _is_descendant(nodes[n].path, local[q].old)}

Repath(q) ==
    /\ At(q, "edit_node", "repath") \/ At(q, "update_store", "repath")
    /\ LET ready == {n \in Subtree(q) : Free(q, <<"node", n>>, "update")} IN
       \E rows \in SUBSET ready :
          /\ ready = Subtree(q) => rows = ready
          /\ raced' = (raced \/ ready # Subtree(q))
          /\ Proceed(q, "save", [old |-> local[q].old, new |-> local[q].new, rows |-> Subtree(q)],
                     {Lock(<<"node", n>>, "update") : n \in rows})
    /\ UNCHANGED <<nodes, stores>>

(* The rows of the snapshot are read again once they are free: the ones     *)
(* that still match have the old prefix of their path replaced.             *)
Rewritten(q, n) ==
    n \in local[q].rows /\ _is_descendant(nodes[n].path, local[q].old)

Edited(q) ==
    [n \in Nodes |->
        IF n = Target(q)
        THEN [nodes[n] EXCEPT !.path = local[q].new,
                              !.parent = IF q.parent = None THEN @ ELSE q.parent,
                              !.code = IF q.code = None THEN @ ELSE q.code]
        ELSE IF Rewritten(q, n)
        THEN [nodes[n] EXCEPT !.path =
                 local[q].new \o SubSeq(@, Len(local[q].old) + 1, Len(@))]
        ELSE nodes[n]]

SaveNode(q) ==
    /\ At(q, "edit_node", "save") \/ At(q, "update_store", "save")
    /\ \A n \in local[q].rows : Free(q, <<"node", n>>, "update")
    /\ q.code # None => NodeCodeFree(nodes[Target(q)].tenant, q.code, Target(q))
    /\ nodes' = Edited(q)
    /\ IF q.op = "update_store" /\ q.code # None
       THEN /\ StoreCodeFree(nodes[Target(q)].tenant, q.code, q.store)
            /\ stores' = [stores EXCEPT ![q.store].code = q.code]
       ELSE UNCHANGED stores
    /\ Answer(q)
    /\ UNCHANGED raced

-----------------------------------------------------------------------------
(* POST /stores/{store}/transition: the store's row, then its node's.       *)

(* As TransitionLock below, on a plain SELECT.                              *)
TransitionLock_Plain(q) == {}

TransitionLock(q) == {Lock(<<"store", q.store>>, "update")}

LockForTransition(q) ==
    /\ At(q, "transition_store", "received")
    /\ stores[q.store] # None /\ Sees(q, nodes[stores[q.store].node].tenant)
    /\ \A l \in TransitionLock(q) : Free(q, l.row, l.mode)
    /\ q.status \in TRANSITION_MATRIX[stores[q.store].status]
    /\ Proceed(q, "set_status", stores[q.store].status, TransitionLock(q))
    /\ UNCHANGED treeVars

(* As Transitioned below, without the second form.                          *)
Transitioned_StaysClosed(row, from, to) ==
    [row EXCEPT !.status = to, !.closed = IF to = "CLOSED" THEN TRUE ELSE @]

(* The three forms of the UPDATE: into CLOSED stamps closed_at, out of      *)
(* CLOSED clears it, and any other leaves it as it is.                      *)
Transitioned(row, from, to) ==
    [row EXCEPT !.status = to,
                !.closed = IF to = "CLOSED" THEN TRUE ELSE from # "CLOSED" /\ @]

(* OrgNodesRepo.set_status on the paired node, which reads the row it locks *)
(* and treats ARCHIVED in the same way, in the same transaction.            *)
Projected(node, to) ==
    [node EXCEPT !.status = to,
                 !.archived = IF to = "ARCHIVED" THEN TRUE ELSE node.status # "ARCHIVED" /\ @]

SetStatus(q) ==
    /\ At(q, "transition_store", "set_status")
    /\ Free(q, <<"node", stores[q.store].node>>, "update")
    /\ stores' = [stores EXCEPT ![q.store] = Transitioned(stores[q.store], local[q], q.status)]
    /\ nodes' = [nodes EXCEPT ![stores[q.store].node] =
           Projected(nodes[stores[q.store].node], STORE_STATUS_TO_ORG_NODE_STATUS[q.status])]
    /\ AnswerAudited(q, <<"store", q.store>>, local[q], q.status)
    /\ UNCHANGED raced

OrgTreeStep(q) ==
    \/ LockParent(q) \/ InsertNode(q) \/ InsertStore(q)
    \/ LockStore(q) \/ LockTarget(q) \/ Place(q) \/ Repath(q) \/ SaveNode(q)
    \/ LockForTransition(q) \/ SetStatus(q)

-----------------------------------------------------------------------------
TreeTypeOK ==
    /\ \A n \in Nodes : nodes[n] # None =>
          /\ nodes[n].type \in NodeType
          /\ nodes[n].parent \in Nodes \cup {None}
          /\ nodes[n].path \in Seq(Codes) \ {<<>>}
          /\ nodes[n].status \in OrgNodeStatus
    /\ \A s \in Stores : stores[s] # None =>
          stores[s].node \in Nodes /\ stores[s].status \in StoreStatus
    /\ raced \in BOOLEAN

(* Every node but the root hangs under an existing node of its tenant whose *)
(* type is above its own, so no sequence of concurrent moves makes a cycle. *)
ParentsAreAbove ==
    \A n \in Here(nodes) :
        IF nodes[n].type = TENANT
        THEN nodes[n].parent = None /\ nodes[n] = nodes[Root(nodes[n].tenant)]
        ELSE /\ nodes[n].parent \in NodesOf(nodes[n].tenant)
             /\ nodes[nodes[n].parent].type < nodes[n].type

(* A node's path is its parent's path and its own code, as long as no       *)
(* re-path statement had to wait for another writer of the subtree: the     *)
(* rows that writer adds are not in the statement's snapshot, and keep the  *)
(* old prefix.                                                              *)
PathsAreCoherent ==
    ~raced => \A n \in Here(nodes) : nodes[n].type # TENANT =>
                  nodes[n].path = Append(nodes[nodes[n].parent].path, nodes[n].code)

StoresAt(n) == {s \in Here(stores) : stores[s].node = n}

(* A store and its node are one entity: same code, projected status, and    *)
(* every STORE node belongs to exactly one store.                           *)
StoresArePaired ==
    /\ \A s \in Here(stores) :
          /\ nodes[stores[s].node].type = STORE
          /\ nodes[stores[s].node].code = stores[s].code
          /\ nodes[stores[s].node].status = STORE_STATUS_TO_ORG_NODE_STATUS[stores[s].status]
    /\ \A n \in Here(nodes) : nodes[n].type = STORE => Cardinality(StoresAt(n)) = 1

(* Concurrent adds, moves, recodings and store transitions                  *)
(* (org_nodes.py add_node, edit_node, set_status; stores.py create, update, *)
(* transition) leave a well-founded tree with coherent paths and stores     *)
(* that agree with their nodes.                                             *)
OrgTreeIsSound == TreeTypeOK /\ ParentsAreAbove /\ PathsAreCoherent /\ StoresArePaired
=============================================================================
