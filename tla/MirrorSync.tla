----------------------------- MODULE MirrorSync -----------------------------
(* The mirror-sync job of the data ingestion side copies tenants and stores *)
(* of Customer Master into identity_mirror (mirror_sync_consumer).  A pass  *)
(* reads the tenants, then the stores, and then upserts one tenant and its  *)
(* stores per transaction; it never deletes.  A pass is a "request" here:   *)
(* it may be stopped after any transaction.                                 *)
EXTENDS TenantLifecycle

VARIABLES mirrorTenants, mirrorStores,  \* identity_mirror.tenants and .stores
          synced,       \* history: what the last pass that finished had read,
                        \* until another pass begins to write
          overlapped    \* history: two passes were under way at once

mirrorVars == <<mirrorTenants, mirrorStores, synced, overlapped>>

(* What a pass reads of a tenant and of a store.                            *)
TenantFacts == [t \in Here(tenants) |-> [name |-> tenants[t].name, status |-> tenants[t].status]]
StoreFacts ==
    [s \in Here(stores) |-> [tenant |-> nodes[stores[s].node].tenant,
                             code |-> stores[s].code, status |-> stores[s].status]]

MirrorInit ==
    /\ mirrorTenants = [t \in Tenants |-> None]
    /\ mirrorStores = [s \in Stores |-> None]
    /\ synced = None
    /\ overlapped = FALSE

(* read_customer_master: two statements, each with its own snapshot.        *)
ReadTenants(q) ==
    /\ At(q, "mirror_pass", "received")
    /\ overlapped' = (overlapped \/ \E p \in Requests \ {q} : p.op = "mirror_pass" /\ InFlight(p))
    /\ Proceed(q, "read_stores", TenantFacts, {})
    /\ UNCHANGED <<treeVars, userVars, tenantVars, mirrorTenants, mirrorStores, synced>>

ReadStores(q) ==
    /\ At(q, "mirror_pass", "read_stores")
    /\ Proceed(q, "upsert", [tenants |-> local[q], stores |-> StoreFacts,
                             todo |-> DOMAIN local[q]], {})
    /\ UNCHANGED <<treeVars, userVars, tenantVars, mirrorVars>>

(* As Differs below, with a column forgotten in the comparison.             *)
Differs_IgnoresStatus(old, new) == old = None \/ [old EXCEPT !.status = new.status] # new

(* The upserts compare every business column and write only a change.       *)
Differs(old, new) == old # new
Upserted(old, new) == IF Differs(old, new) THEN new ELSE old

(* The stores whose tenant was not among the tenants read are skipped.      *)
UpsertTenant(q, t) ==
    /\ At(q, "mirror_pass", "upsert") /\ t \in local[q].todo
    /\ mirrorTenants' = [mirrorTenants EXCEPT ![t] = Upserted(@, local[q].tenants[t])]
    /\ mirrorStores' = [s \in Stores |->
           IF s \in DOMAIN local[q].stores /\ local[q].stores[s].tenant = t
           THEN Upserted(mirrorStores[s], local[q].stores[s])
           ELSE mirrorStores[s]]
    /\ synced' = None
    /\ Proceed(q, "upsert", [local[q] EXCEPT !.todo = @ \ {t}], {})
    /\ UNCHANGED <<treeVars, userVars, tenantVars, overlapped>>

FinishPass(q) ==
    /\ At(q, "mirror_pass", "upsert") /\ local[q].todo = {}
    /\ synced' = [tenants |-> local[q].tenants, stores |-> local[q].stores]
    /\ Answer(q)
    /\ UNCHANGED <<treeVars, userVars, tenantVars, mirrorTenants, mirrorStores, overlapped>>

MirrorStep(q) ==
    \/ ReadTenants(q) \/ ReadStores(q) \/ FinishPass(q)
    \/ \E t \in Tenants : UpsertTenant(q, t)

(* The mirror is fit to be referenced: a mirrored store's tenant is         *)
(* mirrored too, even though stores and tenants are read at different       *)
(* moments and a pass may stop anywhere (sinks/postgres.py                  *)
(* upsert_identity); and once a pass has finished on what Customer Master   *)
(* still holds, the mirror equals it until a pass writes again, unless      *)
(* passes overlapped (a slower pass writes what it read earlier over the    *)
(* newer rows).                                                             *)
MirrorIsFaithful ==
    /\ \A s \in Here(mirrorStores) : mirrorTenants[mirrorStores[s].tenant] # None
    /\ /\ synced # None /\ synced = [tenants |-> TenantFacts, stores |-> StoreFacts]
       /\ ~overlapped
       => /\ \A t \in Here(tenants) : mirrorTenants[t] = TenantFacts[t]
          /\ \A s \in Here(stores) : mirrorStores[s] = StoreFacts[s]
=============================================================================
