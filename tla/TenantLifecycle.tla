-------------------------- MODULE TenantLifecycle --------------------------
(* Tenants from creation through onboarding to suspension                   *)
(* (repositories/tenants.py, onboarding.py, documents.py,                   *)
(* modules_access.py, channel_connections.py and their routers).  Document  *)
(* files and channel credentials live outside the database.                 *)
EXTENDS TenantUsers

CONSTANTS Docs,         \* ids of tenant_documents rows
          Modules, Names, Providers

VARIABLES tenants,      \* tenants[t]: a tenants row and its tenant_onboarding row
          sections,     \* sections[t]: the profile sections on record
          docs,         \* docs[d]: a tenant_documents row, or None
          files,        \* files[d]: the object behind document d
          modules,      \* modules[t][m]: the tenant_module_access row's status, or None
          channels,     \* channels[t]: the provider of the channel_connections row
          secrets,      \* secrets[t]: the provider of the newest credential
          completedWith,\* history: the documents t had when it left ONBOARDING
          half          \* history: a request failed after an effect outside the database

tenantVars == <<tenants, sections, docs, files, modules, channels, secrets, completedWith, half>>
docVars == <<docs, files>>
channelVars == <<channels, secrets>>

TenantStatus == {"ONBOARDING", "TRIAL", "ACTIVE", "SUSPENDED"}
Sections == {"legal", "billing", "contacts", "tax"}

_TRANSITION_ALLOWED_SOURCES ==
    [SUSPENDED |-> {"TRIAL", "ACTIVE"},
     ACTIVE    |-> {"TRIAL", "SUSPENDED"},
     TRIAL     |-> {"ONBOARDING"}]

TenantRow(name) ==
    [name |-> name, status |-> "ONBOARDING", org |-> FALSE, suspended |-> FALSE,
     completed |-> FALSE, resume |-> None]

(* _raise_if_name_taken: no constraint backs it.                            *)
NameTaken(name, self) == \E t \in Here(tenants) \ {self} : tenants[t].name = name

CheckName(q) ==
    /\ At(q, "create_tenant", "received") \/ At(q, "update_tenant", "received")
    /\ q.op = "update_tenant" => tenants[q.tenant] # None
    /\ ~NameTaken(q.name, q.tenant)
    /\ Proceed(q, "write_tenant", None, {})
    /\ UNCHANGED <<treeVars, userVars, tenantVars>>

(* The tenant, its root node, its modules and its onboarding state.         *)
CreateTenant(q) ==
    /\ At(q, "create_tenant", "write_tenant")
    /\ tenants[q.tenant] = None /\ NodeLeft
    /\ tenants' = [tenants EXCEPT ![q.tenant] = TenantRow(q.name)]
    /\ nodes' = [nodes EXCEPT ![FreshNode] =
           NodeRow(q.tenant, TENANT, None, q.name, <<q.name>>)]
    /\ modules' = [modules EXCEPT ![q.tenant] =
           [m \in Modules |-> IF m \in q.modules THEN "ENABLED" ELSE None]]
    /\ AnswerAudited(q, <<"tenant", q.tenant>>, None, "ONBOARDING")
    /\ UNCHANGED <<stores, raced, userVars, sections, docVars, channelVars, completedWith, half>>

UpdateTenant(q) ==
    /\ At(q, "update_tenant", "write_tenant")
    /\ Free(q, <<"tenant", q.tenant>>, "no_key")
    /\ tenants' = [tenants EXCEPT ![q.tenant].name = q.name]
    /\ Answer(q)
    /\ UNCHANGED <<treeVars, userVars, sections, docVars, modules, channelVars, completedWith, half>>

-----------------------------------------------------------------------------
(* Suspension and activation, and the end of onboarding: all lock the       *)
(* tenant's row first.                                                      *)
Target_status(q) == IF q.op = "complete_onboarding" THEN "TRIAL" ELSE q.status

(* As TenantLock below, compatible with the foreign keys of new rows.       *)
TenantLock_NoKey(q) == {Lock(<<"tenant", q.tenant>>, "no_key")}

TenantLock(q) == {Lock(<<"tenant", q.tenant>>, "update")}

LockTenant(q) ==
    /\ At(q, "transition_tenant", "received") \/ At(q, "complete_onboarding", "received")
    /\ tenants[q.tenant] # None
    /\ \A l \in TenantLock(q) : Free(q, l.row, l.mode)
    /\ tenants[q.tenant].status \in _TRANSITION_ALLOWED_SOURCES[Target_status(q)]
    /\ Proceed(q, "check", tenants[q.tenant].status, TenantLock(q))
    /\ UNCHANGED <<treeVars, userVars, tenantVars>>

TransitionTenant(q) ==
    /\ At(q, "transition_tenant", "check")
    /\ tenants' = [tenants EXCEPT ![q.tenant].status = q.status,
                                  ![q.tenant].suspended = (q.status = "SUSPENDED")]
    /\ AnswerAudited(q, <<"tenant", q.tenant>>, local[q], q.status)
    /\ UNCHANGED <<treeVars, userVars, sections, docVars, modules, channelVars, completedWith, half>>

DocsOf(t) == {d \in Here(docs) : docs[d].tenant = t}

(* Everything the wizard asks for, read in one statement.                   *)
NothingMissing(t) ==
    /\ {"legal", "billing", "contacts"} \subseteq sections[t]
    /\ tenants[t].org
    /\ \E u \in Here(users) : users[u].tenant = t /\ users[u].invited
    /\ DocsOf(t) # {}
    /\ \A d \in DocsOf(t) : docs[d].status = "VERIFIED"

CheckPresence(q) ==
    /\ At(q, "complete_onboarding", "check")
    /\ NothingMissing(q.tenant)
    /\ Proceed(q, "complete", None, {})
    /\ UNCHANGED <<treeVars, userVars, tenantVars>>

CompleteOnboarding(q) ==
    /\ At(q, "complete_onboarding", "complete")
    /\ tenants' = [tenants EXCEPT ![q.tenant].status = "TRIAL", ![q.tenant].completed = TRUE]
    /\ completedWith' = [completedWith EXCEPT ![q.tenant] = DocsOf(q.tenant)]
    /\ AnswerAudited(q, <<"tenant", q.tenant>>, "ONBOARDING", "TRIAL")
    /\ UNCHANGED <<treeVars, userVars, sections, docVars, modules, channelVars, half>>

-----------------------------------------------------------------------------
(* POST /tenants/{t}/provision-auth0.                                       *)
ProvisionOrganization(q) ==
    /\ At(q, "provision_tenant", "received")
    /\ tenants[q.tenant] # None
    /\ orgs' = orgs \cup {q.tenant}
    /\ Proceed(q, "set_org", None, {})
    /\ UNCHANGED <<treeVars, users, identities, asked, drifted, tenantVars>>

SetAuth0OrgId(q) ==
    /\ At(q, "provision_tenant", "set_org")
    /\ Free(q, <<"tenant", q.tenant>>, "no_key")
    /\ tenants' = [tenants EXCEPT ![q.tenant].org = TRUE]
    /\ Answer(q)
    /\ UNCHANGED <<treeVars, userVars, sections, docVars, modules, channelVars, completedWith, half>>

(* PUT of a profile section: an upsert of the one row, ...                  *)
Upsert(q, section) ==
    /\ At(q, "put_section", "received") /\ q.section = section
    /\ tenants[q.tenant] # None /\ Free(q, <<"tenant", q.tenant>>, "key_share")
    /\ sections' = [sections EXCEPT ![q.tenant] = @ \cup {section}]
    /\ Answer(q)
    /\ UNCHANGED <<treeVars, userVars, tenants, docVars, modules, channelVars, completedWith, half>>

(* ... or the replacement of a list, which an empty body clears.            *)
Replace(q, section) ==
    /\ At(q, "put_section", "received") /\ q.section = section
    /\ tenants[q.tenant] # None
    /\ ~q.empty => Free(q, <<"tenant", q.tenant>>, "key_share")
    /\ sections' = [sections EXCEPT ![q.tenant] =
           IF q.empty THEN @ \ {section} ELSE @ \cup {section}]
    /\ Answer(q)
    /\ UNCHANGED <<treeVars, userVars, tenants, docVars, modules, channelVars, completedWith, half>>

upsert_legal_profile(q) == Upsert(q, "legal")
upsert_billing_profile(q) == Upsert(q, "billing")
replace_contacts(q) == Replace(q, "contacts")
replace_tax_registrations(q) == Replace(q, "tax")

(* PATCH of the wizard's resume state: completed_at is read without a lock. *)
CheckNotCompleted(q) ==
    /\ At(q, "patch_onboarding", "received")
    /\ tenants[q.tenant] # None /\ ~tenants[q.tenant].completed
    /\ Proceed(q, "upsert_onboarding", None, {})
    /\ UNCHANGED <<treeVars, userVars, tenantVars>>

UpsertOnboarding(q) ==
    /\ At(q, "patch_onboarding", "upsert_onboarding")
    /\ tenants' = [tenants EXCEPT ![q.tenant].resume = q.section]
    /\ Answer(q)
    /\ UNCHANGED <<treeVars, userVars, sections, docVars, modules, channelVars, completedWith, half>>

-----------------------------------------------------------------------------
(* Documents: the row is created with an upload URL, and the client puts    *)
(* the file.                                                                *)
CreatePending(q) ==
    /\ At(q, "create_document", "received")
    /\ tenants[q.tenant] # None /\ docs[q.doc] = None
    /\ Free(q, <<"tenant", q.tenant>>, "key_share")
    /\ docs' = [docs EXCEPT ![q.doc] = [tenant |-> q.tenant, status |-> "PENDING_REVIEW"]]
    /\ files' = [files EXCEPT ![q.doc] = "stored"]
    /\ Answer(q)
    /\ UNCHANGED <<treeVars, userVars, tenants, sections, modules, channelVars, completedWith, half>>

(* verify, reject and delete_if_pending lock the row and look at its status.*)
LockDocument(q) ==
    /\ At(q, "review_document", "received") \/ At(q, "delete_document", "received")
    /\ docs[q.doc] # None /\ docs[q.doc].tenant = q.tenant
    /\ Free(q, <<"doc", q.doc>>, "update")
    /\ docs[q.doc].status = "PENDING_REVIEW"
    /\ Proceed(q, "write_document", None, {Lock(<<"doc", q.doc>>, "update")})
    /\ UNCHANGED <<treeVars, userVars, tenantVars>>

SetReview(q, status) ==
    /\ At(q, "review_document", "write_document") /\ q.status = status
    /\ docs' = [docs EXCEPT ![q.doc].status = status]
    /\ Answer(q)
    /\ UNCHANGED <<treeVars, userVars, tenants, sections, files, modules, channelVars, completedWith, half>>

verify(q) == SetReview(q, "VERIFIED")
reject(q) == SetReview(q, "REJECTED")

(* The file is deleted, best effort, before the row's deletion commits.     *)
DeleteObject(q) ==
    /\ At(q, "delete_document", "write_document")
    /\ files' \in {files, [files EXCEPT ![q.doc] = "deleted"]}
    /\ Proceed(q, "commit_delete", None, {})
    /\ UNCHANGED <<treeVars, userVars, tenants, sections, docs, modules, channelVars, completedWith, half>>

DeleteDocument(q) ==
    /\ At(q, "delete_document", "commit_delete")
    /\ docs' = [docs EXCEPT ![q.doc] = None]
    /\ Answer(q)
    /\ UNCHANGED <<treeVars, userVars, tenants, sections, files, modules, channelVars, completedWith, half>>

-----------------------------------------------------------------------------
(* Module access: SELECT FOR UPDATE, which locks nothing when there is no   *)
(* row yet.                                                                 *)
SelectModule(q) ==
    /\ At(q, "enable_module", "received") \/ At(q, "disable_module", "received")
    /\ tenants[q.tenant] # None
    /\ q.op = "disable_module" => modules[q.tenant][q.module] # None
    /\ Free(q, <<"module", q.tenant, q.module>>, "update")
    /\ Proceed(q, "write_module", modules[q.tenant][q.module],
               IF modules[q.tenant][q.module] = None THEN {}
               ELSE {Lock(<<"module", q.tenant, q.module>>, "update")})
    /\ UNCHANGED <<treeVars, userVars, tenantVars>>

(* A module that has the status already is left alone and not audited.      *)
WriteModule(q, status) ==
    /\ modules' = [modules EXCEPT ![q.tenant][q.module] = status]
    /\ IF local[q] = status THEN Answer(q)
       ELSE AnswerAudited(q, <<"module", q.tenant, q.module>>, local[q], status)
    /\ UNCHANGED <<treeVars, userVars, tenants, sections, docVars, channelVars, completedWith, half>>

(* An insert that meets a row raises; the recovery in enable() runs on a    *)
(* session whose transaction is gone, so the request fails.                 *)
enable(q) ==
    /\ At(q, "enable_module", "write_module")
    /\ local[q] = None => /\ modules[q.tenant][q.module] = None
                          /\ Free(q, <<"tenant", q.tenant>>, "key_share")
    /\ WriteModule(q, "ENABLED")

disable(q) == At(q, "disable_module", "write_module") /\ WriteModule(q, "DISABLED")

-----------------------------------------------------------------------------
(* PUT /channels, for the caller's own tenant: the row is upserted, and so  *)
(* locked, then the credential is written to Secret Manager, then the       *)
(* transaction commits.                                                     *)
ChannelLock(q) == {Lock(<<"channel", q.by.tenant>>, "no_key")}

UpsertChannel(q) ==
    /\ At(q, "upsert_channel", "received")
    /\ \A l \in ChannelLock(q) : Free(q, l.row, l.mode)
    /\ Proceed(q, "write_secret", None, ChannelLock(q))
    /\ UNCHANGED <<treeVars, userVars, tenantVars>>

WriteSecret(q) ==
    /\ At(q, "upsert_channel", "write_secret")
    /\ secrets' = [secrets EXCEPT ![q.by.tenant] = q.provider]
    /\ Proceed(q, "commit_channel", None, {})
    /\ UNCHANGED <<treeVars, userVars, tenants, sections, docVars, modules, channels, completedWith, half>>

CommitChannel(q) ==
    /\ At(q, "upsert_channel", "commit_channel")
    /\ channels' = [channels EXCEPT ![q.by.tenant] = q.provider]
    /\ Answer(q)
    /\ UNCHANGED <<treeVars, userVars, tenants, sections, docVars, modules, secrets, completedWith, half>>

(* The transaction fails after the file or the credential was changed.      *)
RollbackTenant(q) ==
    /\ RollbackUser(q)
    /\ half' = (half \/ step[q] \in {"commit_delete", "commit_channel"})
    /\ UNCHANGED <<tenants, sections, docVars, modules, channelVars, completedWith>>

TenantStep(q) ==
    \/ CheckName(q) \/ CreateTenant(q) \/ UpdateTenant(q)
    \/ LockTenant(q) \/ TransitionTenant(q) \/ CheckPresence(q) \/ CompleteOnboarding(q)
    \/ ProvisionOrganization(q) \/ SetAuth0OrgId(q)
    \/ upsert_legal_profile(q) \/ upsert_billing_profile(q)
    \/ replace_contacts(q) \/ replace_tax_registrations(q)
    \/ CheckNotCompleted(q) \/ UpsertOnboarding(q)
    \/ CreatePending(q) \/ LockDocument(q) \/ verify(q) \/ reject(q) \/ DeleteObject(q) \/ DeleteDocument(q)
    \/ SelectModule(q) \/ enable(q) \/ disable(q)
    \/ UpsertChannel(q) \/ WriteSecret(q) \/ CommitChannel(q)

-----------------------------------------------------------------------------
TenantsTypeOK ==
    /\ \A t \in Tenants : tenants[t] # None =>
          /\ tenants[t].status \in TenantStatus
          /\ tenants[t].name \in Names
          /\ NodesOf(t) # {}
    /\ \A t \in Tenants : sections[t] \subseteq Sections
    /\ \A d \in Docs : docs[d] # None => docs[d].status \in {"PENDING_REVIEW", "VERIFIED", "REJECTED"}
    /\ \A t \in Tenants, m \in Modules : modules[t][m] \in {"ENABLED", "DISABLED", None}

(* The profile a tenant left ONBOARDING with.  complete_onboarding's lock   *)
(* on the tenant's row keeps new documents out between the check and the    *)
(* commit, so every document of that moment was VERIFIED, and stays so; the *)
(* legal and billing profile, the organisation and an invited administrator *)
(* are there for good.  (The contacts are not: replacing them by an empty   *)
(* list takes no lock on the tenant.)                                       *)
OnboardingWasComplete ==
    \A t \in Here(tenants) :
        /\ tenants[t].completed <=> tenants[t].status # "ONBOARDING"
        /\ tenants[t].completed =>
              /\ {"legal", "billing"} \subseteq sections[t]
              /\ tenants[t].org /\ t \in orgs
              /\ \E u \in Here(users) : users[u].tenant = t /\ users[u].invited
              /\ completedWith[t] # {}
              /\ \A d \in completedWith[t] : docs[d] # None /\ docs[d].status = "VERIFIED"

(* What the database says about a file or a credential is true as long as   *)
(* no request failed after changing one: a reviewed document keeps its      *)
(* file, and a channel's row names the provider of its newest credential.   *)
OutsideIsInStep ==
    ~half =>
        /\ \A d \in Here(docs) : files[d] = "deleted" => \E q \in Requests : At(q, "delete_document", "commit_delete") /\ q.doc = d
        /\ \A t \in Tenants : channels[t] # secrets[t] =>
              \E q \in Requests : At(q, "upsert_channel", "commit_channel") /\ q.by.tenant = t

(* Onboarding cannot be completed around (tenants.py complete_onboarding,   *)
(* transition; documents.py), and the effects outside the database stay in  *)
(* step with it (documents.py delete, channels.py upsert).                  *)
TenantsAreSound == TenantsTypeOK /\ OnboardingWasComplete /\ OutsideIsInStep
=============================================================================
