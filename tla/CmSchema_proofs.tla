-------------------------- MODULE CmSchema_proofs --------------------------
(***************************************************************************)
(* Proofs about what Customer Master's requests write, on top of the       *)
(* invariants of CustomerMaster_proofs: the row locks exclude each other,  *)
(* every row satisfies the schema, and the audit log tells the history of  *)
(* every status, for any requests in every interleaving of their           *)
(* statements.                                                             *)
(***************************************************************************)
EXTENDS CustomerMaster_proofs

-----------------------------------------------------------------------------
(* Row locks. *)

\* The locks of two transactions on one row are compatible.
LocksApart ==
    \A p, q \in Requests : p # q =>
        \A k \in locks[p], l \in locks[q] : k.row = l.row => Compatible(k.mode, l.mode)

\* A statement takes the locks that are free, and no others.
Takes(q) == \A l \in locks'[q] : l \in locks[q] \/ Free(q, l.row, l.mode)

LEMMA LocksStayApart ==
    ASSUME LocksApart, NEW q \in Requests, Only(q), Takes(q)
    PROVE  LocksApart'
<1> SUFFICES ASSUME NEW p \in Requests, NEW r \in Requests, p # r,
                    NEW k \in locks'[p], NEW l \in locks'[r], k.row = l.row
             PROVE  Compatible(k.mode, l.mode)
  BY DEF LocksApart
<1>1. CASE p # q /\ r # q
  BY <1>1 DEF LocksApart, Only
<1>2. CASE p = q
  <2>1. locks'[r] = locks[r]
    BY <1>2 DEF Only
  <2>2. k \in locks[q] \/ Free(q, k.row, k.mode)
    BY <1>2 DEF Takes
  <2> QED BY <1>2, <2>1, <2>2 DEF LocksApart, Free, Compatible
<1>3. CASE r = q
  <2>1. locks'[p] = locks[p]
    BY <1>3 DEF Only
  <2>2. l \in locks[q] \/ Free(q, l.row, l.mode)
    BY <1>3 DEF Takes
  <2> QED BY <1>3, <2>1, <2>2 DEF LocksApart, Free, Compatible
<1> QED BY <1>1, <1>2, <1>3

LEMMA ProceedTakes ==
    ASSUME SessionType, NEW q \in Requests, NEW s, NEW read, NEW taken, Proceed(q, s, read, taken),
           \A l \in taken : Free(q, l.row, l.mode)
    PROVE  Takes(q)
BY DEF Proceed, SessionType, Takes

LEMMA DoneTakes ==
    ASSUME SessionType, NEW q \in Requests, Done(q)
    PROVE  Takes(q)
BY DEF Done, SessionType, Takes

LEMMA TreeTakes ==
    ASSUME SessionType, NEW q \in Requests, OrgTreeStep(q)
    PROVE  Takes(q)
<1>1. CASE LockParent(q)
  <2>1. \A l \in {Lock(<<"node", ParentOf(q)>>, "update")} : Free(q, l.row, l.mode)
    BY <1>1 DEF LockParent, Lock
  <2> QED BY <1>1, <2>1, ProceedTakes DEF LockParent
<1>2. CASE InsertNode(q) \/ InsertStore(q) \/ SaveNode(q) \/ SetStatus(q)
  BY <1>2, DoneTakes DEF InsertNode, InsertStore, SaveNode, SetStatus, Answer, AnswerAudited
<1>3. CASE LockStore(q)
  <2> DEFINE taken == IF q.code = None THEN {} ELSE {Lock(<<"store", q.store>>, "no_key")}
  <2>1. \A l \in taken : Free(q, l.row, l.mode)
    BY <1>3 DEF LockStore, Lock
  <2>2. Proceed(q, "lock_target", None, taken)
    BY <1>3 DEF LockStore
  <2> HIDE DEF taken
  <2> QED BY <2>1, <2>2, ProceedTakes
<1>4. CASE LockTarget(q)
  <2>1. \A l \in {Lock(<<"node", Target(q)>>, "update")} : Free(q, l.row, l.mode)
    BY <1>4 DEF LockTarget, Lock
  <2> QED BY <1>4, <2>1, ProceedTakes DEF LockTarget
<1>5. CASE Place(q)
  <2> DEFINE taken == IF q.parent = None THEN {} ELSE {Lock(<<"node", q.parent>>, "update")}
  <2>1. \A l \in taken : Free(q, l.row, l.mode)
    BY <1>5 DEF Place, Lock
  <2>2. PICK read : Proceed(q, "repath", read, taken)
    BY <1>5 DEF Place
  <2> HIDE DEF taken
  <2> QED BY <2>1, <2>2, ProceedTakes
<1>6. CASE Repath(q)
  <2>1. PICK rows \in SUBSET {n \in Subtree(q) : Free(q, <<"node", n>>, "update")} :
          \E read : Proceed(q, "save", read, {Lock(<<"node", n>>, "update") : n \in rows})
    BY <1>6 DEF Repath
  <2> DEFINE taken == {Lock(<<"node", n>>, "update") : n \in rows}
  <2>2. \A l \in taken : Free(q, l.row, l.mode)
    BY <2>1 DEF Lock
  <2>3. PICK read : Proceed(q, "save", read, taken)
    BY <2>1
  <2> HIDE DEF taken
  <2> QED BY <2>2, <2>3, ProceedTakes
<1>7. CASE LockForTransition(q)
  BY <1>7, ProceedTakes DEF LockForTransition
<1> QED BY <1>1, <1>2, <1>3, <1>4, <1>5, <1>6, <1>7 DEF OrgTreeStep

LEMMA UserTakes ==
    ASSUME SessionType, NEW q \in Requests, UserStep(q)
    PROVE  Takes(q)
<1>1. CASE InsertUser(q) \/ CommitUser(q) \/ SetUserStatus(q) \/ ProvisionUser(q) \/ MarkInvited(q) \/ AcceptInvitation(q)
  BY <1>1, DoneTakes
     DEF InsertUser, CommitUser, SetUserStatus, ProvisionUser, MarkInvited, AcceptInvitation, Answer, AnswerAudited
<1>2. CASE LockUser(q)
  BY <1>2, ProceedTakes DEF LockUser
<1>3. CASE LockForStatus(q)
  <2>1. \A l \in {Lock(<<"user", q.user>>, "update")} : Free(q, l.row, l.mode)
    BY <1>3 DEF LockForStatus, Lock
  <2> QED BY <1>3, <2>1, ProceedTakes DEF LockForStatus
<1>4. CASE \/ ValidateUser(q) \/ ReadUser(q) \/ UpdateUserEmail(q) \/ ReadForProvision(q) \/ GetOrCreateOrg(q)
           \/ SendInvitation(q) \/ ReconcileAcceptance(q)
  <2>1. \E s, read : Proceed(q, s, read, {})
    BY <1>4 DEF ValidateUser, ReadUser, UpdateUserEmail, ReadForProvision, GetOrCreateOrg, SendInvitation,
       ReconcileAcceptance
  <2> QED BY <2>1, ProceedTakes
<1> QED BY <1>1, <1>2, <1>3, <1>4 DEF UserStep

LEMMA TenantTakes ==
    ASSUME SessionType, NEW q \in Requests, TenantStep(q)
    PROVE  Takes(q)
<1>1. CASE \/ CreateTenant(q) \/ UpdateTenant(q) \/ TransitionTenant(q) \/ CompleteOnboarding(q) \/ SetAuth0OrgId(q)
           \/ upsert_legal_profile(q) \/ upsert_billing_profile(q) \/ replace_contacts(q)
           \/ replace_tax_registrations(q) \/ UpsertOnboarding(q) \/ CreatePending(q) \/ verify(q) \/ reject(q)
           \/ DeleteDocument(q) \/ enable(q) \/ disable(q) \/ CommitChannel(q)
  <2>1. Done(q)
    BY <1>1 DEF CreateTenant, UpdateTenant, TransitionTenant, CompleteOnboarding, SetAuth0OrgId,
       upsert_legal_profile, upsert_billing_profile, Upsert, replace_contacts, replace_tax_registrations, Replace,
       UpsertOnboarding, CreatePending, verify, reject, SetReview, DeleteDocument, enable, disable, WriteModule,
       CommitChannel, Answer, AnswerAudited
  <2> QED BY <2>1, DoneTakes
<1>2. CASE LockTenant(q)
  BY <1>2, ProceedTakes DEF LockTenant
<1>3. CASE LockDocument(q)
  <2>1. \A l \in {Lock(<<"doc", q.doc>>, "update")} : Free(q, l.row, l.mode)
    BY <1>3 DEF LockDocument, Lock
  <2> QED BY <1>3, <2>1, ProceedTakes DEF LockDocument
<1>4. CASE SelectModule(q)
  <2> DEFINE taken == IF modules[q.tenant][q.module] = None THEN {}
                      ELSE {Lock(<<"module", q.tenant, q.module>>, "update")}
  <2>1. \A l \in taken : Free(q, l.row, l.mode)
    BY <1>4 DEF SelectModule, Lock
  <2>2. \E read : Proceed(q, "write_module", read, taken)
    BY <1>4 DEF SelectModule
  <2> HIDE DEF taken
  <2> QED BY <2>1, <2>2, ProceedTakes
<1>5. CASE UpsertChannel(q)
  BY <1>5, ProceedTakes DEF UpsertChannel
<1>6. CASE CheckName(q) \/ CheckPresence(q) \/ ProvisionOrganization(q) \/ CheckNotCompleted(q) \/ DeleteObject(q) \/ WriteSecret(q)
  <2>1. \E s, read : Proceed(q, s, read, {})
    BY <1>6 DEF CheckName, CheckPresence, ProvisionOrganization, CheckNotCompleted, DeleteObject, WriteSecret
  <2> QED BY <2>1, ProceedTakes
<1> QED BY <1>1, <1>2, <1>3, <1>4, <1>5, <1>6 DEF TenantStep

\* The mirror and the edits of roles.
LEMMA OthersTake ==
    ASSUME SessionType, NEW q \in Requests, Authorize(q) \/ MirrorStep(q) \/ RoleStep(q) \/ RollbackTenant(q)
    PROVE  Takes(q)
<1>1. CASE Authorize(q)
  BY <1>1, ProceedTakes DEF Authorize
<1>2. CASE RollbackTenant(q)
  BY <1>2, DoneTakes DEF RollbackTenant, RollbackUser, Rollback, Answer
<1>3. CASE WriteRole(q)
  <2>1. \A l \in {Lock(<<"role", q.role>>, "no_key")} : Free(q, l.row, l.mode)
    BY <1>3 DEF WriteRole, Lock
  <2> QED BY <1>3, <2>1, ProceedTakes DEF WriteRole
<1>4. CASE CommitRole(q) \/ FinishPass(q)
  BY <1>4, DoneTakes DEF CommitRole, FinishPass, Answer
<1>5. CASE ReadRole(q) \/ CountHolders(q) \/ ReadTenants(q) \/ ReadStores(q) \/ \E t \in Tenants : UpsertTenant(q, t)
  <2>1. \E s, read : Proceed(q, s, read, {})
    BY <1>5 DEF ReadRole, CountHolders, ReadTenants, ReadStores, UpsertTenant
  <2> QED BY <2>1, ProceedTakes
<1> QED BY <1>1, <1>2, <1>3, <1>4, <1>5 DEF MirrorStep, RoleStep

\* Whoever takes the step, on whatever.
AnyStep(q) ==
    \/ Authorize(q)
    \/ OrgTreeStep(q) /\ UNCHANGED <<userVars, tenantVars, roleVars>>
    \/ UserStep(q) /\ UNCHANGED <<tenantVars, roleVars>>
    \/ TenantStep(q) /\ UNCHANGED roleVars
    \/ MirrorStep(q) /\ UNCHANGED roleVars
    \/ RoleStep(q) /\ UNCHANGED <<treeVars, userVars, tenantVars>>
    \/ RollbackTenant(q) /\ UNCHANGED roleVars

LEMMA StepsOfOne ==
    ASSUME Next
    PROVE  \E q \in Requests : AnyStep(q)
BY DEF Next, AnyStep

LEMMA LocksKept ==
    ASSUME SessionType, LocksApart, NEW q \in Requests, AnyStep(q)
    PROVE  LocksApart' /\ Only(q)
<1>1. Only(q)
  BY GateSession, TreeSession, UserSession, TenantSession, MirrorSession, RoleSession, FailureSession DEF AnyStep
<1>2. Takes(q)
  BY TreeTakes, UserTakes, TenantTakes, OthersTake DEF AnyStep
<1> QED BY <1>1, <1>2, LocksStayApart

-----------------------------------------------------------------------------
(* Statuses, and the log about them. *)

StoreStatusNow(s) == IF stores[s] = None THEN None ELSE stores[s].status
UserStatusNow(u) == IF users[u] = None THEN None ELSE users[u].status
TenantStatusNow(t) == IF tenants[t] = None THEN None ELSE tenants[t].status

LEMMA StatusByTable ==
    /\ \A s : StatusOf(<<"store", s>>) = StoreStatusNow(s)
    /\ \A u : StatusOf(<<"user", u>>) = UserStatusNow(u)
    /\ \A t : StatusOf(<<"tenant", t>>) = TenantStatusNow(t)
    /\ \A t, m : StatusOf(<<"module", t, m>>) = modules[t][m]
    /\ \A s : StatusOf(<<"store", s>>)' = StoreStatusNow(s)'
    /\ \A u : StatusOf(<<"user", u>>)' = UserStatusNow(u)'
    /\ \A t : StatusOf(<<"tenant", t>>)' = TenantStatusNow(t)'
    /\ \A t, m : StatusOf(<<"module", t, m>>)' = modules'[t][m]
<1> USE DEF StatusOf, StoreStatusNow, UserStatusNow, TenantStatusNow
<1>1. \A s : StatusOf(<<"store", s>>) = StoreStatusNow(s) /\ StatusOf(<<"store", s>>)' = StoreStatusNow(s)'
  OBVIOUS
<1>2. \A u : StatusOf(<<"user", u>>) = UserStatusNow(u) /\ StatusOf(<<"user", u>>)' = UserStatusNow(u)'
  OBVIOUS
<1>3. \A t : StatusOf(<<"tenant", t>>) = TenantStatusNow(t) /\ StatusOf(<<"tenant", t>>)' = TenantStatusNow(t)'
  OBVIOUS
<1>4. \A t, m : StatusOf(<<"module", t, m>>) = modules[t][m] /\ StatusOf(<<"module", t, m>>)' = modules'[t][m]
  OBVIOUS
<1> QED BY <1>1, <1>2, <1>3, <1>4

LEMMA RowsByTable ==
    ASSUME NEW r \in AuditedRows
    PROVE  \/ \E s \in Stores : r = <<"store", s>>
           \/ \E u \in Users : r = <<"user", u>>
           \/ \E t \in Tenants : r = <<"tenant", t>>
           \/ \E t \in Tenants, m \in Modules : r = <<"module", t, m>>
BY DEF AuditedRows

\* The row whose status a request has read and locked, and the status it relies on.
Watches(q) ==
    {r \in AuditedRows :
        \/ At(q, "transition_store", "set_status") /\ r = <<"store", q.store>>
        \/ At(q, "transition_user", "set_status") /\ r = <<"user", q.user>>
        \/ At(q, "transition_tenant", "check") /\ r = <<"tenant", q.tenant>>
        \/ At(q, "complete_onboarding", "check") /\ r = <<"tenant", q.tenant>>
        \/ At(q, "complete_onboarding", "complete") /\ r = <<"tenant", q.tenant>>
        \/ /\ At(q, "enable_module", "write_module") \/ At(q, "disable_module", "write_module")
           /\ local[q] # None /\ r = <<"module", q.tenant, q.module>>}
ReliesOn(q) == IF q.op = "complete_onboarding" THEN "ONBOARDING" ELSE local[q]

StatusKnown(q) ==
    /\ \A r \in Watches(q) :
          Lock(r, "update") \in locks[q] /\ StatusOf(r) = ReliesOn(q) /\ ReliesOn(q) # None
    /\ At(q, "transition_user", "set_status") => local[q] # "INVITED"
    /\ At(q, "disable_module", "write_module") => local[q] # None
    /\ At(q, "enable_module", "write_module") \/ At(q, "disable_module", "write_module") =>
          q.tenant \in Here(tenants)

\* Nothing is on record for a tenant that does not exist.
AbsentTenants ==
    \A t \in Tenants \ Here(tenants) : sections[t] = {} /\ \A m \in Modules : modules[t][m] = None

StatusInv == LocksApart /\ AbsentTenants /\ \A q \in Requests : StatusKnown(q)

\* A step that changes no status.
Quiet == UNCHANGED trail /\ \A r \in AuditedRows : StatusOf(r)' = StatusOf(r)

\* The modules of a tenant that is being created.
CreatedNow(r) == r[1] = "module" /\ r[2] \in Here(tenants') \ Here(tenants)

Event(q, r) ==
    [table |-> IF q.op = "create_tenant" THEN "platform" ELSE "tenant",
     by |-> q.by, before |-> StatusOf(r), after |-> StatusOf(r)']

\* A step that changes the status of one row, which no other request relies on, and logs it.
Logs(q, r) ==
    /\ trail' = [trail EXCEPT ![r] = Append(@, Event(q, r))]
    /\ \A x \in AuditedRows \ {r} : StatusOf(x)' = StatusOf(x) \/ CreatedNow(x)
    /\ StatusOf(r) = None \/ \A p \in Requests \ {q} : Lock(r, "update") \notin locks[p]
    /\ r[1] = "module" => r[2] \in Here(tenants)

StatusStep(q) == Quiet \/ \E r \in AuditedRows : Logs(q, r)

\* What another request relies on stands.
LEMMA OthersRely ==
    ASSUME StatusInv, NEW q \in Requests, Only(q), StatusStep(q), Here(tenants) \subseteq Here(tenants'),
           NEW p \in Requests, p # q
    PROVE  StatusKnown(p)'
<1>1. step'[p] = step[p] /\ local'[p] = local[p] /\ locks'[p] = locks[p]
  BY DEF Only
<1>2. Watches(p)' = Watches(p) /\ ReliesOn(p)' = ReliesOn(p)
  BY <1>1 DEF Watches, ReliesOn, At
<1>3. ASSUME NEW r \in Watches(p)
      PROVE  Lock(r, "update") \in locks'[p] /\ StatusOf(r)' = ReliesOn(p) /\ ReliesOn(p) # None
  <2>0. r \in AuditedRows
    BY DEF Watches
  <2>1. Lock(r, "update") \in locks[p] /\ StatusOf(r) = ReliesOn(p) /\ ReliesOn(p) # None
    BY DEF StatusInv, StatusKnown
  <2>2. CASE Quiet
    BY <1>1, <2>0, <2>1, <2>2 DEF Quiet
  <2>3. ASSUME NEW x \in AuditedRows, Logs(q, x) PROVE StatusOf(r)' = StatusOf(r)
    <3>1. x # r
      BY <2>1, <2>3 DEF Logs
    <3>2. ~CreatedNow(r)
      <4> SUFFICES ASSUME CreatedNow(r) PROVE FALSE
        OBVIOUS
      <4>1. PICK t \in Tenants, m \in Modules : r = <<"module", t, m>>
        BY <2>0, RowsByTable DEF CreatedNow
      <4>2. t \notin Here(tenants)
        BY <4>1 DEF CreatedNow
      <4>3. modules[t][m] = None
        BY <4>2 DEF StatusInv, AbsentTenants
      <4> QED BY <2>1, <4>1, <4>3, StatusByTable
    <3> QED BY <2>0, <2>3, <3>1, <3>2 DEF Logs
  <2> QED BY <1>1, <2>1, <2>2, <2>3 DEF StatusStep
<1>4. StatusKnown(p)
  BY DEF StatusInv
<1>5. \A op, s : At(p, op, s)' = At(p, op, s)
  BY <1>1 DEF At
<1> QED BY <1>1, <1>2, <1>3, <1>4, <1>5 DEF StatusKnown

\* A request that has just begun or ended relies on nothing.
LEMMA NothingRelied ==
    ASSUME NEW q \in Requests, step'[q] \in {"received", "answered"}
    PROVE  StatusKnown(q)'
BY DEF StatusKnown, Watches, At

LEMMA HolderIsAlone ==
    ASSUME LocksApart, NEW q \in Requests, NEW r,
           Lock(r, "update") \in locks[q] \/ Free(q, r, "update")
    PROVE  \A p \in Requests \ {q} : Lock(r, "update") \notin locks[p]
<1>1. Lock(r, "update").row = r /\ Lock(r, "update").mode = "update" /\ ~Compatible("update", "update")
  BY DEF Lock, Compatible
<1> QED BY <1>1 DEF LocksApart, Free

LEMMA QuietTables ==
    ASSUME UNCHANGED <<trail, stores, users, tenants, modules>>
    PROVE  Quiet
BY DEF Quiet, StatusOf

\* The statuses of the tables that a step leaves alone.
LEMMA OtherTables ==
    /\ UNCHANGED stores => \A s : StatusOf(<<"store", s>>)' = StatusOf(<<"store", s>>)
    /\ UNCHANGED users => \A u : StatusOf(<<"user", u>>)' = StatusOf(<<"user", u>>)
    /\ UNCHANGED tenants => \A t : StatusOf(<<"tenant", t>>)' = StatusOf(<<"tenant", t>>)
    /\ UNCHANGED modules => \A t, m : StatusOf(<<"module", t, m>>)' = StatusOf(<<"module", t, m>>)
BY StatusByTable DEF StoreStatusNow, UserStatusNow, TenantStatusNow

LEMMA TreeStatuses ==
    ASSUME TreeInv, StatusInv, NEW q \in Requests, OrgTreeStep(q), UNCHANGED <<userVars, tenantVars>>
    PROVE  StatusStep(q) /\ StatusKnown(q)'
<1>0. UNCHANGED <<users, tenants, modules>> /\ SessionType /\ TablesType /\ LocksApart /\ StatusKnown(q)
  BY DEF userVars, tenantVars, TreeInv, TableInv, StatusInv
<1>1. CASE LockParent(q) \/ LockStore(q) \/ LockTarget(q) \/ Place(q) \/ Repath(q)
  <2>1. /\ UNCHANGED <<trail, stores>> /\ q.op # "transition_store" /\ q.op \in TreeOps
    BY <1>0, <1>1, TreeSession DEF LockParent, LockStore, LockTarget, Place, Repath, Proceed, At, treeVars
  <2>2. StatusKnown(q)'
    BY <2>1 DEF StatusKnown, Watches, At, TreeOps
  <2> QED BY <1>0, <2>1, <2>2, QuietTables DEF StatusStep
<1>2. CASE InsertNode(q)
  BY <1>0, <1>2, QuietTables, NothingRelied DEF InsertNode, Answer, Done, SessionType, StatusStep
<1>3. CASE InsertStore(q)
  <2> DEFINE r == <<"store", q.store>>
  <2>1. q.store \in Stores /\ q.op = "create_store"
    BY <1>3, RequestsAssumption DEF InsertStore, At
  <2>2. StatusOf(r) = None
    BY <1>3, StatusByTable DEF InsertStore, StoreStatusNow
  <2>3. /\ stores' = [stores EXCEPT ![q.store] = StoreRow(FreshNode, q.code)]
        /\ StoreRow(FreshNode, q.code).status = "ACTIVE" /\ stores'[q.store].status = "ACTIVE"
        /\ stores'[q.store] # None
    <3>1. stores' = [stores EXCEPT ![q.store] = StoreRow(FreshNode, q.code)]
      BY <1>3 DEF InsertStore
    <3>2. FreshNode \in Nodes /\ q.code \in Codes
      BY <1>3, <2>1, FreshIsFree, RequestsAssumption DEF InsertStore, InsertRow
    <3>3. StoreRow(FreshNode, q.code) \in StoreRows
      BY <3>2 DEF StoreRow, StoreRows, StoreStatus
    <3> QED BY <1>0, <2>1, <3>1, <3>3, NoneAssumption DEF StoreRow, TablesType
  <2>4. StatusOf(r)' = "ACTIVE"
    BY <2>3, StatusByTable DEF StoreStatusNow
  <2>5. \A x \in AuditedRows \ {r} : StatusOf(x)' = StatusOf(x)
    <3> SUFFICES ASSUME NEW x \in AuditedRows, x # r PROVE StatusOf(x)' = StatusOf(x)
      OBVIOUS
    <3>1. ASSUME NEW s \in Stores, x = <<"store", s>> PROVE StatusOf(x)' = StatusOf(x)
      <4>1. stores'[s] = stores[s]
        BY <2>3, <3>1, <1>0 DEF TablesType
      <4> QED BY <3>1, <4>1, StatusByTable DEF StoreStatusNow
    <3> QED BY <1>0, <3>1, RowsByTable, OtherTables
  <2>6. trail' = [trail EXCEPT ![r] = Append(@, Event(q, r))]
    BY <1>3, <2>1, <2>2, <2>4 DEF InsertStore, AnswerAudited, Event
  <2>7. r \in AuditedRows /\ r[1] = "store"
    BY <2>1 DEF AuditedRows
  <2>8. Logs(q, r)
    BY <2>2, <2>5, <2>6, <2>7 DEF Logs
  <2>9. StatusKnown(q)'
    BY <1>0, <1>3, NothingRelied DEF InsertStore, AnswerAudited, Done, SessionType
  <2> QED BY <2>7, <2>8, <2>9 DEF StatusStep
<1>4. CASE SaveNode(q)
  <2>1. UNCHANGED trail /\ step'[q] = "answered"
    BY <1>0, <1>4 DEF SaveNode, Answer, Done, SessionType
  <2>2. ASSUME NEW s \in Stores PROVE StoreStatusNow(s)' = StoreStatusNow(s)
    <3>1. CASE UNCHANGED stores
      BY <3>1 DEF StoreStatusNow
    <3>2. CASE q.op = "update_store" /\ stores' = [stores EXCEPT ![q.store].code = q.code] /\ q.code # None
      <4>1. q.store \in Here(stores) /\ q.store \in Stores /\ q.code \in Codes
        BY <1>4, <3>2, RequestsAssumption DEF SaveNode, At, TreeInv, LocalInv, TargetInv
      <4>2. stores[q.store] \in StoreRows
        BY <1>0, <4>1 DEF Here, TablesType
      <4>3. stores'[q.store] \in StoreRows /\ stores'[q.store].status = stores[q.store].status
        BY <1>0, <3>2, <4>1, <4>2 DEF StoreRows, TablesType
      <4> QED BY <1>0, <3>2, <4>1, <4>2, <4>3, NoneAssumption DEF StoreStatusNow, TablesType
    <3> QED BY <1>4, <3>1, <3>2 DEF SaveNode
  <2>3. Quiet
    <3>1. \A s \in Stores : StatusOf(<<"store", s>>)' = StatusOf(<<"store", s>>)
      BY <2>2, StatusByTable
    <3> QED BY <1>0, <2>1, <3>1, RowsByTable, OtherTables DEF Quiet
  <2> QED BY <2>1, <2>3, NothingRelied DEF StatusStep
<1>5. CASE LockForTransition(q)
  <2> DEFINE r == <<"store", q.store>>
  <2>1. UNCHANGED <<trail, stores>> /\ q.store \in Stores /\ q.op = "transition_store" /\ stores[q.store] # None
    BY <1>5, RequestsAssumption DEF LockForTransition, Proceed, At, treeVars
  <2>2. /\ step'[q] = "set_status" /\ local'[q] = stores[q.store].status
        /\ Lock(r, "update") \in locks'[q]
    BY <1>0, <1>5 DEF LockForTransition, Proceed, SessionType, TransitionLock
  <2>3. stores[q.store].status # None
    <3>1. stores[q.store] \in StoreRows
      BY <1>0, <2>1 DEF TablesType
    <3> QED BY <3>1, SeedChecksAssumption DEF StoreRows
  <2>4. StatusOf(r)' = local'[q]
    BY <2>1, <2>2, StatusByTable DEF StoreStatusNow
  <2>5. StatusKnown(q)'
    BY <2>1, <2>2, <2>3, <2>4 DEF StatusKnown, Watches, ReliesOn, At
  <2> QED BY <1>0, <2>1, <2>5, QuietTables DEF StatusStep
<1>6. CASE SetStatus(q)
  <2> DEFINE r == <<"store", q.store>>
             row == Transitioned(stores[q.store], local[q], q.status)
  <2>1. q.store \in Stores /\ q.op = "transition_store" /\ q.status \in StoreStatus /\ step[q] = "set_status"
    BY <1>6, RequestsAssumption DEF SetStatus, At
  <2>2. q.store \in Here(stores) /\ stores[q.store] \in StoreRows
    BY <1>0, <2>1 DEF TreeInv, LocalInv, StoreInv, Here, TablesType
  <2>3. r \in Watches(q) /\ r \in AuditedRows /\ r[1] = "store"
    BY <1>6, <2>1 DEF Watches, SetStatus, AuditedRows
  <2>4. Lock(r, "update") \in locks[q] /\ StatusOf(r) = local[q]
    BY <1>0, <2>1, <2>3 DEF StatusKnown, ReliesOn
  <2>5. row \in StoreRows /\ row.status = q.status
    BY <2>1, <2>2 DEF Transitioned, StoreRows
  <2>6. stores' = [stores EXCEPT ![q.store] = row]
    BY <1>6 DEF SetStatus
  <2> HIDE DEF row
  <2>7. StatusOf(r)' = q.status
    BY <1>0, <2>1, <2>5, <2>6, StatusByTable, NoneAssumption DEF StoreStatusNow, TablesType
  <2>8. \A x \in AuditedRows \ {r} : StatusOf(x)' = StatusOf(x)
    <3> SUFFICES ASSUME NEW x \in AuditedRows, x # r PROVE StatusOf(x)' = StatusOf(x)
      OBVIOUS
    <3>1. ASSUME NEW s \in Stores, x = <<"store", s>> PROVE StatusOf(x)' = StatusOf(x)
      <4>1. stores'[s] = stores[s]
        BY <2>6, <3>1, <1>0 DEF TablesType
      <4> QED BY <3>1, <4>1, StatusByTable DEF StoreStatusNow
    <3> QED BY <1>0, <3>1, RowsByTable, OtherTables
  <2>9. trail' = [trail EXCEPT ![r] = Append(@, Event(q, r))]
    BY <1>6, <2>1, <2>4, <2>7 DEF SetStatus, AnswerAudited, Event
  <2>10. \A p \in Requests \ {q} : Lock(r, "update") \notin locks[p]
    BY <1>0, <2>4, HolderIsAlone
  <2>11. Logs(q, r)
    BY <2>3, <2>8, <2>9, <2>10 DEF Logs
  <2>12. StatusKnown(q)'
    BY <1>0, <1>6, NothingRelied DEF SetStatus, AnswerAudited, Done, SessionType
  <2> QED BY <2>3, <2>11, <2>12 DEF StatusStep
<1> QED BY <1>1, <1>2, <1>3, <1>4, <1>5, <1>6 DEF OrgTreeStep

LEMMA UserStatuses ==
    ASSUME BindInv, SessionType, StatusInv, NEW q \in Requests, UserStep(q), UNCHANGED tenantVars
    PROVE  StatusStep(q) /\ StatusKnown(q)'
<1>0. /\ UNCHANGED <<stores, tenants, modules>> /\ LocksApart /\ StatusKnown(q) /\ UsersType /\ KnowsUser(q)
      /\ q.op \in UserOps
  BY UserSession DEF tenantVars, treeVars, StatusInv, BindInv
<1>1. CASE \/ ValidateUser(q) \/ ReadUser(q) \/ LockUser(q) \/ UpdateUserEmail(q) \/ ReadForProvision(q)
           \/ GetOrCreateOrg(q) \/ ProvisionUser(q) \/ SendInvitation(q) \/ ReconcileAcceptance(q)
  <2>1. UNCHANGED <<trail, users>> /\ q.op # "transition_user"
    BY <1>1 DEF ValidateUser, ReadUser, LockUser, UpdateUserEmail, ReadForProvision, GetOrCreateOrg, ProvisionUser,
       SendInvitation, ReconcileAcceptance, Proceed, Answer, At, userVars
  <2>2. StatusKnown(q)'
    BY <1>0, <2>1 DEF StatusKnown, Watches, At, UserOps
  <2> QED BY <1>0, <2>1, <2>2, QuietTables DEF StatusStep
<1>2. ASSUME UNCHANGED trail, step'[q] = "answered", \A u \in Users : UserStatusNow(u)' = UserStatusNow(u)
      PROVE  StatusStep(q) /\ StatusKnown(q)'
  <2>1. \A u \in Users : StatusOf(<<"user", u>>)' = StatusOf(<<"user", u>>)
    BY <1>2, StatusByTable
  <2>2. Quiet
    BY <1>0, <1>2, <2>1, RowsByTable, OtherTables DEF Quiet
  <2> QED BY <1>2, <2>2, NothingRelied DEF StatusStep
<1>3. CASE CommitUser(q) \/ MarkInvited(q)
  <2>1. UNCHANGED trail /\ step'[q] = "answered" /\ InFlight(q) /\ q.op \in {"patch_user", "send_invitation"}
    BY <1>3 DEF CommitUser, MarkInvited, Answer, Done, SessionType, At, InFlight
  <2>2. q.user \in Users /\ q.user \in Here(users)
    BY <1>0, <2>1, UserRequestsAssumption DEF KnowsUser, UserOps
  <2>3. users[q.user] \in UserRows
    BY <1>0, <2>2 DEF UsersType, Here
  <2>4. /\ \A u \in Users \ {q.user} : users'[u] = users[u]
        /\ users'[q.user] # None /\ users'[q.user].status = users[q.user].status
    <3>1. CASE MarkInvited(q)
      <4>1. users' = [users EXCEPT ![q.user] = [users[q.user] EXCEPT !.invited = TRUE]]
        BY <3>1 DEF MarkInvited
      <4>2. [users[q.user] EXCEPT !.invited = TRUE] \in UserRows
        BY <2>3 DEF UserRows
      <4> QED BY <1>0, <2>2, <2>3, <4>1, <4>2, UserRequestsAssumption DEF UserRows, UsersType
    <3>2. CASE CommitUser(q)
      <4> DEFINE e == IF q.email = None THEN users[q.user].email ELSE q.email
                 rs == IF q.roles = None THEN users[q.user].roles
                       ELSE DiffApplied(users[q.user].roles, local[q].current, q.roles)
      <4>1. users' = [users EXCEPT ![q.user] = [users[q.user] EXCEPT !.email = e, !.roles = rs]]
        BY <1>0, <2>2, <2>3, <3>2 DEF CommitUser, UsersType, UserRows
      <4>2. q.op = "patch_user" /\ Patching(q)
        BY <3>2 DEF CommitUser, At, Patching
      <4>3. e \in Emails /\ rs \in SUBSET [role : RoleIds, node : Nodes]
        BY <1>0, <2>3, <4>2, UserRequestsAssumption DEF UserRows, DiffApplied, KnowsUser
      <4> HIDE DEF e, rs
      <4>4. [users[q.user] EXCEPT !.email = e, !.roles = rs] \in UserRows
        BY <2>3, <4>3 DEF UserRows
      <4> QED BY <1>0, <2>2, <2>3, <4>1, <4>4, UserRequestsAssumption DEF UserRows, UsersType
    <3> QED BY <1>3, <3>1, <3>2
  <2>5. \A u \in Users : UserStatusNow(u)' = UserStatusNow(u)
    BY <2>2, <2>3, <2>4, UserRequestsAssumption DEF UserStatusNow
  <2> QED BY <1>2, <2>1, <2>5
<1>4. CASE LockForStatus(q)
  <2> DEFINE r == <<"user", q.user>>
  <2>1. UNCHANGED <<trail, users>> /\ q.user \in Users /\ q.op = "transition_user" /\ users[q.user] # None
    BY <1>4, UserRequestsAssumption DEF LockForStatus, Proceed, At, userVars, UserOps
  <2>2. /\ step'[q] = "set_status" /\ local'[q] = users[q.user].status
        /\ Lock(r, "update") \in locks'[q]
    BY <1>4 DEF LockForStatus, Proceed, SessionType
  <2>3. users[q.user].status # None /\ users[q.user].status # "INVITED"
    BY <1>4, SeedChecksAssumption DEF LockForStatus, AllowedSource, UserStatus
  <2>4. StatusOf(r)' = local'[q]
    BY <2>1, <2>2, StatusByTable DEF UserStatusNow
  <2>5. StatusKnown(q)'
    BY <2>1, <2>2, <2>3, <2>4 DEF StatusKnown, Watches, ReliesOn, At
  <2> QED BY <1>0, <2>1, <2>5, QuietTables DEF StatusStep
<1>5. ASSUME NEW u \in Users, NEW row \in UserRows, users' = [users EXCEPT ![u] = row],
             AnswerAudited(q, <<"user", u>>, StatusOf(<<"user", u>>), row.status), q.op # "create_tenant",
             \/ StatusOf(<<"user", u>>) = None
             \/ \A p \in Requests \ {q} : Lock(<<"user", u>>, "update") \notin locks[p]
      PROVE  StatusStep(q) /\ StatusKnown(q)'
  <2> DEFINE r == <<"user", u>>
  <2>1. StatusOf(r)' = row.status
    BY <1>0, <1>5, StatusByTable, UserRequestsAssumption DEF UserStatusNow, UsersType
  <2>2. \A x \in AuditedRows \ {r} : StatusOf(x)' = StatusOf(x)
    <3> SUFFICES ASSUME NEW x \in AuditedRows, x # r PROVE StatusOf(x)' = StatusOf(x)
      OBVIOUS
    <3>1. ASSUME NEW v \in Users, x = <<"user", v>> PROVE StatusOf(x)' = StatusOf(x)
      <4>1. users'[v] = users[v]
        BY <1>5, <3>1, <1>0 DEF UsersType
      <4> QED BY <3>1, <4>1, StatusByTable DEF UserStatusNow
    <3> QED BY <1>0, <3>1, RowsByTable, OtherTables
  <2>3. trail' = [trail EXCEPT ![r] = Append(@, Event(q, r))]
    BY <1>5, <2>1 DEF AnswerAudited, Event
  <2>4. r \in AuditedRows /\ r[1] = "user"
    BY DEF AuditedRows
  <2>5. Logs(q, r)
    BY <1>5, <2>2, <2>3, <2>4 DEF Logs
  <2>6. StatusKnown(q)'
    BY <1>5, NothingRelied DEF AnswerAudited, Done, SessionType
  <2> QED BY <2>4, <2>5, <2>6 DEF StatusStep
<1>6. CASE InsertUser(q)
  <2> DEFINE row == UserRow(q.tenant, q.email, q.roles)
  <2>1. q.user \in Users /\ q.op = "create_user" /\ row \in UserRows /\ row.status = "INVITED"
    BY <1>6, UserRequestsAssumption DEF InsertUser, At, UserOps, UserRow, UserRows, UserStatus
  <2>2. StatusOf(<<"user", q.user>>) = None
    BY <1>6, StatusByTable DEF InsertUser, UserStatusNow
  <2>3. users' = [users EXCEPT ![q.user] = row] /\ AnswerAudited(q, <<"user", q.user>>, None, "INVITED")
    BY <1>6 DEF InsertUser
  <2> HIDE DEF row
  <2> QED BY <1>5, <2>1, <2>2, <2>3
<1>7. CASE SetUserStatus(q)
  <2> DEFINE row == [users[q.user] EXCEPT !.status = q.status, !.suspended = (q.status = "SUSPENDED")]
  <2>1. /\ q.user \in Users /\ q.user \in Here(users) /\ q.op = "transition_user" /\ step[q] = "set_status"
        /\ q.status \in UserStatus
    BY <1>0, <1>7, UserRequestsAssumption DEF SetUserStatus, At, UserOps, KnowsUser, InFlight, UserStatus
  <2>2. users[q.user] \in UserRows
    BY <1>0, <2>1 DEF UsersType, Here
  <2>3. row \in UserRows /\ row.status = q.status
    BY <2>1, <2>2 DEF UserRows
  <2>4. users' = [users EXCEPT ![q.user] = row]
    BY <1>0, <1>7, <2>1, <2>2 DEF SetUserStatus, UsersType, UserRows
  <2>5. <<"user", q.user>> \in Watches(q)
    BY <1>7, <2>1 DEF SetUserStatus, Watches, AuditedRows
  <2>6. Lock(<<"user", q.user>>, "update") \in locks[q] /\ StatusOf(<<"user", q.user>>) = local[q]
    BY <1>0, <2>1, <2>5 DEF StatusKnown, ReliesOn
  <2>7. \A p \in Requests \ {q} : Lock(<<"user", q.user>>, "update") \notin locks[p]
    BY <1>0, <2>6, HolderIsAlone
  <2>8. AnswerAudited(q, <<"user", q.user>>, local[q], q.status)
    BY <1>7 DEF SetUserStatus
  <2> HIDE DEF row
  <2> QED BY <1>5, <2>1, <2>3, <2>4, <2>6, <2>7, <2>8
<1>8. CASE AcceptInvitation(q)
  <2> DEFINE u == local[q]
             row == [users[u] EXCEPT !.status = "ACTIVE", !.sub = q.sub, !.accepted = TRUE]
  <2>1. u \in Here(users) /\ u \in Users /\ q.op = "login" /\ q.sub \in Subs /\ users[u].status = "INVITED"
    BY <1>0, <1>8, UserRequestsAssumption DEF AcceptInvitation, StillInvited, At, KnowsUser, InFlight, Here, UsersType
  <2>2. users[u] \in UserRows
    BY <1>0, <2>1 DEF UsersType, Here
  <2>3. row \in UserRows /\ row.status = "ACTIVE"
    BY <2>1, <2>2 DEF UserRows, UserStatus
  <2>4. users' = [users EXCEPT ![u] = row]
    BY <1>0, <1>8, <2>1, <2>2 DEF AcceptInvitation, UsersType, UserRows
  <2>5. StatusOf(<<"user", u>>) = "INVITED"
    BY <2>1, StatusByTable DEF UserStatusNow, Here
  <2>6. \A p \in Requests \ {q} : Lock(<<"user", u>>, "update") \notin locks[p]
    BY <1>0, <1>8, HolderIsAlone DEF AcceptInvitation
  <2>7. AnswerAudited(q, <<"user", u>>, "INVITED", "ACTIVE")
    BY <1>8 DEF AcceptInvitation
  <2> HIDE DEF row, u
  <2> QED BY <1>5, <2>1, <2>3, <2>4, <2>5, <2>6, <2>7
<1> QED BY <1>1, <1>3, <1>4, <1>6, <1>7, <1>8 DEF UserStep

LEMMA TenantStatuses ==
    ASSUME TreeInv, DeskInv, StatusInv, NEW q \in Requests, TenantStep(q)
    PROVE  StatusStep(q) /\ StatusKnown(q)'
<1>0. /\ SessionType /\ TablesType /\ LocksApart /\ StatusKnown(q) /\ TenantTablesType
  BY DEF StatusInv, TreeInv, TableInv, DeskInv
<1>1. CASE \/ CheckName(q) \/ ProvisionOrganization(q) \/ CheckNotCompleted(q) \/ CreatePending(q) \/ LockDocument(q)
           \/ verify(q) \/ reject(q) \/ DeleteObject(q) \/ DeleteDocument(q) \/ UpsertChannel(q) \/ WriteSecret(q)
           \/ CommitChannel(q) \/ upsert_legal_profile(q) \/ upsert_billing_profile(q) \/ replace_contacts(q)
           \/ replace_tax_registrations(q)
  <2>1. UNCHANGED <<trail, stores, users, tenants, modules>>
    BY <1>1 DEF CheckName, ProvisionOrganization, CheckNotCompleted, CreatePending, LockDocument, verify, reject,
       SetReview, DeleteObject, DeleteDocument, UpsertChannel, WriteSecret, CommitChannel, upsert_legal_profile,
       upsert_billing_profile, Upsert, replace_contacts, replace_tax_registrations, Replace, Proceed, Answer,
       treeVars, userVars, tenantVars
  <2>2. /\ q.op \notin {"transition_tenant", "complete_onboarding", "enable_module", "disable_module"}
        /\ q.op \in TenantOps
    BY <1>1 DEF CheckName, ProvisionOrganization, CheckNotCompleted, CreatePending, LockDocument, verify, reject,
       SetReview, DeleteObject, DeleteDocument, UpsertChannel, WriteSecret, CommitChannel, upsert_legal_profile,
       upsert_billing_profile, Upsert, replace_contacts, replace_tax_registrations, Replace, At, TenantOps
  <2>3. StatusKnown(q)'
    BY <2>2 DEF StatusKnown, Watches, At, TenantOps
  <2> QED BY <2>1, <2>3, QuietTables DEF StatusStep
<1>2. CASE UpdateTenant(q) \/ SetAuth0OrgId(q) \/ UpsertOnboarding(q)
  <2>1. UNCHANGED <<trail, stores, users, modules>> /\ step'[q] = "answered" /\ <<q.op, step[q]>> \in TenantStepsOnRow
    BY <1>0, <1>2 DEF UpdateTenant, SetAuth0OrgId, UpsertOnboarding, Answer, Done, SessionType, At, TenantStepsOnRow,
       treeVars, userVars
  <2>2. q.tenant \in Here(tenants) /\ q.tenant \in Tenants
    BY <1>0, <2>1 DEF TreeInv, LocalInv, TenantInv, Here, TablesType
  <2>3. tenants[q.tenant] \in TenantRows
    BY <1>0, <2>2 DEF TablesType, Here
  <2>4. PICK row \in TenantRows : row.status = tenants[q.tenant].status /\ tenants' = [tenants EXCEPT ![q.tenant] = row]
    <3>1. CASE UpdateTenant(q)
      <4>1. q.name \in Names /\ tenants' = [tenants EXCEPT ![q.tenant] = [tenants[q.tenant] EXCEPT !.name = q.name]]
        BY <3>1, RequestsAssumption DEF UpdateTenant, At
      <4>2. [tenants[q.tenant] EXCEPT !.name = q.name] \in TenantRows
        BY <2>3, <4>1 DEF TenantRows
      <4> QED BY <2>3, <4>1, <4>2 DEF TenantRows
    <3>2. CASE SetAuth0OrgId(q)
      <4>1. tenants' = [tenants EXCEPT ![q.tenant] = [tenants[q.tenant] EXCEPT !.org = TRUE]]
        BY <3>2 DEF SetAuth0OrgId
      <4>2. [tenants[q.tenant] EXCEPT !.org = TRUE] \in TenantRows
        BY <2>3 DEF TenantRows
      <4> QED BY <2>3, <4>1, <4>2 DEF TenantRows
    <3>3. CASE UpsertOnboarding(q)
      <4>1. q.section \in Sections /\ tenants' = [tenants EXCEPT ![q.tenant] = [tenants[q.tenant] EXCEPT !.resume = q.section]]
        BY <3>3, RequestsAssumption DEF UpsertOnboarding, At
      <4>2. [tenants[q.tenant] EXCEPT !.resume = q.section] \in TenantRows
        BY <2>3, <4>1 DEF TenantRows
      <4> QED BY <2>3, <4>1, <4>2 DEF TenantRows
    <3> QED BY <1>2, <3>1, <3>2, <3>3
  <2>5. \A t \in Tenants : TenantStatusNow(t)' = TenantStatusNow(t)
    BY <1>0, <2>2, <2>3, <2>4, NoneAssumption DEF TenantStatusNow, TablesType
  <2>6. Quiet
    <3>1. \A t \in Tenants : StatusOf(<<"tenant", t>>)' = StatusOf(<<"tenant", t>>)
      BY <2>5, StatusByTable
    <3> QED BY <2>1, <3>1, RowsByTable, OtherTables DEF Quiet
  <2> QED BY <2>1, <2>6, NothingRelied DEF StatusStep
<1>3. CASE LockTenant(q)
  <2> DEFINE r == <<"tenant", q.tenant>>
  <2>1. /\ UNCHANGED <<trail, stores, users, tenants, modules>> /\ q.tenant \in Tenants
        /\ q.op \in {"transition_tenant", "complete_onboarding"} /\ tenants[q.tenant] # None
    BY <1>3, RequestsAssumption DEF LockTenant, Proceed, At, treeVars, userVars, tenantVars
  <2>2. /\ step'[q] = "check" /\ local'[q] = tenants[q.tenant].status
        /\ Lock(r, "update") \in locks'[q]
    BY <1>0, <1>3 DEF LockTenant, Proceed, SessionType, TenantLock
  <2>3. tenants[q.tenant].status # None
    <3>1. tenants[q.tenant] \in TenantRows
      BY <1>0, <2>1 DEF TablesType
    <3> QED BY <3>1, SeedChecksAssumption DEF TenantRows
  <2>4. q.op = "complete_onboarding" => tenants[q.tenant].status = "ONBOARDING"
    BY <1>3 DEF LockTenant, Target_status, _TRANSITION_ALLOWED_SOURCES
  <2>5. StatusOf(r)' = local'[q]
    BY <2>1, <2>2, StatusByTable DEF TenantStatusNow
  <2>6. StatusKnown(q)'
    BY <2>1, <2>2, <2>3, <2>4, <2>5 DEF StatusKnown, Watches, ReliesOn, At
  <2> QED BY <2>1, <2>6, QuietTables DEF StatusStep
<1>4. CASE CheckPresence(q)
  <2> DEFINE r == <<"tenant", q.tenant>>
  <2>1. /\ UNCHANGED <<trail, stores, users, tenants, modules>> /\ q.tenant \in Tenants
        /\ q.op = "complete_onboarding" /\ step[q] = "check" /\ step'[q] = "complete" /\ locks[q] \subseteq locks'[q]
    BY <1>0, <1>4, RequestsAssumption DEF CheckPresence, Proceed, At, treeVars, userVars, tenantVars, SessionType
  <2>2. r \in Watches(q)
    BY <2>1 DEF Watches, At, AuditedRows
  <2>3. Lock(r, "update") \in locks[q] /\ StatusOf(r) = "ONBOARDING" /\ "ONBOARDING" # None
    BY <1>0, <2>1, <2>2 DEF StatusKnown, ReliesOn
  <2>4. StatusOf(r)' = "ONBOARDING"
    BY <2>1, <2>3, OtherTables
  <2>5. StatusKnown(q)'
    BY <2>1, <2>3, <2>4 DEF StatusKnown, Watches, ReliesOn, At
  <2> QED BY <2>1, <2>5, QuietTables DEF StatusStep
<1>5. ASSUME NEW row \in TenantRows, tenants' = [tenants EXCEPT ![q.tenant] = row], UNCHANGED <<stores, users, modules>>,
             <<"tenant", q.tenant>> \in Watches(q), q.op # "create_tenant", q.tenant \in Tenants,
             AnswerAudited(q, <<"tenant", q.tenant>>, ReliesOn(q), row.status)
      PROVE  StatusStep(q) /\ StatusKnown(q)'
  <2> DEFINE r == <<"tenant", q.tenant>>
  <2>1. StatusOf(r)' = row.status
    BY <1>0, <1>5, StatusByTable, NoneAssumption DEF TenantStatusNow, TablesType
  <2>2. \A x \in AuditedRows \ {r} : StatusOf(x)' = StatusOf(x)
    <3> SUFFICES ASSUME NEW x \in AuditedRows, x # r PROVE StatusOf(x)' = StatusOf(x)
      OBVIOUS
    <3>1. ASSUME NEW v \in Tenants, x = <<"tenant", v>> PROVE StatusOf(x)' = StatusOf(x)
      <4>1. tenants'[v] = tenants[v]
        BY <1>5, <3>1, <1>0 DEF TablesType
      <4> QED BY <3>1, <4>1, StatusByTable DEF TenantStatusNow
    <3> QED BY <1>5, <3>1, RowsByTable, OtherTables
  <2>3. Lock(r, "update") \in locks[q] /\ StatusOf(r) = ReliesOn(q)
    BY <1>0, <1>5 DEF StatusKnown
  <2>4. trail' = [trail EXCEPT ![r] = Append(@, Event(q, r))]
    BY <1>5, <2>1, <2>3 DEF AnswerAudited, Event
  <2>5. r \in AuditedRows /\ r[1] = "tenant"
    BY <1>5 DEF AuditedRows
  <2>6. \A p \in Requests \ {q} : Lock(r, "update") \notin locks[p]
    BY <1>0, <2>3, HolderIsAlone
  <2>7. Logs(q, r)
    BY <2>2, <2>4, <2>5, <2>6 DEF Logs
  <2>8. StatusKnown(q)'
    BY <1>0, <1>5, NothingRelied DEF AnswerAudited, Done, SessionType
  <2> QED BY <2>5, <2>7, <2>8 DEF StatusStep
<1>6. CASE TransitionTenant(q)
  <2> DEFINE row == [tenants[q.tenant] EXCEPT !.status = q.status, !.suspended = (q.status = "SUSPENDED")]
  <2>1. /\ q.op = "transition_tenant" /\ step[q] = "check" /\ q.tenant \in Tenants /\ q.status \in TenantStatus
        /\ UNCHANGED <<stores, users, modules>>
    BY <1>6, RequestsAssumption DEF TransitionTenant, At, TenantStatus, treeVars, userVars
  <2>2. q.tenant \in Here(tenants)
    BY <2>1 DEF TreeInv, LocalInv, TenantInv, TenantStepsOnRow
  <2>3. tenants[q.tenant] \in TenantRows
    BY <1>0, <2>2 DEF TablesType, Here
  <2>4. row \in TenantRows /\ row.status = q.status
    BY <2>1, <2>3 DEF TenantRows
  <2>5. tenants' = [tenants EXCEPT ![q.tenant] = row]
    BY <1>0, <1>6, <2>1, <2>3 DEF TransitionTenant, TablesType, TenantRows
  <2>6. <<"tenant", q.tenant>> \in Watches(q) /\ ReliesOn(q) = local[q]
    BY <2>1 DEF Watches, At, AuditedRows, ReliesOn
  <2>7. AnswerAudited(q, <<"tenant", q.tenant>>, local[q], q.status)
    BY <1>6 DEF TransitionTenant
  <2> HIDE DEF row
  <2> QED BY <1>5, <2>1, <2>4, <2>5, <2>6, <2>7
<1>7. CASE CompleteOnboarding(q)
  <2> DEFINE row == [tenants[q.tenant] EXCEPT !.status = "TRIAL", !.completed = TRUE]
  <2>1. /\ q.op = "complete_onboarding" /\ step[q] = "complete" /\ q.tenant \in Tenants
        /\ UNCHANGED <<stores, users, modules>>
    BY <1>7, RequestsAssumption DEF CompleteOnboarding, At, treeVars, userVars
  <2>2. q.tenant \in Here(tenants)
    BY <2>1 DEF TreeInv, LocalInv, TenantInv, TenantStepsOnRow
  <2>3. tenants[q.tenant] \in TenantRows
    BY <1>0, <2>2 DEF TablesType, Here
  <2>4. row \in TenantRows /\ row.status = "TRIAL"
    BY <2>1, <2>3 DEF TenantRows, TenantStatus
  <2>5. tenants' = [tenants EXCEPT ![q.tenant] = row]
    BY <1>0, <1>7, <2>1, <2>3 DEF CompleteOnboarding, TablesType, TenantRows
  <2>6. <<"tenant", q.tenant>> \in Watches(q) /\ ReliesOn(q) = "ONBOARDING"
    BY <2>1 DEF Watches, At, AuditedRows, ReliesOn
  <2>7. AnswerAudited(q, <<"tenant", q.tenant>>, "ONBOARDING", "TRIAL")
    BY <1>7 DEF CompleteOnboarding
  <2> HIDE DEF row
  <2> QED BY <1>5, <2>1, <2>4, <2>5, <2>6, <2>7
<1>8. CASE CreateTenant(q)
  <2> DEFINE r == <<"tenant", q.tenant>>
             row == TenantRow(q.name)
  <2>1. q.op = "create_tenant" /\ q.tenant \in Tenants /\ q.name \in Names /\ UNCHANGED <<stores, users>>
    BY <1>8, RequestsAssumption DEF CreateTenant, At, userVars
  <2>2. row \in TenantRows /\ row.status = "ONBOARDING"
    BY <2>1 DEF TenantRow, TenantRows, TenantStatus
  <2>3. tenants' = [tenants EXCEPT ![q.tenant] = row] /\ tenants[q.tenant] = None
    BY <1>8 DEF CreateTenant
  <2> HIDE DEF row
  <2>4. StatusOf(r) = None /\ StatusOf(r)' = "ONBOARDING"
    BY <1>0, <2>1, <2>2, <2>3, StatusByTable, NoneAssumption DEF TenantStatusNow, TablesType
  <2>5. \A x \in AuditedRows \ {r} : StatusOf(x)' = StatusOf(x) \/ CreatedNow(x)
    <3> SUFFICES ASSUME NEW x \in AuditedRows, x # r PROVE StatusOf(x)' = StatusOf(x) \/ CreatedNow(x)
      OBVIOUS
    <3>1. ASSUME NEW v \in Tenants, x = <<"tenant", v>> PROVE StatusOf(x)' = StatusOf(x)
      <4>1. tenants'[v] = tenants[v]
        BY <2>3, <3>1, <1>0 DEF TablesType
      <4> QED BY <3>1, <4>1, StatusByTable DEF TenantStatusNow
    <3>2. ASSUME NEW t \in Tenants, NEW m \in Modules, x = <<"module", t, m>>
          PROVE  StatusOf(x)' = StatusOf(x) \/ CreatedNow(x)
      <4>1. CASE t = q.tenant
        <5>1. t \in Here(tenants') /\ t \notin Here(tenants)
          BY <1>0, <2>2, <2>3, <4>1, NoneAssumption DEF Here, TablesType
        <5> QED BY <3>2, <5>1 DEF CreatedNow
      <4>2. CASE t # q.tenant
        <5>1. modules'[t] = modules[t]
          BY <1>0, <1>8, <4>2 DEF CreateTenant, TenantTablesType
        <5> QED BY <3>2, <5>1, StatusByTable
      <4> QED BY <4>1, <4>2
    <3> QED BY <2>1, <3>1, <3>2, RowsByTable, OtherTables
  <2>6. trail' = [trail EXCEPT ![r] = Append(@, Event(q, r))]
    BY <1>8, <2>1, <2>4 DEF CreateTenant, AnswerAudited, Event
  <2>7. r \in AuditedRows /\ r[1] = "tenant"
    BY <2>1 DEF AuditedRows
  <2>8. Logs(q, r)
    BY <2>4, <2>5, <2>6, <2>7 DEF Logs
  <2>9. StatusKnown(q)'
    BY <1>0, <1>8, NothingRelied DEF CreateTenant, AnswerAudited, Done, SessionType
  <2> QED BY <2>7, <2>8, <2>9 DEF StatusStep
<1>9. CASE SelectModule(q)
  <2> DEFINE r == <<"module", q.tenant, q.module>>
  <2>1. /\ UNCHANGED <<trail, stores, users, tenants, modules>> /\ q.tenant \in Tenants /\ q.module \in Modules
        /\ q.op \in {"enable_module", "disable_module"} /\ q.tenant \in Here(tenants)
    BY <1>0, <1>9, TenantRequestsAssumption
       DEF SelectModule, Proceed, At, treeVars, userVars, tenantVars, Here, TablesType
  <2>2. /\ step'[q] = "write_module" /\ local'[q] = modules[q.tenant][q.module]
        /\ local'[q] # None => Lock(r, "update") \in locks'[q]
    BY <1>0, <1>9 DEF SelectModule, Proceed, SessionType
  <2>3. q.op = "disable_module" => local'[q] # None
    BY <1>9, <2>2 DEF SelectModule
  <2>4. StatusOf(r)' = local'[q]
    BY <2>1, <2>2, StatusByTable
  <2>5. StatusKnown(q)'
    BY <2>1, <2>2, <2>3, <2>4 DEF StatusKnown, Watches, ReliesOn, At
  <2> QED BY <2>1, <2>5, QuietTables DEF StatusStep
<1>10. ASSUME NEW status \in {"ENABLED", "DISABLED"}, WriteModule(q, status), step[q] = "write_module",
              q.op \in {"enable_module", "disable_module"},
              local[q] = None => modules[q.tenant][q.module] = None
       PROVE  StatusStep(q) /\ StatusKnown(q)'
  <2> DEFINE r == <<"module", q.tenant, q.module>>
  <2>1. /\ UNCHANGED <<stores, users, tenants>> /\ q.tenant \in Tenants /\ q.module \in Modules
        /\ modules' = [modules EXCEPT ![q.tenant][q.module] = status] /\ step'[q] = "answered"
        /\ r \in AuditedRows /\ r[1] = "module" /\ r[2] = q.tenant
    BY <1>0, <1>10, TenantRequestsAssumption
       DEF WriteModule, Answer, AnswerAudited, Done, SessionType, treeVars, userVars, AuditedRows
  <2>2. q.tenant \in Here(tenants)
    BY <1>0, <1>10 DEF StatusKnown, At
  <2>3. StatusOf(r) = local[q]
    <3>1. CASE local[q] = None
      BY <1>10, <3>1, StatusByTable
    <3>2. CASE local[q] # None
      <4>1. r \in Watches(q) /\ ReliesOn(q) = local[q]
        BY <1>10, <2>1, <3>2 DEF Watches, At, ReliesOn
      <4> QED BY <1>0, <4>1 DEF StatusKnown
    <3> QED BY <3>1, <3>2
  <2>4. StatusOf(r)' = status
    BY <1>0, <2>1, StatusByTable DEF TenantTablesType
  <2>5. \A x \in AuditedRows \ {r} : StatusOf(x)' = StatusOf(x)
    <3> SUFFICES ASSUME NEW x \in AuditedRows, x # r PROVE StatusOf(x)' = StatusOf(x)
      OBVIOUS
    <3>1. ASSUME NEW t \in Tenants, NEW m \in Modules, x = <<"module", t, m>>
          PROVE  StatusOf(x)' = StatusOf(x)
      <4>1. t # q.tenant \/ m # q.module
        BY <3>1
      <4>2. modules[t] \in [Modules -> {"ENABLED", "DISABLED", None}] /\ DOMAIN modules = Tenants
        BY <1>0 DEF TenantTablesType
      <4>3. modules'[t][m] = modules[t][m]
        BY <2>1, <4>1, <4>2
      <4> QED BY <3>1, <4>3, StatusByTable
    <3> QED BY <2>1, <3>1, RowsByTable, OtherTables
  <2>6. CASE local[q] = status
    <3>1. UNCHANGED trail
      BY <1>10, <2>6 DEF WriteModule, Answer
    <3>2. Quiet
      BY <2>3, <2>4, <2>5, <2>6, <3>1 DEF Quiet
    <3> QED BY <2>1, <3>2, NothingRelied DEF StatusStep
  <2>7. CASE local[q] # status
    <3>1. trail' = [trail EXCEPT ![r] = Append(@, Event(q, r))]
      BY <1>10, <2>3, <2>4, <2>7 DEF WriteModule, AnswerAudited, Event
    <3>2. StatusOf(r) = None \/ \A p \in Requests \ {q} : Lock(r, "update") \notin locks[p]
      <4>1. CASE local[q] # None
        <5>1. r \in Watches(q)
          BY <1>10, <2>1, <4>1 DEF Watches, At
        <5>2. Lock(r, "update") \in locks[q]
          BY <1>0, <5>1 DEF StatusKnown
        <5> QED BY <1>0, <5>2, HolderIsAlone
      <4> QED BY <2>3, <4>1
    <3>3. Logs(q, r)
      BY <2>1, <2>2, <2>5, <3>1, <3>2 DEF Logs
    <3> QED BY <2>1, <3>3, NothingRelied DEF StatusStep
  <2> QED BY <2>6, <2>7
<1>11. CASE enable(q)
  BY <1>10, <1>11 DEF enable, At
<1>12. CASE disable(q)
  <2>1. local[q] # None
    BY <1>0, <1>12 DEF disable, StatusKnown
  <2> QED BY <1>10, <1>12, <2>1 DEF disable, At
<1> QED BY <1>1, <1>2, <1>3, <1>4, <1>6, <1>7, <1>8, <1>9, <1>11, <1>12 DEF TenantStep

LEMMA OtherStatuses ==
    ASSUME SessionType, NEW q \in Requests,
           Authorize(q) \/ RollbackTenant(q) \/ MirrorStep(q) \/ (RoleStep(q) /\ UNCHANGED <<treeVars, userVars, tenantVars>>)
    PROVE  /\ StatusStep(q) /\ StatusKnown(q)'
           /\ UNCHANGED <<stores, users, tenants, modules, sections, docs, nodes>>
<1>1. UNCHANGED <<trail, stores, users, tenants, modules, sections, docs, nodes>>
  <2>1. CASE Authorize(q)
    BY <2>1 DEF Authorize, Proceed, treeVars, userVars, tenantVars
  <2>2. CASE RollbackTenant(q)
    BY <2>2 DEF RollbackTenant, RollbackUser, Rollback, Answer, treeVars, docVars
  <2>3. CASE MirrorStep(q)
    <3>1. UNCHANGED trail
      BY <2>3 DEF MirrorStep, ReadTenants, ReadStores, UpsertTenant, FinishPass, Proceed, Answer
    <3> QED BY <2>3, <3>1, MirrorSession DEF treeVars, userVars, tenantVars
  <2>4. CASE RoleStep(q) /\ UNCHANGED <<treeVars, userVars, tenantVars>>
    BY <2>4 DEF RoleStep, ReadRole, CountHolders, WriteRole, CommitRole, Proceed, Answer, treeVars, userVars, tenantVars
  <2> QED BY <2>1, <2>2, <2>3, <2>4
<1>2. StatusKnown(q)'
  <2>1. CASE Authorize(q) \/ RollbackTenant(q)
    BY <2>1, GateSession, FailureSession, NothingRelied
  <2>2. CASE MirrorStep(q) \/ RoleStep(q)
    <3>1. q.op \in MirrorOps \cup RoleOps
      BY <2>2, MirrorSession, RoleSession
    <3> QED BY <3>1 DEF StatusKnown, Watches, At, MirrorOps, RoleOps
  <2> QED BY <2>1, <2>2
<1> QED BY <1>1, <1>2, QuietTables DEF StatusStep

LEMMA StatusesMove ==
    ASSUME TreeInv, BindInv, DeskInv, StatusInv, NEW q \in Requests, AnyStep(q)
    PROVE  StatusStep(q) /\ StatusKnown(q)'
BY TreeStatuses, UserStatuses, TenantStatuses, OtherStatuses DEF AnyStep, TreeInv

LEMMA AbsentsStay ==
    ASSUME TreeInv, DeskInv, StatusInv, NEW q \in Requests, AnyStep(q), RowsStay
    PROVE  AbsentTenants'
<1>0. TablesType /\ TenantTablesType /\ AbsentTenants /\ SessionType /\ StatusKnown(q)
  BY DEF TreeInv, TableInv, DeskInv, StatusInv
<1>1. ASSUME NEW t \in Tenants \ Here(tenants') PROVE sections'[t] = sections[t] /\ modules'[t] = modules[t]
  <2>0. t \notin Here(tenants) /\ t \in Tenants
    BY <1>1 DEF RowsStay
  <2>1. CASE ~TenantStep(q)
    BY <1>0, <2>1, OtherStatuses DEF AnyStep, tenantVars
  <2>2. CASE \/ upsert_legal_profile(q) \/ upsert_billing_profile(q) \/ replace_contacts(q)
             \/ replace_tax_registrations(q)
    <3>1. PICK x : sections' = [sections EXCEPT ![q.tenant] = x]
      BY <2>2 DEF upsert_legal_profile, upsert_billing_profile, Upsert, replace_contacts, replace_tax_registrations, Replace
    <3>2. q.tenant \in Tenants /\ tenants[q.tenant] # None /\ UNCHANGED modules
      BY <2>2, TenantRequestsAssumption
         DEF upsert_legal_profile, upsert_billing_profile, Upsert, replace_contacts, replace_tax_registrations, Replace, At
    <3>3. t # q.tenant
      BY <1>0, <2>0, <3>2 DEF Here, TablesType
    <3> QED BY <1>0, <3>1, <3>2, <3>3 DEF TenantTablesType
  <2>3. CASE enable(q) \/ disable(q)
    <3>1. q.tenant \in Here(tenants) /\ UNCHANGED sections
      BY <1>0, <2>3 DEF enable, disable, WriteModule, StatusKnown
    <3>2. PICK x : modules' = [modules EXCEPT ![q.tenant] = x]
      BY <2>3 DEF enable, disable, WriteModule
    <3> QED BY <1>0, <2>0, <3>1, <3>2 DEF TenantTablesType
  <2>4. CASE CreateTenant(q)
    <3>1. tenants' = [tenants EXCEPT ![q.tenant] = TenantRow(q.name)] /\ q.tenant \in Tenants /\ q.name \in Names /\ UNCHANGED sections
      BY <2>4, RequestsAssumption DEF CreateTenant, At
    <3>2. TenantRow(q.name) \in TenantRows
      BY <3>1 DEF TenantRow, TenantRows, TenantStatus
    <3>3. t # q.tenant
      BY <1>0, <1>1, <3>1, <3>2, NoneAssumption DEF Here, TablesType
    <3>4. PICK x : modules' = [modules EXCEPT ![q.tenant] = x]
      BY <2>4 DEF CreateTenant
    <3> QED BY <1>0, <3>1, <3>3, <3>4 DEF TenantTablesType
  <2>5. CASE \/ CheckName(q) \/ ProvisionOrganization(q) \/ CheckNotCompleted(q) \/ CreatePending(q) \/ LockDocument(q)
             \/ verify(q) \/ reject(q) \/ DeleteObject(q) \/ DeleteDocument(q) \/ UpsertChannel(q) \/ WriteSecret(q)
             \/ CommitChannel(q) \/ UpdateTenant(q) \/ LockTenant(q) \/ TransitionTenant(q) \/ CheckPresence(q)
             \/ CompleteOnboarding(q) \/ SetAuth0OrgId(q) \/ UpsertOnboarding(q) \/ SelectModule(q)
    BY <2>5 DEF CheckName, ProvisionOrganization, CheckNotCompleted, CreatePending, LockDocument, verify, reject,
       SetReview, DeleteObject, DeleteDocument, UpsertChannel, WriteSecret, CommitChannel, UpdateTenant, LockTenant,
       TransitionTenant, CheckPresence, CompleteOnboarding, SetAuth0OrgId, UpsertOnboarding, SelectModule, tenantVars
  <2> QED BY <2>1, <2>2, <2>3, <2>4, <2>5 DEF TenantStep
<1> QED BY <1>0, <1>1 DEF AbsentTenants, RowsStay

LEMMA StatusesKept ==
    ASSUME TreeInv, BindInv, DeskInv, StatusInv, NEW q \in Requests, AnyStep(q), RowsStay
    PROVE  StatusInv'
<1>1. LocksApart' /\ Only(q)
  BY LocksKept DEF TreeInv, StatusInv
<1>2. StatusStep(q) /\ StatusKnown(q)' /\ AbsentTenants'
  BY StatusesMove, AbsentsStay
<1>3. \A p \in Requests : StatusKnown(p)'
  BY <1>1, <1>2, OthersRely DEF RowsStay
<1> QED BY <1>1, <1>2, <1>3 DEF StatusInv

LEMMA StatusesStart == Init => StatusInv
<1> SUFFICES ASSUME Init PROVE StatusInv
  OBVIOUS
<1>1. /\ \A q \in Requests : step[q] \in {"answered", "received", "arrived"} /\ locks[q] = {}
      /\ tenants = SeedTenants /\ sections = SeedSections /\ modules = SeedModules
  BY DEF Init, SessionInit
<1>2. LocksApart
  BY <1>1 DEF LocksApart
<1>3. AbsentTenants
  BY <1>1, SeedChecksAssumption DEF AbsentTenants
<1>4. \A q \in Requests : StatusKnown(q)
  BY <1>1 DEF StatusKnown, Watches, At
<1> QED BY <1>2, <1>3, <1>4 DEF StatusInv

-----------------------------------------------------------------------------
(* The rows and the schema. *)

\* The assignments of a user of this tenant may be these.
Assignments(t, pairs) == \A a \in pairs : a.role \in TenantRoles /\ a.node \in NodesOf(t)

NodeChecks == \A n \in Here(nodes) : nodes[n].archived <=> nodes[n].status = "ARCHIVED"
StoreChecks == \A s \in Here(stores) : ck_stores(stores[s])
TenantChecks == \A t \in Here(tenants) : ck_tenants(tenants[t])
LegalUser(row) ==
    ck_tenant_users(row) /\ row.tenant \in Here(tenants) /\ Assignments(row.tenant, row.roles)
UserChecks == \A u \in Here(users) : LegalUser(users[u])
DocChecks == \A d \in Here(docs) : docs[d].tenant \in Here(tenants)

\* What a request has validated before it writes.
Validated(q) ==
    /\ At(q, "create_user", "insert_user") => NodesOf(q.tenant) # {} /\ Assignments(q.tenant, q.roles)
    /\ q.op = "patch_user" /\ InFlight(q) /\ q.roles # None => Assignments(users[q.user].tenant, q.roles)

SchemaInv ==
    /\ NodeChecks /\ StoreChecks /\ TenantChecks /\ UserChecks /\ DocChecks
    /\ \A q \in Requests : Validated(q)

\* Which statements write which table.
LEMMA TreeWrites ==
    ASSUME NEW q \in Requests, OrgTreeStep(q)
    PROVE  /\ UNCHANGED nodes \/ InsertNode(q) \/ InsertStore(q) \/ SaveNode(q) \/ SetStatus(q)
           /\ UNCHANGED stores \/ InsertStore(q) \/ SaveNode(q) \/ SetStatus(q)
BY DEF OrgTreeStep, LockParent, LockStore, LockTarget, Place, Repath, LockForTransition, InsertNode, treeVars

LEMMA UserWrites ==
    ASSUME NEW q \in Requests, UserStep(q)
    PROVE  /\ \/ UNCHANGED users
              \/ InsertUser(q) \/ CommitUser(q) \/ SetUserStatus(q) \/ MarkInvited(q) \/ AcceptInvitation(q)
BY DEF UserStep, ValidateUser, ReadUser, LockUser, UpdateUserEmail, LockForStatus, ReadForProvision, GetOrCreateOrg,
   ProvisionUser, SendInvitation, ReconcileAcceptance, userVars

LEMMA TenantWrites ==
    ASSUME NEW q \in Requests, TenantStep(q)
    PROVE  /\ UNCHANGED <<users, stores>>
           /\ UNCHANGED nodes \/ CreateTenant(q)
           /\ \/ UNCHANGED tenants \/ CreateTenant(q) \/ UpdateTenant(q) \/ TransitionTenant(q) \/ CompleteOnboarding(q)
              \/ SetAuth0OrgId(q) \/ UpsertOnboarding(q)
           /\ UNCHANGED docs \/ CreatePending(q) \/ verify(q) \/ reject(q) \/ DeleteDocument(q)
<1>1. CASE \/ CreateTenant(q) \/ UpdateTenant(q) \/ TransitionTenant(q) \/ CompleteOnboarding(q) \/ SetAuth0OrgId(q)
           \/ UpsertOnboarding(q) \/ CreatePending(q) \/ verify(q) \/ reject(q) \/ DeleteDocument(q)
  BY <1>1 DEF CreateTenant, UpdateTenant, TransitionTenant, CompleteOnboarding, SetAuth0OrgId, UpsertOnboarding,
     CreatePending, verify, reject, SetReview, DeleteDocument, treeVars, userVars, docVars
<1>2. CASE \/ CheckName(q) \/ ProvisionOrganization(q) \/ CheckNotCompleted(q) \/ LockDocument(q) \/ DeleteObject(q)
           \/ UpsertChannel(q) \/ WriteSecret(q) \/ CommitChannel(q) \/ LockTenant(q) \/ CheckPresence(q)
  BY <1>2 DEF CheckName, ProvisionOrganization, CheckNotCompleted, LockDocument, DeleteObject, UpsertChannel,
     WriteSecret, CommitChannel, LockTenant, CheckPresence, treeVars, userVars, tenantVars, docVars
<1>3. CASE \/ SelectModule(q) \/ enable(q) \/ disable(q) \/ upsert_legal_profile(q) \/ upsert_billing_profile(q)
           \/ replace_contacts(q) \/ replace_tax_registrations(q)
  BY <1>3 DEF SelectModule, enable, disable, WriteModule, upsert_legal_profile, upsert_billing_profile, Upsert,
     replace_contacts, replace_tax_registrations, Replace, treeVars, userVars, tenantVars, docVars
<1> QED BY <1>1, <1>2, <1>3 DEF TenantStep

\* The three forms of the UPDATE keep the stamp with the status.
LEMMA ProjectedIsStamped ==
    ASSUME NEW row \in NodeRows, NEW to, row.archived <=> row.status = "ARCHIVED"
    PROVE  Projected(row, to).archived <=> Projected(row, to).status = "ARCHIVED"
<1>1. Projected(row, to).status = to
  BY DEF Projected, NodeRows
<1>2. CASE to = "ARCHIVED"
  <2>1. Projected(row, to).archived = TRUE
    BY <1>2 DEF Projected, NodeRows
  <2> QED BY <1>1, <1>2, <2>1
<1>3. CASE to # "ARCHIVED" /\ row.status = "ARCHIVED"
  <2>1. Projected(row, to).archived = FALSE
    BY <1>3 DEF Projected, NodeRows
  <2> QED BY <1>1, <1>3, <2>1
<1>4. CASE to # "ARCHIVED" /\ row.status # "ARCHIVED"
  <2>1. ~row.archived
    BY <1>4
  <2>2. Projected(row, to).archived = row.archived
    BY <1>4 DEF Projected, NodeRows
  <2> QED BY <1>1, <1>4, <2>1, <2>2
<1> QED BY <1>2, <1>3, <1>4

LEMMA TransitionedIsStamped ==
    ASSUME NEW row \in StoreRows, NEW to \in StoreStatus, row.closed <=> row.status = "CLOSED"
    PROVE  /\ Transitioned(row, row.status, to).status = to
           /\ Transitioned(row, row.status, to).closed <=> to = "CLOSED"
<1>1. Transitioned(row, row.status, to).status = to
  BY DEF Transitioned, StoreRows
<1>2. CASE to = "CLOSED"
  <2>1. Transitioned(row, row.status, to).closed = TRUE
    BY <1>2 DEF Transitioned, StoreRows
  <2> QED BY <1>1, <1>2, <2>1
<1>3. CASE to # "CLOSED" /\ row.status = "CLOSED"
  <2>1. Transitioned(row, row.status, to).closed = FALSE
    BY <1>3 DEF Transitioned, StoreRows
  <2> QED BY <1>1, <1>3, <2>1
<1>4. CASE to # "CLOSED" /\ row.status # "CLOSED"
  <2>1. ~row.closed
    BY <1>4
  <2>2. Transitioned(row, row.status, to).closed = row.closed
    BY <1>4 DEF Transitioned, StoreRows
  <2> QED BY <1>1, <1>4, <2>1, <2>2
<1> QED BY <1>1, <1>2, <1>3, <1>4

\* A node's stamp goes with its status.
LEMMA NodesChecked ==
    ASSUME TreeInv, SchemaInv, NEW q \in Requests, AnyStep(q)
    PROVE  NodeChecks'
<1>0. TablesType /\ SessionType /\ NodeChecks
  BY DEF TreeInv, TableInv, SchemaInv
<1>1. CASE UNCHANGED nodes
  BY <1>0, <1>1 DEF NodeChecks, Here
<1>2. ASSUME NEW t, NEW type, NEW parent, NEW code, NEW path, NodeLeft,
             nodes' = [nodes EXCEPT ![FreshNode] = NodeRow(t, type, parent, code, path)]
      PROVE  NodeChecks'
  <2>1. FreshNode \in Nodes
    BY <1>2, FreshIsFree
  <2>2. NodeRow(t, type, parent, code, path).archived = FALSE /\ NodeRow(t, type, parent, code, path).status = "ACTIVE"
    BY DEF NodeRow
  <2> QED BY <1>0, <1>2, <2>1, <2>2 DEF NodeChecks, Here, TablesType
<1>3. CASE InsertNode(q) \/ InsertStore(q) \/ CreateTenant(q)
  BY <1>2, <1>3 DEF InsertNode, InsertStore, InsertRow, CreateTenant
<1>4. CASE SaveNode(q)
  <2> SUFFICES ASSUME NEW n \in Here(nodes') PROVE nodes'[n].archived <=> nodes'[n].status = "ARCHIVED"
    BY DEF NodeChecks
  <2>1. nodes' = Edited(q)
    BY <1>4 DEF SaveNode
  <2>2. Target(q) \in Here(nodes) /\ n \in Nodes /\ \A m \in Nodes : Rewritten(q, m) => m \in Here(nodes)
    <3>1. q.op \in EditOps /\ step[q] = "save" /\ LocalInv(q) /\ KeysInv
      BY <1>4 DEF SaveNode, At, EditOps, TreeInv, TableInv
    <3>2. Target(q) \in Here(nodes)
      BY <3>1 DEF EditOps, LocalInv, TargetInv, Target, NodesOf, KeysInv
    <3>3. local[q].rows \subseteq Here(nodes)
      BY <3>1 DEF EditOps, LocalInv, PlacedInv, NodesOf
    <3>4. n \in Nodes
      BY <2>1 DEF Here, Edited
    <3> QED BY <3>2, <3>3, <3>4 DEF Rewritten
  <2>3. n \in Here(nodes)
    BY <1>0, <2>1, <2>2 DEF Edited, Here, TablesType
  <2>4. nodes[n] \in NodeRows
    BY <1>0, <2>3 DEF Here, TablesType
  <2>5. nodes'[n].archived = nodes[n].archived /\ nodes'[n].status = nodes[n].status
    BY <2>1, <2>2, <2>4 DEF Edited, NodeRows
  <2> QED BY <1>0, <2>3, <2>5 DEF NodeChecks
<1>5. CASE SetStatus(q)
  <2> DEFINE n == stores[q.store].node
             to == STORE_STATUS_TO_ORG_NODE_STATUS[q.status]
  <2>1. nodes' = [nodes EXCEPT ![n] = Projected(nodes[n], to)]
    BY <1>5 DEF SetStatus
  <2>2. n \in Here(nodes)
    BY <1>5 DEF SetStatus, At, TreeInv, LocalInv, StoreInv, TableInv, KeysInv
  <2>3. nodes[n] \in NodeRows /\ n \in Nodes
    BY <1>0, <2>2 DEF Here, TablesType
  <2> HIDE DEF n, to
  <2>4. Projected(nodes[n], to).archived <=> Projected(nodes[n], to).status = "ARCHIVED"
    BY <1>0, <2>2, <2>3, ProjectedIsStamped DEF NodeChecks
  <2> QED BY <1>0, <2>1, <2>3, <2>4 DEF NodeChecks, Here, TablesType
<1>6. UNCHANGED nodes \/ InsertNode(q) \/ InsertStore(q) \/ SaveNode(q) \/ SetStatus(q) \/ CreateTenant(q)
  BY <1>0, TreeWrites, UserSession, TenantWrites, OtherStatuses DEF AnyStep, treeVars
<1> QED BY <1>1, <1>3, <1>4, <1>5, <1>6

\* A store's stamp, too: a transition relies on the status it has locked.
LEMMA StoresChecked ==
    ASSUME TreeInv, StatusInv, SchemaInv, NEW q \in Requests, AnyStep(q)
    PROVE  StoreChecks'
<1>0. TablesType /\ SessionType /\ StoreChecks /\ StatusKnown(q)
  BY DEF TreeInv, TableInv, SchemaInv, StatusInv
<1>1. CASE UNCHANGED stores
  BY <1>0, <1>1 DEF StoreChecks, Here
<1>2. ASSUME NEW s \in Stores, NEW row, ck_stores(row), stores' = [stores EXCEPT ![s] = row]
      PROVE  StoreChecks'
  BY <1>0, <1>2 DEF StoreChecks, Here, TablesType
<1>3. CASE InsertStore(q)
  <2>1. ck_stores(StoreRow(FreshNode, q.code)) /\ q.store \in Stores
    BY <1>3, RequestsAssumption DEF StoreRow, ck_stores, StoreStatus, InsertStore, At
  <2> QED BY <1>2, <1>3, <2>1 DEF InsertStore
<1>4. CASE SaveNode(q)
  <2>1. CASE q.op = "update_store" /\ q.code # None
    <3>1. q.store \in Stores /\ q.store \in Here(stores) /\ step[q] = "save"
      BY <1>4, <2>1, RequestsAssumption DEF SaveNode, At, TreeInv, LocalInv, TargetInv
    <3>2. stores[q.store] \in StoreRows /\ ck_stores(stores[q.store])
      BY <1>0, <3>1 DEF Here, TablesType, StoreChecks
    <3>3. stores' = [stores EXCEPT ![q.store] = [stores[q.store] EXCEPT !.code = q.code]]
      BY <1>4, <2>1 DEF SaveNode
    <3>4. ck_stores([stores[q.store] EXCEPT !.code = q.code])
      BY <3>2 DEF ck_stores, StoreRows
    <3> QED BY <1>2, <3>1, <3>3, <3>4
  <2> QED BY <1>1, <1>4, <2>1 DEF SaveNode
<1>5. CASE SetStatus(q)
  <2>1. q.store \in Stores /\ q.store \in Here(stores) /\ step[q] = "set_status" /\ q.op = "transition_store" /\ q.status \in StoreStatus
    BY <1>5, RequestsAssumption DEF SetStatus, At, TreeInv, LocalInv, StoreInv
  <2>2. stores[q.store] \in StoreRows /\ ck_stores(stores[q.store]) /\ stores[q.store] # None
    BY <1>0, <2>1 DEF Here, TablesType, StoreChecks
  <2>3. <<"store", q.store>> \in Watches(q)
    BY <2>1 DEF Watches, At, AuditedRows
  <2>4. stores[q.store].status = local[q]
    BY <1>0, <2>1, <2>2, <2>3, StatusByTable DEF StatusKnown, ReliesOn, StoreStatusNow
  <2>5. ck_stores(Transitioned(stores[q.store], local[q], q.status))
    BY <2>1, <2>2, <2>4, TransitionedIsStamped DEF ck_stores
  <2> QED BY <1>2, <1>5, <2>1, <2>5 DEF SetStatus
<1>6. UNCHANGED stores \/ InsertStore(q) \/ SaveNode(q) \/ SetStatus(q)
  BY <1>0, TreeWrites, UserSession, TenantWrites, OtherStatuses DEF AnyStep, treeVars
<1> QED BY <1>1, <1>3, <1>4, <1>5, <1>6

LEMMA TenantsChecked ==
    ASSUME TreeInv, StatusInv, SchemaInv, NEW q \in Requests, AnyStep(q)
    PROVE  TenantChecks'
<1>0. TablesType /\ SessionType /\ TenantChecks /\ StatusKnown(q)
  BY DEF TreeInv, TableInv, SchemaInv, StatusInv
<1>1. CASE UNCHANGED tenants
  BY <1>0, <1>1 DEF TenantChecks, Here
<1>2. ASSUME NEW t \in Tenants, NEW row, ck_tenants(row), tenants' = [tenants EXCEPT ![t] = row]
      PROVE  TenantChecks'
  BY <1>0, <1>2 DEF TenantChecks, Here, TablesType
<1>3. CASE CreateTenant(q)
  <2>1. ck_tenants(TenantRow(q.name)) /\ q.tenant \in Tenants
    BY <1>3, RequestsAssumption DEF TenantRow, ck_tenants, TenantStatus, CreateTenant, At
  <2> QED BY <1>2, <1>3, <2>1 DEF CreateTenant
<1>4. CASE UpdateTenant(q) \/ TransitionTenant(q) \/ CompleteOnboarding(q) \/ SetAuth0OrgId(q) \/ UpsertOnboarding(q)
  <2>1. q.tenant \in Tenants /\ q.tenant \in Here(tenants)
    <3>1. <<q.op, step[q]>> \in TenantStepsOnRow
      BY <1>4 DEF UpdateTenant, TransitionTenant, CompleteOnboarding, SetAuth0OrgId, UpsertOnboarding, At, TenantStepsOnRow
    <3> QED BY <1>0, <3>1 DEF TreeInv, LocalInv, TenantInv, Here, TablesType
  <2>2. tenants[q.tenant] \in TenantRows /\ ck_tenants(tenants[q.tenant]) /\ tenants[q.tenant] # None
    BY <1>0, <2>1 DEF Here, TablesType, TenantChecks
  <2>3. CASE UpdateTenant(q)
    <3>1. tenants' = [tenants EXCEPT ![q.tenant] = [tenants[q.tenant] EXCEPT !.name = q.name]]
      BY <2>3 DEF UpdateTenant
    <3>2. ck_tenants([tenants[q.tenant] EXCEPT !.name = q.name])
      BY <2>2 DEF ck_tenants, TenantRows
    <3> QED BY <1>2, <2>1, <3>1, <3>2
  <2>4. CASE SetAuth0OrgId(q)
    <3>1. tenants' = [tenants EXCEPT ![q.tenant] = [tenants[q.tenant] EXCEPT !.org = TRUE]]
      BY <2>4 DEF SetAuth0OrgId
    <3>2. ck_tenants([tenants[q.tenant] EXCEPT !.org = TRUE])
      BY <2>2 DEF ck_tenants, TenantRows
    <3> QED BY <1>2, <2>1, <3>1, <3>2
  <2>5. CASE UpsertOnboarding(q)
    <3>1. tenants' = [tenants EXCEPT ![q.tenant] = [tenants[q.tenant] EXCEPT !.resume = q.section]]
      BY <2>5 DEF UpsertOnboarding
    <3>2. ck_tenants([tenants[q.tenant] EXCEPT !.resume = q.section])
      BY <2>2 DEF ck_tenants, TenantRows
    <3> QED BY <1>2, <2>1, <3>1, <3>2
  <2>6. CASE TransitionTenant(q)
    <3> DEFINE row == [tenants[q.tenant] EXCEPT !.status = q.status, !.suspended = (q.status = "SUSPENDED")]
    <3>1. tenants' = [tenants EXCEPT ![q.tenant] = row]
      BY <1>0, <2>1, <2>2, <2>6 DEF TransitionTenant, TablesType, TenantRows
    <3>2. q.status \in TenantStatus
      BY <2>6, RequestsAssumption DEF TransitionTenant, At, TenantStatus
    <3>3. ck_tenants(row)
      BY <2>2, <3>2 DEF ck_tenants, TenantRows
    <3> HIDE DEF row
    <3> QED BY <1>2, <2>1, <3>1, <3>3
  <2>7. CASE CompleteOnboarding(q)
    <3> DEFINE row == [tenants[q.tenant] EXCEPT !.status = "TRIAL", !.completed = TRUE]
    <3>1. tenants' = [tenants EXCEPT ![q.tenant] = row]
      BY <1>0, <2>1, <2>2, <2>7 DEF CompleteOnboarding, TablesType, TenantRows
    <3>2. q.op = "complete_onboarding" /\ <<"tenant", q.tenant>> \in Watches(q)
      BY <2>1, <2>7 DEF CompleteOnboarding, Watches, At, AuditedRows
    <3>3. tenants[q.tenant].status = "ONBOARDING"
      BY <1>0, <2>2, <3>2, StatusByTable DEF StatusKnown, ReliesOn, TenantStatusNow
    <3>4. ck_tenants(row)
      BY <2>2, <3>3 DEF ck_tenants, TenantRows, TenantStatus
    <3> HIDE DEF row
    <3> QED BY <1>2, <2>1, <3>1, <3>4
  <2> QED BY <1>4, <2>3, <2>4, <2>5, <2>6, <2>7
<1>5. \/ UNCHANGED tenants \/ CreateTenant(q) \/ UpdateTenant(q) \/ TransitionTenant(q) \/ CompleteOnboarding(q)
      \/ SetAuth0OrgId(q) \/ UpsertOnboarding(q)
  BY <1>0, TenantWrites, OtherStatuses DEF AnyStep, tenantVars
<1> QED BY <1>1, <1>3, <1>4, <1>5


\* Tenants and nodes stay, so that what was legal for a user stays so.
LEMMA UserStaysLegal ==
    ASSUME RowsStay
    PROVE  /\ \A t, pairs : Assignments(t, pairs) => Assignments(t, pairs)'
           /\ \A row : LegalUser(row) => LegalUser(row)'
<1>1. \A t : NodesOf(t) \subseteq NodesOf(t)'
  <2> SUFFICES ASSUME NEW t, NEW n \in NodesOf(t) PROVE n \in NodesOf(t)'
    OBVIOUS
  <2>1. n \in Here(nodes) /\ nodes[n].tenant = t
    BY DEF NodesOf
  <2>2. n \in Here(nodes') /\ nodes'[n].tenant = t
    BY <2>1 DEF RowsStay
  <2> QED BY <2>2 DEF NodesOf, Here
<1>2. \A t, pairs : Assignments(t, pairs) => Assignments(t, pairs)'
  BY <1>1 DEF Assignments
<1>3. Here(tenants) \subseteq Here(tenants)'
  BY DEF RowsStay, Here
<1>4. ASSUME NEW row, LegalUser(row) PROVE LegalUser(row)'
  BY <1>2, <1>3, <1>4 DEF LegalUser, ck_tenant_users
<1> QED BY <1>2, <1>4

LEMMA UsersChecked ==
    ASSUME TreeInv, BindInv, StatusInv, SchemaInv, NEW q \in Requests, AnyStep(q), RowsStay
    PROVE  UserChecks'
<1>0. SessionType /\ UsersType /\ UserChecks /\ StatusKnown(q) /\ KnowsUser(q) /\ Validated(q) /\ BoundUsers /\ KeysInv
  BY DEF TreeInv, TableInv, SchemaInv, StatusInv, BindInv
<1>1. ASSUME NEW u \in Here(users), users'[u] = users[u] PROVE LegalUser(users[u])'
  <2>1. LegalUser(users[u])
    BY <1>0, <1>1 DEF UserChecks
  <2>2. PICK row : row = users[u]
    OBVIOUS
  <2>3. LegalUser(row)'
    BY <2>1, <2>2, UserStaysLegal
  <2> QED BY <1>1, <2>2, <2>3 DEF LegalUser, Assignments, NodesOf, ck_tenant_users
<1>2. CASE UNCHANGED users
  <2> SUFFICES ASSUME NEW u \in Here(users)' PROVE LegalUser(users[u])'
    BY DEF UserChecks
  <2>1. u \in Here(users) /\ users'[u] = users[u]
    BY <1>2 DEF Here
  <2> QED BY <1>1, <2>1
<1>3. ASSUME NEW u \in Users, NEW row, LegalUser(row), users' = [users EXCEPT ![u] = row]
      PROVE  UserChecks'
  <2> SUFFICES ASSUME NEW v \in Here(users)' PROVE LegalUser(users[v])'
    BY DEF UserChecks
  <2>1. CASE v = u
    <3>1. users'[v] = row
      BY <1>0, <1>3, <2>1 DEF UsersType
    <3>2. LegalUser(row)'
      BY <1>3, UserStaysLegal
    <3> QED BY <3>1, <3>2 DEF LegalUser, Assignments, NodesOf, ck_tenant_users
  <2>2. CASE v # u
    <3>1. v \in Here(users) /\ users'[v] = users[v]
      BY <1>0, <1>3, <2>2 DEF Here, UsersType
    <3> QED BY <1>1, <3>1
  <2> QED BY <2>1, <2>2
<1>4. CASE InsertUser(q)
  <2> DEFINE row == UserRow(q.tenant, q.email, q.roles)
  <2>1. q.user \in Users /\ users' = [users EXCEPT ![q.user] = row]
    BY <1>4, UserRequestsAssumption DEF InsertUser, At, UserOps
  <2>2. NodesOf(q.tenant) # {} /\ Assignments(q.tenant, q.roles)
    BY <1>0, <1>4 DEF Validated, InsertUser
  <2>3. q.tenant \in Here(tenants)
    BY <1>0, <2>2 DEF NodesOf, KeysInv
  <2>4. LegalUser(row)
    BY <2>2, <2>3, UserRequestsAssumption DEF LegalUser, UserRow, ck_tenant_users, UserStatus
  <2> HIDE DEF row
  <2> QED BY <1>3, <2>1, <2>4
<1>5. ASSUME NEW u \in Here(users)
      PROVE  /\ u \in Users /\ users[u] \in UserRows /\ LegalUser(users[u])
  BY <1>0 DEF UserChecks, UsersType, Here
<1>6. CASE MarkInvited(q)
  <2> DEFINE row == [users[q.user] EXCEPT !.invited = TRUE]
  <2>1. q.user \in Here(users) /\ users' = [users EXCEPT ![q.user] = row]
    BY <1>0, <1>6 DEF MarkInvited, At, KnowsUser, InFlight
  <2>2. LegalUser(row)
    BY <1>5, <2>1 DEF LegalUser, ck_tenant_users, UserRows
  <2> HIDE DEF row
  <2> QED BY <1>3, <1>5, <2>1, <2>2
<1>7. CASE CommitUser(q)
  <2> DEFINE e == IF q.email = None THEN users[q.user].email ELSE q.email
             rs == IF q.roles = None THEN users[q.user].roles
                   ELSE DiffApplied(users[q.user].roles, local[q].current, q.roles)
             row == [users[q.user] EXCEPT !.email = e, !.roles = rs]
  <2>1. q.user \in Here(users) /\ q.op = "patch_user" /\ InFlight(q)
    BY <1>0, <1>7 DEF CommitUser, At, KnowsUser, InFlight
  <2>2. q.user \in Users /\ users[q.user] \in UserRows /\ LegalUser(users[q.user])
    BY <1>5, <2>1
  <2>3. users' = [users EXCEPT ![q.user] = row]
    BY <1>0, <1>7, <2>2 DEF CommitUser, UsersType, UserRows
  <2>4. Assignments(users[q.user].tenant, rs)
    BY <1>0, <2>1, <2>2 DEF Validated, LegalUser, Assignments, DiffApplied
  <2> HIDE DEF e, rs
  <2>5. LegalUser(row)
    BY <2>2, <2>4 DEF LegalUser, ck_tenant_users, UserRows
  <2> HIDE DEF row
  <2> QED BY <1>3, <2>2, <2>3, <2>5
<1>8. CASE SetUserStatus(q)
  <2> DEFINE row == [users[q.user] EXCEPT !.status = q.status, !.suspended = (q.status = "SUSPENDED")]
  <2>1. /\ q.user \in Here(users) /\ q.op = "transition_user" /\ step[q] = "set_status"
        /\ q.status \in {"SUSPENDED", "ACTIVE"}
    BY <1>0, <1>8, UserRequestsAssumption DEF SetUserStatus, At, KnowsUser, InFlight
  <2>2. q.user \in Users /\ users[q.user] \in UserRows /\ LegalUser(users[q.user])
    BY <1>5, <2>1
  <2>3. users' = [users EXCEPT ![q.user] = row]
    BY <1>0, <1>8, <2>2 DEF SetUserStatus, UsersType, UserRows
  <2>4. <<"user", q.user>> \in Watches(q)
    BY <1>8, <2>2 DEF SetUserStatus, Watches, AuditedRows
  <2>5. StatusOf(<<"user", q.user>>) = local[q] /\ local[q] # "INVITED"
    BY <1>0, <2>1, <2>4 DEF StatusKnown, ReliesOn, At
  <2>6. users[q.user].status # "INVITED" /\ users[q.user] # None
    BY <2>2, <2>5, StatusByTable, UserRequestsAssumption DEF UserStatusNow
  <2>7. ck_tenant_users(row)
    <3>1. row.status = q.status /\ row.suspended = (q.status = "SUSPENDED")
      BY <2>2 DEF UserRows
    <3>2. row.sub = users[q.user].sub /\ row.accepted = users[q.user].accepted
      BY <2>2 DEF UserRows
    <3>3. users[q.user].sub # None /\ users[q.user].accepted
      BY <2>2, <2>6 DEF LegalUser, ck_tenant_users
    <3> HIDE DEF row
    <3> QED BY <2>1, <3>1, <3>2, <3>3 DEF ck_tenant_users, UserStatus
  <2>8. row.tenant = users[q.user].tenant /\ row.roles = users[q.user].roles
    BY <2>2 DEF UserRows
  <2> HIDE DEF row
  <2>9. LegalUser(row)
    BY <2>2, <2>7, <2>8 DEF LegalUser
  <2> QED BY <1>3, <2>2, <2>3, <2>9
<1>9. CASE AcceptInvitation(q)
  <2> DEFINE u == local[q]
             row == [users[u] EXCEPT !.status = "ACTIVE", !.sub = q.sub, !.accepted = TRUE]
  <2>1. u \in Here(users) /\ q.op = "login" /\ q.sub \in Subs /\ users[u].status = "INVITED"
    BY <1>0, <1>9, UserRequestsAssumption DEF AcceptInvitation, StillInvited, At, KnowsUser, InFlight
  <2>2. u \in Users /\ users[u] \in UserRows /\ LegalUser(users[u])
    BY <1>5, <2>1
  <2>3. users' = [users EXCEPT ![u] = row]
    BY <1>0, <1>9, <2>2 DEF AcceptInvitation, UsersType, UserRows
  <2>4. ck_tenant_users(row)
    <3>1. row.status = "ACTIVE" /\ row.sub = q.sub /\ row.accepted = TRUE
      BY <2>2 DEF UserRows
    <3>2. row.suspended = users[u].suspended
      BY <2>2 DEF UserRows
    <3>3. ~users[u].suspended
      BY <2>1, <2>2 DEF LegalUser, ck_tenant_users
    <3>4. q.sub # None
      BY <2>1, UserRequestsAssumption
    <3> HIDE DEF row
    <3> QED BY <3>1, <3>2, <3>3, <3>4 DEF ck_tenant_users, UserStatus
  <2>5. row.tenant = users[u].tenant /\ row.roles = users[u].roles
    BY <2>2 DEF UserRows
  <2> HIDE DEF row, u
  <2>6. LegalUser(row)
    BY <2>2, <2>4, <2>5 DEF LegalUser
  <2> QED BY <1>3, <2>2, <2>3, <2>6
<1>10. \/ UNCHANGED users
       \/ InsertUser(q) \/ CommitUser(q) \/ SetUserStatus(q) \/ MarkInvited(q) \/ AcceptInvitation(q)
  BY <1>0, UserWrites, TenantWrites, OtherStatuses DEF AnyStep, userVars
<1> QED BY <1>2, <1>4, <1>6, <1>7, <1>8, <1>9, <1>10

LEMMA DocsChecked ==
    ASSUME TreeInv, DeskInv, SchemaInv, NEW q \in Requests, AnyStep(q), RowsStay
    PROVE  DocChecks'
<1>0. SessionType /\ TablesType /\ TenantTablesType /\ DocChecks /\ KnowsTenant(q)
  BY DEF TreeInv, TableInv, DeskInv, SchemaInv
<1>1. \A d \in Here(docs) : docs[d].tenant \in Here(tenants')
  BY <1>0 DEF DocChecks, RowsStay
<1>2. ASSUME NEW d \in Docs, NEW row, row = None \/ row.tenant \in Here(tenants'), docs' = [docs EXCEPT ![d] = row]
      PROVE  DocChecks'
  <2> SUFFICES ASSUME NEW x \in Here(docs') PROVE docs'[x].tenant \in Here(tenants')
    BY DEF DocChecks
  <2>1. CASE x = d
    BY <1>0, <1>2, <2>1 DEF TenantTablesType, Here
  <2>2. CASE x # d
    <3>1. x \in Here(docs) /\ docs'[x] = docs[x]
      BY <1>0, <1>2, <2>2 DEF TenantTablesType, Here
    <3> QED BY <1>1, <3>1
  <2> QED BY <2>1, <2>2
<1>3. CASE UNCHANGED docs
  BY <1>1, <1>3 DEF DocChecks, Here
<1>4. CASE CreatePending(q)
  <2> DEFINE row == [tenant |-> q.tenant, status |-> "PENDING_REVIEW"]
  <2>1. q.doc \in Docs /\ q.tenant \in Here(tenants)
    BY <1>0, <1>4, TenantRequestsAssumption DEF CreatePending, At, Here, TablesType
  <2>2. docs' = [docs EXCEPT ![q.doc] = row] /\ row.tenant = q.tenant
    BY <1>4 DEF CreatePending
  <2> HIDE DEF row
  <2> QED BY <1>2, <2>1, <2>2 DEF RowsStay
<1>5. CASE verify(q) \/ reject(q)
  <2>1. PICK status : docs' = [docs EXCEPT ![q.doc].status = status]
    BY <1>5 DEF verify, reject, SetReview
  <2>2. q.doc \in Here(docs)
    BY <1>0, <1>5 DEF verify, reject, SetReview, KnowsTenant, Reviewing
  <2>3. q.doc \in Docs /\ docs[q.doc] \in DocRows
    BY <1>0, <2>2 DEF TenantTablesType, Here
  <2> DEFINE row == [docs[q.doc] EXCEPT !.status = status]
  <2>4. docs' = [docs EXCEPT ![q.doc] = row] /\ row.tenant = docs[q.doc].tenant
    BY <2>1, <2>3 DEF DocRows
  <2> HIDE DEF row
  <2> QED BY <1>1, <1>2, <2>2, <2>3, <2>4
<1>6. CASE DeleteDocument(q)
  <2>1. q.doc \in Docs /\ docs' = [docs EXCEPT ![q.doc] = None]
    BY <1>6, TenantRequestsAssumption DEF DeleteDocument, At
  <2> QED BY <1>2, <2>1
<1>7. UNCHANGED docs \/ CreatePending(q) \/ verify(q) \/ reject(q) \/ DeleteDocument(q)
  BY <1>0, TenantWrites, OtherStatuses DEF AnyStep, tenantVars, docVars
<1> QED BY <1>3, <1>4, <1>5, <1>6, <1>7

\* How a request gets to where it has validated what it writes.
LEMMA ValidatesFirst ==
    ASSUME SessionType, NEW q \in Requests, AnyStep(q)
    PROVE  /\ At(q, "create_user", "insert_user")' => ValidateUser(q)
           /\ q.op = "patch_user" /\ InFlight(q)' => ReadUser(q) \/ InFlight(q)
<1>1. CASE step'[q] \in {"received", "answered"}
  BY <1>1 DEF At, InFlight
<1>2. CASE q.op \notin UserOps
  BY <1>2 DEF At, UserOps
<1>3. CASE UserStep(q)
  <2>1. q.op \in UserOps
    BY <1>3, UserSession
  <2>2. q.op = "patch_user" => ReadUser(q) \/ InFlight(q)
    BY <1>3 DEF UserStep, ValidateUser, InsertUser, LockUser, UpdateUserEmail, CommitUser, LockForStatus,
       SetUserStatus, ReadForProvision, GetOrCreateOrg, ProvisionUser, SendInvitation, MarkInvited,
       ReconcileAcceptance, AcceptInvitation, At, InFlight
  <2>3. At(q, "create_user", "insert_user")' => ValidateUser(q)
    <3>1. CASE InsertUser(q)
      BY <3>1 DEF InsertUser, AnswerAudited, Done, SessionType, At
    <3> QED BY <1>3, <3>1 DEF UserStep, ReadUser, LockUser, UpdateUserEmail, CommitUser, LockForStatus,
       SetUserStatus, ReadForProvision, GetOrCreateOrg, ProvisionUser, SendInvitation, MarkInvited,
       ReconcileAcceptance, AcceptInvitation, At
  <2> QED BY <2>1, <2>2, <2>3 DEF At, UserOps
<1>4. CASE RoleStep(q)
  BY <1>4 DEF RoleStep, ReadRole, CountHolders, WriteRole, CommitRole, At
<1>5. OrgTreeStep(q) => q.op \in TreeOps
  BY TreeSession
<1>6. TenantStep(q) => q.op \in TenantOps
  BY TenantSession
<1>7. MirrorStep(q) => q.op \in MirrorOps
  BY MirrorSession
<1>8. Authorize(q) \/ RollbackTenant(q) => step'[q] \in {"received", "answered"}
  BY GateSession, FailureSession
<1>9. (TreeOps \cup TenantOps \cup MirrorOps) \cap UserOps = {}
  BY DEF TreeOps, TenantOps, MirrorOps, UserOps
<1> QED BY <1>1, <1>2, <1>3, <1>4, <1>5, <1>6, <1>7, <1>8, <1>9 DEF AnyStep

LEMMA StaysValidated ==
    ASSUME TreeInv, BindInv, SchemaInv, NEW q \in Requests, AnyStep(q), RowsStay, NEW p \in Requests
    PROVE  Validated(p)'
<1>0. SessionType /\ Validated(p) /\ KnowsUser(p)
  BY DEF TreeInv, SchemaInv, BindInv
<1>1. Only(q) /\ UsersStay
  BY OneMoves DEF AnyStep
<1>2. \A t, pairs : Assignments(t, pairs) => Assignments(t, pairs)'
  BY UserStaysLegal
<1>3. \A t : NodesOf(t) # {} => NodesOf(t)' # {}
  BY DEF NodesOf, RowsStay, Here
<1>4. ASSUME NEW u \in Here(users), NEW pairs, Assignments(users[u].tenant, pairs)
      PROVE  Assignments(users[u].tenant, pairs)'
  <2>1. PICK t : t = users[u].tenant
    OBVIOUS
  <2>2. Assignments(t, pairs)' /\ users'[u].tenant = t
    BY <1>1, <1>2, <1>4, <2>1 DEF UsersStay
  <2> QED BY <2>2 DEF Assignments, NodesOf
<1>5. CASE p # q
  <2>1. step'[p] = step[p] /\ local'[p] = local[p]
    BY <1>1, <1>5 DEF Only
  <2>2. p.op = "patch_user" /\ InFlight(p) /\ p.roles # None => Assignments(users[p.user].tenant, p.roles)'
    BY <1>0, <1>4 DEF Validated, KnowsUser
  <2>3. At(p, "create_user", "insert_user") => (NodesOf(p.tenant) # {})' /\ Assignments(p.tenant, p.roles)'
    BY <1>0, <1>2, <1>3 DEF Validated
  <2>4. /\ At(p, "create_user", "insert_user")' <=> At(p, "create_user", "insert_user")
        /\ InFlight(p)' <=> InFlight(p)
    BY <2>1 DEF At, InFlight
  <2> QED BY <1>0, <2>1, <2>2, <2>3, <2>4 DEF Validated
<1>6. CASE p = q
  <2>1. At(q, "create_user", "insert_user")' => (NodesOf(q.tenant) # {})' /\ Assignments(q.tenant, q.roles)'
    <3> SUFFICES ASSUME At(q, "create_user", "insert_user")'
                 PROVE  (NodesOf(q.tenant) # {})' /\ Assignments(q.tenant, q.roles)'
      OBVIOUS
    <3>1. ValidateUser(q)
      BY <1>0, ValidatesFirst
    <3>2. NodesOf(q.tenant) # {} /\ Assignments(q.tenant, q.roles)
      BY <3>1 DEF ValidateUser, Assignable, Assignments, _validate_roles, _validate_org_nodes
    <3> QED BY <1>2, <1>3, <3>2
  <2>2. q.op = "patch_user" /\ InFlight(q)' /\ q.roles # None => Assignments(users[q.user].tenant, q.roles)'
    <3> SUFFICES ASSUME q.op = "patch_user", InFlight(q)', q.roles # None
                 PROVE  Assignments(users[q.user].tenant, q.roles)'
      OBVIOUS
    <3>1. ReadUser(q) \/ InFlight(q)
      BY <1>0, ValidatesFirst
    <3>2. CASE ReadUser(q)
      <4>1. q.user \in Here(users) /\ Assignments(users[q.user].tenant, q.roles)
        BY <3>2, UserRequestsAssumption
           DEF ReadUser, Assignable, Assignments, _validate_roles, _validate_org_nodes, Here, BindInv, UsersType, UserOps
      <4> QED BY <1>4, <4>1
    <3>3. CASE InFlight(q)
      BY <1>0, <1>4, <1>6, <3>3 DEF Validated, KnowsUser
    <3> QED BY <3>1, <3>2, <3>3
  <2> QED BY <1>6, <2>1, <2>2 DEF Validated
<1> QED BY <1>5, <1>6

LEMMA SchemaKept ==
    ASSUME TreeInv, BindInv, DeskInv, RoleInv, StatusInv, SchemaInv, NEW q \in Requests, AnyStep(q), RowsStay
    PROVE  SchemaInv'
<1>1. NodeChecks' /\ StoreChecks' /\ TenantChecks'
  BY NodesChecked, StoresChecked, TenantsChecked
<1>2. UserChecks' /\ DocChecks'
  BY UsersChecked, DocsChecked
<1>3. \A p \in Requests : Validated(p)'
  BY StaysValidated
<1> QED BY <1>1, <1>2, <1>3 DEF SchemaInv

LEMMA SchemaStarts == Init => SchemaInv
<1> SUFFICES ASSUME Init PROVE SchemaInv
  OBVIOUS
<1>1. /\ \A q \in Requests : step[q] \in {"answered", "received", "arrived"}
      /\ nodes = SeedNodes /\ stores = SeedStores /\ tenants = SeedTenants /\ users = SeedUsers /\ docs = SeedDocs
  BY DEF Init, SessionInit
<1>2. NodeChecks /\ StoreChecks /\ TenantChecks /\ DocChecks
  BY <1>1, SeedChecksAssumption DEF NodeChecks, StoreChecks, TenantChecks, DocChecks
<1>3. UserChecks
  BY <1>1, SeedChecksAssumption DEF UserChecks, LegalUser, Assignments, NodesOf
<1>4. \A q \in Requests : Validated(q)
  BY <1>1 DEF Validated, At, InFlight
<1> QED BY <1>2, <1>3, <1>4 DEF SchemaInv

-----------------------------------------------------------------------------
\* The rows of the two tables of assignments.
LEMMA AssignmentRows ==
    ASSUME TreeInv, BindInv, RoleInv, SchemaInv
    PROVE  /\ \A r \in platform_user_role_assignments :
                 /\ r = [platform_user |-> r.platform_user, role |-> r.role]
                 /\ r.platform_user \in RoleIds
           /\ \A r \in tenant_user_role_assignments :
                 /\ r = [tenant_user |-> r.tenant_user, tenant |-> r.tenant, node |-> r.node, role |-> r.role]
                 /\ r.tenant_user \in Here(users) /\ users[r.tenant_user].tenant = r.tenant
                 /\ r.tenant \in Here(tenants) /\ r.node \in NodesOf(r.tenant) /\ r.role \in TenantRoles
<1>0. held \subseteq RoleIds /\ UserChecks
  BY DEF RoleInv, RolesTypeOK, SchemaInv
<1>1. ASSUME NEW r \in platform_user_role_assignments
      PROVE  /\ r = [platform_user |-> r.platform_user, role |-> r.role]
             /\ r.platform_user \in RoleIds
  <2>1. PICK h \in held : r = [platform_user |-> h, role |-> h]
    BY DEF platform_user_role_assignments
  <2> QED BY <1>0, <2>1
<1>2. ASSUME NEW r \in tenant_user_role_assignments
      PROVE  /\ r = [tenant_user |-> r.tenant_user, tenant |-> r.tenant, node |-> r.node, role |-> r.role]
             /\ r.tenant_user \in Here(users) /\ users[r.tenant_user].tenant = r.tenant
             /\ r.tenant \in Here(tenants) /\ r.node \in NodesOf(r.tenant) /\ r.role \in TenantRoles
  <2>1. PICK u \in Here(users) : \E a \in users[u].roles :
          r = [tenant_user |-> u, tenant |-> users[u].tenant, node |-> a.node, role |-> a.role]
    BY DEF tenant_user_role_assignments
  <2>2. PICK a \in users[u].roles :
          r = [tenant_user |-> u, tenant |-> users[u].tenant, node |-> a.node, role |-> a.role]
    BY <2>1
  <2>3. LegalUser(users[u])
    BY <1>0 DEF UserChecks
  <2> QED BY <2>2, <2>3 DEF LegalUser, Assignments
<1> QED BY <1>1, <1>2

\* The migration of the assignments, there and back.
LEMMA SplitLosesNothing ==
    ASSUME TreeInv, BindInv, RoleInv, SchemaInv
    PROVE  SplitIsLossless
<1> DEFINE P == platform_user_role_assignments
           T == tenant_user_role_assignments
           DP(r) == [platform_user |-> r.platform_user, tenant_user |-> None, role |-> r.role,
                     tenant |-> None, node |-> None]
           DT(r) == [platform_user |-> None, tenant_user |-> r.tenant_user, role |-> r.role,
                     tenant |-> r.tenant, node |-> r.node]
<1>1. \A r \in P : r = [platform_user |-> r.platform_user, role |-> r.role] /\ r.platform_user # None
  BY AssignmentRows, SeedChecksAssumption
<1>2. \A r \in T :
        /\ r = [tenant_user |-> r.tenant_user, tenant |-> r.tenant, node |-> r.node, role |-> r.role]
        /\ r.tenant_user # None /\ r.tenant # None /\ r.node # None /\ r.tenant \in Here(tenants)
  <2> SUFFICES ASSUME NEW r \in T
               PROVE  /\ r = [tenant_user |-> r.tenant_user, tenant |-> r.tenant, node |-> r.node, role |-> r.role]
                      /\ r.tenant_user # None /\ r.tenant # None /\ r.node # None /\ r.tenant \in Here(tenants)
    OBVIOUS
  <2>1. /\ r = [tenant_user |-> r.tenant_user, tenant |-> r.tenant, node |-> r.node, role |-> r.role]
        /\ r.tenant_user \in Here(users) /\ r.tenant \in Here(tenants) /\ r.node \in NodesOf(r.tenant)
    BY AssignmentRows
  <2>2. r.tenant_user \in Users /\ r.tenant \in Tenants /\ r.node \in Nodes
    BY <2>1 DEF NodesOf, Here, BindInv, UsersType, TreeInv, TableInv, TablesType
  <2> QED BY <2>1, <2>2, NoneAssumption, UserRequestsAssumption, SeedChecksAssumption
<1>3. downgrade = {DP(r) : r \in P} \cup {DT(r) : r \in T}
  BY DEF downgrade
<1> HIDE DEF P, T
<1>4. \A row \in downgrade : (\E r \in P : row = DP(r)) \/ (\E r \in T : row = DT(r))
  BY <1>3
<1>5. (\A r \in P : DP(r) \in downgrade) /\ (\A r \in T : DT(r) \in downgrade)
  BY <1>3
<1>6. \A row \in downgrade : user_role_assignments(row)
  BY <1>1, <1>2, <1>4 DEF user_role_assignments
<1>7. upgrade_platform(downgrade) = P
  <2>1. ASSUME NEW r \in P PROVE r \in upgrade_platform(downgrade)
    <3>1. DP(r) \in downgrade /\ OldPolicy(DP(r), None, "PLATFORM") /\ DP(r).platform_user # None
      BY <1>1, <1>5 DEF OldPolicy
    <3>2. r = [platform_user |-> DP(r).platform_user, role |-> DP(r).role]
      BY <1>1
    <3> HIDE DEF DP
    <3> QED BY <3>1, <3>2 DEF upgrade_platform
  <2>2. ASSUME NEW x \in upgrade_platform(downgrade) PROVE x \in P
    <3>1. PICK row \in downgrade : row.platform_user # None /\ x = [platform_user |-> row.platform_user, role |-> row.role]
      BY DEF upgrade_platform
    <3>2. PICK r \in P : row = DP(r)
      BY <1>4, <3>1
    <3> QED BY <1>1, <3>1, <3>2
  <2> QED BY <2>1, <2>2
<1>8. upgrade_tenants(downgrade) = T
  <2>1. ASSUME NEW r \in T PROVE r \in upgrade_tenants(downgrade)
    <3>1. /\ DT(r) \in downgrade /\ OldPolicy(DT(r), r.tenant, "PLATFORM") /\ DT(r).tenant_user # None
          /\ DT(r).tenant = r.tenant /\ r.tenant \in Here(tenants)
      BY <1>2, <1>5 DEF OldPolicy
    <3>2. r = [tenant_user |-> DT(r).tenant_user, tenant |-> DT(r).tenant, node |-> DT(r).node, role |-> DT(r).role]
      BY <1>2
    <3> HIDE DEF DT
    <3> QED BY <3>1, <3>2 DEF upgrade_tenants
  <2>2. ASSUME NEW x \in upgrade_tenants(downgrade) PROVE x \in T
    <3>1. PICK row \in downgrade :
            /\ row.tenant_user # None
            /\ x = [tenant_user |-> row.tenant_user, tenant |-> row.tenant, node |-> row.node, role |-> row.role]
      BY DEF upgrade_tenants
    <3>2. PICK r \in T : row = DT(r)
      BY <1>4, <3>1
    <3> QED BY <1>2, <3>1, <3>2
  <2> QED BY <2>1, <2>2
<1> QED BY <1>6, <1>7, <1>8 DEF SplitIsLossless, P, T

LEMMA RowsSatisfySchema ==
    ASSUME TreeInv, BindInv, DeskInv, RoleInv, StatusInv, SchemaInv
    PROVE  RowsAreLegal
<1>0. /\ TablesType /\ KeysInv /\ ParentInv /\ UsersType /\ TenantTablesType
      /\ AbsentTenants /\ NodeChecks /\ StoreChecks /\ TenantChecks /\ UserChecks /\ DocChecks
  BY DEF TreeInv, TableInv, BindInv, DeskInv, StatusInv, SchemaInv
<1>1. \A t \in Here(tenants) : ck_tenants(tenants[t])
  BY <1>0 DEF TenantChecks
<1>2. \A u \in Here(users) : ck_tenant_users(users[u]) /\ ForeignKey(users[u].tenant, tenants)
  BY <1>0 DEF UserChecks, LegalUser, ForeignKey, Here
<1>3. \A n \in Here(nodes) : ck_org_nodes(nodes[n]) /\ ForeignKey(nodes[n].tenant, tenants)
  <2> SUFFICES ASSUME NEW n \in Here(nodes) PROVE ck_org_nodes(nodes[n]) /\ ForeignKey(nodes[n].tenant, tenants)
    OBVIOUS
  <2>1. nodes[n] \in NodeRows
    BY <1>0 DEF TablesType, Here
  <2>2. nodes[n].status \in OrgNodeStatus
    BY <2>1 DEF NodeRows
  <2>3. nodes[n].archived <=> nodes[n].status = "ARCHIVED"
    BY <1>0 DEF NodeChecks
  <2>4. ForeignKey(nodes[n].tenant, tenants)
    BY <1>0 DEF KeysInv, ForeignKey, Here
  <2>5. CASE nodes[n].type = TENANT
    <3>1. nodes[n].parent = None
      BY <1>0, <2>5 DEF ParentInv
    <3> QED BY <2>2, <2>3, <2>4, <2>5, <3>1 DEF ck_org_nodes
  <2>6. CASE nodes[n].type # TENANT
    <3>1. nodes[n].parent \in Here(nodes) /\ nodes[nodes[n].parent].tenant = nodes[n].tenant
      BY <1>0, <2>6 DEF ParentInv, Above
    <3>2. nodes[n].parent # None /\ nodes[nodes[n].parent] # None
      BY <1>0, <3>1, NoneAssumption DEF Here, TablesType
    <3> QED BY <2>2, <2>3, <2>4, <2>6, <3>1, <3>2 DEF ck_org_nodes
  <2> QED BY <2>5, <2>6
<1>4. \A s \in Here(stores) : ck_stores(stores[s]) /\ ForeignKey(stores[s].node, nodes)
  BY <1>0 DEF StoreChecks, KeysInv, ForeignKey, Here
<1>5. \A t \in Tenants : OnboardingTables(t) /\ \A m \in Modules : ck_tenant_module_access(t, m)
  <2> SUFFICES ASSUME NEW t \in Tenants, NEW m \in Modules PROVE ck_tenant_module_access(t, m)
    BY <1>0 DEF OnboardingTables, AbsentTenants, Here, TablesType
  <2>1. modules[t][m] \in {"ENABLED", "DISABLED", None}
    BY <1>0 DEF TenantTablesType
  <2>2. tenants[t] = None => modules[t][m] = None
    BY <1>0 DEF AbsentTenants, Here
  <2> QED BY <2>1, <2>2 DEF ck_tenant_module_access
<1>6. \A d \in Here(docs) : tenant_documents(docs[d])
  <2> SUFFICES ASSUME NEW d \in Here(docs) PROVE tenant_documents(docs[d])
    OBVIOUS
  <2>1. docs[d] \in DocRows /\ docs[d].tenant \in Here(tenants)
    BY <1>0 DEF TenantTablesType, Here, DocChecks
  <2> QED BY <2>1 DEF tenant_documents, DocRows, ForeignKey, Here
<1>7. AssignmentsAreLegal
  <2>1. \A row \in tenant_user_role_assignments : enforce_tenant_role_audience(row.role) /\ SameTenant(row)
    BY AssignmentRows DEF enforce_tenant_role_audience, SameTenant, NodesOf, Here
  <2> QED BY <2>1 DEF AssignmentsAreLegal
<1> QED
  BY <1>1, <1>2, <1>3, <1>4, <1>5, <1>6, <1>7, SplitLosesNothing DEF RowsAreLegal

\* What every request leaves alone or keeps, together.
RecordsInv == StatusInv /\ SchemaInv

LEMMA RecordsKept ==
    TreeInv /\ BindInv /\ DeskInv /\ RoleInv /\ RecordsInv /\ [Next]_vars => RecordsInv'
<1> SUFFICES ASSUME TreeInv, BindInv, DeskInv, RoleInv, RecordsInv, [Next]_vars PROVE RecordsInv'
  OBVIOUS
<1>1. CASE Next
  <2>1. PICK q \in Requests : AnyStep(q)
    BY <1>1, StepsOfOne
  <2>2. RowsStay
    BY <1>1, EveryStep
  <2>3. StatusInv'
    BY <2>1, <2>2, StatusesKept DEF RecordsInv
  <2>4. SchemaInv'
    BY <2>1, <2>2, SchemaKept DEF RecordsInv
  <2> QED BY <2>3, <2>4 DEF RecordsInv
<1>2. CASE UNCHANGED vars
  <2>1. /\ UNCHANGED <<step, local, locks, nodes, stores, tenants, users, docs, rolePerms, held>>
        /\ UNCHANGED <<sections, modules>>
    BY <1>2 DEF vars, sessionVars, treeVars, userVars, tenantVars, docVars, roleVars
  <2>2. StatusInv'
    BY <2>1 DEF RecordsInv, StatusInv, LocksApart, AbsentTenants, StatusKnown, Watches, ReliesOn, StatusOf, At, Here
  <2>3. SchemaInv'
    BY <2>1 DEF RecordsInv, SchemaInv, NodeChecks, StoreChecks, TenantChecks, UserChecks, LegalUser, Assignments,
       NodesOf, DocChecks, Validated, At, InFlight, Here, ck_stores, ck_tenants, ck_tenant_users
  <2> QED BY <2>2, <2>3 DEF RecordsInv
<1> QED BY <1>1, <1>2

LEMMA RecordsStart == Init => RecordsInv
BY StatusesStart, SchemaStarts DEF RecordsInv

\* Every row that a request commits satisfies the checks and the foreign keys of the schema,
\* none of which guards a write in the model, whatever the interleaving; and the split of the
\* assignments loses no row (RowsAreLegal; the repositories' create, update and transition, and
\* migrations/versions).  The unique indexes and the triggers on roles are not claimed.
THEOREM RowsStayLegal == Spec => []RowsAreLegal
<1>1. TreeInv /\ BindInv /\ DeskInv /\ RoleInv /\ RecordsInv => RowsAreLegal
  BY RowsSatisfySchema DEF RecordsInv
<1> QED
  BY <1>1, TreeStarts, TreeKept, UsersStart, UsersKept, TenantsStart, TenantsKept, RolesStart,
     RolesKept, RecordsStart, RecordsKept, PTL DEF Spec

-----------------------------------------------------------------------------
(* The audit log. *)

Statuses == StoreStatus \cup UserStatus \cup TenantStatus \cup {"ENABLED", "DISABLED", None}
Events == [table : {"platform", "tenant"}, by : {q.by : q \in Requests}, before : Statuses, after : Statuses]

\* The rows about one status follow from one another; nothing is logged about the modules of a
\* tenant before it exists.
TrailInv ==
    /\ trail \in [AuditedRows -> Seq(Events)]
    /\ Here(SeedTenants) \subseteq Here(tenants)
    /\ \A t \in Tenants \ Here(tenants), m \in Modules : trail[<<"module", t, m>>] = <<>>
    /\ TrailsAreChains

LEMMA StatusIsTyped ==
    ASSUME TablesType, UsersType, TenantTablesType, TablesType', UsersType', TenantTablesType', NEW r \in AuditedRows
    PROVE  StatusOf(r) \in Statuses /\ StatusOf(r)' \in Statuses
<1>1. ASSUME NEW s \in Stores, r = <<"store", s>> PROVE StatusOf(r) \in Statuses /\ StatusOf(r)' \in Statuses
  <2>1. StoreStatusNow(s) \in Statuses /\ StoreStatusNow(s)' \in Statuses
    BY DEF StoreStatusNow, Statuses, TablesType, StoreRows
  <2> QED BY <1>1, <2>1, StatusByTable
<1>2. ASSUME NEW u \in Users, r = <<"user", u>> PROVE StatusOf(r) \in Statuses /\ StatusOf(r)' \in Statuses
  <2>1. UserStatusNow(u) \in Statuses /\ UserStatusNow(u)' \in Statuses
    BY DEF UserStatusNow, Statuses, UsersType, UserRows
  <2> QED BY <1>2, <2>1, StatusByTable
<1>3. ASSUME NEW t \in Tenants, r = <<"tenant", t>> PROVE StatusOf(r) \in Statuses /\ StatusOf(r)' \in Statuses
  <2>1. TenantStatusNow(t) \in Statuses /\ TenantStatusNow(t)' \in Statuses
    BY DEF TenantStatusNow, Statuses, TablesType, TenantRows
  <2> QED BY <1>3, <2>1, StatusByTable
<1>4. ASSUME NEW t \in Tenants, NEW m \in Modules, r = <<"module", t, m>>
      PROVE  StatusOf(r) \in Statuses /\ StatusOf(r)' \in Statuses
  <2>1. modules[t][m] \in Statuses /\ modules'[t][m] \in Statuses
    BY DEF Statuses, TenantTablesType
  <2> QED BY <1>4, <2>1, StatusByTable
<1> QED BY <1>1, <1>2, <1>3, <1>4, RowsByTable

\* One more row about a status that follows from the last one.
LEMMA ChainGrows ==
    ASSUME NEW s \in Seq(Events), NEW e \in Events, NEW now, e.before = now,
           \A i \in 2..Len(s) : s[i].before = s[i - 1].after,
           s # <<>> => s[Len(s)].after = now
    PROVE  LET t == Append(s, e) IN
           /\ t \in Seq(Events) /\ t # <<>>
           /\ \A i \in 2..Len(t) : t[i].before = t[i - 1].after
           /\ t[Len(t)].after = e.after
           /\ t[1].before = IF s = <<>> THEN now ELSE s[1].before
<1> DEFINE t == Append(s, e)
<1>1. /\ t \in Seq(Events) /\ t # <<>> /\ Len(s) \in Nat /\ Len(t) = Len(s) + 1
      /\ \A i \in 1..Len(s) : t[i] = s[i]
      /\ t[Len(s) + 1] = e
  BY AppendProperties
<1> HIDE DEF t
<1>2. ASSUME NEW i \in 2..Len(t) PROVE t[i].before = t[i - 1].after
  <2>1. CASE i \in 2..Len(s)
    <3>1. t[i] = s[i] /\ t[i - 1] = s[i - 1]
      BY <1>1, <2>1
    <3> QED BY <2>1, <3>1
  <2>2. CASE i \notin 2..Len(s)
    <3>1. i = Len(s) + 1 /\ i - 1 = Len(s) /\ Len(s) \in 1..Len(s)
      BY <1>1, <2>2
    <3>2. t[i] = e /\ t[i - 1] = s[Len(s)] /\ s # <<>>
      BY <1>1, <3>1
    <3> QED BY <3>2
  <2> QED BY <2>1, <2>2
<1>3. t[Len(t)].after = e.after
  BY <1>1
<1>4. t[1].before = IF s = <<>> THEN now ELSE s[1].before
  <2>1. CASE s = <<>>
    BY <1>1, <2>1
  <2>2. CASE s # <<>>
    <3>1. 1 \in 1..Len(s)
      BY <1>1, <2>2, EmptySeq
    <3> QED BY <1>1, <2>2, <3>1
  <2> QED BY <2>1, <2>2
<1> QED BY <1>1, <1>2, <1>3, <1>4 DEF t

\* What StatusIsTyped needs, before and after the step.
TypesKept == TablesType /\ UsersType /\ TenantTablesType /\ TablesType' /\ UsersType' /\ TenantTablesType'

LEMMA QuietChains ==
    ASSUME TrailsAreChains, Quiet
    PROVE  TrailsAreChains'
<1> SUFFICES ASSUME NEW r \in AuditedRows
             PROVE  (/\ \A i \in 2..Len(trail[r]) : trail[r][i].before = trail[r][i - 1].after
                     /\ trail[r] # <<>> => trail[r][Len(trail[r])].after = StatusOf(r)
                     /\ ~CreatedWithTenant(r) =>
                           SeedStatusOf(r) = IF trail[r] = <<>> THEN StatusOf(r) ELSE trail[r][1].before)'
  BY DEF TrailsAreChains
<1>1. trail' = trail /\ StatusOf(r)' = StatusOf(r)
  BY DEF Quiet
<1>2. /\ \A i \in 2..Len(trail[r]) : trail[r][i].before = trail[r][i - 1].after
      /\ trail[r] # <<>> => trail[r][Len(trail[r])].after = StatusOf(r)
      /\ ~CreatedWithTenant(r) =>
            SeedStatusOf(r) = IF trail[r] = <<>> THEN StatusOf(r) ELSE trail[r][1].before
  BY DEF TrailsAreChains
<1> QED BY <1>1, <1>2 DEF SeedStatusOf, CreatedWithTenant

LEMMA TrailKept ==
    ASSUME TrailInv, StatusInv, TypesKept, NEW q \in Requests, StatusStep(q), RowsStay
    PROVE  TrailInv'
<1>0. /\ trail \in [AuditedRows -> Seq(Events)] /\ TrailsAreChains /\ Here(SeedTenants) \subseteq Here(tenants)
      /\ \A t \in Tenants \ Here(tenants), m \in Modules : trail[<<"module", t, m>>] = <<>>
  BY DEF TrailInv
<1>1. Here(SeedTenants) \subseteq Here(tenants')
  BY <1>0 DEF RowsStay
<1>2. CASE Quiet
  <2>1. TrailsAreChains'
    BY <1>0, <1>2, QuietChains
  <2>2. \A t \in Tenants \ Here(tenants'), m \in Modules : trail'[<<"module", t, m>>] = <<>>
    BY <1>0, <1>2 DEF Quiet, RowsStay
  <2> QED BY <1>0, <1>1, <1>2, <2>1, <2>2 DEF TrailInv, Quiet, Here
<1>3. ASSUME NEW r \in AuditedRows, Logs(q, r) PROVE TrailInv'
  <2> DEFINE e == Event(q, r)
  <2>1. StatusOf(r) \in Statuses /\ StatusOf(r)' \in Statuses
    BY StatusIsTyped DEF TypesKept
  <2>2. e \in Events /\ e.before = StatusOf(r) /\ e.after = StatusOf(r)'
    BY <2>1 DEF Event, Events
  <2>3. trail' = [trail EXCEPT ![r] = Append(trail[r], e)]
    BY <1>3 DEF Logs
  <2> HIDE DEF e
  <2>4. trail[r] \in Seq(Events)
    BY <1>0
  <2>5. /\ Append(trail[r], e) \in Seq(Events) /\ Append(trail[r], e) # <<>>
        /\ \A i \in 2..Len(Append(trail[r], e)) : Append(trail[r], e)[i].before = Append(trail[r], e)[i - 1].after
        /\ Append(trail[r], e)[Len(Append(trail[r], e))].after = StatusOf(r)'
        /\ Append(trail[r], e)[1].before = IF trail[r] = <<>> THEN StatusOf(r) ELSE trail[r][1].before
    <3>1. /\ \A i \in 2..Len(trail[r]) : trail[r][i].before = trail[r][i - 1].after
          /\ trail[r] # <<>> => trail[r][Len(trail[r])].after = StatusOf(r)
      BY <1>0 DEF TrailsAreChains
    <3> QED BY <2>2, <2>4, <3>1, ChainGrows
  <2>6. trail' \in [AuditedRows -> Seq(Events)] /\ trail'[r] = Append(trail[r], e)
        /\ \A x \in AuditedRows \ {r} : trail'[x] = trail[x]
    BY <1>0, <2>3, <2>5
  <2>7. TrailsAreChains'
    <3> SUFFICES ASSUME NEW x \in AuditedRows
                 PROVE  /\ \A i \in 2..Len(trail'[x]) : trail'[x][i].before = trail'[x][i - 1].after
                        /\ trail'[x] # <<>> => trail'[x][Len(trail'[x])].after = StatusOf(x)'
                        /\ ~CreatedWithTenant(x) =>
                              SeedStatusOf(x) = IF trail'[x] = <<>> THEN StatusOf(x)' ELSE trail'[x][1].before
      BY DEF TrailsAreChains, CreatedWithTenant, SeedStatusOf
    <3>0. /\ \A i \in 2..Len(trail[x]) : trail[x][i].before = trail[x][i - 1].after
          /\ trail[x] # <<>> => trail[x][Len(trail[x])].after = StatusOf(x)
          /\ ~CreatedWithTenant(x) =>
                SeedStatusOf(x) = IF trail[x] = <<>> THEN StatusOf(x) ELSE trail[x][1].before
      BY <1>0 DEF TrailsAreChains
    <3>1. CASE x = r
      <4>1. trail'[x] = Append(trail[r], e)
        BY <2>6, <3>1
      <4> QED BY <2>5, <3>0, <3>1, <4>1
    <3>2. CASE x # r /\ StatusOf(x)' = StatusOf(x)
      BY <2>6, <3>0, <3>2
    <3>3. CASE x # r /\ CreatedNow(x)
      <4>1. PICK t \in Tenants, m \in Modules : x = <<"module", t, m>>
        BY <3>3, RowsByTable DEF CreatedNow
      <4>2. t \notin Here(tenants)
        BY <3>3, <4>1 DEF CreatedNow
      <4>3. trail'[x] = <<>>
        BY <1>0, <2>6, <3>3, <4>1, <4>2
      <4>4. CreatedWithTenant(x)
        <5>1. SeedTenants[t] = None
          BY <1>0, <4>2, SeedAssumption DEF Here
        <5> QED BY <4>1, <5>1 DEF CreatedWithTenant
      <4>5. Len(trail'[x]) = 0
        BY <4>3
      <4> QED BY <4>3, <4>4, <4>5
    <3> QED BY <1>3, <3>1, <3>2, <3>3 DEF Logs
  <2>8. \A t \in Tenants \ Here(tenants'), m \in Modules : trail'[<<"module", t, m>>] = <<>>
    <3> SUFFICES ASSUME NEW t \in Tenants \ Here(tenants'), NEW m \in Modules PROVE trail'[<<"module", t, m>>] = <<>>
      OBVIOUS
    <3>1. t \notin Here(tenants) /\ <<"module", t, m>> \in AuditedRows
      BY DEF RowsStay, AuditedRows
    <3>2. <<"module", t, m>> # r
      BY <1>3, <3>1 DEF Logs
    <3> QED BY <1>0, <2>6, <3>1, <3>2
  <2> QED BY <1>1, <2>6, <2>7, <2>8 DEF TrailInv, Here
<1> QED BY <1>2, <1>3 DEF StatusStep

LEMMA TrailStarts == Init => TrailInv
<1> SUFFICES ASSUME Init PROVE TrailInv
  OBVIOUS
<1>1. /\ trail = [r \in AuditedRows |-> <<>>] /\ tenants = SeedTenants /\ stores = SeedStores /\ users = SeedUsers
      /\ modules = SeedModules
  BY DEF Init
<1>2. \A r \in AuditedRows : trail[r] = <<>> /\ Len(trail[r]) = 0 /\ StatusOf(r) = SeedStatusOf(r)
  BY <1>1 DEF StatusOf, SeedStatusOf
<1>3. TrailsAreChains
  BY <1>2 DEF TrailsAreChains
<1>4. \A t \in Tenants, m \in Modules : <<"module", t, m>> \in AuditedRows
  BY DEF AuditedRows
<1>5. trail \in [AuditedRows -> Seq(Events)]
  BY <1>1
<1> QED BY <1>1, <1>2, <1>3, <1>4, <1>5 DEF TrailInv

-----------------------------------------------------------------------------
(* The rows of failed requests. *)

\* A lookup whose columns come in pairs.
Paired(found) ==
    /\ (found.resource = None) = (found.label = None)
    /\ (found.tenant = None) = (found.tenant_name = None)

LEMMA RoutesByOp ==
    /\ DOMAIN AUDITED_ROUTES =
          {"create_tenant", "update_tenant", "transition_tenant", "complete_onboarding", "put_section",
           "patch_onboarding", "create_document", "review_document", "delete_document", "create_user", "patch_user",
           "transition_user", "update_role", "enable_module", "disable_module", "add_node", "edit_node",
           "create_store", "update_store", "transition_store"}
    /\ \A op \in {"create_tenant", "update_tenant", "transition_tenant", "complete_onboarding", "put_section",
                  "patch_onboarding", "create_document", "review_document", "delete_document"} :
          AUDITED_ROUTES[op].resource_type = "TENANT"
    /\ \A op \in {"create_user", "patch_user", "transition_user"} : AUDITED_ROUTES[op].resource_type = "TENANT_USER"
    /\ AUDITED_ROUTES["update_role"].resource_type = "ROLE"
    /\ \A op \in {"enable_module", "disable_module"} : AUDITED_ROUTES[op].resource_type = "MODULE_ACCESS"
    /\ \A op \in {"add_node", "edit_node"} : AUDITED_ROUTES[op].resource_type = "ORG_NODE"
    /\ \A op \in {"create_store", "update_store", "transition_store"} : AUDITED_ROUTES[op].resource_type = "STORE"
BY DEF AUDITED_ROUTES, Route

\* The name of a tenant that exists is one.
LEMMA NameIsKnown ==
    ASSUME TablesType, NEW t, t = None \/ t \in Tenants, t = None \/ tenants[t] # None
    PROVE  (t = None) = (TenantName(t) = None)
<1>1. CASE t = None
  BY <1>1 DEF TenantName
<1>2. CASE t # None
  <2>1. tenants[t] \in TenantRows
    BY <1>2 DEF TablesType
  <2>2. TenantName(t) = tenants[t].name /\ tenants[t].name \in Names
    BY <1>2, <2>1 DEF TenantName, TenantRows
  <2> QED BY <1>2, <2>2, LogAssumption
<1> QED BY <1>1, <1>2

\* Whatever a path names, the columns of the row are filled in pairs.
LEMMA LookupIsPaired ==
    ASSUME TreeInv, BindInv, NEW q \in Requests, q.op \in DOMAIN AUDITED_ROUTES,
           Lookup(q).tenant = None \/ tenants[Lookup(q).tenant] # None
    PROVE  Paired(Lookup(q))
<1>0. TablesType /\ KeysInv /\ UsersType
  BY DEF TreeInv, TableInv, BindInv
<1>1. CASE AUDITED_ROUTES[q.op].resource_type = "TENANT"
  <2> DEFINE t == IF q.op = "create_tenant" THEN None ELSE q.tenant
  <2>1. q.op \in {"create_tenant", "update_tenant", "transition_tenant", "complete_onboarding", "put_section",
                  "patch_onboarding", "create_document", "review_document", "delete_document"}
    BY <1>1, RoutesByOp
  <2>2. t = None \/ t \in Tenants
    BY <2>1, RequestsAssumption, TenantRequestsAssumption
  <2>3. _extract_tenant(q) = FailureContext(t, t)
    BY DEF _extract_tenant
  <2>4. Lookup(q) = LookupTenant(FailureContext(t, t))
    BY <1>1, <2>3 DEF Lookup
  <2> HIDE DEF t
  <2>5. Lookup(q) = Found(t, IF t = None THEN None ELSE TenantName(t), t, TenantName(t))
    BY <2>4 DEF LookupTenant, FailureContext
  <2>6. (t = None) = (TenantName(t) = None)
    BY <1>0, <2>2, <2>5, NameIsKnown DEF Found
  <2> QED BY <2>5, <2>6 DEF Paired, Found
<1>2. CASE AUDITED_ROUTES[q.op].resource_type = "TENANT_USER"
  <2>1. q.op \in {"create_user", "patch_user", "transition_user"}
    BY <1>2, RoutesByOp
  <2>2. q.user \in Users /\ q.user # None /\ <<"user", q.user>> # None
    BY <2>1, UserRequestsAssumption, LogAssumption DEF UserOps, AuditedRows
  <2>3. Lookup(q) = LookupTenantUser(_extract_tenant_user(q))
    BY <1>2 DEF Lookup
  <2>4. CASE q.op = "create_user"
    BY <2>3, <2>4 DEF LookupTenantUser, _extract_tenant_user, FailureContext, Found, Paired
  <2>5. CASE q.op # "create_user" /\ users[q.user] = None
    BY <2>2, <2>3, <2>5, LogAssumption DEF LookupTenantUser, _extract_tenant_user, FailureContext, Found, Paired
  <2>6. CASE q.op # "create_user" /\ users[q.user] # None
    <3> DEFINE t == users[q.user].tenant
    <3>1. users[q.user] \in UserRows
      BY <1>0, <2>2, <2>6 DEF UsersType
    <3>2. t \in Tenants
      BY <3>1 DEF UserRows
    <3>3. Lookup(q) = Found(q.user, <<"user", q.user>>, t, TenantName(t))
      BY <2>2, <2>3, <2>6 DEF LookupTenantUser, _extract_tenant_user, FailureContext
    <3> HIDE DEF t
    <3>4. (t = None) = (TenantName(t) = None)
      BY <1>0, <3>2, <3>3, NameIsKnown DEF Found
    <3> QED BY <2>2, <3>3, <3>4 DEF Paired, Found
  <2> QED BY <2>4, <2>5, <2>6
<1>3. CASE AUDITED_ROUTES[q.op].resource_type = "ROLE"
  <2>1. q.op = "update_role"
    BY <1>3, RoutesByOp
  <2>2. q.role # None /\ <<"role", q.role>> # None
    BY <2>1, RequestsAssumption, SeedChecksAssumption, LogAssumption
  <2>3. Lookup(q) = Found(q.role, <<"role", q.role>>, None, None)
    BY <1>3 DEF Lookup, LookupRole, _extract_role, FailureContext
  <2> QED BY <2>2, <2>3 DEF Paired, Found
<1>4. CASE AUDITED_ROUTES[q.op].resource_type = "MODULE_ACCESS"
  <2>1. q.op \in {"enable_module", "disable_module"}
    BY <1>4, RoutesByOp
  <2>2. q.tenant \in Tenants /\ q.module \in Modules /\ q.module # None /\ <<"module", q.tenant, q.module>> # None
    BY <2>1, TenantRequestsAssumption, LogAssumption DEF AuditedRows
  <2>3. PICK there \in BOOLEAN :
          Lookup(q) = Found(IF there THEN <<"module", q.tenant, q.module>> ELSE None,
                            IF there THEN q.module ELSE None, q.tenant, TenantName(q.tenant))
    BY <1>4 DEF Lookup, LookupModuleAccess, _extract_module_access, FailureContext
  <2>4. (q.tenant = None) = (TenantName(q.tenant) = None)
    BY <1>0, <2>2, <2>3, NameIsKnown DEF Found
  <2> QED BY <2>2, <2>3, <2>4 DEF Paired, Found
<1>5. CASE AUDITED_ROUTES[q.op].resource_type = "ORG_NODE"
  <2>1. q.op \in {"add_node", "edit_node"}
    BY <1>5, RoutesByOp
  <2>2. q.tenant \in Tenants
    BY <2>1, RequestsAssumption
  <2>3. Lookup(q) = LookupOrgNode(_extract_org_node(q))
    BY <1>5 DEF Lookup
  <2>4. Lookup(q).tenant = q.tenant /\ Lookup(q).tenant_name = TenantName(q.tenant)
    BY <2>3 DEF LookupOrgNode, _extract_org_node, FailureContext, Found
  <2>5. (q.tenant = None) = (TenantName(q.tenant) = None)
    BY <1>0, <2>2, <2>4, NameIsKnown
  <2>6. (Lookup(q).resource = None) = (Lookup(q).label = None)
    <3>1. CASE q.op = "add_node"
      BY <2>3, <3>1 DEF LookupOrgNode, _extract_org_node, FailureContext, Found
    <3>2. CASE q.op = "edit_node"
      <4>1. q.node \in Nodes /\ q.node # None /\ <<"node", q.node>> # None
        BY <3>2, RequestsAssumption, NoneAssumption, LogAssumption
      <4>2. Lookup(q).resource = q.node
        BY <2>3, <3>2 DEF LookupOrgNode, _extract_org_node, FailureContext, Found
      <4>3. Lookup(q).label \in {<<"node", q.node>>, Unknown}
        BY <2>3, <3>2, <4>1 DEF LookupOrgNode, _extract_org_node, FailureContext, Found
      <4> QED BY <4>1, <4>2, <4>3, LogAssumption
    <3> QED BY <2>1, <3>1, <3>2
  <2> QED BY <2>4, <2>5, <2>6 DEF Paired
<1>6. CASE AUDITED_ROUTES[q.op].resource_type = "STORE"
  <2>1. q.op \in {"create_store", "update_store", "transition_store"}
    BY <1>6, RoutesByOp
  <2>2. q.store \in Stores /\ q.store # None /\ <<"store", q.store>> # None
    BY <2>1, RequestsAssumption, SeedChecksAssumption, LogAssumption DEF AuditedRows
  <2>3. Lookup(q) = LookupStore(_extract_store(q))
    BY <1>6 DEF Lookup
  <2>4. CASE q.op = "create_store"
    BY <2>3, <2>4 DEF LookupStore, _extract_store, FailureContext, Found, Paired
  <2>5. CASE q.op # "create_store" /\ stores[q.store] = None
    BY <2>2, <2>3, <2>5, LogAssumption DEF LookupStore, _extract_store, FailureContext, Found, Paired
  <2>6. CASE q.op # "create_store" /\ stores[q.store] # None
    <3> DEFINE t == nodes[stores[q.store].node].tenant
    <3>1. q.store \in Here(stores)
      BY <1>0, <2>2, <2>6 DEF TablesType, Here
    <3>2. t \in Tenants
      BY <1>0, <3>1 DEF KeysInv, Here, TablesType
    <3>3. Lookup(q) = Found(q.store, <<"store", q.store>>, t, TenantName(t))
      BY <2>2, <2>3, <2>6 DEF LookupStore, _extract_store, FailureContext
    <3> HIDE DEF t
    <3>4. (t = None) = (TenantName(t) = None)
      BY <1>0, <3>2, <3>3, NameIsKnown DEF Found
    <3> QED BY <2>2, <3>3, <3>4 DEF Paired, Found
  <2> QED BY <2>4, <2>5, <2>6
<1> QED BY <1>1, <1>2, <1>3, <1>4, <1>5, <1>6, RoutesByOp

LEMMA FailuresStayKept ==
    ASSUME TreeInv, BindInv
    PROVE  FailuresAreKept
<1> SUFFICES ASSUME NEW q \in Requests, NEW e, _emit_failure_audit_if_audited(q, e) # None,
                    \/ _emit_failure_audit_if_audited(q, e).found.tenant = None
                    \/ tenants[_emit_failure_audit_if_audited(q, e).found.tenant] # None
             PROVE  Storable(_emit_failure_audit_if_audited(q, e))
  BY DEF FailuresAreKept
<1> DEFINE row == _emit_failure_audit_if_audited(q, e)
<1>1. q.op \in DOMAIN AUDITED_ROUTES
  BY DEF _emit_failure_audit_if_audited
<1>2. PICK result, details, label : row = emit_audit_event_in_new_transaction(q, result, details, label)
  BY DEF _emit_failure_audit_if_audited
<1>3. row.found = Lookup(q) /\ (row.table = "tenant" => Lookup(q).tenant # None)
  BY <1>2 DEF emit_audit_event_in_new_transaction
<1> HIDE DEF row
<1>4. row.found.tenant = None \/ tenants[row.found.tenant] # None
  BY DEF row
<1>5. Paired(Lookup(q))
  BY <1>1, <1>3, <1>4, LookupIsPaired
<1>6. Storable(row)
  BY <1>3, <1>4, <1>5 DEF Storable, Paired
<1> QED BY <1>6 DEF row

-----------------------------------------------------------------------------
(* The pages of the log. *)

\* Rows that a time stamp and an id tell apart.
Keyed(rows) ==
    /\ \A r \in rows : r.at \in Nat /\ r.id \in Nat
    /\ \A r, s \in rows : r.at = s.at /\ r.id = s.id => r = s

LEMMA OlderIsTotal ==
    ASSUME NEW rows, Keyed(rows)
    PROVE  /\ \A r \in rows : ~Older(r, r)
           /\ \A r, s \in rows : r # s => Older(r, s) \/ Older(s, r)
           /\ \A r, s \in rows : ~(Older(r, s) /\ Older(s, r))
           /\ \A r, s, x \in rows : Older(r, s) /\ Older(s, x) => Older(r, x)
<1>1. \A r \in rows : r.at \in Nat /\ r.id \in Nat
  BY DEF Keyed
<1>2. \A r \in rows : ~Older(r, r)
  BY <1>1 DEF Older
<1>3. \A r, s \in rows : r # s => Older(r, s) \/ Older(s, r)
  BY <1>1 DEF Older, Keyed
<1>4. \A r, s \in rows : ~(Older(r, s) /\ Older(s, r))
  BY <1>1 DEF Older
<1>5. \A r, s, x \in rows : Older(r, s) /\ Older(s, x) => Older(r, x)
  BY <1>1 DEF Older
<1> QED BY <1>2, <1>3, <1>4, <1>5

\* The newest row of a set.
Newest(r, rows) == r \in rows /\ \A x \in rows \ {r} : Older(x, r)
Newer(r, rows) == {x \in rows : Older(r, x)}

LEMMA NewestIsThere ==
    ASSUME NEW rows, IsFiniteSet(rows), rows # {}, Keyed(rows)
    PROVE  \E r \in rows : Newest(r, rows)
<1> DEFINE counts == {Cardinality(Newer(r, rows)) : r \in rows}
<1>1. \A r \in rows : IsFiniteSet(Newer(r, rows)) /\ Cardinality(Newer(r, rows)) \in Nat
  BY FS_Subset, FS_CardinalityType DEF Newer
<1>2. counts \in SUBSET Nat /\ counts # {}
  BY <1>1
<1>3. PICK n \in counts : \A y \in counts : ~(y < n)
  BY <1>2, LeastId
<1>4. PICK r \in rows : n = Cardinality(Newer(r, rows))
  OBVIOUS
<1>5. ASSUME NEW x \in rows, x # r, ~Older(x, r) PROVE FALSE
  <2>1. Older(r, x)
    BY <1>5, OlderIsTotal
  <2>2. Newer(x, rows) \subseteq Newer(r, rows)
    BY <2>1, OlderIsTotal DEF Newer
  <2>3. x \in Newer(r, rows) /\ x \notin Newer(x, rows)
    BY <2>1, OlderIsTotal DEF Newer
  <2>4. /\ Cardinality(Newer(x, rows)) <= Cardinality(Newer(r, rows))
        /\ Cardinality(Newer(x, rows)) # Cardinality(Newer(r, rows))
    BY <1>1, <2>2, <2>3, FS_Subset
  <2>5. Cardinality(Newer(x, rows)) \in counts
    OBVIOUS
  <2> QED BY <1>1, <1>3, <1>4, <2>4, <2>5
<1> QED BY <1>5 DEF Newest

\* The first two rows of ORDER BY timestamp DESC, id DESC.
LEMMA FirstIsNewest ==
    ASSUME NEW rows, IsFiniteSet(rows), Keyed(rows), NEW r, Newest(r, rows)
    PROVE  NewestFirst(rows)[1] = r
<1>1. r \in rows /\ Cardinality(rows) \in Nat /\ Cardinality(rows) # 0
  BY FS_CardinalityType, FS_EmptySet DEF Newest
<1>2. 1 \in 1..Cardinality(rows)
  BY <1>1
<1>3. NewestFirst(rows)[1] = CHOOSE x \in rows : Cardinality({y \in rows : Older(x, y)}) = 1 - 1
  BY <1>2 DEF NewestFirst
<1>4. Cardinality({y \in rows : Older(r, y)}) = 1 - 1
  <2>1. {y \in rows : Older(r, y)} = {}
    BY OlderIsTotal DEF Newest
  <2> QED BY <2>1, FS_EmptySet
<1>5. ASSUME NEW x \in rows, x # r PROVE Cardinality({y \in rows : Older(x, y)}) # 1 - 1
  <2>1. r \in {y \in rows : Older(x, y)}
    BY <1>5 DEF Newest
  <2>2. IsFiniteSet({y \in rows : Older(x, y)})
    BY FS_Subset
  <2> QED BY <2>1, <2>2, FS_EmptySet
<1> QED BY <1>1, <1>3, <1>4, <1>5

LEMMA SecondIsNext ==
    ASSUME NEW rows, IsFiniteSet(rows), Keyed(rows), NEW r, Newest(r, rows), NEW s, Newest(s, rows \ {r})
    PROVE  NewestFirst(rows)[2] = s
<1>1. r \in rows /\ s \in rows /\ r # s /\ Older(s, r) /\ Cardinality(rows) \in Nat
  BY FS_CardinalityType DEF Newest
<1>2. 2 \in 1..Cardinality(rows)
  <2>1. Cardinality({r, s}) = 2
    <3>1. {r, s} = {r} \cup {s} /\ s \notin {r}
      BY <1>1
    <3>2. IsFiniteSet({r}) /\ Cardinality({r}) = 1
      BY FS_Singleton
    <3>3. Cardinality({r} \cup {s}) = Cardinality({r}) + 1
      BY <3>1, <3>2, FS_AddElement
    <3> QED BY <3>1, <3>2, <3>3
  <2>2. {r, s} \in SUBSET rows
    BY <1>1
  <2>3. Cardinality({r, s}) <= Cardinality(rows)
    BY <2>2, FS_Subset
  <2> QED BY <1>1, <2>1, <2>3
<1>3. NewestFirst(rows)[2] = CHOOSE x \in rows : Cardinality({y \in rows : Older(x, y)}) = 2 - 1
  BY <1>2 DEF NewestFirst
<1>4. Cardinality({y \in rows : Older(s, y)}) = 2 - 1
  <2>1. {y \in rows : Older(s, y)} = {r}
    BY <1>1, OlderIsTotal DEF Newest
  <2> QED BY <2>1, FS_Singleton
<1>5. ASSUME NEW x \in rows, x # s PROVE Cardinality({y \in rows : Older(x, y)}) # 2 - 1
  <2> DEFINE newer == {y \in rows : Older(x, y)}
  <2>0. IsFiniteSet(newer)
    BY FS_Subset
  <2>1. CASE x = r
    <3>1. newer = {}
      BY <2>1, OlderIsTotal DEF Newest
    <3> QED BY <3>1, FS_EmptySet
  <2>2. CASE x # r
    <3>1. r \in newer /\ s \in newer
      BY <1>1, <1>5, <2>2 DEF Newest
    <3>2. ~ \E y : newer = {y}
      BY <1>1, <3>1
    <3> HIDE DEF newer
    <3>3. Cardinality(newer) # 1
      BY <2>0, <3>2, FS_Singleton
    <3> QED BY <3>3 DEF newer
  <2> QED BY <2>1, <2>2
<1> QED BY <1>1, <1>3, <1>4, <1>5

\* The order is a sequence, and a page is its beginning.
LEMMA PageOfOrder ==
    ASSUME NEW rows, IsFiniteSet(rows), NEW limit \in 1..2
    PROVE  LET fetched == NewestFirst(rows)
               count == IF Len(fetched) < limit THEN Len(fetched) ELSE limit
               items == SubSeq(fetched, 1, count)
           IN  /\ Len(fetched) = Cardinality(rows)
               /\ DOMAIN items = 1..count /\ Len(items) = count
               /\ \A i \in 1..count : items[i] = fetched[i]
<1> DEFINE fetched == NewestFirst(rows)
           n == Cardinality(rows)
           T == {fetched[i] : i \in 1..n}
           count == IF Len(fetched) < limit THEN Len(fetched) ELSE limit
           items == SubSeq(fetched, 1, count)
<1>1. n \in Nat
  BY FS_CardinalityType
<1>2. DOMAIN fetched = 1..n /\ fetched \in [1..n -> T]
  BY DEF NewestFirst
<1> HIDE DEF fetched, n
<1>3. fetched \in Seq(T)
  <2> HIDE DEF T
  <2>1. Seq(T) = UNION {[1..m -> T] : m \in Nat}
    BY SeqDef
  <2>2. [1..n -> T] \in {[1..m -> T] : m \in Nat}
    BY <1>1
  <2>3. fetched \in [1..n -> T]
    BY <1>2
  <2> QED BY <2>1, <2>2, <2>3, Zenon
<1>4. Len(fetched) \in Nat /\ DOMAIN fetched = 1..Len(fetched)
  BY <1>3, LenProperties
<1>5. Len(fetched) = n
  <2>1. ~(Len(fetched) < n)
    BY <1>1, <1>2, <1>4
  <2>2. ~(n < Len(fetched))
    BY <1>1, <1>2, <1>4
  <2>3. \A a, b \in Nat : ~(a < b) /\ ~(b < a) => a = b
    OBVIOUS
  <2> QED BY <1>1, <1>4, <2>1, <2>2, <2>3, Zenon
<1>6. count \in 0..Len(fetched)
  BY <1>4
<1> HIDE DEF count, T
<1>7. /\ items \in Seq(T) /\ Len(items) = count - 1 + 1
      /\ \A i \in 1..(count - 1 + 1) : items[i] = fetched[1 + i - 1]
  <2>1. 1 \in 1..(Len(fetched) + 1) /\ count \in (1 - 1)..Len(fetched)
    BY <1>4, <1>6
  <2> QED BY <1>3, <2>1, SubSeqProperties
<1>8. count \in Nat /\ count - 1 + 1 = count /\ \A i \in 1..count : 1 + i - 1 = i
  BY <1>4, <1>6
<1>9. DOMAIN items = 1..count /\ Len(items) = count
  BY <1>7, <1>8, LenProperties
<1>10. \A i \in 1..count : items[i] = fetched[i]
  BY <1>7, <1>8
<1> QED BY <1>5, <1>9, <1>10 DEF count, fetched, n

\* What a page leaves is what its cursor asks for.
PageFollows(left, limit) ==
    LET fetched == NewestFirst(left)
        count == IF Len(fetched) < limit THEN Len(fetched) ELSE limit
        items == SubSeq(fetched, 1, count)
        shown == {items[i] : i \in DOMAIN items}
    IN  /\ ~(Len(fetched) > limit) => left \ shown = {}
        /\ Len(fetched) > limit =>
              /\ items[Len(items)] \in left
              /\ left \ shown = {x \in left : Older(x, items[Len(items)])}

LEMMA PageIsExact ==
    ASSUME NEW left, IsFiniteSet(left), Keyed(left), NEW limit \in 1..2
    PROVE  PageFollows(left, limit)
<1> DEFINE fetched == NewestFirst(left)
           count == IF Len(fetched) < limit THEN Len(fetched) ELSE limit
           items == SubSeq(fetched, 1, count)
           shown == {items[i] : i \in DOMAIN items}
<1>1. /\ Len(fetched) = Cardinality(left)
      /\ DOMAIN items = 1..count /\ Len(items) = count
      /\ \A i \in 1..count : items[i] = fetched[i]
  BY PageOfOrder
<1> DEFINE n == Cardinality(left)
<1>2. n \in Nat
  BY FS_CardinalityType
<1>3. shown = {fetched[i] : i \in 1..count}
  BY <1>1
<1> HIDE DEF fetched, items, shown
<1>4. count = IF n < limit THEN n ELSE limit
  BY <1>1
<1> HIDE DEF n, count
<1>5. CASE left = {}
  <2>1. n = 0
    BY <1>5, FS_EmptySet DEF n
  <2> QED BY <1>1, <1>5, <2>1 DEF PageFollows, n, fetched, items, shown, count
<1>6. CASE left # {}
  <2>1. PICK r \in left : Newest(r, left)
    BY <1>6, NewestIsThere
  <2>2. fetched[1] = r
    BY <2>1, FirstIsNewest DEF fetched
  <2> DEFINE rest == left \ {r}
  <2>3. IsFiniteSet(rest) /\ Cardinality(rest) = n - 1 /\ Cardinality(rest) \in Nat /\ Keyed(rest)
    BY <2>1, FS_RemoveElement, FS_CardinalityType DEF n, Keyed
  <2>4. \A x \in rest : Older(x, r)
    BY <2>1 DEF Newest
  <2>5. \A x \in left : ~Older(x, x)
    BY OlderIsTotal
  <2>6. \A x, y \in left : ~(Older(x, y) /\ Older(y, x))
    BY OlderIsTotal
  <2>7. CASE rest = {}
    <3>1. n = 1
      BY <1>2, <2>3, <2>7, FS_EmptySet
    <3>2. count = 1 /\ ~(n > limit)
      BY <1>4, <3>1
    <3>3. shown = {r}
      BY <1>3, <2>2, <3>2
    <3>4. left \ shown = {}
      BY <2>7, <3>3
    <3> QED BY <1>1, <3>2, <3>4 DEF PageFollows, n, fetched, items, shown, count
  <2>8. CASE rest # {}
    <3>1. PICK s \in rest : Newest(s, rest)
      BY <2>3, <2>8, NewestIsThere
    <3>2. fetched[2] = s
      BY <2>1, <3>1, SecondIsNext DEF fetched
    <3>3. IsFiniteSet(rest \ {s}) /\ Cardinality(rest \ {s}) = n - 2 /\ Cardinality(rest \ {s}) \in Nat
      <4>1. IsFiniteSet(rest \ {s}) /\ Cardinality(rest \ {s}) = Cardinality(rest) - 1
        BY <2>3, <3>1, FS_RemoveElement
      <4>2. Cardinality(rest \ {s}) \in Nat
        BY <4>1, FS_CardinalityType
      <4> QED BY <1>2, <2>3, <4>1, <4>2
    <3>4. \A x \in rest \ {s} : Older(x, s)
      BY <3>1 DEF Newest
    <3>5. Older(s, r) /\ r # s
      BY <2>4, <3>1
    <3>6. n >= 2
      BY <1>2, <3>3
    <3>7. CASE limit = 1
      <4>1. count = 1 /\ n > limit
        BY <1>2, <1>4, <3>6, <3>7
      <4>2. shown = {r} /\ items[Len(items)] = r
        BY <1>1, <1>3, <2>2, <4>1
      <4>3. left \ shown = {x \in left : Older(x, items[Len(items)])}
        BY <2>1, <2>4, <2>5, <4>2
      <4> QED BY <1>1, <2>1, <4>1, <4>2, <4>3 DEF PageFollows, n, fetched, items, shown, count
    <3>8. CASE limit = 2
      <4>1. count = 2
        BY <1>2, <1>4, <3>6, <3>8
      <4>2. shown = {r, s} /\ items[Len(items)] = s
        <5>1. 1..2 = {1, 2}
          OBVIOUS
        <5>2. shown = {fetched[1], fetched[2]}
          BY <1>3, <4>1, <5>1
        <5> QED BY <1>1, <2>2, <3>2, <4>1, <5>2
      <4>3. left \ shown = {x \in left : Older(x, items[Len(items)])}
        BY <2>5, <2>6, <3>1, <3>4, <3>5, <4>2
      <4>4. ~(n > limit) => left \ shown = {}
        <5> SUFFICES ASSUME ~(n > limit) PROVE left \ shown = {}
          OBVIOUS
        <5>1. Cardinality(rest \ {s}) = 0
          BY <1>2, <3>3, <3>6, <3>8
        <5>2. rest \ {s} = {}
          BY <3>3, <5>1, FS_EmptySet
        <5> QED BY <4>2, <5>2
      <4> QED BY <1>1, <3>1, <4>2, <4>3, <4>4 DEF PageFollows, n, fetched, items, shown, count
    <3> QED BY <3>7, <3>8
  <2> QED BY <2>7, <2>8
<1> QED BY <1>5, <1>6

\* The pages of a set of rows, from the start or from any cursor.
LEMMA ListIsExact ==
    ASSUME NEW rows, IsFiniteSet(rows), Keyed(rows), NEW limit \in 1..2,
           NEW cursor, cursor = None \/ cursor \in [at : Nat, id : Nat]
    PROVE  LET page == list(rows, cursor, limit)
               left == {r \in rows : cursor = None \/ Older(r, cursor)}
               shown == {page.items[i] : i \in DOMAIN page.items}
           IN left \ shown = IF page.next = None THEN {} ELSE {r \in rows : Older(r, page.next)}
<1> DEFINE left == {r \in rows : cursor = None \/ Older(r, cursor)}
           fetched == NewestFirst(left)
           count == IF Len(fetched) < limit THEN Len(fetched) ELSE limit
           items == SubSeq(fetched, 1, count)
           shown == {items[i] : i \in DOMAIN items}
           page == list(rows, cursor, limit)
           last == items[Len(items)]
<1>1. left \in SUBSET rows /\ IsFiniteSet(left) /\ Keyed(left)
  <2>1. left \in SUBSET rows /\ Keyed(left)
    BY DEF Keyed
  <2> QED BY <2>1, FS_Subset
<1>2. \A r \in left : cursor = None \/ Older(r, cursor)
  OBVIOUS
<1>3. page.items = items /\ page.next = IF Len(fetched) > limit THEN _encode_cursor(last) ELSE None
  BY DEF list
<1> HIDE DEF page
<1>4. /\ ~(Len(fetched) > limit) => left \ shown = {}
      /\ Len(fetched) > limit => last \in left /\ left \ shown = {x \in left : Older(x, last)}
  <2> HIDE DEF left
  <2>1. PageFollows(left, limit)
    BY <1>1, PageIsExact
  <2> QED BY <2>1 DEF PageFollows
<1>5. CASE ~(Len(fetched) > limit)
  BY <1>3, <1>4, <1>5 DEF page
<1>6. CASE Len(fetched) > limit
  <2> HIDE DEF fetched, items, last
  <2>1. last \in left /\ left \ shown = {x \in left : Older(x, last)}
    BY <1>4, <1>6
  <2>2. last \in rows /\ last.at \in Nat /\ last.id \in Nat
    BY <1>1, <2>1 DEF Keyed
  <2>3. page.next = [at |-> last.at, id |-> last.id] /\ page.next # None
    <3>1. [at |-> last.at, id |-> last.id] \in [at : Nat, id : Nat]
      BY <2>2
    <3> QED BY <1>3, <1>6, <3>1, LogAssumption DEF _encode_cursor
  <2>4. \A x : Older(x, page.next) <=> Older(x, last)
    BY <2>3 DEF Older
  <2>5. ASSUME NEW x \in rows, Older(x, last) PROVE x \in left
    <3>1. CASE cursor = None
      BY <3>1
    <3>2. CASE cursor # None
      <4>1. cursor.at \in Nat /\ cursor.id \in Nat /\ x.at \in Nat /\ x.id \in Nat
        BY <3>2 DEF Keyed
      <4>2. Older(last, cursor)
        BY <1>2, <2>1, <3>2
      <4>3. Older(x, cursor)
        BY <2>2, <2>5, <4>1, <4>2 DEF Older
      <4> QED BY <4>3
    <3> QED BY <3>1, <3>2
  <2>6. left \ shown = {x \in rows : Older(x, page.next)}
    <3> HIDE DEF left, shown
    <3> QED BY <1>1, <2>1, <2>4, <2>5
  <2> QED BY <1>3, <2>3, <2>6 DEF page
<1> QED BY <1>5, <1>6

\* The rows of the log, in a form that names the row they are about.
RowAt(r, i) == [id |-> AuditIds[r], at |-> i, tenant |-> OwnerOf(r), scope |-> trail[r][i].table]
RowsAbout(r) == {RowAt(r, i) : i \in 1..Len(trail[r])}

LEMMA LogIsKeyed ==
    ASSUME TrailInv
    PROVE  /\ IsFiniteSet(LogRows) /\ Keyed(LogRows)
           /\ \A r \in LogRows : r.scope \in {"platform", "tenant"}
<1>0. trail \in [AuditedRows -> Seq(Events)]
  BY DEF TrailInv
<1>1. LogRows = UNION {RowsAbout(r) : r \in AuditedRows}
  BY DEF LogRows, RowsAbout, RowAt
<1>2. \A x \in LogRows : \E r \in AuditedRows : \E i \in 1..Len(trail[r]) : x = RowAt(r, i)
  BY <1>1 DEF RowsAbout
<1>3. \A r \in AuditedRows : Len(trail[r]) \in Nat /\ \A i \in 1..Len(trail[r]) : trail[r][i] \in Events
  BY <1>0, LenProperties, ElementOfSeq
<1>4. Keyed(LogRows)
  <2>1. \A x \in LogRows : x.at \in Nat /\ x.id \in Nat
    BY <1>2, <1>3, AuditIdsAssumption DEF RowAt
  <2>2. ASSUME NEW x \in LogRows, NEW y \in LogRows, x.at = y.at, x.id = y.id PROVE x = y
    <3>10. PICK r \in AuditedRows : \E i \in 1..Len(trail[r]) : x = RowAt(r, i)
      BY <1>2
    <3>1. PICK i \in 1..Len(trail[r]) : x = RowAt(r, i)
      BY <3>10
    <3>20. PICK s \in AuditedRows : \E j \in 1..Len(trail[s]) : y = RowAt(s, j)
      BY <1>2
    <3>2. PICK j \in 1..Len(trail[s]) : y = RowAt(s, j)
      BY <3>20
    <3>3. i = j /\ AuditIds[r] = AuditIds[s]
      BY <2>2, <3>1, <3>2 DEF RowAt
    <3>4. r = s
      BY <3>3, AuditIdsAssumption
    <3> QED BY <3>1, <3>2, <3>3, <3>4
  <2> QED BY <2>1, <2>2 DEF Keyed
<1>5. \A x \in LogRows : x.scope \in {"platform", "tenant"}
  BY <1>2, <1>3 DEF RowAt, Events
<1>6. ASSUME NEW r \in AuditedRows PROVE IsFiniteSet(RowsAbout(r))
  <2> DEFINE S == 1..Len(trail[r])
             f == [i \in S |-> RowAt(r, i)]
  <2>1. IsFiniteSet(S)
    BY <1>3, FS_Interval
  <2>2. f \in Surjection(S, RowsAbout(r))
    BY DEF Surjection, RowsAbout
  <2> HIDE DEF f, S
  <2> QED BY <2>1, <2>2, FS_Surjection
<1>7. IsFiniteSet({RowsAbout(r) : r \in AuditedRows})
  <2> DEFINE T == {RowsAbout(r) : r \in AuditedRows}
             f == [r \in AuditedRows |-> RowsAbout(r)]
  <2>1. f \in Surjection(AuditedRows, T)
    BY DEF Surjection
  <2> HIDE DEF f, T
  <2>2. IsFiniteSet(T)
    BY <2>1, AuditIdsAssumption, FS_Surjection
  <2> QED BY <2>2 DEF T
<1>8. IsFiniteSet(LogRows)
  <2> DEFINE T == {RowsAbout(r) : r \in AuditedRows}
  <2>1. \A x \in T : IsFiniteSet(x)
    BY <1>6
  <2>2. IsFiniteSet(T) /\ LogRows = UNION T
    BY <1>1, <1>7
  <2> HIDE DEF T
  <2> QED BY <2>1, <2>2, FS_UNION
<1> QED BY <1>4, <1>5, <1>8

LEMMA LogStaysReadable ==
    ASSUME TrailInv
    PROVE  LogIsReadable
<1> SUFFICES ASSUME NEW by \in Callers
             PROVE  LET rows == list_audit_activities(by, None, None) IN
                    /\ \A r \in LogRows : get_audit_activity(by, r) <=> r \in rows
                    /\ \A limit \in 1..2, cursor \in {None} \cup {_encode_cursor(r) : r \in rows} :
                          LET page == list(rows, cursor, limit)
                              left == {r \in rows : cursor = None \/ Older(r, cursor)}
                              shown == {page.items[i] : i \in DOMAIN page.items}
                          IN left \ shown = IF page.next = None THEN {} ELSE {r \in rows : Older(r, page.next)}
  BY DEF LogIsReadable
<1> DEFINE rows == list_audit_activities(by, None, None)
<1>1. IsFiniteSet(LogRows) /\ Keyed(LogRows) /\ \A r \in LogRows : r.scope \in {"platform", "tenant"}
  BY LogIsKeyed
<1>2. by.type \in {"PLATFORM", "TENANT"}
  BY DEF Callers
<1>3. rows \in SUBSET LogRows
  BY DEF list_audit_activities, _build_tenant_only_sql, _build_union_sql
<1>4. \A r \in LogRows : get_audit_activity(by, r) <=> r \in rows
  BY <1>1, <1>2 DEF get_audit_activity, get_by_id, list_audit_activities, _build_tenant_only_sql, _build_union_sql
<1> HIDE DEF rows
<1>5. IsFiniteSet(rows) /\ Keyed(rows)
  <2>1. IsFiniteSet(rows)
    BY <1>1, <1>3, FS_Subset
  <2> QED BY <1>1, <1>3, <2>1 DEF Keyed
<1>6. \A cursor \in {None} \cup {_encode_cursor(r) : r \in rows} : cursor = None \/ cursor \in [at : Nat, id : Nat]
  BY <1>5 DEF Keyed, _encode_cursor
<1>7. ASSUME NEW limit \in 1..2, NEW cursor \in {None} \cup {_encode_cursor(r) : r \in rows}
      PROVE  LET page == list(rows, cursor, limit)
                 left == {r \in rows : cursor = None \/ Older(r, cursor)}
                 shown == {page.items[i] : i \in DOMAIN page.items}
             IN left \ shown = IF page.next = None THEN {} ELSE {r \in rows : Older(r, page.next)}
  BY <1>5, <1>6, ListIsExact
<1> QED BY <1>4, <1>7 DEF rows

LEMMA TrailStaysTrue ==
    TreeInv /\ BindInv /\ DeskInv /\ RecordsInv /\ TrailInv /\ [Next]_vars => TrailInv'
<1> SUFFICES ASSUME TreeInv, BindInv, DeskInv, RecordsInv, TrailInv, [Next]_vars PROVE TrailInv'
  OBVIOUS
<1>1. CASE Next
  <2>1. PICK q \in Requests : AnyStep(q)
    BY <1>1, StepsOfOne
  <2>2. RowsStay
    BY <1>1, EveryStep
  <2>3. StatusInv /\ StatusStep(q)
    BY <2>1, StatusesMove DEF RecordsInv
  <2>4. TreeInv' /\ BindInv' /\ DeskInv'
    BY TreeKept, UsersKept, TenantsKept
  <2>5. TypesKept
    BY <2>4 DEF TypesKept, TreeInv, TableInv, BindInv, DeskInv
  <2> QED BY <2>2, <2>3, <2>5, TrailKept
<1>2. CASE UNCHANGED vars
  <2>1. UNCHANGED <<trail, nodes, stores, tenants, users, modules>>
    BY <1>2 DEF vars, sessionVars, treeVars, userVars, tenantVars, docVars, roleVars
  <2>2. TrailsAreChains'
    <3>1. Quiet
      BY <2>1 DEF Quiet, StatusOf
    <3> QED BY <3>1, QuietChains DEF TrailInv
  <2> QED BY <2>1, <2>2 DEF TrailInv, Here
<1> QED BY <1>1, <1>2

\* The audit log is true, whatever the interleaving: the statuses it records follow from one
\* another up to the current one, the row of a failed request can be stored, and the pages of the
\* list neither skip nor repeat a row and show exactly what the caller may open (AuditIsTrue;
\* audit/emit.py emit_audit_event, repositories/audit_logs.py, routers/v1/audit.py).
THEOREM AuditStaysTrue == Spec => []AuditIsTrue
<1>1. TreeInv /\ BindInv /\ TrailInv => AuditIsTrue
  BY FailuresStayKept, LogStaysReadable DEF AuditIsTrue, TrailInv
<1> QED
  BY <1>1, TreeStarts, TreeKept, UsersStart, UsersKept, TenantsStart, TenantsKept, RolesStart, RolesKept,
     RecordsStart, RecordsKept, TrailStarts, TrailStaysTrue, PTL DEF Spec
=============================================================================
