# Thalamus: a verification project

TLA+ models of Thalamus, the TLC runs that check them on small instances, and TLAPS proofs for
every size. The reference is always the code under `src/`; `PROJECT.json` maps each definition to the
lines it models, lists the hazards of the code and names the properties that would catch them.

## 1. The system

Thalamus receives retail data (CSV uploads, POS connectors), maps it to canonical tables, runs
analyses over them, and keeps the tenants, users and stores all of it belongs to.

| component | state | operations | what is hard |
|---|---|---|---|
| csv-uploads endpoint (dis-ui-server) | GCS objects, `csv.received` | write object, publish | failure between the two; client retries under a new trace |
| csv-ingest-worker | bronze rows, `ingress.ready`, connector health | pull, cross-check, dedup lookup, preflight, PII gate, insert, publish, mark | crash between insert, publish and mark; redelivery; dedup window |
| streaming-consumer, orchestration | quarantine tables, audit events | fetch, mapping lookup, gates, write, hold or nack | hold-then-ack order; dependencies that arrive late; a version activated between two deliveries |
| streaming-consumer, sink | event log, hot table | dedup, insert, hot merge, commit per batch | concurrent instances, READ COMMITTED snapshots, redelivery |
| mapping engine and validation | none: a function of document and frame | parse, normalize, rename, cast, derive, validate, route | the editor's gate and the consumer's gates are different code |
| mapping templates (dis-ui-server) | template versions | create, patch, read | concurrent editors, lock then reread |
| read surfaces (dis-ui-server) | none | runs, quarantine, templates, scoped by the token | counts built from an audit trail that redelivery repeats |
| connector SDK, Square, Clover | bronze, objects, health | authenticate, extract, land, publish, mark | overlapping triggers, rate limits, crashes |
| OAuth token stores | token vault | rotate, persist, recover | single-use refresh tokens, no lock |
| Customer Master | tenants, nodes, stores, users, roles, documents, modules, audit | one transaction per request | concurrent requests, re-pathing of the org tree, permission gate, external identity provider |
| mirror-sync-consumer | identity mirror | read, diff, upsert per tenant | partial and overlapping passes |
| Synapse orchestrator and analyses | provisions, runs, action log | claim, resolve, plan, append, complete | takeover of a slow run, data that moves, midnight of the tenant |
| Synapse console | provisions, decisions | enable, decide, read | double clicks, screens that must agree |
| Axon | delivery ledger | send, record, acknowledge | a mail that is out and not recorded |
| front ends, contracts, infrastructure | none of their own | | |

How they interact: an upload writes an object and publishes `csv.received`; the worker writes a
bronze row and publishes `ingress.ready`, and so do the connectors; the consumer reads the bronze row
and the object, maps them with the ACTIVE version of the template, and writes the event log and the
hot table, or quarantine. Every arrow is a Pub/Sub subscription with at-least-once delivery, a
delivery limit and a dead-letter topic, and all consumers run the same pull loop. Customer Master
reaches DIS through the mirror; Synapse reads the canonical tables and the mirror; its console asks
Axon to send.

What makes each part correct:

- uploads, worker, connectors: nothing is acknowledged or reported before it is durable; nothing is
  published that the consumer cannot find; one upload, one bronze row;
- consumer: never acknowledge and lose; hold what cannot succeed and only that; refuse before writing;
- sink: the log holds a row once; an older event never overwrites a newer hot row; a batch lands in
  both tables or in neither; what is reported as written has landed;
- templates: one DRAFT, one name, live versions frozen, and what is stored is what the consumer runs;
- token stores: while the vendor honours a grant, some stored token leads back to it;
- Customer Master: the tree's paths are its parents, users and identities correspond, onboarding
  completes on what was reviewed, no tenant touches another, the audit tells what happened;
- Synapse and Axon: one outcome per slot and the log behind it; a mail acknowledged is a mail recorded;
- every screen: what it shows is in the tables, once, and only for those it belongs to.

## 2. Modules

Definitions whose name ends in `_Something` after a mapped name (`InDedupWindow_Strict`) are plausible
bugs of the definition that follows them; each property is shown to catch one.

| module | models |
|---|---|
| `Subscription` | the broker (external) and `poll_once` / `run_forever` |
| `CsvIngest`, `CsvIngest_proofs` | the CSV lane on `Subscription`, and its theorems |
| `HotMerge`, `DualWrite`, `CanonicalSink`, `CanonicalSink_proofs` | the sink's data, its abstract specification, `write_chunk` statement by statement, and its theorems |
| `CanonicalModels`, `MappingEngine`, `MappingGates` | canonical columns and CHECKs; the engine; the gates of the editor and of the consumer |
| `StreamingConsumer`, `StreamingConsumer_proofs`, `RunReads` | the consumer's pipeline on `Subscription`, and its theorems; the run and quarantine screens |
| `TokenScope` | dis-ui-server's auth seam: claims, identity, read and write scopes |
| `MappingTemplates`, `MappingTemplates_proofs`, `TemplateReads` | create and patch of templates, and their theorems; the template screens |
| `ConnectorTokens`, `Connector`, `Connector_proofs` | the token chain; a connector run over it; theorems about both |
| `CmSession` | a request as one transaction: steps, locks, commit, rollback |
| `OrgTree`, `TenantUsers`, `TenantLifecycle`, `RoleEdits` | Customer Master's writes |
| `Access`, `AuditLog`, `CmSchema` | permission gate; error classes and audit rows; table constraints |
| `CmReads`, `RoleReads` | Customer Master's reads |
| `CmSchema_proofs` | theorems about the table constraints and the audit log |
| `MirrorSync`, `CustomerMaster`, `CustomerMaster_proofs` | the mirror job; the composition of the above; theorems about tree, stores, users, tenants and their isolation, roles and mirror |
| `SynapseAnalyses`, `SynapseRegistry` | the analyses and their declarations as operators |
| `Axon`, `Synapse`, `SynapseReads`, `Synapse_proofs` | the sender on `Subscription`; orchestrator and console; the screens; theorems about them |
| `MC...` | instances for TLC |

**Subscription.** `msg` and `attempts` are the broker's: a message is queued, leased to a worker, and
acknowledged, queued again or dead. `batch`, `cur`, `acks`, `nacks` are the locals of `poll_once`. The
loop sends its acknowledgements only after the whole batch is routed (`Acknowledge`, then
`ModifyAckDeadline`), so `PassAborted` (a crash, or an exception that `run_forever` swallows) loses
decisions already taken. The broker may drop an acknowledgement and may honour one after the lease
has expired.

**CsvIngest.** A file stands for tenant, store, template and bytes, which is what
`derive_upload_session_id` hashes; a trace stands for one upload request and its object path. The
worker's `pc` names the point inside `IngestPipeline.process`. Each transaction, publish and health
write is a step of its own. `StepRaises` is the blind `except` of `process_message`; `CommitRaises` a
commit that took effect although its caller saw an exception. A malformed event and a PII rejection
are terminal and acknowledged without a write, as `_TERMINAL` says.

**HotMerge, DualWrite, CanonicalSink.** A row of a chunk is its dedup key, SKU, event time and asserted
hot columns. `HotGroup` is `_group_hot`, a fold over the batch. In `CanonicalSink` each statement of a
batch's transaction is a step; a statement sees the tables as committed when it runs; `Conflicts` is
the wait on the unique index, `LockedByOther` the wait on a row lock, after which the WHERE is evaluated
on the new row. A miss is raised after the commit, so the events stay. `Abort` is any exception before
the commit, the deadlock detector's included. `DualWrite` says what this amounts to: a batch is one step
on both tables, and a chunk joins `done` only when all its rows are in the log and no hot row is behind.

**CanonicalModels, MappingEngine, MappingGates.** Cells are values a property can tell apart: a word
with its case, length and padding, a numeral with its separators, a moment with its format. The parser,
the engine's phases and the three gates of the consumer are operators over rows of such cells, as are
the translation of a POST body and the gate of a PATCH document. `chunk_verdict` is the verdict of the
three gates with the stage it was reached in.

**StreamingConsumer.** `process` / `_process` with every exit, down to the audit event and the hold. The
verdict of the gates on a chunk under a version is a constant here; the instance's ASSUME
`GatesAssumption` makes TLC recompute it with `MappingGates` from the rows and the rules. A batch is one
step (`CanonicalSink` opens it up). SUITE_REF_UNSUPPORTED is folded into MAPPING_CONFIG_INVALID.
`RunReads` evaluates the runs list and detail, the quarantine list and counts in the states at rest, for
every caller of `TokenScope`: between them the tables the screens read do not change. FAILURE events are not kept, so
one of stage RECEIVED, which `_seen_before` also counts, does not make a redelivery where its delivery's own
RECEIVED row was lost. Names, the time
window of the quarantine list and the text of failure details are left out.

**MappingTemplates.** POST and PATCH statement by statement: the FOR UPDATE scan with its original
snapshot, the reread, the rename of a lineage, the exclusion constraint, the version trigger. Promotion
and deprecation have no endpoint and are part of the table the editors find. In `TemplateReads` source,
order and timestamps are left out; the stub verifier, which makes the same claim checks, is not mapped.

**ConnectorTokens, Connector.** The vendor's side of a token chain is external. All GETs of an extract
are one request loop, the rows one content value; adapter headers are fixed, so the PII gate passes. A
merchant re-consents only without a working grant and with no rotation in flight. An access token does not
fall due, and the two weeks of `/recovery` do not end, while a pair is rotated, which takes seconds.
`RecoveryLapses` ends those two weeks, `RefreshTokenExpires` the year of the grant, `Revoke` everything.

**Customer Master.** A request is a record; its handler's statements are steps between which other
requests run; what it writes becomes visible in the step that commits. Row locks have Postgres's modes.
Five races of the code are real and have a history flag that says when one has happened: `raced` (a
re-path that waited for another writer keeps the old prefix for rows added meanwhile), `drifted` (Auth0
and the database were changed by overlapping requests), `half` (a request failed after an effect outside
the database), `roleRaced` (two permission edits of roles in flight together), `overlapped` (two mirror
passes under way at once, of which the slower may put older rows back). The invariants then say what
still holds. Reads are operators on the committed rows; order, paging, search, labels and inactive assignments
are left out, and the org-tree payload limits are scaled to 3, 2, 2 and 1.

**Synapse, Axon.** One tenant. Time runs in half days, so an instant has a UTC date and a tenant date.
Each read, claim, append and completion of `run_due` is a transaction, between which sales land, stock
moves, a second execution runs or the process dies. `SynapseRegistry` holds the declarations, the checks
their import makes (ASSUME `RegistryAssumption`) and their resolution: an analysis with a gate is probed
first by two statements of one transaction, which at READ COMMITTED have a snapshot each. An action carries
what was measured; its idempotency key does not, so a take-over that measures anew adds nothing. Dry runs
and the branch above rung SHADOW, which no declaration reaches, are left out. The console answers as its
endpoints do (200, 201, 404, 409, 422). Axon sends first and records second. In `SynapseReads` a page is any
set of rows its LIMIT may cut; the order within a date, names and stores are left out. The inbox, the chips and
the counts of open alerts read `synapse.actions_analytical`, which leaves out quarantined tenants, the tenant's
own list reads `synapse.actions`: both are evaluated for a quarantined tenant and for another. The two provision
lists of a tenant's page have a snapshot each, and every set of analyses may have been disabled in between (the
console does not enable one again; by hand that would leave it out of both lists). The delivery screen is cut
at `DeliveryLimit` and says so (`truncated`), its counts are not cut. Other statements of one screen are read
at one instant.

## 3. Runs

| run | checks | result |
|---|---|---|
| `csv_ingest` | type, WriteThenPublish, PublishedWasSent, AckedIsConcluded, OneRowPerWindow, HealthErrorBacked, RowsOnlyAdvance | pass |
| `csv_delivery` | DeliverySettles under fairness | pass |
| `csv_retry` | RetryConverges | violated, finding 1 |
| `canonical_sink` | type, NoRepeatedRow, HotIsBacked, WrittenHasLanded, HotNeverGoesBack, ImplementsDualWrite | pass |
| `sink_onboarding` | WrittenHasLanded | violated, finding 2 |
| `sink_columns` | LatestWinsPerColumn | violated, finding 3 |
| `sink_tie` | RedeliveryIsIdempotent | violated, finding 4 |
| `streaming_consumer` | NothingAckedAndLost, HoldsAreDeterministic, RefusedIsNotWritten, AuditTrailIsTrue, ChunkSettles | pass |
| `templates` | OneDraft, NamesAreCoherent, ChainIsSound, PatchesAreSerial, StoredRulesLoad, LiveVersionsAreFrozen | pass |
| `connector` | ChainIsRecoverable, FinishedRunIsAnnounced, PostureIsEarned | pass |
| `customer_master` | OrgTreeIsSound, UsersAreBound, TenantsAreSound, OverrideIsHeld, MirrorIsFaithful, AuditIsTrue, RowsAreLegal, ReadsAgree, TenantsAreIsolated | pass |
| `synapse` | RunsAreSound, DeliveriesAreRecorded, SlotsSettle | pass |

What the properties of the larger runs say:

- NothingAckedAndLost: an acknowledged chunk is malformed, held, or completely written under one
  version. HoldsAreDeterministic: only what no redelivery heals is held, never more often than it was
  delivered. RefusedIsNotWritten: nothing of a chunk is written under a version whose gates refuse it.
  AuditTrailIsTrue: an audit row has behind it what it says happened (a hold, a complete write, a second
  delivery), so does the status of a run, every run and every hold is on some page, once, and no other tenant
  sees it. Of the figures only bounds are claimed: accepted is at most the rows that are in, quarantined at
  least the rows of any one hold. The 0 quarantined of a succeeded run and the 0 accepted of a quarantined one
  are not claimed to be true, and are not (see below).
- OneDraft, NamesAreCoherent, PatchesAreSerial, ChainIsSound, LiveVersionsAreFrozen: three editors
  amount to an order of edits, whose numbers and predecessors form one chain, and no edit reaches a
  version that is or was live. StoredRulesLoad: `load_active_mapping` takes every stored version, routes it by
  its columns to the model the gate checked it against by the template's type, and a snapshot brings every
  column a new hot row needs. It does not say that a chunk then passes: PATCH lets a wrong cast and an unknown
  zone through (see below).
- ChainIsRecoverable: after crashes, lost responses and lost writes, and when runs rotate at once, the newest
  record leads back to the grant by itself or by `/recovery`, until the two weeks of `/recovery` are over. Of
  two chains from overlapping rotations one is dead, as `token_store.py:36-40` says, and it may be the stored
  one: the property says that `/recovery` is then the way back, not that none is needed. FinishedRunIsAnnounced: a run that returned success or a
  duplicate has its payload on `ingress.ready`, or a FAILED row. PostureIsEarned: the rate-limit
  posture changes only by a run that met the limit.
- The nine of Customer Master: tree, users, tenants, roles, mirror, audit, the CHECKs and foreign keys of the
  tables (no guard of the model is one of these; uniqueness and the trigger on a role's permissions, for
  which the handlers do rely on the schema, are not claimed), agreement
  of gate, lists, counts and tree on one grant, and isolation of tenants as an action property.
- RunsAreSound: run table, log, exit codes and screens tell one story; in particular a satisfied slot
  has its actions, an alert has its claimed slot and a feed that was live, a plan has a fetch for every
  requirement (FetchesAreBound), of racing requests to enable an analysis one is told 201 and its timezone
  stands (EnablesAreHonest), a decision speaks for every alert on its target, roster, page, chips and
  inbox count alike and, unless the tenant is quarantined, as its own list does (CountsAgree), and the page never
  leaves out an analysis that has a row (PageIsComplete).
- DeliveriesAreRecorded: what was acknowledged is in the ledger, what is there as accepted was mailed, the
  screen shows every acknowledged request or says that it is truncated, its counts range over the whole ledger
  and add up, and a notice on the queue is about an analysis that is enabled.

Bounds and why they are enough.

- `csv_ingest`: two traces, so two uploads, a client retry of one, or both in one batch; two bronze
  ids, so that a wrong second row can exist; two deliveries, so every message is retried once and then
  dead-letters; a window of one hour and a clock of two, so that its edge and its end are reached. One
  worker, as deployed: `OneRowPerWindow` is false of two, as `bronze.py` states.
- `csv_delivery`: one good, one bad and one PII file, one malformed event.
- `canonical_sink`: two instances, three chunks, five transactions. One event chunk has two batches; the
  second repeats a row, corrects another at the same time and names a SKU without a hot row; the
  catalogue chunk updates a SKU and creates another. The case where an event chunk names that SKU is
  `sink_onboarding`.
- `streaming_consumer`: a catalogue chunk that creates the hot row, a sale chunk that needs it and may
  be malformed, unbacked or unparsable; two batches, two deliveries; six versions with every verdict
  (`Successors` bounds the activations); a store that is mirrored late.
- `templates`: three editors, because the third can wait behind a lock whose holder waits for another;
  a live lineage with a withdrawn newest version, a closed one and a fresh id; six rows; nine POST
  bodies and five documents, sound and faulty.
- `connector`: two overlapping runs of one key, three triggers, four tokens (two rotations and a
  re-consent), two attempts, two objects.
- `customer_master`: workloads of two to five requests that meet on the same rows, over one seeded
  database with three tenants; each workload is run in every interleaving with failures.
- `synapse`: two SKUs, two executions with one retry each, one date change, and workloads that bound
  moves, faults, edits, decisions and console requests (one for a new tenant, or two that race for the same
  analysis); time passes where it changes the tenant's date; thresholds are scaled to one or two days, with a
  window of three days over histories that sell, are quiet or have stopped; two rows to a list and one to
  an alert's history, so that both are cut, and one to the delivery screen, so that it is truncated.
- Symmetry: over instances, editors and connector runs; never in a liveness check.
- `CHECK_DEADLOCK FALSE`: the systems come to rest when every message is settled, every request is
  answered, or a bound is reached.

Fairness. `csv_delivery` and `streaming_consumer`: weak fairness of each worker's own steps, because
`run_forever` never ends and every await returns or raises, and of lease expiry, which the broker
guarantees. `synapse`: weak fairness of a started execution and its retry, which the platform owes;
nothing else. Nothing is assumed of clients, clocks, data or failures.

### Findings

1. `csv_retry`: a client retry that resumes an unpublished ingest publishes the retry's `gcs_uri`
   with the prior row's trace and bronze id (`publisher.py:107`). The consumer rejects the pair, the
   row is PUBLISHED, and nothing repairs it; `csv_uploads.py:293-296` says a retry converges.
2. `sink_onboarding`: the UPDATE and the existence check of the incomplete path are two statements. If
   the hot row is created between them, a newer event counts as an older-event no-op and is
   acknowledged without having been merged.
3. `sink_columns`: `_group_hot` keeps one time per group, so the latest value of a column need not win
   as its docstring says.
4. `sink_tie`: with `>=`, a redelivery that ties with a later correction puts the earlier value back
   into the hot row; the module's docstring calls this case idempotent.

### Also seen, without a run

Met while modelling; the models behave as the code does.

Ingest and sink. `_detect_duplicates` takes `prior_trace_id` from the variable of an earlier loop.
`event_rows_written` counts rows that the unique index may have absorbed. Event inserts are not sorted, so
two instances can deadlock on the index; Postgres aborts one (`Abort`).

Runs and quarantine screens.
- On a redelivery identical rows are suppressed, so `rows_succeeded` and the "accepted" of `/runs` can be 0
  although all rows are in. `_accepted` (`handlers/runs.py:70-74`) says "quarantined/failed committed nothing",
  which is false when earlier batches landed. `_quarantined` (`handlers/runs.py:87`) says "held-row count", and shows the row
  count of the chunk.
- A run that was written and later held under another version shows "succeeded" with 0 quarantined, as
  `handlers/runs.py:87-88` prescribes, while its items are on the quarantine page. A failure before the bronze row is read has no bronze id, so its
  run stays "processing". The engine's MappingConfigError is untagged and is counted under "other".
- The gate's FAILURE message says "chunk nacked" although the chunk is then held and acknowledged.
- The consumer emits RECEIVED/SUCCESS with a row count as the upload does, so `rows_ingested_24h` counts
  such rows twice. The quarantine list reads two tables and the open count in separate statements.

Mapping.
- `mapping_validation.py:3-5` says of a stored document: "anything it would refuse must be a clean 400 HERE,
  never a stored-invalid-config write", it being the consumer. PATCH stores rules whose cast does not fit the
  model or that name an unknown zone; the consumer loads them and refuses every chunk. Hence StoredRulesLoad
  stops at what `load_active_mapping` takes. Violations of table
  CHECKs pass the gates and end in the dead letter, which `validate_post.py` states is deliberate.
- POST cannot map json columns, so an inventory_change template made by POST cannot satisfy
  `ck_ssce_at_least_one_value_present`; POST derives nothing, so `event_date` may disagree with the UTC date
  of the timestamp; a destination such as tenant_id raises FieldCatalogDriftError rather than a 400.
- A sale with a promo identifier merged into a hot row without a promo price violates a CHECK. An integer
  constant is Int32 and never passes an Int64 column; smallint overflow fails only at the INSERT.
- Three PATCH sessions can deadlock on row locks; Postgres aborts one.

Connectors. CloverOAuthError is not a ConnectorError, so Clover authentication failures leave `run` without
audit or health, although the comment in `pipeline.py` says audited. `token_store.py:36-40` rules overlapping
rotations out by deployment ("one trigger per process") and demands a lock or a compare-and-set before they are
allowed. The model allows them: the stored chain may be the dead one, and then only `/recovery`, for two weeks,
saves the merchant a new consent, so the demand stands. `real_transport` passes no cursor.

Customer Master.
- Re-pathing is not "every descendant" when a writer overlaps (`raced`). Names are unique only by the
  application's check. Onboarding checks `completed_at` without a lock, and contacts can be emptied while it
  completes. The module-enable recovery reuses a session that was rolled back. Before-images of tenants,
  users and roles are read without a lock.
- `has_permission` says "ACTIVE assignment of an ACTIVE role", the SQL checks neither the role's nor the
  user's status. `create_tenant` says TRIAL and creates ONBOARDING. `schemas/store.py:21` says OPENING, the
  DDL default is ACTIVE. `provision_tenant_auth0` says it writes nothing and stores the organisation id.
- A grant below the root can create and list stores but not edit them: they are anchored at the root.
- Failures of the provision, channels and invitation routes are not audited; failure rows of POST /stores
  and /tenant-users go to the platform table without a tenant; a 403 on an unknown tenant loses its row to
  the foreign key. Audit times are the transaction's start, so a pager can miss rows that commit late.
- An identity is unique per tenant only (`current_schema.sql:1326`): an invited user who is given a new address
  keeps the old identity, and a user with the old address who is then provisioned in another tenant gets the
  same one. `tenant_users.py:499-506` and `905-909` name the unique index as the authority on addresses; the
  model's guard is that index.
- The mirror reads tenants and stores in two snapshots, so a store can wait for the next pass.

Synapse and Axon.
- A takeover after the data moved appends corrections, contrary to "byte-identical actions". A retry after
  the tenant's midnight claims the next slot and leaves the old one unfinished. When executions overlap the
  last completion wins. A failed run records 0 appended although rows landed.
- A slot stays open if its provision is disabled before the retry. Axon's "failed" row may hide a sent mail.
- `resolve_current_state` truncates at 5000 rows where the others raise. `recent_deliveries` reports
  truncation at exactly 200. `/deliveries` calls list and counts "one screenshot of one moment"
  (`main.py:850-852`) and reads them in two sessions, so a row written in between is counted and not listed.
- `reads.py:452-454` says a provision is "in exactly one list" and `reads.py:485-491` that both are of one
  snapshot; under READ COMMITTED each statement has its own, and an analysis disabled in between is in both.
- The alerts of a quarantined tenant are on its own list, which reads `synapse.actions`, and nowhere else: not
  in the inbox, its chips or the open count of the tenant's own page.
- Axon's `subscriber.py:14-18` says "a plain nack, not `ack_deadline_seconds = 0`", so that the retry policy sets
  the pace of five attempts; line 243 sets the deadline to 0, as the streaming consumer does.
- The comments of the probe in `daily_series.py` and of `Observation` in `resolution.py` say that one
  transaction makes counts and identities describe the same instant; at READ COMMITTED a sale that lands
  between the two statements makes them differ, and the slot of that day fails. `resolution.py` says that
  coverage only grows, which a correction that moves a line's date or SKU refutes. The history of an old
  alert is its target's 50 newest, which need not hold the alert itself.
- Freshness counts returns, voids and superseded lines and uses the UTC date; dead_stock counts surviving
  sales and uses the slot, so a tenant behind UTC can be called stale while dead_stock still runs.

## 4. Proofs

Eight modules of theorems. Each holds for every value of the constants that the named ASSUMEs of the modules
allow: limits are positive, a value that stands for "absent" is not a member of the set it is absent from,
constant tables have their types, and what a model finds at the start is a state the tables can be in. TLC
evaluates every one of these assumptions on the runs. An entry in the last column is the property a run
checks; "part of" means that the theorem states one named conjunct of it.

| module | theorem | property |
|---|---|---|
| `CsvIngest_proofs` | TypeCorrect | TypeOK |
| | PublishIsBacked | WriteThenPublish |
| | MarkFollowsPublish | PublishedWasSent |
| | NothingLost | AckedIsConcluded |
| | BronzeAdvances | RowsOnlyAdvance |
| | ErrorsAreDurable | HealthErrorBacked |
| | NoDuplicateRow | OneRowPerWindow, assuming a single worker |
| `CanonicalSink_proofs` | SinkTypes | TypeOK |
| | RowsAreUnique | NoRepeatedRow |
| | HotOnlyAdvances | HotNeverGoesBack |
| | HotRowsAreBacked | HotIsBacked |
| | ReportedHasLanded | WrittenHasLanded, assuming OnboardedFirst |
| | SinkRefinesDualWrite | ImplementsDualWrite, assuming OnboardedFirst |
| `StreamingConsumer_proofs` | ConsumerTypes | type correctness |
| | ConsumerLosesNothing | NothingAckedAndLost |
| | RefusedStaysOut | RefusedIsNotWritten |
| | HoldsAreJust | HoldsAreDeterministic |
| | AuditRowsAreEarned | AuditIsEarned, part of AuditTrailIsTrue |
| `MappingTemplates_proofs` | TemplatesAreTyped | type correctness, part of ChainIsSound |
| | PatchesTakeTurns | PatchesAreSerial |
| | DraftsAreUnique | OneDraft |
| | NamesStayCoherent | NamesAreCoherent |
| | VersionsStayChained | VersionsAreChained, part of ChainIsSound |
| | ChainStaysSound | ChainIsSound |
| | StoredVersionsLoad | StoredRulesLoad |
| | LiveVersionsStayFrozen | LiveVersionsAreFrozen |
| `Connector_proofs` | TokensStayRecoverable | ChainIsRecoverable |
| | FinishedRunsAreAnnounced | FinishedRunIsAnnounced |
| | PosturesAreEarned | PostureIsEarned |
| `Synapse_proofs` | SynapseTypes | TypeOK, part of RunsAreSound |
| | DeliveriesStayRecorded | DeliveriesAreRecorded |
| | EnablesStayHonest, ActionsStayClaimed, SatisfiedRunsAreLogged, GreenStaysClean, DecisionsStayStanding | EnablesAreHonest, ActionsAreClaimed, SatisfiedIsAppended, GreenIsClean, DecisionsStand, parts of RunsAreSound |
| | RunsStaySound | RunsAreSound, from these and the screens |
| `CustomerMaster_proofs` | OrgTreeStaysSound | OrgTreeIsSound, from RowsAreTyped, ParentsStayAbove and StoresStayPaired for its other parts |
| | UsersStayBound | UsersAreBound |
| | TenantsStaySound | TenantsAreSound |
| | TenantsStayIsolated | TenantsAreIsolated |
| | OverrideStaysHeld | OverrideIsHeld |
| | MirrorStaysFaithful | MirrorIsFaithful |
| `CmSchema_proofs` | RowsStayLegal | RowsAreLegal |
| | AuditStaysTrue | AuditIsTrue |

In each module an inductive invariant (`IInv`, or one per theorem) is shown to hold at first and to be kept
by every action, with one lemma per kind of step; those of Synapse and of Customer Master (`PathInv` on
part of its states, `BindInv`, `DeskInv` and `OwnersInv` on all) were also given to TLC as invariants of the run's instance. None of the properties is inductive, for a reason of its own.

- **CsvIngest.** The publish and the mark act on a target chosen steps earlier, and a decision to
  acknowledge waits in the worker's list until the batch ends. So: the target of a worker about to publish
  or mark is a row of its message's file that is not FAILED (`TargetInv`); its envelope is out before the
  mark (`SentInv`); a message in an ack list, or whose worker is at the health emit, is concluded already
  (`ConcludedInv`); a message anywhere in a worker has its object (`ArrivedInv`); one that can still be
  delivered is below the limit (`AttemptsInv`). `NoDuplicateRow` adds that between the lookup and the insert
  of the only worker no row of the file appears in the window.
- **CanonicalSink.** What a transaction has not committed must be as good as committed: the unique index
  ranges over uncommitted rows of all writers (`UniqueInv`), a hot row is held by one of them (`LockInv`),
  and a held row is the merge of the batch's group into the committed row, which nobody has changed since
  (`MergeInv`). `ProgressInv` says that what a writer has passed has landed, is held or is a miss. It needs
  the proviso `OnboardedFirst`, that no catalogue chunk brings the first hot row of a SKU an event chunk
  names; run `sink_onboarding` shows that without it the property is false. The refinement maps the commit of a batch to
  the one step of `DualWrite` and every other statement to a stutter.
- **StreamingConsumer.** A delivery decides, another may be half way through the same chunk under another
  version. The invariant says per instance what its locals promise (`LocalsInv`, `ChunkInv`): the batches it
  has passed were legal and are in under its version (`WrittenUpTo`), and what it is about to hold is held
  justly. `CountInv` bounds holds and audit rows: those made and the deliveries that may still make one
  are together no more than the deliveries.
- **MappingTemplates.** A PATCH scans with an old snapshot and waits for row locks. `SnapInv` says that the
  snapshots of two patches of one template are nested and that one which decides has locked all of its own,
  so that it sees the whole lineage (`EditInv`); `PendInv` and `NameInv` say what uncommitted rows may be,
  also beside those of the other transactions. For the screens in ChainIsSound the version trigger is not enough:
  `RowsInv` also says that a DRAFT is the newest version of its template, which the seed satisfies
  (`SeedAssumption`) and every edit keeps, since a PATCH of a live version writes the next number and one of
  a DRAFT writes in place. Then the list, the detail and the version chain of a template agree for every
  caller (`TokenAssumption`: NULL is no claim; `RulesAssumption`: a rules document has finitely many keys).
  StoredVersionsLoad rests on the gate: a stored document covers the mandatory columns of its type's model and
  names none outside it, so its columns tell the model (`StorableLoads`, by cases on the models), and parsing
  the stored form again gives the same document (`ParseAgain`).
- **Connector.** Runs that rotate at once have all read one record; once the first of them has been granted
  a pair, every record that exists names the token `/recovery` accepts, for as long as that lasts
  (`ChainInv`); that ends only when no rotation is under way. A second invariant follows a run from landing to mark (`RunInv`, `LimitInv`).
- **Synapse, Axon.** Mails that are out and deliveries that may still mail (`MayMail`) are together no more
  than the deliveries (`MailInv`). The tables of an execution only accrue (`Accrues`): rows are claimed and
  finished for good, plans, actions and rewritten slots add up. So what the locals of an execution say of
  them survives the steps of all others (`SlotStays`): its plan is in the log but for what is pending
  (`Planned`), and what it reports is finished as reported, or was completed once more (`ReportInv`).
  `NoticeInv` ties a message on the topic to the request that published it. RunsAreSound needs a second
  invariant beside it, `ReadsInv`: only a mirrored tenant is provisioned, swept or asked about (`MirrorInv`;
  a request or a sweep under way makes the next row, so it speaks of those too); every plan ever computed names a SKU
  once, with stock behind it and a sale line recent enough for its date (`PlansInv`); a plan under way has its
  fetches bound and stock figures it can evaluate (`FetchInv`, `Stocked`). A plan is computed from lines that
  may move before it is appended; lines only grow, so what backed it stays (`BackedStays`). That a plan is
  sound is shown from the two evaluators and their refusals (`DeadStockIsSound`, `StockoutIsSound`), that its
  fetches are bound from the resolution of the declarations (`FetchesResolved`). A page is any cut by date, so
  the lists agree as sets of possible pages (`EventPages`), and a satisfied slot shows what it proposed because
  the map from its plan into the log is injective (`ProposedAreShown`). That no disable between its two statements
  makes a page incomplete is `PageDoesComplete`, that a delivery screen below its limit is the whole ledger
  `ScreenAgrees`. The assumptions are what the tables'
  types and CHECKs say (a stock figure is a natural number or NULL, a sale has a date, NULL is none of the
  values), that there are finitely many time zones, and that stockout_risk gives a series up no later than
  dead_stock gives up the feed, which `core/analysis.py` keeps equal.
- **Customer Master, mirror.** What a request checked in one statement must still stand in the next, which
  other requests precede. `TreeInv` says so per request (`LocalInv`): the parent it read is a node of its
  tenant above the type it writes, the store it locked still has its node. It is kept because rows never
  vanish and never change tenant or type (`RowsStay`), so the tree needs no lock for this, only the foreign
  keys (`KeysInv`) and the one root of a tenant (`RootInv`); the pairing of store and node rests on their
  being written in one transaction under the store's lock (`PairInv`). The paths do need locks. `PathInv`
  says that no two transactions hold one node (`ExclusiveInv`), and that one which holds its node still
  knows that node's path, its new parent's path and the subtree it is about to rewrite (`PathsRead`), as
  long as no re-path had to wait (`raced`); codes are unique in a tenant (`CodesInv`), so a path names one
  node and each of its labels is an ancestor (`AncestorsAreThere`), an edit rewrites exactly the subtree
  (`PathsEdited`), and no other request's subtree gains or loses a row meanwhile. `BindInv` is about users: a
  PATCH that holds the row's lock knows its assignments, and its new address is nobody else's (`KnowsUser`);
  as long as the requests that touch Auth0 neither overlap nor fail (`drifted`), what they read still stands
  and every identity has its user's id and address (`UsersAgree`). That no two users of a tenant share an
  identity needs only the index; that no two users do, until `drifted`, needs `UsersAgree`. `DeskInv` is about tenants: the lock of
  `complete_onboarding` keeps new documents out between its check and its commit, a reviewed document is
  never written again, the facts a profile rests on only accrue (`ProfilesAccrue`), and no two requests hold
  one document or one channel (`HoldersApart`), so the row and what is outside the database are changed by
  one request at a time. `OwnersInv` is about the requests of a tenant's users: past the gate none is for an
  endpoint of the platform, and past its first statement, the one the row policies filter, the row it is
  about is of its own tenant; since no row changes tenant, this stands until the commit, which therefore
  changes nothing outside that tenant (`Confined`). `RoleInv` says that an edit that has
  counted is alone unless `roleRaced` (`EditsAreAlone`), `MirrorInv` that a pass writes only what it read,
  that it is alone unless `overlapped` (`PassesAreAlone`), and that what a finished pass stood for is in the
  mirror (`Mirrored`). The attempts corrected the model four times: a second pass that stops half way
  may have written older rows, so an upsert now ends what `synced` says; `add_node` admits neither TENANT
  nor STORE (`schemas/org_node.py`), which the requests' assumption had not said; the guard of a first
  sign-in (`reconcile_acceptance_on_login`) reads the user under the row policies too; and the arms of some
  CASEs (`Transitioned`, `Projected`) overlapped, which TLC reads in order and TLA+ does not.
- **Customer Master, schema and audit.** An audit row tells a change from a status read statements before the
  write. `LocksApart` says that the locks of two transactions on one row are compatible, and `StatusKnown` that
  a request about to set a status holds the row's lock and knows the status it has, so what it logs starts
  where the row is (`StatusInv`). `SchemaInv` says what a request has validated by the time it writes, the
  assignments of a user in particular; with it each row a commit writes meets
  the CHECKs and foreign keys of its table, from a seed that does
  (`SeedChecksAssumption`). `TrailInv` says that the rows of the log about one status follow from one another up to
  the status it has now. Pages are proved right for any finite log in which no two rows have the same time and
  id (`PageFollows`): what a page leaves is what the next one starts with (`AuditIdsAssumption`; `LogAssumption`
  says that NULL is none of the values logged).

The induction theorems of the library cannot be used with these provers; where a proof needs induction over
numbers (`HotGroup`'s fold over a batch, the smallest position of a set), it takes the least element of the
set of counterexamples, which exists because `<` is well-founded on the naturals.

Only model-checked: `DeliverySettles`, `ChunkSettles` and `SlotsSettle`, since liveness under fairness is
beyond the prover; the screens in AuditTrailIsTrue, which walk the trail recursively; what the mapping engine
computes; and ReadsAgree, which compares gate, lists, counts and tree of Customer Master over every grant.

## 5. Not modelled, and the plan

Not modelled: aggregates, display names and failure text of the screens; the stores, sources, field
catalogue and canonical-row reads of dis-ui-server; the upload endpoint's gates, which reject before any
write; login, catalogue and time zones of the Synapse console; the provider clients; Customer Master's
token verification; front ends, contracts and infrastructure; migrations other than the constraints the
map names. These are presentation, I/O or data formats without state of their own. Row-level security
appears as the scope a session reads and writes under. In the sink, change stamps, the staleness map and
SKU variants are left out; no guard reads them.

What is left is proofs: of ReadsAgree the part about the lists, and of AuditTrailIsTrue the pages without a
walk.
