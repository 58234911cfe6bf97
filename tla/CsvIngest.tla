----------------------------- MODULE CsvIngest -----------------------------
(***************************************************************************)
(* The CSV ingress lane of DIS: POST /csv-uploads in dis-ui-server, the    *)
(* csv.received subscription, the csv-ingest-worker pipeline, the bronze   *)
(* table and the ingress.ready events the worker publishes.                *)
(*                                                                         *)
(* A file stands for what derive_upload_session_id hashes: one tenant,     *)
(* store, template and content.  It is therefore at once the upload        *)
(* session id, the payload hash and the dedup key.  A trace is minted per  *)
(* upload request; the object path contains it, so a trace is also the     *)
(* gcs_uri of the request's object and names its csv.received message.     *)
(* Audit events and logs are left out: the writers never raise and no step *)
(* of the lane reads them.                                                 *)
(***************************************************************************)
EXTENDS Subscription

CONSTANTS
    Files,        \* distinct uploads: tenant, store, template, bytes
    BadFiles,     \* pass tier-0 but fail the worker's DuckDB preflight
    PiiFiles,     \* have a header the PII gate detects; no backend exists
    Malformed,    \* traces of events whose gcs_uri disagrees with the event
    BronzeIds,    \* ids new_uuid7 may mint
    NoRow,        \* absence of a bronze row
    DedupWindow,  \* DEDUP_WINDOW_HOURS
    MaxNow        \* bound on the clock

Traces == Messages

\* The columns of a bronze row that are written by the INSERT and by nothing else.
BronzeRow == [trace_id : Traces, gcs_uri : Traces, file : Files, received_at : Nat]

RowStatus == {"absent", "RECEIVED", "FAILED", "PUBLISHED"}

ASSUME CsvIngestAssumption ==
    /\ BadFiles \subseteq Files
    /\ PiiFiles \subseteq Files
    /\ Malformed \subseteq Traces
    /\ None \notin Files
    /\ None \notin BronzeIds
    /\ NoRow \notin BronzeRow
    /\ DedupWindow \in Nat
    /\ MaxNow \in Nat

VARIABLES
    objects,  \* GCS: what was written under each trace's path
    bronze,   \* bronze.data_ingress_events, without the column below
    status,   \* its processing_status (published_at is set with PUBLISHED)
    ready,    \* ingress.ready envelopes published so far
    health,   \* the source's telemetry.connector_health row
    now,      \* hours
    pc,       \* where each worker is inside IngestPipeline.process
    target    \* the bronze id whose publish the worker is completing

pipelineVars == <<pc, target>>
vars == <<subVars, objects, bronze, status, ready, health, now, pc, target>>

IngressReadyEnvelope == [trace_id : Traces, bronze_ref : BronzeIds, gcs_uri : Traces]

Steps == {"ready", "read", "insert", "publish", "mark", "seen", "error"}

TypeOK ==
    /\ SubTypeOK
    /\ objects \in [Traces -> Files \cup {None}]
    /\ bronze \in [BronzeIds -> BronzeRow \cup {NoRow}]
    /\ status \in [BronzeIds -> RowStatus]
    /\ ready \subseteq IngressReadyEnvelope
    /\ health \in [status : {"absent", "healthy", "stale"}, last_error : {"null", "set"}]
    /\ now \in Nat
    /\ pc \in [Workers -> Steps]
    /\ target \in [Workers -> BronzeIds \cup {None}]

Init ==
    /\ SubInit
    /\ objects = [t \in Traces |-> None]
    /\ bronze = [b \in BronzeIds |-> NoRow]
    /\ status = [b \in BronzeIds |-> "absent"]
    /\ ready = {}
    /\ health = [status |-> "absent", last_error |-> "null"]
    /\ now = 0
    /\ pc = [w \in Workers |-> "ready"]
    /\ target = [w \in Workers |-> None]

-----------------------------------------------------------------------------
(* POST /csv-uploads.  Requests that a gate rejects (4xx) write nothing. *)

\* The object is written first.  The request may die here, or answer 503 because
\* the write or the publish failed: the object stays, an accepted orphan.
UploadObject(t, f) ==
    /\ t \notin Malformed
    /\ objects[t] = None
    /\ objects' = [objects EXCEPT ![t] = f]
    /\ UNCHANGED <<subVars, bronze, status, ready, health, now, pipelineVars>>

\* Then csv.received is published.  Whether the publish call returns or raises
\* after the message landed (201 or 503) makes no difference to the queue.
PublishCsvReceived(t) ==
    /\ objects[t] # None
    /\ Enqueue(t)
    /\ UNCHANGED <<loopVars, objects, bronze, status, ready, health, now, pipelineVars>>

\* Another producer publishes an event that names a path which is not its own.
PublishMalformed(t) ==
    /\ t \in Malformed
    /\ Enqueue(t)
    /\ UNCHANGED <<loopVars, objects, bronze, status, ready, health, now, pipelineVars>>

-----------------------------------------------------------------------------
(* The bronze table. *)

IsRow(b) == status[b] # "absent"

\* Mutant: the cutoff comparison is strict.
InDedupWindow_Strict(b, f) ==
    /\ IsRow(b)
    /\ bronze[b].file = f
    /\ bronze[b].received_at + DedupWindow > now

\* Same source_payload_id and payload_sha256, received_at >= cutoff.
InDedupWindow(b, f) ==
    /\ IsRow(b)
    /\ bronze[b].file = f
    /\ bronze[b].received_at + DedupWindow >= now

\* The rows SELECT ... ORDER BY received_at DESC LIMIT 1 may return.
find_prior(f) ==
    {b \in BronzeIds :
        /\ InDedupWindow(b, f)
        /\ \A c \in BronzeIds :
             InDedupWindow(c, f) => bronze[c].received_at <= bronze[b].received_at}

\* ... and when it returns none.
NoPrior(f) == \A b \in BronzeIds : ~InDedupWindow(b, f)

is_published(b) == status[b] = "PUBLISHED"

\* Mutant: a FAILED prior is taken for an unfinished one.
IsConcluded_OnlyPublished(b) == is_published(b)

\* The test that opens _handle_duplicate: nothing is left to do for this prior.
IsConcluded(b) == status[b] = "FAILED" \/ is_published(b)

\* Mutant: the row is inserted as already published.
insert_row_Premarked(b, t, st) ==
    /\ bronze' = [bronze EXCEPT ![b] =
         [trace_id |-> t, gcs_uri |-> t, file |-> objects[t], received_at |-> now]]
    /\ status' = [status EXCEPT ![b] = IF st = "RECEIVED" THEN "PUBLISHED" ELSE st]

insert_row(b, t, st) ==
    /\ bronze' = [bronze EXCEPT ![b] =
         [trace_id |-> t, gcs_uri |-> t, file |-> objects[t], received_at |-> now]]
    /\ status' = [status EXCEPT ![b] = st]

\* UPDATE ... WHERE id: no test of the status it overwrites.
mark_published(b) ==
    /\ status' = [status EXCEPT ![b] = "PUBLISHED"]
    /\ UNCHANGED bronze

\* On both publish paths the uri is the incoming event's; the trace and the
\* bronze reference are the row's (its own on the fresh path, the prior's on
\* the resume path; neither field of a row ever changes).
build_ingress_ready(b, t) ==
    [trace_id |-> bronze[b].trace_id, bronze_ref |-> b, gcs_uri |-> t]

-----------------------------------------------------------------------------
(* IngestPipeline.process and process_message. *)

PreflightFails(f) == f \in BadFiles
PiiGateRaises(f) == f \in PiiFiles

BeginMessage(w) ==
    /\ NextMessage(w)
    /\ pc' = [pc EXCEPT ![w] = "read"]
    /\ UNCHANGED <<objects, bronze, status, ready, health, now, target>>

\* EventContractError and EventPathMismatchError are terminal: acked, no write.
RejectEvent(w) ==
    /\ pc[w] = "read"
    /\ cur[w] \in Malformed
    /\ ReturnAck(w)
    /\ pc' = [pc EXCEPT ![w] = "ready"]
    /\ UNCHANGED <<objects, bronze, status, ready, health, now, target>>

\* _handle_duplicate, first branch: the prior ingest failed or was published.
DuplicateNoop(w) ==
    /\ pc[w] = "read"
    /\ cur[w] \notin Malformed
    /\ \E b \in find_prior(objects[cur[w]]) : IsConcluded(b)
    /\ pc' = [pc EXCEPT ![w] = "seen"]
    /\ UNCHANGED <<subVars, objects, bronze, status, ready, health, now, target>>

\* _handle_duplicate, second branch: the prior row landed, its publish did not.
DuplicateResume(w) ==
    /\ pc[w] = "read"
    /\ cur[w] \notin Malformed
    /\ \E b \in find_prior(objects[cur[w]]) :
         /\ ~IsConcluded(b)
         /\ target' = [target EXCEPT ![w] = b]
    /\ pc' = [pc EXCEPT ![w] = "publish"]
    /\ UNCHANGED <<subVars, objects, bronze, status, ready, health, now>>

\* PiiBackendNotConfiguredError is terminal: acked before anything is written.
PiiRejected(w) ==
    /\ pc[w] = "read"
    /\ cur[w] \notin Malformed
    /\ NoPrior(objects[cur[w]])
    /\ ~PreflightFails(objects[cur[w]])
    /\ PiiGateRaises(objects[cur[w]])
    /\ ReturnAck(w)
    /\ pc' = [pc EXCEPT ![w] = "ready"]
    /\ UNCHANGED <<objects, bronze, status, ready, health, now, target>>

\* A new file: preflight (either verdict) and the PII gate lead to an INSERT.
FreshFile(w) ==
    /\ pc[w] = "read"
    /\ cur[w] \notin Malformed
    /\ NoPrior(objects[cur[w]])
    /\ PreflightFails(objects[cur[w]]) \/ ~PiiGateRaises(objects[cur[w]])
    /\ pc' = [pc EXCEPT ![w] = "insert"]
    /\ UNCHANGED <<subVars, objects, bronze, status, ready, health, now, target>>

\* The INSERT commits: RECEIVED, or FAILED for a file that failed preflight.
WriteRow(w, b) ==
    /\ pc[w] = "insert"
    /\ ~IsRow(b)
    /\ insert_row(b, cur[w],
         IF PreflightFails(objects[cur[w]]) THEN "FAILED" ELSE "RECEIVED")

\* Mutant: a preflight failure is reported without its FAILED row.
InsertRow_NoFailedRow(w) ==
    \E b \in BronzeIds :
        /\ pc[w] = "insert"
        /\ ~IsRow(b)
        /\ IF PreflightFails(objects[cur[w]])
           THEN UNCHANGED <<bronze, status>> ELSE insert_row(b, cur[w], "RECEIVED")
        /\ target' = [target EXCEPT ![w] = b]
        /\ pc' = [pc EXCEPT ![w] =
                    IF PreflightFails(objects[cur[w]]) THEN "error" ELSE "publish"]
        /\ UNCHANGED <<subVars, objects, ready, health, now>>

InsertRow(w) ==
    \E b \in BronzeIds :
        /\ WriteRow(w, b)
        /\ target' = [target EXCEPT ![w] = b]
        /\ pc' = [pc EXCEPT ![w] =
                    IF PreflightFails(objects[cur[w]]) THEN "error" ELSE "publish"]
        /\ UNCHANGED <<subVars, objects, ready, health, now>>

PublishIngressReady(w) ==
    /\ pc[w] = "publish"
    /\ ready' = ready \cup {build_ingress_ready(target[w], cur[w])}
    /\ pc' = [pc EXCEPT ![w] = "mark"]
    /\ UNCHANGED <<subVars, objects, bronze, status, health, now, target>>

MarkPublished(w) ==
    /\ pc[w] = "mark"
    /\ mark_published(target[w])
    /\ pc' = [pc EXCEPT ![w] = "seen"]
    /\ UNCHANGED <<subVars, objects, ready, health, now, target>>

\* upsert_health_seen keeps the error fields; the emit is fire-and-forget.
EmitHealthSeen(w) ==
    /\ pc[w] = "seen"
    /\ health' \in {health, [status |-> "healthy", last_error |-> health.last_error]}
    /\ ReturnAck(w)
    /\ pc' = [pc EXCEPT ![w] = "ready"]
    /\ UNCHANGED <<objects, bronze, status, ready, now, target>>

EmitHealthError(w) ==
    /\ pc[w] = "error"
    /\ health' \in {health, [status |-> "stale", last_error |-> "set"]}
    /\ ReturnAck(w)
    /\ pc' = [pc EXCEPT ![w] = "ready"]
    /\ UNCHANGED <<objects, bronze, status, ready, now, target>>

\* Mutant: the blind except acks, as the terminal one does.
StepRaises_Acks(w) ==
    /\ pc[w] \in {"read", "insert", "publish", "mark"}
    /\ ReturnAck(w)
    /\ pc' = [pc EXCEPT ![w] = "ready"]
    /\ UNCHANGED <<objects, bronze, status, ready, health, now, target>>

\* Any other exception out of process (download, database, publish): nacked.
StepRaises(w) ==
    /\ pc[w] \in {"read", "insert", "publish", "mark"}
    /\ ReturnNack(w)
    /\ pc' = [pc EXCEPT ![w] = "ready"]
    /\ UNCHANGED <<objects, bronze, status, ready, health, now, target>>

\* The statement committed but its caller saw an exception (a lost connection).
CommitRaises(w) ==
    /\ \/ \E b \in BronzeIds : WriteRow(w, b)
       \/ pc[w] = "mark" /\ mark_published(target[w])
    /\ ReturnNack(w)
    /\ pc' = [pc EXCEPT ![w] = "ready"]
    /\ UNCHANGED <<objects, ready, health, now, target>>

-----------------------------------------------------------------------------

PullBatch(w) ==
    /\ Pull(w)
    /\ UNCHANGED <<objects, bronze, status, ready, health, now, pipelineVars>>

SettleBatch(w) ==
    /\ Acknowledge(w) \/ ModifyAckDeadline(w)
    /\ UNCHANGED <<objects, bronze, status, ready, health, now, pipelineVars>>

Crash(w) ==
    /\ PassAborted(w)
    /\ pc' = [pc EXCEPT ![w] = "ready"]
    /\ UNCHANGED <<objects, bronze, status, ready, health, now, target>>

Expire(t) ==
    /\ LeaseExpires(t)
    /\ UNCHANGED <<objects, bronze, status, ready, health, now, pipelineVars>>

Tick ==
    /\ now < MaxNow
    /\ now' = now + 1
    /\ UNCHANGED <<subVars, objects, bronze, status, ready, health, pipelineVars>>

Process(w) ==
    \/ RejectEvent(w) \/ DuplicateNoop(w) \/ DuplicateResume(w)
    \/ PiiRejected(w) \/ FreshFile(w) \/ InsertRow(w)
    \/ PublishIngressReady(w) \/ MarkPublished(w)
    \/ EmitHealthSeen(w) \/ EmitHealthError(w)

WorkerStep(w) ==
    PullBatch(w) \/ BeginMessage(w) \/ Process(w) \/ SettleBatch(w)

WorkerFailure(w) == StepRaises(w) \/ CommitRaises(w) \/ Crash(w)

Environment(t) ==
    \/ \E f \in Files : UploadObject(t, f)
    \/ PublishCsvReceived(t)
    \/ PublishMalformed(t)
    \/ Expire(t)

Next ==
    \/ \E t \in Traces : Environment(t)
    \/ \E w \in Workers : WorkerStep(w) \/ WorkerFailure(w)
    \/ Tick

Spec == Init /\ [][Next]_vars

(***************************************************************************)
(* run_forever never stops and every await in it returns or raises, so a   *)
(* worker step that stays possible is taken; a lease that is not settled   *)
(* runs out.  Nothing is assumed of clients, the clock, or failures.       *)
(***************************************************************************)
Fairness ==
    /\ \A w \in Workers : WF_vars(WorkerStep(w))
    /\ \A t \in Traces : WF_vars(Expire(t))

FairSpec == Spec /\ Fairness

-----------------------------------------------------------------------------
(* Properties. *)

\* Write-then-publish: every ingress.ready envelope is backed by a bronze row of
\* the same trace that passed preflight, and the object it points at has the
\* bytes of that row, on the fresh path and on the resume path alike.
WriteThenPublish ==
    \A e \in ready :
        /\ IsRow(e.bronze_ref)
        /\ bronze[e.bronze_ref].trace_id = e.trace_id
        /\ status[e.bronze_ref] # "FAILED"
        /\ bronze[e.bronze_ref].file = objects[e.gcs_uri]

\* mark_published never runs ahead of the publish it records: a PUBLISHED row has
\* an envelope out, whatever crashed or was retried in between.
PublishedWasSent ==
    \A b \in BronzeIds :
        IsRow(b) /\ is_published(b) => \E e \in ready : e.bronze_ref = b

\* What an acknowledged csv.received message has come to.
Concluded(t) ==
    \/ t \in Malformed
    \/ objects[t] \in PiiFiles \ BadFiles
    \/ \E b \in BronzeIds :
         IsRow(b) /\ bronze[b].file = objects[t] /\ IsConcluded(b)

\* process_message acks only what cannot be lost: an acknowledged message is
\* terminal by the code's own classification, or a bronze row of the same upload
\* is FAILED or PUBLISHED.  No crash, nack or duplicate can ack it earlier.
AckedIsConcluded == \A t \in Traces : msg[t] = "acked" => Concluded(t)

\* derive_upload_session_id and find_prior: redeliveries and client retries of one
\* upload never get a second bronze row inside the dedup window.  True of a single
\* worker; the code says so of its query-based check.
OneRowPerWindow ==
    \A b, c \in BronzeIds :
        (b # c /\ IsRow(b) /\ IsRow(c) /\ bronze[b].file = bronze[c].file)
        => \/ bronze[b].received_at > bronze[c].received_at + DedupWindow
           \/ bronze[c].received_at > bronze[b].received_at + DedupWindow

\* What may happen to a row that exists.
RowAdvances(b) ==
    /\ bronze'[b] = bronze[b]
    /\ \/ status'[b] = status[b]
       \/ status[b] = "RECEIVED" /\ status'[b] = "PUBLISHED"

\* Bronze rows are written once and then only marked: no step of any worker deletes a
\* row, changes its lineage, or takes it out of FAILED or PUBLISHED.
RowsOnlyAdvance ==
    [][\A b \in BronzeIds : IsRow(b) => RowAdvances(b)]_<<bronze, status>>

\* connector_health reports an error only for a failure that is durable: there is
\* a FAILED bronze row behind every error stamp.
HealthErrorBacked ==
    health.last_error = "set" \/ health.status = "stale"
        => \E b \in BronzeIds : status[b] = "FAILED"

\* Every csv.received message is acknowledged or dead-lettered in the end, however
\* often the worker crashes, nacks or loses its acknowledgements.
DeliverySettles ==
    \A t \in Traces : (msg[t] = "queued" \/ msg[t] = "leased") ~> Settled(t)

\* The check the consumer makes of an envelope (fetch.py, read_bronze_row).
ConsumerAccepts(e) ==
    /\ IsRow(e.bronze_ref)
    /\ bronze[e.bronze_ref].trace_id = e.trace_id
    /\ bronze[e.bronze_ref].gcs_uri = e.gcs_uri

\* csv_uploads.py says that a client retry of the same bytes converges.  If so, an
\* upload whose row is PUBLISHED has an envelope out that the consumer accepts.
RetryConverges ==
    \A b \in BronzeIds :
        IsRow(b) /\ is_published(b)
        => \E e \in ready : e.bronze_ref = b /\ ConsumerAccepts(e)
=============================================================================
