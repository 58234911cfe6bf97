------------------------- MODULE StreamingConsumer -------------------------
(***************************************************************************)
(* The streaming-consumer: ConsumerPipeline.process over the ingress.ready *)
(* subscription.  A message is one chunk.  Its pipeline fetches the bronze *)
(* object, loads the ACTIVE mapping, reads the store, runs three gates and *)
(* writes the chunk batch by batch; a failure is either held in quarantine *)
(* and acknowledged, or nacked and retried by redelivery.                  *)
(*                                                                         *)
(* What the gates and the CHECKs of the tables say of a chunk depends on   *)
(* the chunk and on the mapping version alone and is a constant here, that *)
(* the instances compute with MappingGates.  What changes between          *)
(* deliveries is what the pipeline waits for: the mirrored store row, the  *)
(* hot position (which a catalogue chunk creates) and the ACTIVE version.  *)
(* CanonicalSink models the write itself; here a batch is one step.        *)
(***************************************************************************)
EXTENDS Subscription, Sequences

CONSTANTS
    KindsOf,     \* what may be published for each chunk, see Kinds
    Templates,   \* mapping templates
    Versions,    \* mapping_version_ids, all templates together
    TemplateOf,  \* event.template_id of each message
    LineageOf,   \* the template of each version
    FirstActive, \* the version each template starts with, if any
    Successors,  \* bound: the versions an operator may activate after each, or at first
    TargetOf,    \* the model each version routes to
    BadConfig,   \* versions whose rules, suite refs or routing are refused
    Verdict,     \* what the gates say of each chunk under each version, and of which rows
    Refusal,     \* the batches whose event rows, or whose hot merge, a CHECK refuses
    Batches      \* batches of a chunk, one row each

Chunks == Messages

\* A message parse_ingress_ready rejects; one whose path or bronze row disagrees with
\* the event; one whose object is not CSV or has no data row; and a sound one.
Kinds == {"malformed", "unbacked", "unparsable", "good"}

Targets == {"sale", "change", "catalogue"}
FailureCode == {"PATH_OR_BRONZE", "CONTRACT_VIOLATION", "MAPPING_CONFIG_INVALID",
                "GATE_FAILED", "VALIDATION_ROW_FAILED", "HOT_POSITION_MISSING",
                "INFRA_FAILURE"}

\* The audit stages a failure may die in.
Stage == {"RECEIVED", "MAPPING_LOOKED_UP", "PRE_MAPPING_VALIDATED", "MAPPING_EXECUTED",
          "POST_MAPPING_VALIDATED", "CANONICAL_WRITTEN"}

\* A row of quarantined_chunks, or the rows of quarantined_rows one hold writes.
Hold == [grain : {"chunk", "rows"}, stage : Stage, code : FailureCode,
         version : Versions \cup {None}, rows : SUBSET (1..Batches)]
Verdicts == [gate : {"pass", "rows", "shape", "config"}, stage : Stage, rows : SUBSET (1..Batches)]
Refusals == [table : SUBSET (1..Batches), hot : SUBSET (1..Batches)]

ASSUME StreamingConsumerAssumption ==
    /\ KindsOf \in [Chunks -> SUBSET Kinds]
    /\ Versions \subseteq Nat
    /\ None \notin Versions
    /\ TemplateOf \in [Chunks -> Templates]
    /\ LineageOf \in [Versions -> Templates]
    /\ FirstActive \in [Templates -> Versions \cup {None}]
    /\ Successors \in [Versions \cup {None} -> SUBSET Versions]
    /\ TargetOf \in [Versions -> Targets]
    /\ BadConfig \subseteq Versions
    /\ \A m \in Chunks, v \in Versions :
         /\ Verdict[m][v] \in Verdicts /\ Refusal[m][v] \in Refusals
         /\ Verdict[m][v].gate # "rows" => Verdict[m][v].rows = {}
    /\ Batches \in Nat \ {0}
    /\ None \notin Hold

VARIABLES
    kind,        \* what was published for each chunk
    active,      \* the ACTIVE version of each template, if any
    mirrored,    \* identity_mirror.stores has the store
    onboarded,   \* the hot table has the SKU's row
    landed,      \* event rows of each chunk: <<version, batch>>
    merged,      \* hot merges of each chunk: <<version, batch>>
    quarantine,  \* hold records of each chunk, in order
    audit,       \* audit.events of this service: <<chunk, stage>>
    pc,          \* where each instance is inside process
    ctx          \* its locals: version, next batch, retried flag, hold to write

pipelineVars == <<pc, ctx>>
configVars == <<kind, active, mirrored>>
storeVars == <<configVars, onboarded, landed, merged, quarantine, audit>>
vars == <<subVars, storeVars, pipelineVars>>

AuditStage == {"RECEIVED", "RETRIED", "QUARANTINED", "WRITTEN"}
Steps == {"ready", "seen", "fetch", "lookup", "store", "gates", "write", "written",
          "hold", "held"}
FlowContext == [version : Versions \cup {None}, batch : 1..Batches,
                seen_before : BOOLEAN, hold : Hold \cup {None}]
Parts == Versions \X (1..Batches)

NoContext == [version |-> None, batch |-> 1, seen_before |-> FALSE, hold |-> None]

TypeOK ==
    /\ SubTypeOK
    /\ kind \in [Chunks -> Kinds \cup {None}]
    /\ active \in [Templates -> Versions \cup {None}]
    /\ mirrored \in BOOLEAN
    /\ onboarded \in BOOLEAN
    /\ landed \in [Chunks -> SUBSET Parts]
    /\ merged \in [Chunks -> SUBSET Parts]
    /\ quarantine \in [Chunks -> Seq(Hold)]
    /\ audit \subseteq Chunks \X AuditStage
    /\ pc \in [Workers -> Steps]
    /\ ctx \in [Workers -> FlowContext]

Init ==
    /\ SubInit
    /\ kind = [m \in Chunks |-> None]
    /\ active = FirstActive
    /\ mirrored = FALSE
    /\ onboarded = FALSE
    /\ landed = [m \in Chunks |-> {}]
    /\ merged = [m \in Chunks |-> {}]
    /\ quarantine = [m \in Chunks |-> <<>>]
    /\ audit = {}
    /\ pc = [w \in Workers |-> "ready"]
    /\ ctx = [w \in Workers |-> NoContext]

-----------------------------------------------------------------------------
(* Around the consumer. *)

\* A producer publishes the envelope of a chunk; CsvIngest shows why not all are sound.
PublishIngressReady(m) ==
    /\ Enqueue(m)
    /\ \E k \in KindsOf[m] : kind' = [kind EXCEPT ![m] = k]
    /\ UNCHANGED <<loopVars, active, mirrored, onboarded, landed, merged, quarantine, audit,
                   pipelineVars>>

\* mirror-sync copies the store from Customer Master.
StoreMirrored ==
    /\ ~mirrored
    /\ mirrored' = TRUE
    /\ UNCHANGED <<subVars, kind, active, onboarded, landed, merged, quarantine, audit, pipelineVars>>

\* An operator makes a newer version of a template the ACTIVE one.
ActivateVersion(v) ==
    /\ v \in Successors[active[LineageOf[v]]]
    /\ active[LineageOf[v]] # None => active[LineageOf[v]] < v
    /\ active' = [active EXCEPT ![LineageOf[v]] = v]
    /\ UNCHANGED <<subVars, kind, mirrored, onboarded, landed, merged, quarantine, audit, pipelineVars>>

-----------------------------------------------------------------------------
(* The exception path of process. *)

\* Mutant: a store that is not mirrored yet counts as a broken contract.
Quarantinable_StoreMissToo(code, channelKnown, field) ==
    /\ code \in {"MAPPING_CONFIG_INVALID", "CONTRACT_VIOLATION"}
    /\ channelKnown

\* _quarantinable: on the allowlist, describable (the bronze row was read, so the
\* channel is known), and not the store miss, which heals by itself.
Quarantinable(code, channelKnown, field) ==
    /\ code \in {"MAPPING_CONFIG_INVALID", "CONTRACT_VIOLATION"}
    /\ channelKnown
    /\ ~(code = "CONTRACT_VIOLATION" /\ field = "store_id")

ReturnTo(w, step) == pc' = [pc EXCEPT ![w] = step]

\* process_message returned; the flow context is gone.
Finish(w) == ReturnTo(w, "ready") /\ ctx' = [ctx EXCEPT ![w] = NoContext]

\* _staged tags an exception with its stage; the engine runs outside of it, and what it
\* raises counts as RECEIVED.
FailedStage(step) ==
    CASE step \in {"lookup", "store"} -> "MAPPING_LOOKED_UP"
      [] step = "write" -> "CANONICAL_WRITTEN"
      [] OTHER -> "RECEIVED"

\* The except clause of process: hold what is quarantinable, re-raise the rest,
\* which process_message turns into a nack.
Raise(w, code, channelKnown, field) ==
    \/ /\ Quarantinable(code, channelKnown, field)
       /\ ctx' = [ctx EXCEPT ![w].hold =
                    [grain |-> "chunk", stage |-> FailedStage(pc[w]), code |-> code,
                     version |-> ctx[w].version, rows |-> {}]]
       /\ ReturnTo(w, "hold")
       /\ UNCHANGED subVars
    \/ /\ ~Quarantinable(code, channelKnown, field)
       /\ ReturnNack(w)
       /\ Finish(w)

\* audit.emit is fire-and-forget: the row may not land.
Emit(m, stage) == audit' \in {audit, audit \cup {<<m, stage>>}}

-----------------------------------------------------------------------------
(* process_message and _process, stage by stage. *)

BeginMessage(w) ==
    /\ NextMessage(w)
    /\ ReturnTo(w, "seen")
    /\ UNCHANGED <<storeVars, ctx>>

\* EventContractError out of parse_ingress_ready: the one ack without a write.
RejectEnvelope(w) ==
    /\ pc[w] = "seen"
    /\ kind[cur[w]] = "malformed"
    /\ ReturnAck(w)
    /\ Finish(w)
    /\ UNCHANGED storeVars

\* _seen_before: a failed readback counts as a first delivery.  FAILURE rows are not kept
\* here, so one of stage RECEIVED does not count where its delivery's own row was lost.
SeenBefore(w) ==
    /\ pc[w] = "seen"
    /\ kind[cur[w]] # "malformed"
    /\ \E seen \in {FALSE, \E s \in {"RECEIVED", "RETRIED"} : <<cur[w], s>> \in audit} :
         ctx' = [ctx EXCEPT ![w].seen_before = seen]
    /\ ReturnTo(w, "fetch")
    /\ UNCHANGED <<subVars, storeVars>>

\* cross_check_path or read_bronze_row refuses: the channel is not known yet.
FetchUnbacked(w) ==
    /\ pc[w] = "fetch"
    /\ kind[cur[w]] = "unbacked"
    /\ Raise(w, "PATH_OR_BRONZE", FALSE, "bronze_ref")
    /\ UNCHANGED storeVars

\* parse_chunk raises after note_bronze.
FetchUnparsable(w) ==
    /\ pc[w] = "fetch"
    /\ kind[cur[w]] = "unparsable"
    /\ Raise(w, "CONTRACT_VIOLATION", TRUE, "none")
    /\ UNCHANGED storeVars

FetchChunk(w) ==
    /\ pc[w] = "fetch"
    /\ kind[cur[w]] = "good"
    /\ Emit(cur[w], IF ctx[w].seen_before THEN "RETRIED" ELSE "RECEIVED")
    /\ ReturnTo(w, "lookup")
    /\ UNCHANGED <<subVars, configVars, onboarded, landed, merged, quarantine, ctx>>

ActiveVersion(w) == active[TemplateOf[cur[w]]]

LookupFails(w) ==
    /\ pc[w] = "lookup"
    /\ ActiveVersion(w) \in BadConfig \cup {None}
    /\ Raise(w, "MAPPING_CONFIG_INVALID", TRUE, "none")
    /\ UNCHANGED storeVars

\* load_active_mapping: read once, used for the rest of this delivery.
LoadActiveMapping(w) ==
    /\ pc[w] = "lookup"
    /\ ActiveVersion(w) \notin BadConfig \cup {None}
    /\ ctx' = [ctx EXCEPT ![w].version = ActiveVersion(w)]
    /\ ReturnTo(w, IF TargetOf[ActiveVersion(w)] = "change" THEN "gates" ELSE "store")
    /\ UNCHANGED <<subVars, storeVars>>

\* Mutant: the instance waits for the store instead of nacking.
StoreMissing_Waits(w) ==
    /\ pc[w] = "store"
    /\ ~mirrored
    /\ UNCHANGED vars

StoreMissing(w) ==
    /\ pc[w] = "store"
    /\ ~mirrored
    /\ Raise(w, "CONTRACT_VIOLATION", TRUE, "store_id")
    /\ UNCHANGED storeVars

ReadStoreFacts(w) ==
    /\ pc[w] = "store"
    /\ mirrored
    /\ ReturnTo(w, "gates")
    /\ UNCHANGED <<subVars, storeVars, ctx>>

GateVerdict(w) == Verdict[cur[w]][ctx[w].version]

\* Mutant: row failures do not stop the chunk.
GatesPass_RowsToo(w) ==
    /\ pc[w] = "gates"
    /\ GateVerdict(w).gate \in {"pass", "rows"}
    /\ ReturnTo(w, "write")
    /\ UNCHANGED <<subVars, storeVars, ctx>>

GatesPass(w) ==
    /\ pc[w] = "gates"
    /\ GateVerdict(w).gate = "pass"
    /\ ReturnTo(w, "write")
    /\ UNCHANGED <<subVars, storeVars, ctx>>

\* MappingConfigError out of the engine, once the version is known.
MappingRefused(w) ==
    /\ pc[w] = "gates"
    /\ GateVerdict(w).gate = "config"
    /\ Raise(w, "MAPPING_CONFIG_INVALID", TRUE, "none")
    /\ UNCHANGED storeVars

\* One quarantined_rows record per distinct failing row.
HeldRows(w) == GateVerdict(w).rows

\* _quarantine_gate_failure: row grain if every failure names a row, else the chunk.
GateFailure(w) ==
    /\ pc[w] = "gates"
    /\ GateVerdict(w).gate \in {"rows", "shape"}
    /\ LET byRow == GateVerdict(w).gate = "rows"
       IN  ctx' = [ctx EXCEPT ![w].hold =
                     [grain |-> IF byRow THEN "rows" ELSE "chunk",
                      stage |-> GateVerdict(w).stage,
                      code |-> IF byRow THEN "VALIDATION_ROW_FAILED" ELSE "GATE_FAILED",
                      version |-> ctx[w].version, rows |-> HeldRows(w)]]
    /\ ReturnTo(w, "hold")
    /\ UNCHANGED <<subVars, storeVars>>

\* The batch's transaction cannot commit: the composite foreign key to the mirrored
\* store, a CHECK of the table its rows enter, or a CHECK of the hot row it merges into.
BatchRefused(w) ==
    LET refusal == Refusal[cur[w]][ctx[w].version]
    IN  \/ ~mirrored
        \/ ctx[w].batch \in refusal.table
        \/ onboarded /\ ctx[w].batch \in refusal.hot

\* What the commit of the next batch leaves in the tables.
BatchCommits(w) ==
    LET m == cur[w]
        part == <<ctx[w].version, ctx[w].batch>>
        creates == TargetOf[ctx[w].version] = "catalogue"
    IN  /\ ~BatchRefused(w)
        /\ landed' = IF creates THEN landed ELSE [landed EXCEPT ![m] = @ \cup {part}]
        /\ merged' = IF creates \/ onboarded
                     THEN [merged EXCEPT ![m] = @ \cup {part}] ELSE merged
        /\ onboarded' = (onboarded \/ creates)

\* One batch of write_chunk or write_catalogue_chunk.
WriteBatch(w) ==
    /\ pc[w] = "write"
    /\ BatchCommits(w)
    /\ onboarded'
    /\ ctx' = [ctx EXCEPT ![w].batch = IF @ < Batches THEN @ + 1 ELSE @]
    /\ ReturnTo(w, IF ctx[w].batch < Batches THEN "write" ELSE "written")
    /\ UNCHANGED <<subVars, configVars, quarantine, audit>>

\* IntegrityError out of the batch's transaction: INFRA_FAILURE, never quarantined;
\* the batches before it stay.
WriteRefused(w) ==
    /\ pc[w] = "write"
    /\ BatchRefused(w)
    /\ Raise(w, "INFRA_FAILURE", TRUE, "none")
    /\ UNCHANGED storeVars

\* Mutant: a hot position miss is logged and the message acknowledged.
HotPositionMissing_Acks(w) ==
    /\ pc[w] = "write"
    /\ BatchCommits(w)
    /\ ~onboarded'
    /\ ReturnAck(w)
    /\ Finish(w)
    /\ UNCHANGED <<configVars, quarantine, audit>>

\* HotPositionMissingError, raised after the batch committed: the events stay.
HotPositionMissing(w) ==
    /\ pc[w] = "write"
    /\ BatchCommits(w)
    /\ ~onboarded'
    /\ Raise(w, "HOT_POSITION_MISSING", TRUE, "none")
    /\ UNCHANGED <<configVars, quarantine, audit>>

ReturnWritten(w) ==
    /\ pc[w] = "written"
    /\ Emit(cur[w], "WRITTEN")
    /\ ReturnAck(w)
    /\ Finish(w)
    /\ UNCHANGED <<configVars, onboarded, landed, merged, quarantine>>

\* hold_chunk / hold_rows: a plain INSERT in its own transaction.
HoldCommits(w) ==
    quarantine' = [quarantine EXCEPT ![cur[w]] = Append(@, ctx[w].hold)]

\* Mutant: the hold is audited and acknowledged without having been written.
WriteHold_Forgets(w) ==
    /\ pc[w] = "hold"
    /\ ReturnTo(w, "held")
    /\ UNCHANGED <<subVars, storeVars, ctx>>

WriteHold(w) ==
    /\ pc[w] = "hold"
    /\ HoldCommits(w)
    /\ ReturnTo(w, "held")
    /\ UNCHANGED <<subVars, configVars, onboarded, landed, merged, audit, ctx>>

ReturnQuarantined(w) ==
    /\ pc[w] = "held"
    /\ Emit(cur[w], "QUARANTINED")
    /\ ReturnAck(w)
    /\ Finish(w)
    /\ UNCHANGED <<configVars, onboarded, landed, merged, quarantine>>

\* An exception no code maps (database, storage): INFRA_FAILURE, nacked.  The same
\* outcome when the hold itself fails, on either path to it.
StepRaises(w) ==
    /\ pc[w] \in {"fetch", "lookup", "store", "gates", "write", "hold"}
    /\ ReturnNack(w)
    /\ Finish(w)
    /\ UNCHANGED storeVars

\* The transaction committed but its caller saw an exception.
CommitRaises(w) ==
    /\ \/ pc[w] = "write" /\ BatchCommits(w) /\ UNCHANGED quarantine
       \/ pc[w] = "hold" /\ HoldCommits(w) /\ UNCHANGED <<landed, merged, onboarded>>
    /\ ReturnNack(w)
    /\ Finish(w)
    /\ UNCHANGED <<configVars, audit>>

-----------------------------------------------------------------------------

PullBatch(w) == Pull(w) /\ UNCHANGED <<storeVars, pipelineVars>>

SettleBatch(w) ==
    /\ Acknowledge(w) \/ ModifyAckDeadline(w)
    /\ UNCHANGED <<storeVars, pipelineVars>>

Crash(w) == PassAborted(w) /\ Finish(w) /\ UNCHANGED storeVars

Expire(m) == LeaseExpires(m) /\ UNCHANGED <<storeVars, pipelineVars>>

Process(w) ==
    \/ RejectEnvelope(w) \/ SeenBefore(w)
    \/ FetchUnbacked(w) \/ FetchUnparsable(w) \/ FetchChunk(w)
    \/ LookupFails(w) \/ LoadActiveMapping(w)
    \/ StoreMissing(w) \/ ReadStoreFacts(w)
    \/ GatesPass(w) \/ MappingRefused(w) \/ GateFailure(w)
    \/ WriteBatch(w) \/ WriteRefused(w) \/ HotPositionMissing(w) \/ ReturnWritten(w)
    \/ WriteHold(w) \/ ReturnQuarantined(w)

WorkerStep(w) ==
    PullBatch(w) \/ BeginMessage(w) \/ Process(w) \/ SettleBatch(w)

WorkerFailure(w) == StepRaises(w) \/ CommitRaises(w) \/ Crash(w)

Next ==
    \/ \E m \in Chunks : PublishIngressReady(m) \/ Expire(m)
    \/ StoreMirrored
    \/ \E v \in Versions : ActivateVersion(v)
    \/ \E w \in Workers : WorkerStep(w) \/ WorkerFailure(w)

Spec == Init /\ [][Next]_vars

\* run_forever never ends and every await returns or raises; a lease runs out.
\* Nothing is assumed of mirror-sync, of operators, or of failures.
Fairness ==
    /\ \A w \in Workers : WF_vars(WorkerStep(w))
    /\ \A m \in Chunks : WF_vars(Expire(m))

FairSpec == Spec /\ Fairness

-----------------------------------------------------------------------------
(* Properties. *)

Held(m) == quarantine[m] # <<>>

\* Every batch of the chunk is in the tables, under one mapping version.
Written(m) ==
    \E v \in Versions : \A b \in 1..Batches :
        /\ <<v, b>> \in merged[m]
        /\ TargetOf[v] # "catalogue" => <<v, b>> \in landed[m]

\* Never ack-and-lose: an acknowledged chunk is malformed, or held in quarantine, or
\* completely written under a single mapping version, whatever failed, was redelivered
\* or was activated in between.
NothingAckedAndLost ==
    \A m \in Chunks : msg[m] = "acked" => kind[m] = "malformed" \/ Held(m) \/ Written(m)

\* Only what no redelivery can heal is held: a chunk is never quarantined because its
\* store was not mirrored or its hot position not onboarded, or because a table refused
\* a batch; a gate's hold names a version under which that gate refuses the chunk, and
\* at row grain exactly the rows that fail. Holds are plain INSERTs: redelivery
\* repeats them, but never more often than the broker delivered the chunk.
HoldsAreDeterministic ==
    \A m \in Chunks : Len(quarantine[m]) <= attempts[m] /\ \A i \in 1..Len(quarantine[m]) :
        LET h == quarantine[m][i]
        IN  CASE h.code = "CONTRACT_VIOLATION" -> kind[m] = "unparsable"
              [] h.code = "VALIDATION_ROW_FAILED" ->
                   /\ h.grain = "rows"
                   /\ Verdict[m][h.version] = [gate |-> "rows", stage |-> h.stage, rows |-> h.rows]
              [] h.code = "GATE_FAILED" ->
                   /\ h.grain = "chunk"
                   /\ Verdict[m][h.version] = [gate |-> "shape", stage |-> h.stage, rows |-> {}]
              [] OTHER ->
                   /\ h.code = "MAPPING_CONFIG_INVALID"
                   /\ h.version # None => Verdict[m][h.version].gate = "config"

\* Validation precedes the write: nothing of a chunk is written under a version whose
\* gates refuse it, not even the batches of its good rows; what passes the gates and
\* violates a CHECK leaves the batches before it, in order, and nothing after.  (A
\* catalogue batch may be the one that creates the hot row: there is nothing to merge into.)
RefusedIsNotWritten ==
    \A m \in Chunks : \A p \in landed[m] \cup merged[m] :
        /\ Verdict[m][p[1]].gate = "pass"
        /\ \A b \in 1..p[2] : b \notin Refusal[m][p[1]].table
        /\ p \in merged[m] /\ TargetOf[p[1]] # "catalogue" =>
             \A b \in 1..p[2] : b \notin Refusal[m][p[1]].hot

\* The audit trail claims only what happened: QUARANTINED follows a durable hold, WRITTEN
\* a complete write, RETRIED a second delivery, although _seen_before asks the trail itself.
AuditIsEarned ==
    \A m \in Chunks :
        /\ <<m, "QUARANTINED">> \in audit => Held(m)
        /\ <<m, "WRITTEN">> \in audit => Written(m)
        /\ <<m, "RETRIED">> \in audit => attempts[m] > 1

\* Every chunk is acknowledged or dead-lettered in the end; the quarantine ends the
\* redelivery of what can never succeed.
ChunkSettles ==
    \A m \in Chunks : (msg[m] = "queued" \/ msg[m] = "leased") ~> Settled(m)
=============================================================================
