------------------------------ MODULE RunReads ------------------------------
(***************************************************************************)
(* What dis-ui-server shows of the consumer's work: GET /runs, whose       *)
(* status is derived from the audit events of a run, and GET /quarantine   *)
(* with GET /quarantine/{item_id} over the two hold tables.  Each read is  *)
(* an operator on the committed rows and takes no step.                    *)
(*                                                                         *)
(* The consumer's FAILURE events are emitted on every exception and, like  *)
(* every audit event, may not land: the reads take them as a parameter and *)
(* the properties hold with and without them.  Display names, and the time *)
(* filter of the quarantine list, are left out.                            *)
(***************************************************************************)
EXTENDS StreamingConsumer, TokenScope, TLC

CONSTANTS
    Owner,       \* the tenant of every chunk
    ReceivedAt,  \* bronze.received_at of each chunk
    IdOf         \* bronze.id of each chunk

ASSUME RunReadsAssumption ==
    /\ Owner \in Tenants
    /\ None \notin Tenants
    /\ ReceivedAt \in [Chunks -> Nat]
    /\ IdOf \in [Chunks -> Nat]
    /\ \A m, n \in Chunks : IdOf[m] = IdOf[n] => m = n

-----------------------------------------------------------------------------
(* Who reads. *)

\* The tenant predicate of every statement, and the policy of the session behind it.
tenant_term(scope) == read_session(scope, Owner)

-----------------------------------------------------------------------------
(* The audit events of a run. *)

AuditEvent(stage, outcome, version, rows) ==
    [stage |-> stage, outcome |-> outcome, mapping_version_id |-> version, row_count |-> rows]

WrittenUnder(m, v) ==
    \A b \in 1..Batches : /\ <<v, b>> \in merged[m]
                          /\ TargetOf[v] # "catalogue" => <<v, b>> \in landed[m]

\* CANONICAL_WRITTEN counts the rows this delivery inserted: a redelivery suppresses the
\* ones that landed before.  A catalogue counts its merges instead.
written_events(m) ==
    {AuditEvent("CANONICAL_WRITTEN", "SUCCESS", v, n) :
        v \in {v \in Versions : <<m, "WRITTEN">> \in audit /\ WrittenUnder(m, v)}, n \in 0..Batches}

\* _emit_quarantined carries the rows of the chunk, known once it was parsed.
quarantined_events(m) ==
    IF <<m, "QUARANTINED">> \in audit
    THEN {AuditEvent("QUARANTINED", "SUCCESS", quarantine[m][i].version,
                     IF kind[m] = "good" THEN Batches ELSE None) : i \in DOMAIN quarantine[m]}
    ELSE {}

received_events(m) ==
    {AuditEvent("RECEIVED", IF s = "RETRIED" THEN "RETRIED" ELSE "SUCCESS", None, Batches) :
        s \in {s \in {"RECEIVED", "RETRIED"} : <<m, s>> \in audit}}

\* The FAILURE event of process or of a gate, joined to its run by the bronze id: a
\* failure before the bronze row was read has none.
failure_events(m) ==
    IF attempts[m] > 0 /\ kind[m] \in {"unparsable", "good"}
    THEN {AuditEvent(s, "FAILURE", None, None) : s \in Stage} ELSE {}

run_events(m, failures) ==
    written_events(m) \cup quarantined_events(m) \cup received_events(m) \cup failures

-----------------------------------------------------------------------------
(* GET /runs. *)

AnyStage == None
RunStatus == {"processing", "succeeded", "quarantined", "failed"}
CATALOGUE_TABLE == "catalogue"

\* In order of precedence, whatever the order of the events in time.
TERMINAL_CROSSWALK ==
    <<[stage |-> "CANONICAL_WRITTEN", outcome |-> "SUCCESS", verdict |-> "succeeded"],
      [stage |-> "QUARANTINED", outcome |-> "SUCCESS", verdict |-> "quarantined"],
      [stage |-> AnyStage, outcome |-> "FAILURE", verdict |-> "failed"]>>

rule_matches(rule, event) ==
    /\ event.outcome = rule.outcome
    /\ rule.stage = AnyStage \/ rule.stage = event.stage

matching_rules(event) ==
    {i \in DOMAIN TERMINAL_CROSSWALK : rule_matches(TERMINAL_CROSSWALK[i], event)}

terminal_predicate(event) == matching_rules(event) # {}

precedence_rank(event) ==
    LET rules == matching_rules(event) IN CHOOSE i \in rules : \A j \in rules : i <= j

verdict_of(event) == TERMINAL_CROSSWALK[precedence_rank(event)].verdict

\* _terminal_lateral: an event of the best rank; the newest of them, any one of them here.
terminal_lateral(events) ==
    LET terminal == {e \in events : terminal_predicate(e)}
        ranks == {precedence_rank(e) : e \in terminal}
    IN  {e \in terminal : \A r \in ranks : precedence_rank(e) <= r}

\* _verdict of the row, and the filter's CASE over the same lateral.
run_status(events) ==
    LET terminal == terminal_lateral(events)
    IN  IF terminal = {} THEN "processing" ELSE verdict_of(CHOOSE e \in terminal : TRUE)

\* _accepted, for a terminal event of the run.
accepted(event) ==
    IF verdict_of(event) # "succeeded" THEN 0
    ELSE IF TargetOf[event.mapping_version_id] = CATALOGUE_TABLE THEN Batches
    ELSE event.row_count

\* _quarantined: the chunk's rows, not the rows held.
quarantined(event) ==
    CASE verdict_of(event) = "quarantined" -> event.row_count
      [] verdict_of(event) = "succeeded" -> 0
      [] OTHER -> None

\* Every published chunk has its bronze row.
Runs == {m \in Chunks : kind[m] # None}

\* Descending by (received_at, id), compared as a pair.
boundary_of(m) == [received_at |-> ReceivedAt[m], id |-> IdOf[m]]
keyset_term(m, after) ==
    \/ ReceivedAt[m] < after.received_at
    \/ ReceivedAt[m] = after.received_at /\ IdOf[m] < after.id

encode_cursor(after, status, cutoff) == [after |-> after, status |-> status, cutoff |-> cutoff]

\* None is the 422 of a cursor that another filter issued.
decode_cursor(token, status, cutoff) ==
    IF token.status = status /\ token.cutoff = cutoff THEN token.after ELSE None

\* The runs a statement selects, before its LIMIT, given the status of each.
run_matches(scope, statuses, status, cutoff) ==
    {m \in Runs : /\ tenant_term(scope)
                  /\ status # None => statuses[m] = status
                  /\ cutoff # None => ReceivedAt[m] >= cutoff}

\* list_ingestion_runs: the newest limit of what is left, and the cursor of the next
\* page when one more was found.
runs_page(matches, limit, status, cutoff, after) ==
    LET left == {m \in matches : after # None => keyset_term(m, after)}
        newer(m) == {n \in left : keyset_term(m, boundary_of(n))}
        page == {m \in left : Cardinality(newer(m)) < limit}
    IN  [items |-> page,
         next_cursor |-> IF page = left THEN None
                         ELSE encode_cursor(boundary_of(CHOOSE m \in page :
                                                \A n \in page : n = m \/ keyset_term(m, boundary_of(n))),
                                            status, cutoff)]

\* The pages a client gets by following the cursors from the first.
runs_walk(matches, limit, status, cutoff) ==
    LET page[i \in 1..Cardinality(Chunks)] ==
            IF i = 1 THEN runs_page(matches, limit, status, cutoff, None)
            ELSE IF page[i - 1].next_cursor = None THEN [items |-> {}, next_cursor |-> None]
            ELSE runs_page(matches, limit, status, cutoff,
                           decode_cursor(page[i - 1].next_cursor, status, cutoff))
    IN  page

-----------------------------------------------------------------------------
(* GET /quarantine and GET /quarantine/{item_id}. *)

\* failure_stage_for: the stage a hold record carries.
STAGE_TO_FAILURE_STAGE ==
    [RECEIVED |-> "OTHER", MAPPING_LOOKED_UP |-> "MAPPING_LOOKUP",
     PRE_MAPPING_VALIDATED |-> "PRE_MAPPING_VALIDATION", MAPPING_EXECUTED |-> "MAPPING_EXECUTION",
     POST_MAPPING_VALIDATED |-> "POST_MAPPING_VALIDATION", CANONICAL_WRITTEN |-> "CANONICAL_WRITE"]

STAGE_DB_TO_WIRE ==
    [PRE_MAPPING_VALIDATION |-> "source-shape", POST_MAPPING_VALIDATION |-> "canonical-shape",
     IDENTITY_VALIDATION |-> "fk", MAPPING_EXECUTION |-> "normalization", CANONICAL_WRITE |-> "other",
     PRE_INGEST_PII |-> "other", BRONZE_WRITE |-> "other", MAPPING_LOOKUP |-> "other"]
    @@ ("OTHER" :> "other")
StageWire == {"source-shape", "canonical-shape", "fk", "normalization", "other"}

stage_to_wire(stage) == STAGE_DB_TO_WIRE[stage]
stage_db_values_for(wire) == {s \in DOMAIN STAGE_DB_TO_WIRE : STAGE_DB_TO_WIRE[s] = wire}

\* Nothing resolves a held item, so every status is NEW.
STATUS_DB_TO_WIRE == [NEW |-> "open", RESOLVED |-> "resolved", DISMISSED |-> "resolved"]
status_to_wire(status) == STATUS_DB_TO_WIRE[status]
status_db_values_for(wire) == {s \in DOMAIN STATUS_DB_TO_WIRE : STATUS_DB_TO_WIRE[s] = wire}

\* The type-tagged id: the table and the record in it.
item_id(tag, m, i, row) == [kind |-> tag, uuid |-> <<m, i, row>>]

\* The two tables; a hold of rows writes a record for each of them.
HoldRecords(grain) ==
    {p \in Chunks \X (1..MaxDeliveryAttempts) :
        p[2] \in DOMAIN quarantine[p[1]] /\ quarantine[p[1]][p[2]].grain = grain}
QuarantinedRows ==
    UNION {{item_id("row", p[1], p[2], r) : r \in quarantine[p[1]][p[2]].rows} : p \in HoldRecords("rows")}
QuarantinedChunks == {item_id("chunk", p[1], p[2], 0) : p \in HoldRecords("chunk")}

hold_of(id) == quarantine[id.uuid[1]][id.uuid[2]]

failure_stage(id) == STAGE_TO_FAILURE_STAGE[hold_of(id).stage]

\* _leg: one table under the filters; an empty list of stages selects nothing.
leg(table, scope, stages, statuses) ==
    {id \in table : /\ tenant_term(scope)
                    /\ stages # None => failure_stage(id) \in stages
                    /\ statuses # None => "NEW" \in statuses}

to_list_row(id) ==
    [id |-> id, kind |-> id.kind, error_reason |-> hold_of(id).code,
     failure_stage |-> stage_to_wire(failure_stage(id)), status |-> status_to_wire("NEW")]

to_detail(id) ==
    [id |-> id, kind |-> id.kind, error_reason |-> hold_of(id).code,
     failure_stage |-> stage_to_wire(failure_stage(id)), mapping_version |-> hold_of(id).version]

\* The union of the two legs.
list_held_items(scope, stages, statuses) ==
    leg(QuarantinedRows, scope, stages, statuses) \cup leg(QuarantinedChunks, scope, stages, statuses)

list_quarantine(scope, error_type, status) ==
    {to_list_row(id) :
        id \in list_held_items(scope,
                               IF error_type = None THEN None ELSE stage_db_values_for(error_type),
                               IF status = None THEN None ELSE status_db_values_for(status))}

\* The badge: both tables, whatever the filters.
count_open(scope) ==
    Cardinality(leg(QuarantinedRows, scope, None, {"NEW"}))
        + Cardinality(leg(QuarantinedChunks, scope, None, {"NEW"}))

\* None is the 404, for an unknown item and another tenant's alike.
get_quarantine_item(scope, id) ==
    LET table == IF id.kind = "row" THEN QuarantinedRows ELSE QuarantinedChunks
    IN  IF id \in leg(table, scope, None, None) THEN to_detail(id) ELSE None

-----------------------------------------------------------------------------
(* Properties. *)

\* No delivery is under way and nothing is left to mirror or activate.  A crash, the
\* mirror and an activation leave the tables of the screens as they are, so every
\* content of them is met at rest too, where the screens are compared.
AtRest ==
    /\ \A m \in Chunks : msg[m] # "leased"
    /\ \A w \in Workers : pc[w] = "ready" /\ batch[w] \cup acks[w] \cup nacks[w] = {}
    /\ mirrored
    /\ \A t \in Templates : Successors[active[t]] \cap {v \in Versions : LineageOf[v] = t} = {}

Own == Pinned(Owner)

\* Held rows and chunks, counted from the holds themselves.
HeldItems(m) ==
    LET items[i \in 0..Len(quarantine[m])] ==
            IF i = 0 THEN 0
            ELSE items[i - 1] + (IF quarantine[m][i].grain = "rows"
                                 THEN Cardinality(quarantine[m][i].rows) ELSE 1)
    IN  items[Len(quarantine[m])]

\* The status of a run is earned: a succeeded run has all its rows in the tables under
\* the version it names; a quarantined one has an open item on the quarantine page under
\* the version it names; and FAILURE events that land, early or late, turn only a run
\* without a terminal event into a failed one.  Of the figures beside the status only
\* bounds are stated, for they are not the counts their docstrings describe: accepted is
\* at most the rows that are in (0 after a redelivery that wrote none anew), quarantined
\* is at least the rows of any one hold (it counts the chunk).  Neither says what the
\* other deliveries did: a succeeded run may have held items beside its 0, a quarantined
\* one committed batches beside its.
RunStatusIsEarned(m, status) ==
    /\ failure_events(m) # {} => run_status(run_events(m, failure_events(m))) =
                                    IF status = "processing" THEN "failed" ELSE status
    /\ \A e \in terminal_lateral(run_events(m, {})) :
         IF verdict_of(e) = "succeeded"
         THEN /\ WrittenUnder(m, e.mapping_version_id)
              /\ accepted(e) <= Cardinality({p \in merged[m] : p[1] = e.mapping_version_id})
         ELSE /\ \E row \in list_quarantine(Own, None, "open") :
                   /\ row.id.uuid[1] = m
                   /\ get_quarantine_item(Own, row.id).mapping_version = e.mapping_version_id
              /\ \A i \in DOMAIN quarantine[m] :
                   quarantine[m][i].grain = "rows" => Cardinality(quarantine[m][i].rows) <= quarantined(e)

\* Following the cursors under any status shows every run of that status once, and the
\* statuses share out the runs; a cursor is good for its own filter only.
RunPagesAreWhole(statuses) ==
    LET shown(status) == run_matches(Own, statuses, status, None)
    IN  /\ \A m \in Runs : Cardinality({s \in RunStatus : m \in shown(s)}) = 1
        /\ \A s \in RunStatus \cup {None} :
             LET page == runs_walk(shown(s), 1, s, None)
             IN  /\ UNION {page[i].items : i \in DOMAIN page} = shown(s)
                 /\ \A i, j \in DOMAIN page : i # j => page[i].items \cap page[j].items = {}
                 /\ \A i \in DOMAIN page : page[i].next_cursor # None =>
                      \A other \in (RunStatus \cup {None}) \ {s} :
                         decode_cursor(page[i].next_cursor, other, None) = None

\* The quarantine page shows every hold once, its badge counts them, the error types
\* share them out, and each row of the list opens the item it describes.
QuarantinePageIsWhole ==
    LET all == list_quarantine(Own, None, None)
    IN  /\ count_open(Own) = Cardinality(all)
        /\ \A m \in Chunks : Cardinality({row \in all : row.id.uuid[1] = m}) = HeldItems(m)
        /\ \A row \in all :
             /\ {w \in StageWire : row \in list_quarantine(Own, w, None)} = {row.failure_stage}
             /\ row \in list_quarantine(Own, None, "open")
             /\ row \notin list_quarantine(Own, None, "resolved")
             /\ get_quarantine_item(Own, row.id).failure_stage = row.failure_stage
             /\ get_quarantine_item(Own, row.id).error_reason = row.error_reason

\* Another tenant sees nothing of all this, with whatever roles; a platform user who may
\* read sees what the owner sees.
ScreensAreScoped(statuses) ==
    LET items == list_held_items(Own, None, None)
    IN  \A caller \in Callers :
            LET theirs == caller.user_type = "PLATFORM" \/ caller.tenant_id = Owner
            IN  /\ run_matches(caller.scope, statuses, None, None) = IF theirs THEN Runs ELSE {}
                /\ list_held_items(caller.scope, None, None) = IF theirs THEN items ELSE {}
                /\ \A id \in items : (get_quarantine_item(caller.scope, id) # None) <=> theirs

\* The audit trail never claims what did not happen: QUARANTINED follows a durable
\* hold, WRITTEN a complete write, RETRIED a second delivery.  On the screens built on
\* it each status has such an event behind it (RunStatusIsEarned, which also says what
\* the figures do not show), every run and every hold is on some page, once, and only
\* its tenant and the platform see it.  The consumer's state stays well typed, so no
\* batch past the last is ever written.
AuditTrailIsTrue ==
    /\ TypeOK
    /\ AuditIsEarned
    /\ AtRest =>
         LET statuses == [m \in Runs |-> run_status(run_events(m, {}))]
         IN  /\ \A m \in Runs : RunStatusIsEarned(m, statuses[m])
             /\ RunPagesAreWhole(statuses)
             /\ QuarantinePageIsWhole
             /\ ScreensAreScoped(statuses)
=============================================================================
