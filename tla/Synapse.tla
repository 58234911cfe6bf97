------------------------------ MODULE Synapse ------------------------------
(***************************************************************************)
(* Synapse for one tenant: the console that enables analyses and records   *)
(* decisions on alerts, and the orchestrator job that sweeps the enabled   *)
(* analyses once a day.  A job execution is retried once when it ends red, *)
(* and a second execution (a replayed schedule, an operator) may overlap   *)
(* it.  Each read, claim, append and completion is a transaction of its    *)
(* own, so canonical data moves between them.                              *)
(*                                                                         *)
(* Time runs in half days: an instant belongs to one UTC date and, through *)
(* the provision's timezone, to the tenant's own date, the slot.           *)
(***************************************************************************)
EXTENDS SynapseRegistry, Axon

CONSTANTS
    Jobs,        \* executions of the orchestrator job, numbered as they start
    MaxRetries,  \* max_retries of the Cloud Run job
    Requests,    \* requests of the console, numbered
    Notice,      \* the delivery_id each request mints
    Timezones,   \* offered timezones, as half days ahead of UTC
    SaleLines,   \* sale lines that may land in canonical
    Stocks,      \* stock figures a position may take
    StartNow,    \* the first instant
    MaxNow,      \* bound: the last instant
    Workloads    \* bounds: which executions, requests, data moves and faults occur

VARIABLES
    now,
    positions,   \* canonical.store_sku_current_position
    lines,       \* canonical.store_sku_sale_events, in arrival order
    mirrored,    \* the tenant is in identity_mirror.tenants
    provision,   \* synapse.provision
    run,         \* synapse.run by analysis and slot
    actions,     \* synapse.actions
    decisions,   \* synapse.action_events, in recorded_at order
    job,         \* the executions
    request,     \* the console's requests
    left,        \* what the workload still allows
    attempted,   \* history: the plans computed for a slot
    rewritten    \* history: slots completed by more than one execution

ASSUME SynapseAssumption ==
    /\ IsFiniteSet(Skus) /\ Skus \subseteq Nat
    /\ Null \notin Int /\ Null \notin RefusalReason /\ \A S \in SUBSET Skus : S # Null
    /\ Timezones \subseteq Int /\ IsFiniteSet(Timezones)
    /\ Stocks \subseteq Nat \cup {Null}   \* the CHECK on stock_qty
    /\ Jobs \subseteq Nat
    /\ {MaxRetries, StartNow, MaxNow} \subseteq Nat
    /\ StartNow <= MaxNow
    /\ Notice \in [Requests -> Deliverable] /\ IsInjective(Notice)

synapseVars == <<now, positions, lines, mirrored, provision, run, actions, decisions,
                 job, request, left, attempted, rewritten>>
vars == <<synapseVars, axonVars>>

Provision == [rung : {"shadow", "suggest"}, timezone : Timezones, enabled_at : StartNow..MaxNow,
              disabled : BOOLEAN]

\* The sale lines there are, and those that may still land.
SaleRows == SaleLines \cup UNION {Range(w.lines) : w \in Workloads}

ASSUME WorkloadsAssumption ==
  /\ \A r \in SaleRows : r.sku \in Skus /\ r.day \in Int
  /\ \A w \in Workloads :
      /\ DOMAIN w.positions \subseteq Skus
      /\ \A k \in DOMAIN w.positions : w.positions[k] \in Nat \cup {Null}
      /\ w.lines \in Seq(SaleRows)
      /\ DOMAIN w.provision \subseteq Analyses
      /\ \A a \in DOMAIN w.provision : w.provision[a] \in Provision

worldVars == <<now, positions, lines, mirrored, left>>

UtcDate(instant) == instant \div 2

\* The tenant's calendar date at an instant.
slot_for(timezone, instant) == (instant + timezone) \div 2

Slots == {slot_for(z, t) : z \in Timezones, t \in StartNow..MaxNow}
Pairs == Analyses \X Slots
Outcomes == {"satisfied", "blocked", "failed"}

\* The columns of synapse.run; refusals counts the refused positions by reason.
RunRows ==
    [outcome : Outcomes \cup {Null}, proposed : Nat, appended : Nat, refusals : Refusals,
     rung : {"shadow"}, timezone : Timezones]

ASSUME RunAssumption == Null \notin Outcomes /\ Null \notin RunRows /\ Null \notin Pairs

Idle == [pc |-> "idle", attempt |-> 0, now |-> 0, todo |-> <<>>, analysis |-> Null, slot |-> 0,
         counts |-> Null, fetches |-> <<>>, universe |-> <<>>, proposed |-> {}, pending |-> {}, refusals |-> <<>>,
         appended |-> 0, outcome |-> "satisfied", results |-> {}]

Init ==
    /\ AxonInit
    /\ now = StartNow
    /\ \E w \in Workloads :
         /\ positions = w.positions
         /\ lines = w.lines
         /\ provision = w.provision
         /\ left = w.left
    /\ mirrored = (DOMAIN provision # {})
    /\ run = [p \in Pairs |-> Null]
    /\ actions = {}
    /\ decisions = <<>>
    /\ job = [j \in Jobs |-> Idle]
    /\ request = [r \in Requests |-> [pc |-> "idle", analysis |-> Null, timezone |-> Null, status |-> Null]]
    /\ attempted = [p \in Pairs |-> {}]
    /\ rewritten = {}

-----------------------------------------------------------------------------
(* The world around Synapse. *)

Spend(what) == left[what] > 0 /\ left' = [left EXCEPT ![what] = @ - 1]

Tick ==
    /\ now < MaxNow
    /\ Spend("ticks")
    /\ now' = now + 1
    /\ UNCHANGED <<positions, lines, mirrored, provision, run, actions, decisions, job, request,
                   attempted, rewritten>>

\* The streaming consumer writes a sale line or a stock figure.
SaleLands ==
    /\ Spend("moves")
    /\ \E r \in SaleLines : r.day <= UtcDate(now) /\ lines' = Append(lines, r)
    /\ UNCHANGED <<now, positions, mirrored, provision, run, actions, decisions, job, request,
                   attempted, rewritten>>

StockMoves ==
    /\ Spend("moves")
    /\ \E k \in Skus, q \in Stocks : positions' = [j \in DOMAIN positions \cup {k} |->
                                                     IF j = k THEN q ELSE positions[j]]
    /\ UNCHANGED <<now, lines, mirrored, provision, run, actions, decisions, job, request,
                   attempted, rewritten>>

\* mirror-sync-consumer brings the tenant over from the Customer Master.
TenantMirrored ==
    /\ ~mirrored
    /\ mirrored' = TRUE
    /\ UNCHANGED <<now, positions, lines, provision, run, actions, decisions, job, request, left,
                   attempted, rewritten>>

\* An operator's SQL: the table's checks admit a rung the declarations do not, and
\* disabling is the one change no endpoint makes.
OperatorEdits ==
    /\ Spend("edits")
    /\ \E a \in DOMAIN provision :
         \/ provision' = [provision EXCEPT ![a].disabled = TRUE]
         \/ provision' = [provision EXCEPT ![a].rung = "suggest"]
    /\ UNCHANGED <<now, positions, lines, mirrored, run, actions, decisions, job, request,
                   attempted, rewritten>>

-----------------------------------------------------------------------------
(* The console: enable_monitor. *)

consoleUnchanged == <<worldVars, run, actions, decisions, job, attempted, rewritten>>

\* The answer the tenant's page gives at once: 404 for a tenant that is not mirrored, 409
\* for an analysis that is enabled already or was disabled, 422 for a timezone that is
\* not offered; NULL to go on.
RefusedOnPage(a, z) ==
    IF ~mirrored THEN 404
    ELSE IF a \in DOMAIN provision THEN 409
    ELSE IF z \notin Timezones THEN 422
    ELSE Null

\* tenant_detail, read with the reader's credential.
ReadTenant(r) ==
    /\ request[r].pc = "idle"
    /\ r <= left.requests
    /\ \E a \in Analyses \cup {"undeclared"}, z \in Timezones \cup {Null} :
         LET refusal == RefusedOnPage(a, z)
         IN  request' = [request EXCEPT ![r] =
               IF refusal = Null
               THEN [pc |-> "enable", analysis |-> a, timezone |-> z, status |-> Null]
               ELSE [@ EXCEPT !.pc = "answered", !.status = refusal]]
    /\ UNCHANGED <<consoleUnchanged, provision>>

\* An id the declarations do not know would refuse every later sweep.
_validate(a) == a \in DOMAIN _DECLARATIONS

\* _ENABLE, a plain INSERT: pk_provision refuses a second row for the analysis.
_ENABLE(a, z) ==
    [b \in DOMAIN provision \cup {a} |->
       IF b \in DOMAIN provision THEN provision[b]
       ELSE [rung |-> "shadow", timezone |-> z, enabled_at |-> now, disabled |-> FALSE]]

\* When the row was there already, the chosen timezone is lost, and the answer is 200.
EnableOutcome(a) == [already_provisioned |-> a \in DOMAIN provision]
StatusOf(outcome) == IF outcome.already_provisioned THEN 200 ELSE 201

\* enable_analysis: one transaction.  A row that another request inserted in the
\* meantime stands, and the request goes on to publish its notice all the same.
EnableAnalysis(r) ==
    /\ request[r].pc = "enable"
    /\ LET a == request[r].analysis
       IN  IF ~_validate(a)
           THEN /\ request' = [request EXCEPT ![r].pc = "answered", ![r].status = 404]
                /\ UNCHANGED provision
           ELSE /\ request' = [request EXCEPT ![r].pc = "publish", ![r].status = StatusOf(EnableOutcome(a))]
                /\ provision' = _ENABLE(a, request[r].timezone)
    /\ UNCHANGED consoleUnchanged

\* axon_publisher.publish; a failure to publish is logged and the request succeeds.
PublishNotice(r) ==
    /\ request[r].pc = "publish"
    /\ \/ Enqueue(Notice[r]) /\ UNCHANGED loopVars
       \/ UNCHANGED subVars
    /\ request' = [request EXCEPT ![r].pc = "answered"]
    /\ UNCHANGED <<consoleUnchanged, provision>>

\* record_alert_decision: a dismissal, an acknowledgement or a snooze on an action.
RecordDecision ==
    /\ Spend("decisions")
    /\ \E action \in actions, verb \in {"dismiss", "acknowledge", "snooze"} :
         decisions' = Append(decisions, [analysis |-> action.analysis, sku |-> action.sku,
                                         verb |-> verb, until |-> UtcDate(now)])
    /\ UNCHANGED <<now, positions, lines, mirrored, provision, run, actions, job, request,
                   attempted, rewritten>>

\* The state served for an alert: the latest decision on its target and analysis.
LifecycleState(action) ==
    LET about == {i \in DOMAIN decisions : /\ decisions[i].analysis = action.analysis
                                           /\ decisions[i].sku = action.sku}
        latest == decisions[Max(about)]
    IN  IF about = {} THEN "open"
        ELSE IF latest.verb = "dismiss" THEN "dismissed"
        ELSE IF latest.verb = "acknowledge" THEN "acknowledged"
        ELSE IF latest.until >= UtcDate(now) THEN "snoozed" ELSE "open"

-----------------------------------------------------------------------------
(* The orchestrator: run_due. *)

Active == {a \in DOMAIN provision : ~provision[a].disabled}

\* check_envelope: no provision of an analysis that is not declared, and none whose
\* rung is above the declaration's ceiling.
WithinEnvelope ==
    \A a \in Active : a \in DOMAIN max_rungs /\ rung_rank(provision[a].rung) <= rung_rank(max_rungs[a])

jobUnchanged == <<worldVars, provision, decisions, request>>

\* Mutant: an attempt that ends red is the last one.
Ended_NoRetry(j, green, results) ==
    [Idle EXCEPT !.pc = IF green THEN "green" ELSE "red", !.attempt = job[j].attempt,
                 !.results = results]

\* An attempt that ends red is followed by a retry while there is one left.
Ended(j, green, results) ==
    [Idle EXCEPT !.pc = IF green THEN "green"
                        ELSE IF job[j].attempt <= MaxRetries THEN "retry" ELSE "red",
                 !.attempt = job[j].attempt,
                 !.results = results]

\* active(): the provisions are read once, and one row outside the envelope refuses
\* the whole sweep.
StartSweep(j) ==
    /\ job[j].pc \in {"idle", "retry"}
    /\ job[j].pc = "idle" => j <= left.jobs /\ \A i \in 1..(j - 1) : job[i].pc # "idle"
    /\ LET attempt == job[j].attempt + 1
       IN  job' = [job EXCEPT ![j] =
                     IF WithinEnvelope
                     THEN [Idle EXCEPT !.pc = "next", !.attempt = attempt, !.now = now,
                                       !.todo = [a \in Active |-> provision[a]]]
                     ELSE [Idle EXCEPT !.pc = IF attempt <= MaxRetries THEN "retry" ELSE "red",
                                       !.attempt = attempt]]
    /\ UNCHANGED <<jobUnchanged, run, actions, attempted, rewritten>>

Without(todo, a) == [b \in DOMAIN todo \ {a} |-> todo[b]]

\* The pair a sweep turns to next, and its slot.
NextUp(j) == First(DOMAIN job[j].todo)
NextSlot(j) == slot_for(job[j].todo[NextUp(j)].timezone, job[j].now)

\* recorder.claim: INSERT ... ON CONFLICT DO NOTHING.  A new row, or the unfinished
\* row of an attempt that died, is this execution's to finish; a finished slot is
\* skipped, and the sweep reports the outcome it finished with.
Claim(j) ==
    /\ job[j].pc = "next"
    /\ DOMAIN job[j].todo # {}
    /\ LET a == NextUp(j)
           p == <<a, NextSlot(j)>>
           mine == [job[j] EXCEPT !.pc = "resolve", !.analysis = a, !.slot = p[2],
                                  !.todo = Without(@, a)]
       IN  /\ run' = IF run[p] # Null THEN run
                     ELSE [run EXCEPT ![p] = [outcome |-> Null, proposed |-> 0, appended |-> 0,
                                              refusals |-> <<>>, rung |-> "shadow",
                                              timezone |-> job[j].todo[a].timezone]]
           /\ job' = [job EXCEPT ![j] =
                IF run'[p].outcome = Null THEN mine
                ELSE [job[j] EXCEPT !.todo = Without(@, a),
                        !.results = @ \cup {[pair |-> p, outcome |-> run[p].outcome]}]]
    /\ UNCHANGED <<jobUnchanged, actions, attempted, rewritten>>

Ends(j, outcome) == [job[j] EXCEPT !.pc = "complete", !.outcome = outcome, !.counts = Null]

\* The job goes on to its plan or, blocked, to its completion.
Resolved(j, observed) ==
    LET resolution == resolve_declaration(job[j].analysis, job[j].slot, observed)
    IN  IF resolution = Raised THEN Ends(j, "failed")
        ELSE IF resolution.status = "blocked" THEN Ends(j, "blocked")
        ELSE [job[j] EXCEPT !.pc = "universe", !.fetches = resolution.fetches, !.counts = Null]

\* resolve_declaration for the slot.  A gated analysis is probed first: the series are
\* counted ...
Resolve(j) ==
    /\ job[j].pc = "resolve"
    /\ \E survivors \in {collapse_latest_wins(lines)} :
         job' = [job EXCEPT ![j] =
                   IF Gates[job[j].analysis] = {} THEN Resolved(j, <<>>)
                   ELSE [@ EXCEPT !.pc = "probe",
                                  !.counts = probe_statement(survivors, MinHistoryDays)]]
    /\ UNCHANGED <<jobUnchanged, run, actions, attempted, rewritten>>

\* ... and then named, by a second statement that, at READ COMMITTED, has a snapshot of
\* its own.  Observation raises when the two disagree, and the analysis has failed.
Probe(j) ==
    /\ job[j].pc = "probe"
    /\ \E survivors \in {collapse_latest_wins(lines)} :
       \E series \in {qualifying_statement(survivors, MinHistoryDays)} :
         job' = [job EXCEPT ![j] =
                   IF ~Agrees(job[j].counts, series) THEN Ends(j, "failed")
                   ELSE Resolved(j, [min_history_days |-> Observation(job[j].counts, series)])]
    /\ UNCHANGED <<jobUnchanged, run, actions, attempted, rewritten>>

\* The plan fetches current_state ...
FetchUniverse(j) ==
    /\ job[j].pc = "universe"
    /\ job' = [job EXCEPT ![j].pc = "plan", ![j].universe = positions]
    /\ UNCHANGED <<jobUnchanged, run, actions, attempted, rewritten>>

\* Mutant: the plan reads the clock again.
AsOf_Clock(j) == UtcDate(now)

\* _propose: as_of is the slot.
AsOf(j) == job[j].slot

\* ... then the sales, and evaluates and proposes over the two.
Plan(j) ==
    /\ job[j].pc = "plan"
    /\ \E survivors \in {collapse_latest_wins(lines)} :
       \E findings \in {FindingsOf(job[j].analysis, job[j].universe, survivors, job[j].fetches, AsOf(j))} :
       \E result \in {PlanResult(job[j].analysis, job[j].universe, findings, AsOf(j))} :
         /\ job' = [job EXCEPT ![j] =
                      [@ EXCEPT !.pc = IF result.actions = {} THEN "complete" ELSE "append",
                                !.proposed = result.actions, !.pending = result.actions,
                                !.refusals = result.refusals]]
         /\ attempted' = [attempted EXCEPT ![<<job[j].analysis, job[j].slot>>] = @ \cup {result.actions}]
    /\ UNCHANGED <<jobUnchanged, run, actions, rewritten>>

\* In the log, as uq_actions_idempotency sees it.
Logged(x) == \E y \in actions : IdempotencyKey(y) = IdempotencyKey(x)

\* appender.append: a transaction per action; an action that is there already, whatever
\* was measured this time, is turned into nothing.
AppendAction(j) ==
    /\ job[j].pc = "append"
    /\ LET action == CHOOSE x \in job[j].pending : \A y \in job[j].pending : x.sku <= y.sku
           pending == job[j].pending \ {action}
       IN  /\ actions' = IF Logged(action) THEN actions ELSE actions \cup {action}
           /\ job' = [job EXCEPT ![j] =
                        [job[j] EXCEPT
                           !.pc = IF pending = {} THEN "complete" ELSE "append",
                           !.pending = pending,
                           !.appended = IF Logged(action) THEN @ ELSE @ + 1]]
    /\ UNCHANGED <<jobUnchanged, run, attempted, rewritten>>

\* Anything the analysis raises is an outcome: what had been appended stays, and is
\* not counted.
AnalysisFails(j) ==
    /\ job[j].pc \in {"resolve", "probe", "universe", "plan", "append"}
    /\ Spend("faults")
    /\ job' = [job EXCEPT ![j].pc = "complete", ![j].outcome = "failed", ![j].appended = 0,
                          ![j].pending = {}, ![j].counts = Null]
    /\ UNCHANGED <<now, positions, lines, mirrored, provision, decisions, request, run, actions,
                   attempted, rewritten>>

\* recorder.complete: a plain UPDATE by run_id; the later of two completions stands.
Complete(j) ==
    /\ job[j].pc = "complete"
    /\ LET s == job[j]
           p == <<s.analysis, s.slot>>
       IN  /\ run' = [run EXCEPT ![p] = [@ EXCEPT !.outcome = s.outcome,
                                                  !.proposed = Cardinality(s.proposed),
                                                  !.appended = s.appended,
                                                  !.refusals = s.refusals]]
           /\ rewritten' = IF run[p].outcome # Null THEN rewritten \cup {p} ELSE rewritten
           /\ job' = [job EXCEPT ![j] =
                        [Idle EXCEPT !.pc = "next", !.attempt = s.attempt, !.now = s.now,
                           !.todo = s.todo,
                           !.results = s.results \cup {[pair |-> p, outcome |-> s.outcome]}]]
    /\ UNCHANGED <<jobUnchanged, actions, attempted>>

\* The sweep is done: exit code 1 if any result failed.
Finish(j) ==
    /\ job[j].pc = "next"
    /\ DOMAIN job[j].todo = {}
    /\ job' = [job EXCEPT ![j] =
                 Ended(j, \A x \in job[j].results : x.outcome # "failed", job[j].results)]
    /\ UNCHANGED <<jobUnchanged, run, actions, attempted, rewritten>>

\* The process dies, or a claim or a completion cannot reach the database.
Crash(j) ==
    /\ job[j].pc \in {"next", "resolve", "probe", "universe", "plan", "append", "complete"}
    /\ Spend("faults")
    /\ job' = [job EXCEPT ![j] = Ended(j, FALSE, {})]
    /\ UNCHANGED <<now, positions, lines, mirrored, provision, decisions, request, run, actions,
                   attempted, rewritten>>

-----------------------------------------------------------------------------
World == Tick \/ SaleLands \/ StockMoves \/ TenantMirrored \/ OperatorEdits \/ RecordDecision

JobStep(j) == StartSweep(j) \/ Claim(j) \/ Resolve(j) \/ Probe(j) \/ FetchUniverse(j) \/ Plan(j)
                \/ AppendAction(j) \/ Complete(j) \/ Finish(j)

Next ==
    \/ World /\ UNCHANGED axonVars
    \/ \E r \in Requests : (ReadTenant(r) \/ EnableAnalysis(r)) /\ UNCHANGED axonVars
    \/ \E r \in Requests : PublishNotice(r) /\ UNCHANGED <<stage, mails, ledger>>
    \/ \E j \in Jobs : (JobStep(j) \/ AnalysisFails(j) \/ Crash(j)) /\ UNCHANGED axonVars
    \/ AxonNext /\ UNCHANGED synapseVars
    \/ left.foreign /\ (\E m \in Messages : ForeignPublish(m)) /\ UNCHANGED synapseVars

\* The platform schedules a started execution and its retry; nothing else is owed.
Fairness == \A j \in Jobs :
    WF_vars(job[j].pc # "idle" /\ JobStep(j) /\ UNCHANGED axonVars)

Spec == Init /\ [][Next]_vars /\ Fairness

-----------------------------------------------------------------------------
(* Properties. *)

TypeOK ==
    /\ AxonTypeOK
    /\ now \in StartNow..MaxNow
    /\ DOMAIN positions \subseteq Skus
    /\ \A i \in DOMAIN lines : lines[i].sku \in Skus
    /\ mirrored \in BOOLEAN
    /\ DOMAIN provision \subseteq Analyses
    /\ \A a \in DOMAIN provision : provision[a] \in Provision
    /\ \A p \in Pairs : run[p] # Null => run[p].outcome \in Outcomes \cup {Null}
    /\ \A j \in Jobs : job[j].attempt \in 0..(MaxRetries + 1)

\* What a satisfied slot proposed is in the log, and its counts are those of one of
\* the plans computed for it, even when two executions worked on the slot at once.
SatisfiedIsAppended ==
    \A p \in Pairs :
      run[p] # Null /\ run[p].outcome = "satisfied" =>
        /\ \E P \in attempted[p] :
             (\A x \in P : Logged(x)) /\ Cardinality(P) = run[p].proposed
        /\ run[p].appended <= run[p].proposed

\* Every action is the work of a claimed slot: as_of and the slot never part ways.
ActionsAreClaimed ==
    \A x \in actions : LET p == <<x.analysis, x.as_of>>
                       IN  p \in Pairs /\ run[p] # Null /\ x \in UNION attempted[p]

\* No action rests on a stock figure that is not there, none says that an empty shelf is
\* dead stock, and every one can be read back: its constructor does not raise.
ActionsHaveStock ==
    \A x \in actions : /\ x.quantity # Null
                       /\ x.analysis = "dead_stock" => x.quantity > 0
                       /\ Constructible(x)

\* A plan that runs has a fetch for every requirement, and one that was gated is narrowed
\* to series, of which there is at least one.
FetchesAreBound ==
    \A j \in Jobs : job[j].pc \in {"universe", "plan", "append"} =>
      LET required == Requirement[job[j].analysis]
      IN  /\ DOMAIN job[j].fetches = DOMAIN required
          /\ \A id \in DOMAIN required :
               IF required[id].gates = {} THEN job[j].fetches[id].only_series = Null
               ELSE job[j].fetches[id].only_series \notin {Null, {}}

\* The console's answer can be believed although the page it was asked from was stale: of
\* the requests to enable an analysis one is told 201, its timezone is the one that
\* stands, and 200 means that there is a row.
EnablesAreHonest ==
    \A r \in Requests : LET ask == request[r] IN
      /\ ask.status \in {200, 201} => ask.analysis \in Analyses \cap DOMAIN provision
      /\ ask.status = 201 =>
           /\ provision[ask.analysis].timezone = ask.timezone
           /\ \A q \in Requests \ {r} :
                request[q].status = 201 => request[q].analysis # ask.analysis

\* An execution is green only when every slot it reports is finished, and none of
\* them failed unless another execution completed the slot once more.
GreenIsClean ==
    \A j \in Jobs : job[j].pc = "green" =>
      \A x \in job[j].results :
        /\ run[x.pair].outcome # Null
        /\ run[x.pair].outcome = "failed" => x.pair \in rewritten

\* A decision is about an alert that exists, and holds for every alert on its target:
\* an alert of a later slot is not open while the last word is a dismissal.
DecisionsStand ==
    /\ \A i \in DOMAIN decisions : \E x \in actions :
         x.analysis = decisions[i].analysis /\ x.sku = decisions[i].sku
    /\ decisions # <<>> /\ decisions[Len(decisions)].verb = "dismiss" =>
         \A x \in actions :
           /\ x.analysis = decisions[Len(decisions)].analysis
           /\ x.sku = decisions[Len(decisions)].sku
           => LifecycleState(x) = "dismissed"

\* Claimed, and without an outcome.
Unfinished(p) == run[p] # Null /\ run[p].outcome = Null

\* A slot that was claimed is finished, by the execution that claimed it or by a
\* retry that takes it over, unless the tenant's day is over first, the analysis is
\* switched off, the sweep is refused, or an execution has spent all its retries.
SlotsSettle ==
    \A p \in Pairs :
      []<>(\/ ~Unfinished(p)
           \/ slot_for(run[p].timezone, now) > p[2]
           \/ p[1] \notin Active
           \/ ~WithinEnvelope
           \/ \E j \in Jobs : job[j].pc = "red" /\ job[j].attempt > MaxRetries)
=============================================================================
