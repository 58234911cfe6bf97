---------------------------- MODULE SynapseReads ----------------------------
(***************************************************************************)
(* What an operator is shown of Synapse and Axon: the fleet roster, the    *)
(* tenant's page, the run log, the alert lists with their chips, an        *)
(* alert's page and the delivery ledger, as reads of the tables, and the   *)
(* freshness line that every sweep logs.                                   *)
(*                                                                         *)
(* There is one tenant, so a read of the whole fleet and a read of the     *)
(* tenant differ only for a tenant that is not mirrored or is quarantined: *)
(* its alerts are left out where synapse.actions_analytical is read in     *)
(* place of synapse.actions.  An alert is named by what                    *)
(* uq_actions_idempotency makes unique.  Rows of one date are told apart   *)
(* by columns that are left out (recorded_at, event_id; created_at for a   *)
(* delivery), so where a LIMIT cuts through them any of them may be the    *)
(* ones shown.  Names and stores are left out.                             *)
(***************************************************************************)
EXTENDS Synapse

CONSTANTS
    MaxRows,       \* _MAX_ROWS
    HistoryLimit,  \* history_limit
    DeliveryLimit  \* Axon's _MAX_ROWS

ALERT_STATES == {"open", "snoozed", "acknowledged", "dismissed"}

ASSUME PagesAssumption ==
    {MaxRows, HistoryLimit, DeliveryLimit} \subseteq Nat \ {0} /\ Null \notin ALERT_STATES

\* A caller's limit, clamped.
bounded(limit) == Max({1, Min({limit, MaxRows})})

\* The pages that ORDER BY date DESC LIMIT limit may return, of rows with their dates.
Pages(date, limit) ==
    LET rows == DOMAIN date
    IN  {page \in kSubset(Min({limit, Cardinality(rows)}), rows) :
           \A x \in page, y \in rows \ page : date[x] >= date[y]}

-----------------------------------------------------------------------------
(* The numbers several screens show. *)

\* Every line counts, whatever its subtype and whether or not it was superseded.
resolve_latest_sale_dates ==
    IF lines = <<>> THEN Null ELSE Max({lines[i].day : i \in DOMAIN lines})

\* The view leaves out the tenants of synapse.quarantined_tenants, which only a migration
\* writes: whether the tenant is one of them is a parameter of every read of the view.
actions_analytical(quarantined) == IF quarantined THEN {} ELSE actions

OPEN_ALERTS_BY_TENANT(quarantined) ==
    Cardinality({x \in actions_analytical(quarantined) : LifecycleState(x) = "open"})

RunsOf(a) == {p \in Pairs : p[1] = a /\ run[p] # Null}

-----------------------------------------------------------------------------
(* GET /fleet, /tenants/{id} and the run logs. *)

FleetRow(quarantined) ==
    [analyses_running |-> Cardinality(Active),
     actions_recorded |-> Cardinality(actions),
     open_alerts |-> OPEN_ALERTS_BY_TENANT(quarantined),
     last_run_slot |-> LET slots == {p[2] : p \in {p \in Pairs : run[p] # Null}}
                       IN  IF slots = {} THEN Null ELSE Max(slots),
     latest_sale |-> resolve_latest_sale_dates,
     products |-> Cardinality(DOMAIN positions)]

\* LEFT JOINs from the mirror: a mirrored tenant has a row, whatever else it has.
fleet(quarantined) == IF mirrored THEN {FleetRow(quarantined)} ELSE {}

\* A provisioned analysis with its latest run, whose columns are NULL if there is none.
AnalysisState(a) ==
    LET last == IF RunsOf(a) = {} THEN Null ELSE <<a, Max({p[2] : p \in RunsOf(a)})>>
        column(name) == IF last = Null THEN Null ELSE run[last][name]
    IN  [analysis_id |-> a, rung |-> provision[a].rung, timezone |-> provision[a].timezone,
         last_slot |-> IF last = Null THEN Null ELSE last[2], last_outcome |-> column("outcome"),
         actions_proposed |-> column("proposed"), actions_appended |-> column("appended"),
         refusals |-> column("refusals")]

TENANT_ANALYSES == {AnalysisState(a) : a \in Active}
TENANT_DISABLED_ANALYSES(table) == {a \in DOMAIN table : table[a].disabled}

\* The header of the tenant's page; no row for a tenant that is not mirrored.
TENANT(quarantined) ==
    IF ~mirrored THEN Null
    ELSE [products |-> Cardinality(DOMAIN positions),
          sales_seen |-> Len(lines),
          latest_sale |-> resolve_latest_sale_dates,
          actions_recorded |-> Cardinality(actions),
          open_alerts |-> OPEN_ALERTS_BY_TENANT(quarantined)]

\* What the page is made of; NULL, which is served as 404, is neither header nor page.
Headers ==
    [products : Nat, sales_seen : Nat, latest_sale : Int \cup {Null}, actions_recorded : Nat,
     open_alerts : Nat]
AnalysisStates ==
    [analysis_id : Analyses, rung : {"shadow", "suggest"}, timezone : Timezones,
     last_slot : Slots \cup {Null}, last_outcome : Outcomes \cup {Null},
     actions_proposed : Nat \cup {Null}, actions_appended : Nat \cup {Null},
     refusals : Refusals \cup {Null}]
ASSUME DetailAssumption ==
    /\ Null \notin Headers
    /\ Null \notin [header : Headers, analyses : SUBSET AnalysisStates,
                   disabled_analyses : SUBSET Analyses]

\* Each statement has a snapshot of its own: when the last one runs, the provision table
\* is the one that later edits have left.
tenant_detail(quarantined, later) ==
    IF TENANT(quarantined) = Null THEN Null
    ELSE [header |-> TENANT(quarantined), analyses |-> TENANT_ANALYSES,
          disabled_analyses |-> TENANT_DISABLED_ANALYSES(later)]

\* An operator may have disabled analyses in the meantime.  A row that was inserted in the
\* meantime is not disabled, so it makes no difference.  A disabled row is not enabled
\* again: the console refuses it, and by hand it would overwrite the history of the row.
Disabled(gone) == [a \in DOMAIN provision |->
                     [provision[a] EXCEPT !.disabled = provision[a].disabled \/ a \in gone]]

RunRow(p) ==
    [analysis_id |-> p[1], slot |-> p[2], timezone |-> run[p].timezone, outcome |-> run[p].outcome,
     actions_proposed |-> run[p].proposed, actions_appended |-> run[p].appended,
     refusals |-> run[p].refusals]

RUNS == {RunRow(p) : p \in {p \in Pairs : run[p] # Null}}

\* A run of a tenant the mirror does not have is listed all the same ...
runs(limit) == Pages([r \in RUNS |-> r.slot], bounded(limit))

\* ... but not on the page of that tenant, which is a 404.
tenant_runs(limit) == IF mirrored THEN runs(limit) ELSE {}

-----------------------------------------------------------------------------
(* The alerts. *)

\* The stock shown beside an alert is today's; a SKU without a position has none.
ALERT_JOINS(x) == IF x.sku \in DOMAIN positions THEN positions[x.sku] ELSE Null

AlertRow(x) ==
    [event |-> x, current_stock_qty |-> ALERT_JOINS(x), lifecycle_state |-> LifecycleState(x)]

tenant_alerts(limit) ==
    IF mirrored THEN Pages([r \in {AlertRow(x) : x \in actions} |-> r.event.as_of], bounded(limit))
    ELSE {}

\* The earlier and later raisings for the same analysis and target, itself included.
ALERT_HISTORY(x) == {h \in actions : h.analysis = x.analysis /\ h.sku = x.sku}

alert_detail(x) ==
    IF x \notin actions THEN {}
    ELSE {[alert |-> AlertRow(x), history |-> page] :
            page \in Pages([h \in ALERT_HISTORY(x) |-> h.as_of], HistoryLimit)}

\* The inbox; NULL is a filter that is not set.
FleetAlertRow(x) == [event |-> x, lifecycle_state |-> LifecycleState(x)]

fleet_alerts(quarantined, state, analysis, limit) ==
    LET rows == {r \in {FleetAlertRow(x) : x \in actions_analytical(quarantined)} :
                   /\ state = Null \/ r.lifecycle_state = state
                   /\ analysis = Null \/ r.event.analysis = analysis}
    IN  Pages([r \in rows |-> r.event.as_of], bounded(limit))

\* The inbox's chips, over all alerts: every state has one, if only a zero.
FLEET_ALERT_STATE_COUNTS(quarantined, s) ==
    Cardinality({x \in actions_analytical(quarantined) : LifecycleState(x) = s})

alert_state_counts(quarantined) ==
    [s \in ALERT_STATES |-> FLEET_ALERT_STATE_COUNTS(quarantined, s)]

-----------------------------------------------------------------------------
(* The freshness that a sweep reports, and the delivery ledger. *)

\* The active provisions are read again, and one outside the envelope costs the
\* line.  A tenant that never sold is as stale as its first provision is old.
tenant_freshness(instant) ==
    IF Active = {} \/ ~WithinEnvelope THEN Null
    ELSE LET sale == resolve_latest_sale_dates
             watched == Min({provision[a].enabled_at : a \in Active})
         IN  [latest_sale |-> sale, ever_sold |-> sale # Null,
              age_days |-> IF sale = Null THEN (instant - watched) \div 2
                           ELSE UtcDate(instant) - sale]

\* STALE_AFTER_DAYS is dead_stock's feed_stale_after_days.
stale(freshness) == freshness.age_days > FeedStaleAfterDays

\* The newest rows of the platform's ledger, up to the LIMIT; the tenants' ledger has no
\* writer yet.
LedgerRows == {m \in Messages : ledger[m] # None}
RECENT ==
    kSubset(Min({DeliveryLimit, Cardinality(LedgerRows)}), LedgerRows)

DeliveryRow(m) == [delivery_id |-> m, state |-> ledger[m]]

\* A list of exactly the limit is reported truncated, although it may be all there is.
recent_deliveries ==
    {[deliveries |-> {DeliveryRow(m) : m \in page}, truncated |-> Cardinality(page) >= DeliveryLimit] :
        page \in RECENT}

\* A second statement, over the whole ledger.
COUNTS(states) == Cardinality({m \in Messages : ledger[m] \in states})

delivery_counts ==
    [total |-> COUNTS(DeliveryState), accepted |-> COUNTS({"accepted"}), failed |-> COUNTS({"failed"})]

-----------------------------------------------------------------------------
(* Properties. *)

\* The roster, the tenant's page and the inbox's chips count the same open alerts, none of
\* a quarantined tenant; a chip is not cut off with its list; and the inbox lists what the
\* tenant's own list does, unless the tenant is quarantined: its own list, which reads
\* synapse.actions, is then the one place its alerts are shown.
CountsAgree ==
    \A quarantined \in BOOLEAN : LET chips == alert_state_counts(quarantined) IN
      /\ \A s \in ALERT_STATES : \A page \in fleet_alerts(quarantined, s, Null, MaxRows) :
           Cardinality(page) = Min({chips[s], MaxRows})
      /\ chips["open"] + chips["snoozed"] + chips["acknowledged"] + chips["dismissed"]
           = Cardinality(actions_analytical(quarantined))
      /\ mirrored /\ ~quarantined =>
           {{r.event : r \in page} : page \in fleet_alerts(quarantined, Null, Null, MaxRows)}
             = {{r.event : r \in page} : page \in tenant_alerts(MaxRows)}
      /\ \A row \in fleet(quarantined) : row.open_alerts = chips["open"]
      /\ mirrored => TENANT(quarantined).open_alerts = chips["open"]

\* A tenant with a provision, a run or an alert is on the roster and has a page.  The page
\* never leaves out an analysis that has a row, so that the console would offer it as
\* never enabled, although its two lists are read one after the other: an analysis that
\* is disabled in between is in both.
PageIsComplete ==
    \A quarantined \in BOOLEAN, gone \in SUBSET DOMAIN provision :
      LET page == tenant_detail(quarantined, Disabled(gone)) IN
        /\ DOMAIN provision # {} \/ RUNS # {} \/ actions # {} => fleet(quarantined) # {} /\ page # Null
        /\ mirrored => {s.analysis_id : s \in page.analyses} \cup page.disabled_analyses = DOMAIN provision

\* The last run on the page can be read beside the alerts: no alert of the analysis is
\* newer, a satisfied run has the alerts it proposed, and the run log, cut as short as it
\* may be, still begins with the roster's last slot.
LastRunIsBacked ==
  /\ \A quarantined \in BOOLEAN : \A row \in fleet(quarantined) : row.last_run_slot # Null =>
       \A page \in tenant_runs(0) : \E r \in page : r.slot = row.last_run_slot
  /\ \A a \in Active : LET s == AnalysisState(a) IN
      /\ \A x \in actions : x.analysis = a => s.last_slot # Null /\ x.as_of <= s.last_slot
      /\ s.last_outcome = "satisfied" =>
           Cardinality({x \in actions : x.analysis = a /\ x.as_of = s.last_slot})
             >= s.actions_proposed

\* An alert's page holds the alert among its history, unless newer ones fill it, and one
\* decision speaks for all of it.
HistoryIsOneStory ==
    \A x \in actions : \A page \in alert_detail(x) :
      /\ x \in page.history \/ (/\ Cardinality(page.history) = HistoryLimit
                                /\ \A h \in page.history : h.as_of >= x.as_of)
      /\ \A h \in page.history : LifecycleState(h) = page.alert.lifecycle_state

\* An alert is never raised on a dead feed: the newest sale on the roster is recent
\* enough for the alert's date, and a tenant that the sweep reports stale has no
\* alert of that day.
FeedWasLive ==
    /\ \A x \in actions :
         /\ resolve_latest_sale_dates # Null
         /\ x.as_of - resolve_latest_sale_dates <=
              IF x.analysis = "dead_stock" THEN FeedStaleAfterDays ELSE SeriesStaleAfterDays
    /\ tenant_freshness(now) # Null /\ stale(tenant_freshness(now)) =>
         \A x \in actions : x.as_of < UtcDate(now)

\* The run table, the action log, the exit codes and every screen that reads them tell
\* the same story, through crashes, retries, take-overs, overlapping executions and
\* data that moves under them (runner.py, run_postgres.py, action_log_postgres.py,
\* reads.py, freshness.py).
RunsAreSound ==
    /\ TypeOK
    /\ SatisfiedIsAppended
    /\ ActionsAreClaimed
    /\ ActionsHaveStock
    /\ FetchesAreBound
    /\ EnablesAreHonest
    /\ GreenIsClean
    /\ DecisionsStand
    /\ CountsAgree
    /\ PageIsComplete
    /\ LastRunIsBacked
    /\ HistoryIsOneStory
    /\ FeedWasLive

\* The delivery ledger can be believed (axon send.py, ledger.py, subscriber.py): its screen
\* shows every request that was acknowledged unless it says that it is truncated, counts
\* what it lists and what the limit cuts off alike, and makes its total up of its parts;
\* and a notice on the queue is about an analysis that is enabled.  The list and the
\* counts are compared at one instant: a row that is written between the two statements
\* is counted and not listed.
DeliveriesAreRecorded ==
    /\ AckedIsRecorded
    /\ AcceptedWasMailed
    /\ UndeliverableIsLeft
    /\ \A screen \in recent_deliveries :
         /\ screen.truncated \/ \A m \in Messages :
              msg[m] = "acked" => \E d \in screen.deliveries : d.delivery_id = m
         /\ Cardinality(screen.deliveries) = Min({DeliveryLimit, delivery_counts.total})
    /\ delivery_counts.total = delivery_counts.accepted + delivery_counts.failed
    /\ \A r \in Requests : msg[Notice[r]] # "absent" => request[r].analysis \in DOMAIN provision
=============================================================================
