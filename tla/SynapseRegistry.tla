-------------------------- MODULE SynapseRegistry --------------------------
(***************************************************************************)
(* The registry of Synapse: what each capability offers, what each         *)
(* analysis declares that it needs, the checks made when the registry is   *)
(* imported, and the resolution of a declaration against a measurement.    *)
(*                                                                         *)
(* Prose (why a constant was chosen, why a capability was declined) is     *)
(* left out, and versions never change.                                    *)
(***************************************************************************)
EXTENDS SynapseAnalyses

-----------------------------------------------------------------------------
(* The supply side. *)

Position == {"tenant_id", "store_id", "sku_id"}

Freshness == {"last_write", "as_of_date"}
GateKind == {"min_history_days"}

CapabilityDescriptor(id, grain, freshness, returns, gates) ==
    [id |-> id, grain |-> grain, freshness |-> freshness, returns |-> returns, gates |-> gates]

CURRENT_STATE ==
    CapabilityDescriptor("current_state", Position, "last_write",
        Position \cup {"product_name", "product_category", "sku_status", "current_retail_price",
                       "unit_cost", "promo_price", "stock_qty", "reorder_point", "currency",
                       "expiry_date", "last_source_event_at", "last_updated_at"},
        {})

DAILY_SERIES ==
    CapabilityDescriptor("daily_series", Position \cup {"event_date"}, "as_of_date",
        Position \cup {"event_date", "net_quantity", "sale_line_count", "return_line_count",
                       "void_line_count"},
        {"min_history_days"})

LAST_SALE_AT ==
    CapabilityDescriptor("last_sale_at", Position, "last_write",
                         Position \cup {"last_sale_date"}, {})

\* A probe with the grain it measures at: the columns it groups by, and the date it counts.
ProbeBinding == [series_grain |-> SERIES_GRAIN, date_column |-> DATE_COLUMN]

\* A registry row: what is offered, and the probe of each gate.
RegisteredCapability(descriptor) ==
    [descriptor |-> descriptor, probes |-> [g \in descriptor.gates |-> ProbeBinding]]

_REGISTRY ==
    [current_state |-> RegisteredCapability(CURRENT_STATE),
     daily_series |-> RegisteredCapability(DAILY_SERIES),
     last_sale_at |-> RegisteredCapability(LAST_SALE_AT)]

\* The ids known never to get an entry.
_DECLINED == {"lead_time_distribution"}

-----------------------------------------------------------------------------
(* The demand side. *)

SeriesPolicy == {"all_series", "any_series"}

\* A bound gate: how many distinct dates, and what is enough over a population.
MinHistory(days, policy) == [kind |-> "min_history_days", days |-> days, policy |-> policy]

Threshold(name, days) == [name |-> name, days |-> days]

CapabilityRequirement(id, fields, gates, window) ==
    [capability_id |-> id, fields |-> fields, gates |-> gates, window_from_threshold |-> window]

Holdout == [unit |-> Position, holdout_percent |-> 20]

DEAD_STOCK ==
    [id |-> "dead_stock",
     grain |-> Position,
     requires |-> <<CapabilityRequirement("current_state",
                        Position \cup {"stock_qty", "sku_status"}, {}, Null),
                    CapabilityRequirement("last_sale_at", Position \cup {"last_sale_date"}, {}, Null)>>,
     emits |-> Position \cup {"days_since_last_sale", "is_dead_stock", "refused_because",
                              "refusal_reason"},
     holdout |-> Holdout,
     max_rung |-> "shadow",
     thresholds |-> <<Threshold("stale_after_days", StaleAfterDays),
                      Threshold("expires_after_days", ExpiresAfterDays["dead_stock"]),
                      Threshold("feed_stale_after_days", FeedStaleAfterDays)>>]

STOCKOUT_RISK_REQUIRES ==
    <<CapabilityRequirement("current_state", Position \cup {"stock_qty", "sku_status"}, {}, Null),
      CapabilityRequirement("daily_series", Position \cup {"event_date", "net_quantity"},
                            {MinHistory(MinHistoryDays, "any_series")}, "window_days")>>

STOCKOUT_RISK ==
    [id |-> "stockout_risk",
     grain |-> Position,
     requires |-> STOCKOUT_RISK_REQUIRES,
     emits |-> Position \cup {"days_of_cover", "is_at_risk", "refused_because", "refusal_reason"},
     holdout |-> Holdout,
     max_rung |-> "shadow",
     thresholds |-> <<Threshold("window_days", WindowDays),
                      Threshold("at_risk_below_days", AtRiskBelowDays),
                      Threshold("stale_after_days", SeriesStaleAfterDays),
                      Threshold("expires_after_days", ExpiresAfterDays["stockout_risk"])>>]

_DECLARATIONS == [dead_stock |-> DEAD_STOCK, stockout_risk |-> STOCKOUT_RISK]

\* Each declaration's requirements by capability, and its thresholds as every consumer
\* reads them: {threshold.name: threshold.days}.
Requirement ==
    [a \in DOMAIN _DECLARATIONS |->
       LET requires == ToSet(_DECLARATIONS[a].requires)
       IN  [id \in {r.capability_id : r \in requires} |->
              CHOOSE r \in requires : r.capability_id = id]]

Days ==
    [a \in DOMAIN _DECLARATIONS |->
       LET thresholds == ToSet(_DECLARATIONS[a].thresholds)
       IN  [n \in {t.name : t \in thresholds} |-> (CHOOSE t \in thresholds : t.name = n).days]]

\* The gates an analysis has probed before it resolves.
Gates == [a \in DOMAIN _DECLARATIONS |->
            UNION {r.gates : r \in ToSet(_DECLARATIONS[a].requires)}]

\* The row each evaluator returns, the analyses with a proposer, and those with a plan.
_EVALUATOR_ROWS ==
    [dead_stock |-> DeadStockRow(Null, FALSE, Null),
     stockout_risk |-> StockoutRiskRow(Null, FALSE, Null)]
_ACTIONS == {"dead_stock", "stockout_risk"}
_PLANS == {"dead_stock", "stockout_risk"}

max_rungs == [a \in DOMAIN _DECLARATIONS |-> _DECLARATIONS[a].max_rung]
rung_rank(rung) == IF rung = "shadow" THEN 0 ELSE 1

-----------------------------------------------------------------------------
(* The checks made at import: a process that runs has passed them. *)

\* The __post_init__ of a declaration and of its parts.
Declarable(d) ==
    /\ d.requires # <<>>
    /\ IsInjective([i \in DOMAIN d.requires |-> d.requires[i].capability_id])
    /\ IsInjective([i \in DOMAIN d.thresholds |-> d.thresholds[i].name])
    /\ \A t \in ToSet(d.thresholds) : t.days >= 1
    /\ \A r \in ToSet(d.requires) :
         /\ r.fields # {}
         /\ \A g, h \in r.gates : g.kind = h.kind => g = h
         /\ \A g \in r.gates : g.days >= 1 /\ g.policy \in SeriesPolicy

\* A gate is measured at the declared grain less the date.
_check_probe_grain(binding, descriptor) ==
    /\ binding.date_column \in descriptor.grain
    /\ binding.date_column \notin binding.series_grain
    /\ binding.series_grain \cup {binding.date_column} = descriptor.grain

_check_registry ==
    /\ \A id \in DOMAIN _REGISTRY : LET entry == _REGISTRY[id] IN
         /\ entry.descriptor.id = id
         /\ DOMAIN entry.probes = entry.descriptor.gates
         /\ \A g \in DOMAIN entry.probes : _check_probe_grain(entry.probes[g], entry.descriptor)
    /\ DOMAIN _REGISTRY \cap _DECLINED = {}

\* What is required is registered, fine enough to be joined, and returned.
_check_declarations ==
    \A a \in DOMAIN _DECLARATIONS : LET d == _DECLARATIONS[a] IN
      /\ d.id = a
      /\ \A r \in ToSet(d.requires) :
           /\ r.capability_id \in DOMAIN _REGISTRY
           /\ d.grain \subseteq _REGISTRY[r.capability_id].descriptor.grain
           /\ r.fields \subseteq _REGISTRY[r.capability_id].descriptor.returns

\* A window is named by a threshold, and asked of a capability that has dates.
check_window_declarations ==
    \A a \in DOMAIN _DECLARATIONS : \A r \in ToSet(_DECLARATIONS[a].requires) :
      r.window_from_threshold # Null =>
        /\ r.window_from_threshold \in {t.name : t \in ToSet(_DECLARATIONS[a].thresholds)}
        /\ _REGISTRY[r.capability_id].descriptor.freshness = "as_of_date"

\* Every declaration has an evaluator, whose rows have the fields it promises.
_check_analyses ==
    /\ DOMAIN _EVALUATOR_ROWS = DOMAIN _DECLARATIONS
    /\ \A a \in DOMAIN _DECLARATIONS :
         Position \cup {"refused_because"} \cup DOMAIN _EVALUATOR_ROWS[a] = _DECLARATIONS[a].emits

\* No action without an arm, and no arm over a column that rows do not have.
_check_actions ==
    /\ _ACTIONS \subseteq DOMAIN _DECLARATIONS
    /\ \A a \in _ACTIONS : LET h == _DECLARATIONS[a].holdout IN
         /\ h # Null
         /\ h.unit # {} /\ h.unit \subseteq _DECLARATIONS[a].grain
         /\ h.holdout_percent \in 1..99

check_plan_bindings == _ACTIONS \subseteq _PLANS /\ _PLANS \subseteq DOMAIN _DECLARATIONS

ASSUME RegistryAssumption ==
    /\ \A a \in DOMAIN _DECLARATIONS : Declarable(_DECLARATIONS[a])
    /\ _check_registry
    /\ _check_declarations
    /\ _check_analyses
    /\ check_window_declarations
    /\ _check_actions
    /\ check_plan_bindings

-----------------------------------------------------------------------------
(* Resolution. *)

satisfies(policy, observation) ==
    IF policy = "all_series"
    THEN /\ observation.pairs_measured > 0
         /\ observation.pairs_qualifying = observation.pairs_measured
    ELSE observation.pairs_qualifying > 0

Satisfied(qualifying_series) == [status |-> "satisfied", qualifying |-> qualifying_series]
PreconditionUnmet(unmet) == [status |-> "precondition_unmet", unmet |-> unmet]
Unregistered(id) == [status |-> "unregistered", declined |-> id \in _DECLINED]
Raised == [status |-> "raised"]

\* A measurement: the counts of one statement and the series named by another, which the
\* constructor raises about unless they agree.
Agrees(counts, series) == Cardinality(series) = counts.pairs_qualifying
Observation(counts, series) ==
    [pairs_measured |-> counts.pairs_measured, pairs_qualifying |-> counts.pairs_qualifying,
     qualifying |-> series]

\* observed is what the probe of each gate measured.  The call binds every declared gate
\* and no other.  Every gate is evaluated; without one nothing is measured (NULL), and the
\* fetch is not narrowed.
resolve(id, gates, observed) ==
    IF id \notin DOMAIN _REGISTRY THEN Unregistered(id)
    ELSE IF {g.kind : g \in gates} # _REGISTRY[id].descriptor.gates THEN Raised
    ELSE LET unmet == {g \in gates : ~satisfies(g.policy, observed[g.kind])}
         IN  IF unmet # {} THEN PreconditionUnmet({g.kind : g \in unmet})
             ELSE Satisfied(IF gates = {} THEN Null
                            ELSE {k \in Skus : \A g \in gates : k \in observed[g.kind].qualifying})

\* The dates a requirement is fetched for, as_of being the last of them.
window_for(analysis, id, asOf) ==
    LET name == Requirement[analysis][id].window_from_threshold
    IN  IF name = Null THEN Null
        ELSE [date_from |-> asOf - (Days[analysis][name] - 1), date_to |-> asOf]

\* Every requirement is resolved; one that is not satisfied blocks the analysis, and
\* otherwise each fetch is bound to the series that qualified and to its window.
resolve_declaration(analysis, asOf, observed) ==
    LET required == DOMAIN Requirement[analysis]
        outcome(id) == resolve(id, Requirement[analysis][id].gates, observed)
        blocked == {id \in required : outcome(id).status # "satisfied"}
    IN  IF \E id \in required : outcome(id) = Raised THEN Raised
        ELSE IF blocked # {} THEN [status |-> "blocked", blocked |-> blocked]
        ELSE [status |-> "satisfied",
              fetches |-> [id \in required |-> [only_series |-> outcome(id).qualifying,
                                               window |-> window_for(analysis, id, asOf)]]]

-----------------------------------------------------------------------------
(* The plans: what each analysis passes to its evaluator, by name, and its proposer. *)

_plan_dead_stock(universe, survivors, asOf) ==
    LET days == Days["dead_stock"]
    IN  evaluate_dead_stock(universe, resolve_last_sale_at(survivors),
                            days["stale_after_days"], days["feed_stale_after_days"], asOf)

\* The bar on observations in the window is the gate's own.
_plan_stockout_risk(universe, survivors, fetch, asOf) ==
    LET days == Days["stockout_risk"]
        gate == CHOOSE g \in Gates["stockout_risk"] : TRUE
        series == resolve_daily_series(survivors, fetch.only_series,
                                       fetch.window.date_from, fetch.window.date_to)
    IN  evaluate_stockout_risk(universe, series,
            [window_days |-> days["window_days"],
             at_risk_below_days |-> days["at_risk_below_days"],
             stale_after_days |-> days["stale_after_days"],
             min_observations |-> gate.days], asOf)

\* plan_for: the findings of a plan, and what it returns of them.
FindingsOf(analysis, universe, survivors, fetches, asOf) ==
    IF analysis = "dead_stock" THEN _plan_dead_stock(universe, survivors, asOf)
    ELSE _plan_stockout_risk(universe, survivors, fetches["daily_series"], asOf)

PlanResult(analysis, universe, findings, asOf) ==
    [actions |-> IF analysis = "dead_stock"
                 THEN propose_dead_stock_actions(universe, findings, asOf)
                 ELSE propose_stockout_actions(universe, findings, asOf),
     refusals |-> counts_by_reason(findings)]
=============================================================================
