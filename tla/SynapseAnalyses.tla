-------------------------- MODULE SynapseAnalyses --------------------------
(***************************************************************************)
(* The analyses of Synapse as pure operators: the capabilities they read   *)
(* (last_sale_at, daily_series and its history gate; current_state is the  *)
(* universe), the two evaluators with their refusals, and the actions they *)
(* propose.  SynapseRegistry binds them to each other.                     *)
(*                                                                         *)
(* The universe is a function from the SKUs that have a position to their  *)
(* stock_qty, None standing for NULL.  A sale line is a record with the    *)
(* source event it reports, its UTC event_date, its subtype and its signed *)
(* quantity; the sequence of lines is in arrival order, which is the       *)
(* last_updated_at / id tie-break.                                         *)
(***************************************************************************)
EXTENDS Integers, Sequences, FiniteSets, SequencesExt

CONSTANTS
    Skus,
    Null,                 \* SQL NULL / Python None
    StaleAfterDays,       \* dead_stock: days without a sale that make it dead
    FeedStaleAfterDays,   \* dead_stock: the age at which the whole feed is refused
    WindowDays,           \* stockout_risk: the window of the rate
    AtRiskBelowDays,      \* stockout_risk: days of cover that are too few
    SeriesStaleAfterDays, \* stockout_risk: age at which a series is refused
    MinHistoryDays,       \* stockout_risk: the gate on daily_series
    ExpiresAfterDays,     \* how long an action of each analysis stands
    Held                  \* <<analysis, sku>> pairs that assign puts in the holdout

Analyses == {"dead_stock", "stockout_risk"}

ASSUME AnalysesAssumption ==
    /\ {StaleAfterDays, FeedStaleAfterDays, WindowDays, AtRiskBelowDays, SeriesStaleAfterDays,
        MinHistoryDays} \subseteq Nat \ {0}
    /\ ExpiresAfterDays \in [Analyses -> Nat \ {0}]
    /\ SeriesStaleAfterDays <= FeedStaleAfterDays   \* they agree, says core/analysis.py

\* declared_analysis_ids, in the order the provisions are read.
First(S) == IF "dead_stock" \in S THEN "dead_stock" ELSE "stockout_risk"

-----------------------------------------------------------------------------
(* The capabilities. *)

\* DISTINCT ON the source event, latest sale timestamp first, then latest arrival.
collapse_latest_wins(lines) ==
    {lines[i] : i \in {i \in DOMAIN lines :
        \A j \in DOMAIN lines :
          lines[j].event = lines[i].event =>
            lines[j].day < lines[i].day \/ (lines[j].day = lines[i].day /\ j <= i)}}

\* The capabilities read the lines that survive the collapse.  MAX(event_date) of
\* the SALE lines, per SKU that has one:
resolve_last_sale_at(survivors) ==
    LET sales == {r \in survivors : r.subtype = "SALE"}
    IN  [k \in {r.sku : r \in sales} |-> Max({r.day : r \in {s \in sales : s.sku = k}})]

\* The columns the daily series is grouped by, and the one that makes it a series.
SERIES_GRAIN == {"tenant_id", "store_id", "sku_id"}
DATE_COLUMN == "event_date"

\* SUM(quantity) of some lines.
NetQuantity(of) == MapThenSumSet(LAMBDA x : x.quantity, of)

\* One row per SKU and day that has a surviving line, over a window of days and, unless
\* NULL, over the named series only.  A RETURN or a VOID counts with its sign.
resolve_daily_series(survivors, only_series, date_from, date_to) ==
    LET within == {r \in survivors : /\ r.day \in date_from..date_to
                                     /\ only_series = Null \/ r.sku \in only_series}
        of(k, d) == {r \in within : r.sku = k /\ r.day = d}
    IN  {[sku |-> r.sku, event_date |-> r.day,
          net_quantity |-> NetQuantity(of(r.sku, r.day))] : r \in within}

\* Distinct days with a surviving line, whatever their age.
coverage(survivors, k) == Cardinality({r.day : r \in {s \in survivors : s.sku = k}})

\* probe_min_history_days, its two statements: how many series there are and how many of
\* them clear the bar, and which those are.
probe_statement(survivors, required) ==
    LET measured == {r.sku : r \in survivors}
    IN  [pairs_measured |-> Cardinality(measured),
         pairs_qualifying |-> Cardinality({k \in measured : coverage(survivors, k) >= required})]

qualifying_statement(survivors, required) ==
    {k \in {r.sku : r \in survivors} : coverage(survivors, k) >= required}

-----------------------------------------------------------------------------
(* The evaluators: per position, why it is refused, or its verdict. *)

\* The rows of the two analyses; a position is the key of its row.
DeadStockRow(days, dead, refusal) ==
    [days_since_last_sale |-> days, is_dead_stock |-> dead, refusal_reason |-> refusal]
StockoutRiskRow(cover, at_risk, refusal) ==
    [days_of_cover |-> cover, is_at_risk |-> at_risk, refusal_reason |-> refusal]

\* The whole feed is refused when nothing was ever sold or nothing lately.
_feed_refusal(selling, feed_stale_after_days, asOf) ==
    IF DOMAIN selling = {} THEN "no_sale_history"
    ELSE IF asOf - Max({selling[k] : k \in DOMAIN selling}) > feed_stale_after_days THEN "feed_stale"
    ELSE Null

_stock_refusal(qty) ==
    IF qty = Null THEN "no_stock_quantity"
    ELSE IF qty <= 0 THEN "no_stock_on_hand"
    ELSE Null

\* A position that was never sold has no age, and is dead.
evaluate_dead_stock(universe, selling, stale_after_days, feed_stale_after_days, asOf) ==
    LET feed == _feed_refusal(selling, feed_stale_after_days, asOf)
        age(k) == IF k \in DOMAIN selling THEN asOf - selling[k] ELSE Null
    IN  [k \in DOMAIN universe |->
           LET refusal == IF feed # Null THEN feed ELSE _stock_refusal(universe[k])
           IN  DeadStockRow(age(k),
                            refusal = Null /\ (age(k) = Null \/ age(k) >= stale_after_days),
                            refusal)]

TotalSold(observations) == MapThenSumSet(LAMBDA r : r.net_quantity, observations)

\* The refusals of stockout_risk, in the order they are tried, for one position and
\* the days observed of it in the window.
_refusal(qty, observations, t, asOf) ==
    IF qty = Null THEN "no_stock_quantity"
    ELSE IF observations = {} THEN "no_observations_in_window"
    ELSE IF asOf - Max({r.event_date : r \in observations}) > t.stale_after_days
         THEN "series_too_stale"
    ELSE IF Cardinality(observations) < t.min_observations THEN "too_few_observations"
    ELSE IF ~(TotalSold(observations) > 0) THEN "no_positive_demand"
    ELSE Null

\* cover = stock / (total / window_days), kept as a fraction; at risk below the horizon.
_assess(qty, observations, t, asOf) ==
    LET refusal == _refusal(qty, observations, t, asOf)
        stock == qty * t.window_days
        total == TotalSold(observations)
    IN  IF refusal # Null THEN StockoutRiskRow(Null, FALSE, refusal)
        ELSE StockoutRiskRow(<<stock, total>>, stock < t.at_risk_below_days * total, Null)

\* t holds the thresholds and the gate that the plan passes by name.
evaluate_stockout_risk(universe, series, t, asOf) ==
    [k \in DOMAIN universe |-> _assess(universe[k], {r \in series : r.sku = k}, t, asOf)]

-----------------------------------------------------------------------------
(* The actions. *)

\* The arm of the holdout experiment a subject is assigned to, for good.
assign(analysis, k) == IF <<analysis, k>> \in Held THEN "holdout" ELSE "treatment"

\* An action, with what was measured when it was first recorded.
Action(analysis, k, asOf, quantity, measure) ==
    [analysis |-> analysis, sku |-> k, as_of |-> asOf, quantity |-> quantity,
     expires_on |-> asOf + ExpiresAfterDays[analysis], arm |-> assign(analysis, k),
     measure |-> measure]

\* Action.__post_init__, which the proposer runs and every read of the log runs again.
Constructible(x) ==
    /\ x.quantity = Null \/ x.quantity >= 0
    /\ x.expires_on >= x.as_of
    /\ x.measure # Null => IF x.analysis = "dead_stock" THEN x.measure >= 0
                           ELSE x.measure[1] >= 0 /\ x.measure[2] > 0

\* propose_dead_stock_actions: one per dead position, with the stock of the universe.
propose_dead_stock_actions(universe, findings, asOf) ==
    {Action("dead_stock", k, asOf, universe[k], findings[k].days_since_last_sale) :
       k \in {k \in DOMAIN findings : findings[k].is_dead_stock}}

propose_stockout_actions(universe, findings, asOf) ==
    {Action("stockout_risk", k, asOf, universe[k], findings[k].days_of_cover) :
       k \in {k \in DOMAIN findings : findings[k].is_at_risk}}

\* The columns of uq_actions_idempotency: the natural key, and the payload that tells a
\* retry from a correction.  What was measured is in neither.
payload_hash(x) == [quantity |-> x.quantity, expires_on |-> x.expires_on, arm |-> x.arm]
IdempotencyKey(x) == <<x.analysis, x.sku, x.as_of, payload_hash(x)>>

\* Every reason a position is refused for.
RefusalReason ==
    {"no_sale_history", "feed_stale", "no_stock_quantity", "no_stock_on_hand",
     "no_observations_in_window", "series_too_stale", "too_few_observations", "no_positive_demand"}

\* What counts_by_reason may return, and what a run without a plan records.
Refusals == {<<>>} \cup UNION {[S -> Nat] : S \in SUBSET RefusalReason}

\* counts_by_reason, as the number of positions refused for each reason.
Reasons(findings) == {findings[k].refusal_reason : k \in DOMAIN findings} \ {Null}
counts_by_reason(findings) ==
    [r \in Reasons(findings) |->
       Cardinality({k \in DOMAIN findings : findings[k].refusal_reason = r})]
=============================================================================
