---------------------------- MODULE MappingGates ----------------------------
(***************************************************************************)
(* The gates a set of mapping rules and a chunk pass.  dis-ui-server gates *)
(* the rules before it stores them: POST translates the columns the        *)
(* operator picked from the field catalogue, PATCH takes a rules document, *)
(* and both run the same checks.  The streaming-consumer gates the stored  *)
(* version when it loads it, and every chunk before and after the engine;  *)
(* what passes still meets the CHECKs of the canonical tables.             *)
(***************************************************************************)
EXTENDS CanonicalModels, MappingEngine

-----------------------------------------------------------------------------
(* The field catalogue: what GET /template-mapping-fields offers.  Labels,    *)
(* sections and descriptions are left out.                                  *)

reflect_field_shape(model, name) == model_fields(model)[name]

enrichment_guaranteed_for(model) ==
    IF model = StoreSkuCurrentPosition THEN enrichment_fields(model) ELSE {}

catalogue_entries(model) ==
    {[key |-> name, mandatory |-> name \in mandatory_mapping_produced(model, enrichment_guaranteed_for(model)),
      shape |-> reflect_field_shape(model, name)] : name \in mapping_produced_columns(model)}

build_field_catalogs == [type \in TEMPLATE_TYPES |-> catalogue_entries(MODEL_BY_TYPE[type])]

IGNORE == "__ignore__"

-----------------------------------------------------------------------------
(* POST: the picked columns become rules. *)

DATE_TOKEN_TO_STRPTIME ==
    ("DD-MM-YYYY" :> "%d-%m-%Y") @@ ("DD/MM/YYYY" :> "%d/%m/%Y") @@ ("MM/DD/YYYY" :> "%m/%d/%Y")
    @@ ("YYYY-MM-DD" :> ISO_DATE) @@ ("DD-MM-YY" :> "%d-%m-%y")

CAST_TYPE_BY_DATATYPE ==
    [text |-> "string", choice |-> "string", integer |-> "integer", number |-> "decimal",
     date |-> "date", datetime |-> "datetime", boolean |-> "boolean"]

\* A picked column; the src fields the operator left blank are null.
MappingColumn(src, dest) ==
    [src_key |-> src, dest_key |-> dest, src_datetime_format |-> NULL,
     src_decimal_separator |-> NULL, src_thousand_separator |-> NULL, src_is_percentage |-> FALSE]

dated(column, shape) ==
    column.src_datetime_format # NULL /\ shape.datatype \in {"date", "datetime"}

normalize_ops(column, shape) ==
    LET fmt == DATE_TOKEN_TO_STRPTIME[column.src_datetime_format]
        separators == [decimal_separator |-> column.src_decimal_separator,
                       thousands_separator |-> column.src_thousand_separator]
    IN  CASE dated(column, shape) /\ shape.datatype = "date" ->
               <<[op |-> "parse_date", args |-> [format |-> fmt]]>>
          [] dated(column, shape) /\ shape.datatype = "datetime" ->
               <<[op |-> "parse_datetime", args |-> [format |-> fmt, timezone |-> "UTC"]]>>
          [] shape.datatype = "number" /\ column.src_is_percentage ->
               <<[op |-> "parse_percent", args |-> separators]>>
          [] shape.datatype = "number" /\ ~column.src_is_percentage
                 /\ column.src_decimal_separator # NULL ->
               <<[op |-> "parse_decimal", args |-> separators]>>
          [] OTHER -> <<>>

cast_spec(shape) ==
    IF shape.datatype = "number"
    THEN [type |-> "decimal", precision |-> shape.precision, scale |-> shape.scale]
    ELSE [type |-> CAST_TYPE_BY_DATATYPE[shape.datatype]]

\* The date token and the datatype of the destination are known (a UUID or a JSON
\* column has no cast target).
translatable(column, shape) ==
    /\ dated(column, shape) => column.src_datetime_format \in DOMAIN DATE_TOKEN_TO_STRPTIME
    /\ shape.datatype \in DOMAIN CAST_TYPE_BY_DATATYPE

kept_columns(body) == {i \in DOMAIN body.columns : body.columns[i].dest_key # IGNORE}

\* Of two columns with the same key the later one is stored.
last_with(body, key, value) ==
    LET hits == {i \in kept_columns(body) : body.columns[i][key] = value}
    IN  body.columns[CHOOSE i \in hits : \A j \in hits : j <= i]

known_columns(body) ==
    {i \in kept_columns(body) :
        body.columns[i].dest_key \in DOMAIN model_fields(MODEL_BY_TYPE[body.template_type])}

translation_accepted(body) ==
    \A i \in known_columns(body) :
        translatable(body.columns[i],
                     reflect_field_shape(MODEL_BY_TYPE[body.template_type], body.columns[i].dest_key))

translate_columns_to_mapping_rules(body) ==
    LET shapes == model_fields(MODEL_BY_TYPE[body.template_type])
        dests == {body.columns[i].dest_key : i \in known_columns(body)}
        ops(d) == normalize_ops(last_with(body, "dest_key", d), shapes[d])
    IN  [version |-> 1,
         rename |-> [s \in {body.columns[i].src_key : i \in kept_columns(body)} |->
                        last_with(body, "src_key", s).dest_key],
         normalize |-> [d \in {e \in dests : ops(e) # <<>>} |-> ops(d)],
         cast |-> [d \in dests |-> cast_spec(shapes[d])],
         derive |-> <<>>]

-----------------------------------------------------------------------------
(* The checks POST and PATCH share. *)

parse_mapping_rules(raw) == validate_rules(raw) /\ DOMAIN with_defaults(raw).rename # {}

check_target_legality(source, model) == target_columns(source) \subseteq mapping_produced_columns(model)

\* Mutant: what enrichment does not guarantee is taken as guaranteed.
check_mandatory_coverage_Skipped(source, model) == TRUE

check_mandatory_coverage(source, model) ==
    mandatory_mapping_produced(model, enrichment_guaranteed_for(model)) \subseteq target_columns(source)

ExpiryTriple == {"expiry_date", "expiry_source", "expiry_confidence"}
CATALOGUE_PRESENCE_PAIRINGS ==
    {[trigger |-> {"promo_identifier"}, companion |-> {"promo_price"}],
     [trigger |-> ExpiryTriple, companion |-> ExpiryTriple]}

check_presence_pairings(source) ==
    \A p \in CATALOGUE_PRESENCE_PAIRINGS :
        p.trigger \cap target_columns(source) # {} => p.companion \subseteq target_columns(source)

require_template_type(type) == type \in TEMPLATE_TYPES

validate_mapping_rules_for_type(raw, type) ==
    /\ require_template_type(type)
    /\ parse_mapping_rules(raw)
    /\ LET source == with_defaults(raw)
           model == MODEL_BY_TYPE[type]
       IN  /\ check_target_legality(source, model)
           /\ check_mandatory_coverage(source, model)
           /\ model = StoreSkuCurrentPosition => check_presence_pairings(source)

\* POST and POST /validate.
body_accepted(body) ==
    /\ require_template_type(body.template_type)
    /\ translation_accepted(body)
    /\ validate_mapping_rules_for_type(translate_columns_to_mapping_rules(body), body.template_type)

-----------------------------------------------------------------------------
(* The consumer loads a stored version. *)

SALE_HOT_PROJECTION ==
    [unit_retail_price |-> "current_retail_price", unit_cost |-> "unit_cost",
     promo_identifier |-> "promo_identifier", currency |-> "currency"]
CHANGE_HOT_PROJECTION ==
    (<<"PRICE", "current_retail_price">> :> "current_retail_price")
    @@ (<<"COST", "unit_cost">> :> "unit_cost") @@ (<<"INVENTORY", "stock_qty">> :> "stock_qty")
    @@ (<<"CATALOGUE", "product_name">> :> "product_name") @@ (<<"STATUS", "sku_status">> :> "sku_status")

HOT_REQUIRED_FROM_PROJECTION ==
    mandatory_mapping_produced(StoreSkuCurrentPosition, enrichment_fields(StoreSkuCurrentPosition))
HOT_CHECK_IMPLICATIONS == CATALOGUE_PRESENCE_PAIRINGS

\* The column is the same known string in every row.
constant_derive(source, column) ==
    /\ column \in DOMAIN source.derive
    /\ source.derive[column][1].op = "constant"
    /\ is_str(source.derive[column][1].args.value)

\* The hot column a change of this category and attribute is about, if any.
change_hot_column(category, attribute) ==
    LET pair == <<category.word, attribute.word>>
    IN  IF category.case = "upper" /\ attribute.case = "lower" /\ pair \in DOMAIN CHANGE_HOT_PROJECTION
        THEN {CHANGE_HOT_PROJECTION[pair]} ELSE {}

guaranteed_hot_columns(source, model) ==
    LET targets == target_columns(source)
        value(column) == source.derive[column][1].args.value
    IN  IF model = StoreSkuCurrentPosition
        THEN (targets \cap mapping_produced_columns(model)) \cup enrichment_fields(model)
        ELSE IF model = StoreSkuSaleEvent
        THEN {SALE_HOT_PROJECTION[t] : t \in targets \cap DOMAIN SALE_HOT_PROJECTION}
        ELSE IF \A c \in {"event_category", "attribute_name"} : constant_derive(source, c)
        THEN change_hot_column(value("event_category"), value("attribute_name")) ELSE {}

classify_hot_completeness(source, model) ==
    LET guaranteed == guaranteed_hot_columns(source, model)
    IN  /\ HOT_REQUIRED_FROM_PROJECTION \subseteq guaranteed
        /\ \A p \in HOT_CHECK_IMPLICATIONS : p.trigger \cap guaranteed # {} => p.companion \subseteq guaranteed

fitting_models(source) == {m \in EVENT_MODELS : target_columns(source) \subseteq mapping_produced_columns(m)}

\* load_active_mapping parses the row and routes it.
loadable(raw, type) ==
    /\ parse_mapping_rules(raw)
    /\ type # "snapshot" => Cardinality(fitting_models(with_defaults(raw))) = 1

route_target_model(source, type) ==
    IF type = "snapshot" THEN StoreSkuCurrentPosition ELSE CHOOSE m \in fitting_models(source) : TRUE

load_active_mapping(raw, type) ==
    LET source == with_defaults(raw)
        target == route_target_model(source, type)
    IN  [source |-> source, target_model |-> target,
         hot_complete |-> classify_hot_completeness(source, target)]

-----------------------------------------------------------------------------
(* The gates around the engine. *)

\* SourceShapeSuiteDef.from_rename: presence of the columns the engine reads, one row.
source_shape_suite(rename) == [expected_columns |-> DOMAIN rename, min_rows |-> 1]

run_source_shape(suite, frame) ==
    /\ Len(frame) >= suite.min_rows
    /\ \A i \in DOMAIN frame : suite.expected_columns \subseteq DOMAIN frame[i]

suite_dtype(shape) ==
    CASE shape.datatype \in {"text", "choice"} -> [dtype |-> "string"]
      [] shape.datatype = "number" ->
           [dtype |-> "decimal", precision |-> shape.precision, scale |-> shape.scale]
      [] OTHER -> [dtype |-> shape.datatype]

\* One column of the suite derived from the model.
column_from_field(model, name) ==
    LET shape == model_fields(model)[name]
    IN  [dtype |-> suite_dtype(shape), shape |-> shape, nullable |-> name \notin DOMAIN model.required]

owned_columns(loaded) ==
    target_columns(loaded.source) \cup
        (IF loaded.target_model = StoreSkuCurrentPosition THEN enrichment_fields(loaded.target_model) ELSE {})

materialize_canonical_shape(loaded) ==
    [name \in owned_columns(loaded) |-> column_from_field(loaded.target_model, name)]

\* Enrichment writes strings.
contributed_dtype(loaded, name) ==
    IF loaded.target_model = StoreSkuCurrentPosition /\ name \in enrichment_fields(loaded.target_model)
    THEN [dtype |-> "string"] ELSE column_dtype(loaded.source, name)

\* Row-less failures: a dtype that is not the model's (JSON columns take any).
dtype_failures(loaded) ==
    {name \in owned_columns(loaded) :
        LET column == column_from_field(loaded.target_model, name)
        IN  /\ column.shape.datatype # "json"
            /\ column.dtype # contributed_dtype(loaded, name)}

\* Length of a numeral or a date in text form never matters to a column that allows it.
str_length(text) == IF text.kind = "word" THEN text.length ELSE 1

cell_passes(cell, column) ==
    IF cell = Null THEN column.nullable
    ELSE CASE column.shape.datatype = "text" -> str_length(cell) <= column.shape.limit
           [] column.shape.datatype = "choice" ->
                \E v \in column.shape.values : cell = Word(v, "upper", cell.length)
           [] OTHER -> TRUE

run_canonical_shape(loaded, contribution) ==
    LET suite == materialize_canonical_shape(loaded)
    IN  {i \in DOMAIN contribution :
            \E name \in DOMAIN suite : ~cell_passes(contribution[i][name], suite[name])}

\* apply_enrichment: the facts win over the mapping.
apply_enrichment(loaded, contribution, facts) ==
    IF loaded.target_model = StoreSkuCurrentPosition
    THEN [i \in DOMAIN contribution |-> [f \in enrichment_fields(loaded.target_model) |-> facts[f]]
                                        @@ contribution[i]]
    ELSE contribution

verdict(gate, stage, rows) == [gate |-> gate, stage |-> stage, rows |-> rows]

\* Steps 4 to 6 of _process: the first gate with a failure decides, at row grain when
\* every failure names a row.
chunk_verdict(loaded, frame, facts) ==
    LET result == apply_mapping(loaded.source, frame)
        failed == run_canonical_shape(loaded, apply_enrichment(loaded, result.contribution, facts))
    IN  IF ~run_source_shape(source_shape_suite(loaded.source.rename), frame)
        THEN verdict("shape", "PRE_MAPPING_VALIDATED", {})
        ELSE IF mapping_config_refused(loaded.source) THEN verdict("config", "RECEIVED", {})
        ELSE IF result.failures # {} THEN verdict("rows", "MAPPING_EXECUTED", result.failures)
        ELSE IF dtype_failures(loaded) # {} THEN verdict("shape", "POST_MAPPING_VALIDATED", {})
        ELSE verdict(IF failed = {} THEN "pass" ELSE "rows", "POST_MAPPING_VALIDATED", failed)

-----------------------------------------------------------------------------
(* The rows that leave the gates, and the CHECKs of the tables they enter. *)

has(row, column) == column \in DOMAIN row /\ row[column] # Null

NUMERIC_CATEGORIES == {"INVENTORY", "PRICE", "COST"}

\* What an event row brings to the hot row (_hot_contributions).
hot_contributions(loaded, row) ==
    IF loaded.target_model = StoreSkuSaleEvent
    THEN {SALE_HOT_PROJECTION[c] : c \in {d \in DOMAIN SALE_HOT_PROJECTION : has(row, d)}}
    ELSE IF /\ \A c \in {"event_category", "attribute_name", "value_after"} : has(row, c)
            /\ row.event_category.word \in NUMERIC_CATEGORIES => plain(row.value_after)  \* _as_decimal
    THEN change_hot_column(row.event_category, row.attribute_name) ELSE {}

within(row, column, low, high) == has(row, column) => row[column].value \in low..high

MaxUnits == 2000000000  \* above every value of the model
SMALLINT == 32767

\* store_sku_sale_events.
sale_row_legal(row) ==
    /\ \A c \in {"unit_retail_price", "unit_sale_price", "unit_cost", "discount_amount", "tax_amount"} :
         within(row, c, 0, MaxUnits)
    /\ row.unit_sale_price.value <= row.unit_retail_price.value
    /\ within(row, "discount_pct", 0, 100 * Unit)
    /\ within(row, "line_item_seq", 1, SMALLINT)
    /\ IF row.event_subtype.word = "SALE" THEN row.quantity.value > 0 ELSE row.quantity.value < 0
    /\ row.event_date.value = row.source_sale_timestamp.value \div DayMinutes

\* store_sku_change_events.
change_row_legal(row) ==
    /\ row.event_date.value = row.source_event_timestamp.value \div DayMinutes
    /\ has(row, "effective_from") /\ has(row, "effective_until") =>
         row.effective_until.value > row.effective_from.value
    /\ has(row, "value_before") \/ has(row, "value_after")

\* store_sku_current_position.
hot_row_legal(row) ==
    /\ \A c \in {"current_retail_price", "unit_cost", "promo_price", "stock_qty", "reorder_point"} :
         within(row, c, 0, MaxUnits)
    /\ within(row, "lead_time_days", 0, SMALLINT)
    /\ within(row, "expiry_confidence", 0, Unit)
    /\ \A c, d \in ExpiryTriple : has(row, c) = has(row, d)
    /\ has(row, "promo_identifier") => has(row, "promo_price")

\* The same CHECKs on the row a merge leaves, of columns that were there or come along.
merge_legal(contributed, hot) ==
    LET merged_columns == contributed \cup hot
    IN  \A p \in HOT_CHECK_IMPLICATIONS :
            p.trigger \cap merged_columns # {} => p.companion \subseteq merged_columns

row_legal(model, row) ==
    IF model = StoreSkuSaleEvent THEN sale_row_legal(row)
    ELSE IF model = StoreSkuChangeEvent THEN change_row_legal(row) ELSE hot_row_legal(row)
=============================================================================
