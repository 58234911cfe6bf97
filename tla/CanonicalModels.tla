-------------------------- MODULE CanonicalModels --------------------------
(***************************************************************************)
(* The canonical models of dis-canonical and the partition of their        *)
(* columns by origin that dis-validation keeps beside them: what a mapping *)
(* may produce, what enrichment writes, what the consumer injects, what    *)
(* the database generates and what is computed.  Both the template gate of *)
(* dis-ui-server and the gates of the streaming-consumer read it.          *)
(*                                                                         *)
(* A model is a pair of records from column to shape, the required columns *)
(* and the optional ones.                                                  *)
(***************************************************************************)
EXTENDS Naturals, TLC

Str(n) == [datatype |-> "text", limit |-> n]
Choice(values) == [datatype |-> "choice", values |-> values]
Numeric(p, s) == [datatype |-> "number", precision |-> p, scale |-> s]
Plain(t) == [datatype |-> t]

TaxTreatment == Choice({"INCLUSIVE", "EXCLUSIVE"})
ExpirySource == Choice({"PRINTED", "SCANNED", "ESTIMATED", "CV_DETECTED"})
EventCategory ==
    Choice({"INVENTORY", "PRICE", "COST", "REGULATORY", "STATUS", "CATALOGUE", "OTHER"})
SaleEventSubtype == Choice({"SALE", "RETURN", "VOID"})
CurrencyCode == Str(3)
Id == Plain("uuid")

StoreSkuSaleEvent ==
    [required |->
        [event_date |-> Plain("date"), tenant_id |-> Id, store_id |-> Id, sku_id |-> Str(128),
         event_subtype |-> SaleEventSubtype, source_sale_timestamp |-> Plain("datetime"),
         quantity |-> Numeric(14, 3), unit_retail_price |-> Numeric(12, 4),
         unit_sale_price |-> Numeric(12, 4), tax_treatment |-> TaxTreatment,
         currency |-> CurrencyCode, source_id |-> Str(128), source_event_id |-> Str(256),
         row_hash |-> Str(64), mapping_version_id |-> Plain("integer"), trace_id |-> Id,
         dis_channel |-> Str(32)],
     optional |->
        [id |-> Id, sku_variant |-> Str(128), sku_lot_batch |-> Str(128),
         transaction_id |-> Str(128), line_item_seq |-> Plain("integer"),
         discount_amount |-> Numeric(12, 4), discount_pct |-> Numeric(5, 2),
         unit_cost |-> Numeric(12, 4), promo_identifier |-> Str(128),
         tax_amount |-> Numeric(12, 4), payment_method |-> Str(64),
         customer_token |-> Str(128), sale_channel |-> Str(32),
         store_sku_current_position_id |-> Id, related_sale_event_id |-> Id,
         last_updated_at |-> Plain("datetime"), ingest_metadata |-> Plain("json")]]

StoreSkuChangeEvent ==
    [required |->
        [event_date |-> Plain("date"), tenant_id |-> Id, store_id |-> Id, sku_id |-> Str(128),
         event_category |-> EventCategory, event_subtype |-> Str(64),
         source_event_timestamp |-> Plain("datetime"), source_id |-> Str(128),
         source_event_id |-> Str(256), row_hash |-> Str(64),
         mapping_version_id |-> Plain("integer"), trace_id |-> Id, dis_channel |-> Str(32)],
     optional |->
        [id |-> Id, sku_variant |-> Str(128), sku_lot_batch |-> Str(128),
         store_sku_current_position_id |-> Id, effective_from |-> Plain("datetime"),
         effective_until |-> Plain("datetime"), attribute_name |-> Str(64),
         value_before |-> Plain("json"), value_after |-> Plain("json"),
         numeric_value_before |-> Numeric(14, 4), numeric_value_after |-> Numeric(14, 4),
         numeric_change |-> Numeric(14, 4), reason_code |-> Str(64), reason_note |-> Str(256),
         change_context |-> Plain("json"), last_updated_at |-> Plain("datetime"),
         ingest_metadata |-> Plain("json")]]

StoreSkuCurrentPosition ==
    [required |->
        [tenant_id |-> Id, store_id |-> Id, sku_id |-> Str(128), product_name |-> Str(128),
         current_retail_price |-> Numeric(12, 4), tax_treatment |-> TaxTreatment,
         currency |-> CurrencyCode, mapping_version_id |-> Plain("integer"), trace_id |-> Id,
         dis_channel |-> Str(32)],
     optional |->
        [id |-> Id, sku_variant |-> Str(128), sku_lot_batch |-> Str(128), barcode |-> Str(128),
         product_description |-> Str(128), product_category |-> Str(128),
         product_sub_category |-> Str(128), product_department |-> Str(128),
         supplier_id |-> Str(128), packaging_type |-> Str(128), sku_size |-> Numeric(8, 3),
         unit_of_measure |-> Str(64), unit_cost |-> Numeric(12, 4),
         promo_price |-> Numeric(12, 4), promo_identifier |-> Str(128),
         yesterday_retail_price |-> Numeric(12, 4), stock_qty |-> Numeric(14, 3),
         lead_time_days |-> Plain("integer"), expiry_date |-> Plain("date"),
         receipt_date |-> Plain("date"), expiry_source |-> ExpirySource,
         expiry_confidence |-> Numeric(3, 2), regulatory_flag |-> Plain("boolean"),
         regulatory_type |-> Str(128), reorder_point |-> Numeric(14, 3),
         sku_status |-> Str(32), velocity_7day |-> Numeric(10, 4),
         stock_age_days |-> Plain("integer"), unit_cost_trend_30day |-> Numeric(12, 4),
         attribute_staleness_map |-> Plain("json"),
         current_retail_price_changed_at |-> Plain("datetime"),
         product_name_changed_at |-> Plain("datetime"),
         last_source_event_at |-> Plain("datetime"), last_updated_at |-> Plain("datetime"),
         ingest_metadata |-> Plain("json")]]

\* Daily-compute output: it has no partition.
StoreSkuSignalHistory ==
    [required |-> [as_of_date |-> Plain("date"), tenant_id |-> Id, store_id |-> Id,
                   sku_id |-> Str(128), trace_id |-> Id],
     optional |-> [id |-> Id, sku_variant |-> Str(128), sku_lot_batch |-> Str(128),
                   store_sku_current_position_id |-> Id, velocity_7day |-> Numeric(10, 4),
                   stock_age_days |-> Plain("integer"), unit_cost_trend_30day |-> Numeric(12, 4),
                   created_at |-> Plain("datetime"), compute_metadata |-> Plain("json")]]

model_fields(model) == model.required @@ model.optional

-----------------------------------------------------------------------------
(* The enrichment registry. *)

ENRICHMENT_REGISTRY ==
    {[canonical_field |-> f, tables |-> {StoreSkuCurrentPosition}] : f \in {"currency", "tax_treatment"}}

enrichment_fields(model) ==
    {f.canonical_field : f \in {g \in ENRICHMENT_REGISTRY : model \in g.tables}}

-----------------------------------------------------------------------------
(* The provenance partition. *)

COMMON_CONSUMER_INJECTED ==
    {"tenant_id", "store_id", "mapping_version_id", "trace_id", "dis_channel", "ingest_metadata"}
COMMON_DB_GENERATED == {"id", "last_updated_at"}

CurrentPositionProvenance ==
    [consumer_injected |-> COMMON_CONSUMER_INJECTED \cup {"last_source_event_at"},
     db_generated |-> COMMON_DB_GENERATED,
     compute_owned |->
        {"velocity_7day", "stock_age_days", "unit_cost_trend_30day", "attribute_staleness_map",
         "yesterday_retail_price", "current_retail_price_changed_at", "product_name_changed_at"},
     mapping_produced |->
        {"sku_id", "sku_variant", "sku_lot_batch", "barcode", "product_name",
         "product_description", "product_category", "product_sub_category",
         "product_department", "supplier_id", "packaging_type", "sku_size", "unit_of_measure",
         "current_retail_price", "unit_cost", "promo_price", "promo_identifier", "stock_qty",
         "lead_time_days", "expiry_date", "receipt_date", "expiry_source", "expiry_confidence",
         "regulatory_flag", "regulatory_type", "currency", "reorder_point", "sku_status"},
     enrichment_produced |-> {"tax_treatment"}]

SaleProvenance ==
    [consumer_injected |-> COMMON_CONSUMER_INJECTED \cup
        {"source_id", "source_event_id", "store_sku_current_position_id",
         "related_sale_event_id", "tax_treatment", "row_hash"},
     db_generated |-> COMMON_DB_GENERATED,
     compute_owned |-> {},
     mapping_produced |->
        {"event_date", "sku_id", "sku_variant", "sku_lot_batch", "event_subtype",
         "source_sale_timestamp", "transaction_id", "line_item_seq", "quantity",
         "unit_retail_price", "unit_sale_price", "discount_amount", "discount_pct", "unit_cost",
         "promo_identifier", "tax_amount", "currency", "payment_method", "customer_token",
         "sale_channel"},
     enrichment_produced |-> {}]

ChangeProvenance ==
    [consumer_injected |-> COMMON_CONSUMER_INJECTED \cup
        {"source_id", "source_event_id", "store_sku_current_position_id",
         "numeric_value_before", "numeric_value_after", "numeric_change", "row_hash"},
     db_generated |-> COMMON_DB_GENERATED,
     compute_owned |-> {},
     mapping_produced |->
        {"event_date", "sku_id", "sku_variant", "sku_lot_batch", "event_category",
         "event_subtype", "source_event_timestamp", "effective_from", "effective_until",
         "attribute_name", "value_before", "value_after", "reason_code", "reason_note",
         "change_context"},
     enrichment_produced |-> {}]

PROVENANCE ==
    [model \in {StoreSkuCurrentPosition, StoreSkuSaleEvent, StoreSkuChangeEvent} |->
        CASE model = StoreSkuCurrentPosition -> CurrentPositionProvenance
          [] model = StoreSkuSaleEvent -> SaleProvenance
          [] model = StoreSkuChangeEvent -> ChangeProvenance]

NOT_MAPPING_PRODUCED == {StoreSkuSignalHistory}

\* assert_no_drift: every column is classified exactly once and exists on the model.
no_drift(model) ==
    /\ model \notin NOT_MAPPING_PRODUCED
    /\ model \in DOMAIN PROVENANCE
    /\ LET parts == PROVENANCE[model]
       IN  /\ \A a, b \in DOMAIN parts : a # b => parts[a] \cap parts[b] = {}
           /\ UNION {parts[a] : a \in DOMAIN parts} = DOMAIN model_fields(model)

mapping_produced_columns(model) == IF no_drift(model) THEN PROVENANCE[model].mapping_produced ELSE {}

mandatory_mapping_produced(model, enrichment_guaranteed) ==
    (DOMAIN model.required \cap mapping_produced_columns(model)) \ enrichment_guaranteed

-----------------------------------------------------------------------------
(* Template types. *)

MODEL_BY_TYPE ==
    [snapshot |-> StoreSkuCurrentPosition, sales |-> StoreSkuSaleEvent,
     inventory_change |-> StoreSkuChangeEvent]

TEMPLATE_TYPES == DOMAIN MODEL_BY_TYPE

EVENT_MODELS == {StoreSkuSaleEvent, StoreSkuChangeEvent}
=============================================================================
