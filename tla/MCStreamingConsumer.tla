------------------------ MODULE MCStreamingConsumer ------------------------
(* An instance of StreamingConsumer for TLC: a catalogue chunk and a sale chunk that  *)
(* needs its hot row; the sale message may also be malformed, unbacked or unparsable. *)
(* What the gates and the tables say of the two chunks is computed from their cells   *)
(* and from the rules of each version with MappingGates.                              *)
EXTENDS RunReads, MappingGates

CONSTANTS catalogue, sale, catTemplate, saleTemplate

MCKindsOf == [m \in Messages |-> IF m = sale THEN Kinds ELSE {"good"}]
MCTemplateOf == [m \in Messages |-> IF m = catalogue THEN catTemplate ELSE saleTemplate]
MCLineageOf == [v \in Versions |-> IF v = 1 THEN catTemplate ELSE saleTemplate]
MCFirstActive == [t \in Templates |-> IF t = catTemplate THEN 1 ELSE None]
MCSuccessors ==
    [v \in Versions \cup {None} |->
        CASE v = None -> {2, 5, 6} [] v = 2 -> {3} [] v = 5 -> {4} [] OTHER -> {}]

\* Two uploads of the same instant: their ids break the tie.
MCReceivedAt == [m \in Messages |-> 1]
MCIdOf == [m \in Messages |-> IF m = catalogue THEN 1 ELSE 2]

MCZones == [Kolkata |-> [offset |-> 330, undefined |-> {}]]
MCFacts == [currency |-> Word("INR", "upper", 3), tax_treatment |-> Word("INCLUSIVE", "upper", 9)]

-----------------------------------------------------------------------------
(* The chunks, row by row. *)

MCWhen == "%d/%m/%Y %H:%M"
MCPrice(units) == Numeral(units, "", ",", FALSE)
MCSku == [Word("sku-1", "lower", 5) EXCEPT !.padded = TRUE]

MCCatalogueRow(price) ==
    [Item |-> MCSku, Title |-> Word("tea", "mixed", 3), Price |-> MCPrice(price),
     Stock |-> Word("N/A", "upper", 3)]

\* Shelf price, price paid; the second row has its promotion and a price without places.
MCSaleRow(shelf, paid, promo) ==
    [Item |-> MCSku, Shelf |-> shelf, Paid |-> paid, Qty |-> Numeral(10000, "", "", FALSE),
     When |-> Moment(MCWhen, 20000 * DayMinutes + 60, 0), Promo |-> promo,
     Kind |-> Word("BILL", "lower", 4)]

MCFrames ==
    [m \in Messages |->
        IF m = catalogue THEN <<MCCatalogueRow(50000), MCCatalogueRow(49900)>>
        ELSE <<MCSaleRow(MCPrice(50000), MCPrice(50000), Word("tea week", "lower", 8)),
               MCSaleRow(Numeral(50000, "", "", FALSE), Numeral(40000, "", "", FALSE), Null)>>]

-----------------------------------------------------------------------------
(* The rules of the versions. *)

MCDecimal(separator) ==
    <<[op |-> "parse_decimal", args |-> [decimal_separator |-> separator, thousands_separator |-> NULL]]>>
MCTrim == <<[op |-> "normalize_whitespace", args |-> <<>>]>>
MCConstant(text) == <<[op |-> "constant", args |-> [value |-> text]]>>
MCCast(p, s) == [type |-> "decimal", precision |-> p, scale |-> s]

MCCatalogueRules ==
    [version |-> 1,
     rename |-> [Item |-> "sku_id", Title |-> "product_name", Price |-> "current_retail_price",
                 Stock |-> "stock_qty"],
     normalize |-> [sku_id |-> MCTrim, current_retail_price |-> MCDecimal(","),
                    stock_qty |-> <<[op |-> "null_tokens", args |-> [tokens |-> {Word("N/A", "upper", 3)}]]>>],
     cast |-> [current_retail_price |-> MCCast(12, 4), stock_qty |-> MCCast(14, 3)]]

MCSaleRules(separator, zone, more) ==
    [version |-> 1,
     rename |-> [Item |-> "sku_id", Shelf |-> "unit_retail_price", Paid |-> "unit_sale_price",
                 Qty |-> "quantity", When |-> "source_sale_timestamp", Kind |-> "event_subtype"] @@ more,
     normalize |-> [sku_id |-> MCTrim, unit_retail_price |-> MCDecimal(separator),
                    unit_sale_price |-> MCDecimal(separator),
                    event_subtype |->
                        <<[op |-> "map_enum",
                           args |-> [mapping |-> (Word("BILL", "upper", 4) :> Word("SALE", "upper", 4)),
                                     case_insensitive |-> TRUE]]>>,
                    source_sale_timestamp |->
                        <<[op |-> "parse_datetime", args |-> [format |-> MCWhen, timezone |-> zone]]>>],
     cast |-> [unit_retail_price |-> MCCast(12, 4), unit_sale_price |-> MCCast(12, 4),
               quantity |-> MCCast(14, 3), source_sale_timestamp |-> [type |-> "datetime"]],
     derive |-> [currency |-> MCConstant(Word("INR", "upper", 3)),
                 event_date |-> <<[op |-> "date_from_datetime",
                                   args |-> [source_column |-> "source_sale_timestamp"]]>>]]

\* The date of the change is read as text.
MCChangeRules ==
    [version |-> 1,
     rename |-> [Item |-> "sku_id", When |-> "source_event_timestamp", Shelf |-> "value_after"],
     derive |-> [event_category |-> MCConstant(Word("PRICE", "upper", 5)),
                 attribute_name |-> MCConstant(Word("current_retail_price", "lower", 20)),
                 event_subtype |-> MCConstant(Word("PRICE", "upper", 5)),
                 event_date |-> <<[op |-> "copy", args |-> [source_column |-> "source_event_timestamp"]]>>]]

\* 2 is sound; 3 declares the wrong separator; 4 leaves its dates text; 5 names an
\* unknown zone; 6 sells above the shelf price and brings the promotion along.
MCRules ==
    [v \in Versions |->
        CASE v = 1 -> MCCatalogueRules
          [] v = 2 -> MCSaleRules(",", "Kolkata", <<>>)
          [] v = 3 -> MCSaleRules(".", "Kolkata", <<>>)
          [] v = 4 -> MCChangeRules
          [] v = 5 -> MCSaleRules(",", "Atlantis", <<>>)
          [] v = 6 -> [MCSaleRules(",", "Kolkata", [Promo |-> "promo_identifier"]) EXCEPT
                         !.rename = [@ EXCEPT !.Shelf = "unit_sale_price", !.Paid = "unit_retail_price"]]]

MCTypeOf(v) == IF v = 1 THEN "snapshot" ELSE IF v = 4 THEN "inventory_change" ELSE "sales"
MCLoaded == [v \in Versions |-> load_active_mapping(MCRules[v], MCTypeOf(v))]

MCBadConfig == {}
MCTargetOf ==
    [v \in Versions |-> IF v = 1 THEN "catalogue" ELSE IF v = 4 THEN "change" ELSE "sale"]

\* A chunk is only ever read with the versions of its own template.
MCOwn(m, v) == MCTemplateOf[m] = MCLineageOf[v]

MCVerdict ==
    [m \in Messages |-> [v \in Versions |->
        IF MCOwn(m, v)
        THEN CASE v = 3 -> verdict("rows", "MAPPING_EXECUTED", {1})
               [] v = 4 -> verdict("shape", "POST_MAPPING_VALIDATED", {})
               [] v = 5 -> verdict("config", "RECEIVED", {})
               [] OTHER -> verdict("pass", "POST_MAPPING_VALIDATED", {})
        ELSE verdict("shape", "PRE_MAPPING_VALIDATED", {})]]

MCRefusal ==
    [m \in Messages |-> [v \in Versions |->
        [table |-> IF MCOwn(m, v) /\ v = 6 THEN {2} ELSE {},
         hot |-> IF MCOwn(m, v) /\ v = 6 THEN {1} ELSE {}]]]

MCModelOf ==
    [catalogue |-> StoreSkuCurrentPosition, sale |-> StoreSkuSaleEvent, change |-> StoreSkuChangeEvent]

\* The hot row a sale merges into is the one the catalogue chunk wrote.
MCRefused(m, v) ==
    LET rows == apply_mapping(MCLoaded[v].source, MCFrames[m]).contribution
        hot == owned_columns(MCLoaded[1])
    IN  [table |-> {i \in DOMAIN rows : ~row_legal(MCLoaded[v].target_model, rows[i])},
         hot |-> IF v = 1 THEN {}
                 ELSE {i \in DOMAIN rows : ~merge_legal(hot_contributions(MCLoaded[v], rows[i]), hot)}]

\* The tables above are what the gates, the engine and the CHECKs make of the chunks,
\* and every version passed the gate of its template when it was stored.
ASSUME GatesAssumption ==
    /\ \A v \in Versions :
         /\ validate_mapping_rules_for_type(MCRules[v], MCTypeOf(v))
         /\ loadable(MCRules[v], MCTypeOf(v)) = (v \notin MCBadConfig)
         /\ MCLoaded[v].target_model = MCModelOf[MCTargetOf[v]]
         /\ MCLoaded[v].hot_complete = (v = 1)
    /\ \A m \in Messages, v \in Versions : MCOwn(m, v) =>
         /\ MCVerdict[m][v] = chunk_verdict(MCLoaded[v], MCFrames[m], MCFacts)
         /\ MCVerdict[m][v].gate = "pass" => MCRefusal[m][v] = MCRefused(m, v)
=============================================================================
