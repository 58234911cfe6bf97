------------------------ MODULE MCMappingTemplates ------------------------
(* An instance of MappingTemplates for TLC: a live template whose newest    *)
(* version was withdrawn, a closed one, and a template_id to be minted; two *)
(* sound POSTs among several faulty ones, and documents for either type.    *)
EXTENDS TemplateReads

CONSTANTS live, closed, a, b

MCZones == [Kolkata |-> [offset |-> 330, undefined |-> {}]]

-----------------------------------------------------------------------------
(* POST bodies. *)

MCText(dest) == MappingColumn(dest, dest)
MCMoney(dest) == [MCText(dest) EXCEPT !.src_decimal_separator = ",", !.src_thousand_separator = "."]
MCShare(dest) == [MCText(dest) EXCEPT !.src_decimal_separator = ".", !.src_is_percentage = TRUE]
MCDay(dest) == [MCText(dest) EXCEPT !.src_datetime_format = "DD/MM/YYYY"]

MCCatalogueColumns == <<MCText("sku_id"), MCText("product_name"), MCMoney("current_retail_price")>>
MCSaleColumns ==
    <<MCText("sku_id"), MCText("event_subtype"), MCText("currency"), MCText("quantity"),
      MCMoney("unit_retail_price"), MCMoney("unit_sale_price"), MCShare("discount_pct"),
      MCDay("event_date"), MCDay("source_sale_timestamp")>>

MCBody(type, columns) == [template_type |-> type, columns |-> columns]

\* The faulty ones: no price; the prices of a sale; a promotion without its price; two
\* columns for one; an unknown date token; a column with no cast; an unknown type.
MCBodies ==
    [catalogue_post |-> MCBody("snapshot", Append(MCCatalogueColumns, MappingColumn("Notes", IGNORE))),
     sale_post |-> MCBody("sales", MCSaleColumns),
     no_price |-> MCBody("snapshot", SubSeq(MCCatalogueColumns, 1, 2)),
     sale_price |-> MCBody("snapshot", Append(MCCatalogueColumns, MCMoney("unit_sale_price"))),
     no_promo_price |-> MCBody("snapshot", Append(MCCatalogueColumns, MCText("promo_identifier"))),
     twice |-> MCBody("snapshot", Append(MCCatalogueColumns, MappingColumn("sku", "sku_id"))),
     bad_token |-> MCBody("sales", Append(MCSaleColumns,
                      [MCDay("event_date") EXCEPT !.src_datetime_format = "YYYY"])),
     no_cast |-> MCBody("sales", Append(MCSaleColumns, MCText("ingest_metadata"))),
     bad_type |-> MCBody("returns", MCCatalogueColumns)]

-----------------------------------------------------------------------------
(* PATCH documents. *)

MCSameNames(columns) == [c \in columns |-> c]

\* A cast the canonical model does not have passes the gate of PATCH (catalogue_patch).
MCDocuments ==
    [catalogue_patch |->
        [version |-> 1, rename |-> MCSameNames({"sku_id", "product_name", "current_retail_price"}),
         cast |-> [current_retail_price |-> [type |-> "decimal", precision |-> 9, scale |-> 2]]],
     sale_patch |->
        [version |-> 1,
         rename |-> MCSameNames({"sku_id", "event_subtype", "currency", "quantity", "unit_retail_price",
                                 "unit_sale_price", "source_sale_timestamp"}),
         cast |-> [source_sale_timestamp |-> [type |-> "datetime"]],
         derive |-> [event_date |-> <<[op |-> "date_from_datetime",
                                       args |-> [source_column |-> "source_sale_timestamp"]]>>]],
     promo_patch |->
        [version |-> 1,
         rename |-> MCSameNames({"sku_id", "product_name", "current_retail_price", "promo_identifier"}),
         derive |-> [promo_price |-> <<[op |-> "copy", args |-> [source_column |-> "current_retail_price"]]>>]],
     price_patch |-> [version |-> 1, rename |-> MCSameNames({"sku_id", "current_retail_price"})],
     bad_op |->
        [version |-> 1, rename |-> MCSameNames({"sku_id", "product_name", "current_retail_price"}),
         normalize |-> [sku_id |-> <<[op |-> "reverse", args |-> <<>>]>>]]]

-----------------------------------------------------------------------------

MCVersion(t, n, type, rules, s, k) ==
    [template |-> t, name |-> n, type |-> type, status |-> s, seq |-> k, author |-> None,
     rules |-> rules, predecessor |-> None]

MCSeed == [i \in Ids |-> CASE i = 1 -> MCVersion(live, a, "snapshot", "catalogue_post", "ACTIVE", 1)
                           [] i = 2 -> MCVersion(live, a, "snapshot", "catalogue_patch", "DEPRECATED", 2)
                           [] i = 3 -> MCVersion(closed, b, "sales", "sale_post", "DEPRECATED", 1)
                           [] OTHER -> None]

MCSymmetry == Permutations(Editors)
=============================================================================
