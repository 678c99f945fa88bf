------------------------- MODULE MCCommercialProducts -------------------------
(* Products, documents and inventories of CommercialProducts for TLC.       *)
EXTENDS CommercialProducts, TLC

Product(sku, pid, name) == [sku |-> sku, pid |-> pid, name |-> name]

\* Two pumps of one family, one of them under three names, and a gauge.
Assortment ==
    {Product("a", None, "pump"), Product(None, 1, "pump"),
     Product(None, None, "large pump"), Product("b", None, "gauge")}

Papers ==
    {[id |-> "d1", day |-> 1], [id |-> "d2", day |-> 4],
     [id |-> None, day |-> 4], [id |-> None, day |-> 0]}

\* A refrigeration pump has a keyword of each of the families.
Shelves == <<{"pump"}, {"cooling"}>>

Words ==
    "pump" :> {"pump"} @@ "large pump" :> {"pump", "cooling"} @@ "new pump" :> {"pump"}
    @@ "gauge" :> {}

Stocked(sku, pid, name, known, units, value) ==
    [sku |-> sku, pid |-> pid, name |-> name, known |-> known, units |-> units, value |-> value]

Warehouses ==
    {<<Stocked("c", 3, "new pump", TRUE, 2, 5), Stocked("a", 2, "pump", TRUE, 0, 0)>>,
     <<Stocked("b", 4, "gauge", TRUE, 1, 1), Stocked("e", 1, "large pump", FALSE, 0, 0)>>}
=============================================================================
