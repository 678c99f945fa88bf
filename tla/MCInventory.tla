----------------------------- MODULE MCInventory -----------------------------
(* Catalogs and lines of Inventory for TLC.                                 *)
EXTENDS Inventory

Article(sku, id, name, locations, summary, stock, cost) ==
    [sku |-> sku, id |-> id, name |-> name, locations |-> locations, summary |-> summary,
     stock |-> stock, cost |-> cost]

\* Products that share a name or a code, that have no code, or no identity at all.
Articles ==
    {Article("a", "p1", "pump", <<2, None>>, 0, None, "usd"),
     Article("b", "p2", "pump", <<>>, 3, None, "clp"),
     Article(None, "p3", "gauge", <<>>, None, 1, "usd"),
     Article("a", "p1", "gauge", <<None>>, None, 5, None),
     Article(None, None, "pump", <<>>, None, None, None)}

Shops == {<<g>> : g \in Articles} \cup {<<g, h>> : g, h \in Articles}

SoldLines ==
    [code : {None, "a", "z"}, nested : {None, "p3"}, name : {"pump", "gauge"},
     quantity : {0, 2}, document : {None, "d1"}, day : {0, 1, 4}]
=============================================================================
