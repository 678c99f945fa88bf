------------------------------ MODULE MCAnalyses ------------------------------
(***************************************************************************)
(* Instance for TLC of the analyses of the hub.  They share no state: each  *)
(* run of the model is one of them, and the others stay in an initial       *)
(* state.                                                                   *)
(***************************************************************************)
EXTENDS CommercialIdentity, MCCommercialProducts, CommercialReport, FinanceSales,
        MCFinanceCollections, MCInventory

VARIABLE analysis

Person(rut, email, phone, name) ==
    [rut |-> rut, email |-> email, phone |-> phone, name |-> name]

\* Chains of identifiers that lead from one person to another; the number of a
\* document may make a second RUT of the e-mail.
People ==
    {Person("r1", "e1", None, "n1"), Person(None, "e1", None, "n2"),
     Person("r1", None, "p1", "n2"), Person(None, None, None, "n1")}

Channels == {{"facto"}, {"facto", "tiendanube"}, {"tiendanube"}, {"crm"}}
OthersSales == {<<>>, <<1>>, <<2>>, <<2, 1>>}

Paper(date, rut, number, type, net, tax, gross, lines_) ==
    [date |-> date, rut |-> rut, number |-> number, name |-> None, type |-> type,
     net |-> net, tax |-> tax, gross |-> gross, lines |-> lines_]

\* Both sides of the end of February, of a year that is leap and one that is not.
Calendar == {None, <<3, 2, 28>>, <<3, 3, 1>>, <<4, 2, 28>>, <<4, 2, 29>>, <<4, 1, 31>>}

Invoices ==
    UNION {{Paper(x, "a", "n1", "invoice", None, None, 119, 0),
            Paper(x, None, "n2", "invoice", 200, None, None, 0),
            Paper(x, "a", None, "invoice", None, None, None, 300),
            Paper(x, None, None, "exempt", None, None, 50, 0),
            Paper(x, "a", "n3", "credit note", 100, 19, 119, 0)} : x \in Calendar}

WebOrders ==
    [cancelled : BOOLEAN, paid : BOOLEAN, clp : BOOLEAN, total : {119}, date : {TRUE}]
    \cup [cancelled : {FALSE}, paid : {TRUE}, clp : {TRUE}, total : {None}, date : BOOLEAN]

AnalysesInit ==
    /\ analysis \in {"identity", "products", "report", "sales", "collections", "inventory"}
    /\ IdentityInit /\ ProductsInit /\ ReportInit /\ SalesInit
    /\ CollectionsInit /\ InventoryInit
    /\ analysis # "products" => inventory[1].sku = "c"
    /\ analysis # "report" => others = <<>>
    /\ analysis # "collections" => documents = <<>> /\ official
    /\ analysis # "inventory" => catalog = <<Article("b", "p2", "pump", <<>>, 3, None, "clp")>>

AnalysesNext ==
    \/ /\ analysis = "identity" /\ IdentityNext
       /\ UNCHANGED <<analysis, productsVars, reportVars, salesVars, collectionsVars, inventoryVars>>
    \/ /\ analysis = "products" /\ ProductsNext
       /\ UNCHANGED <<analysis, identityVars, reportVars, salesVars, collectionsVars, inventoryVars>>
    \/ /\ analysis = "report" /\ ReportNext
       /\ UNCHANGED <<analysis, identityVars, productsVars, salesVars, collectionsVars, inventoryVars>>
    \/ /\ analysis = "sales" /\ SalesNext
       /\ UNCHANGED <<analysis, identityVars, productsVars, reportVars, collectionsVars, inventoryVars>>
    \/ /\ analysis = "collections" /\ CollectionsNext
       /\ UNCHANGED <<analysis, identityVars, productsVars, reportVars, salesVars, inventoryVars>>
    \/ /\ analysis = "inventory" /\ InventoryNext
       /\ UNCHANGED <<analysis, identityVars, productsVars, reportVars, salesVars, collectionsVars>>

AnalysesSpec == AnalysesInit /\ [][AnalysesNext]_<<analysis, identityVars, productsVars, reportVars,
                                                    salesVars, collectionsVars, inventoryVars>>
=============================================================================
