------------------------------- MODULE Inventory -------------------------------
(***************************************************************************)
(* The product snapshots of app/hub/inventory.py: the lines of the issued   *)
(* documents are credited to the products of the catalog, and every product *)
(* gets a snapshot with its stock, its cost, its price and its sales.       *)
(***************************************************************************)
EXTENDS HubData, Sequences

CONSTANTS Catalogs,    \* sequences of products, in the order of the catalog
          Lines,       \* [code, nested, name, quantity, document, day] of the lines
          MaxSold     \* bound: lines read in all

ASSUME InventoryAssumption ==
    /\ MaxSold \in Nat
    /\ \A c \in Catalogs : Len(c) \in Nat /\ DOMAIN c = 1 .. Len(c)
    /\ \A l \in Lines : l.quantity \in Int /\ l.day \in Nat

VARIABLES catalog,
          credited,    \* the lines read so far and the SKU each is credited to
          sold,        \* SKU -> units, documents and day of the last sale
          span         \* first and last day of a document

inventoryVars == <<catalog, credited, sold, span>>

\* A product without a code goes by its identifier, and not at all without both.
Sku(product) == IF product.sku = None THEN product.id ELSE product.sku
Listed == {i \in DOMAIN catalog : Sku(catalog[i]) # None}
Skus == {Sku(catalog[i]) : i \in Listed}

\* The products of a name, each as often as it is listed.
Named(name) == {i \in Listed : name # None /\ catalog[i].name = name}

\* Mutant: a name that several products have goes to the first of them.
FirstOfTheName(line) ==
    LET said == IF line.code # None THEN line.code ELSE line.nested
    IN IF said # None THEN IF said \in Skus THEN said ELSE None
       ELSE IF Named(line.name) # {} THEN Sku(catalog[Min(Named(line.name))]) ELSE None

\* The SKU of a line: its own code, that of the product in it, or its name when
\* one listed product has it; None when that is not in the catalog.
Credit(line) ==
    LET said == IF line.code # None THEN line.code ELSE line.nested
    IN IF said # None THEN IF said \in Skus THEN said ELSE None
       ELSE IF Cardinality(Named(line.name)) = 1
            THEN Sku(catalog[CHOOSE i \in Named(line.name) : TRUE]) ELSE None

Unsold == [units |-> 0, documents |-> {}, last |-> 0]

InventoryInit ==
    /\ catalog \in Catalogs
    /\ credited = <<>>
    /\ sold = [s \in Skus |-> Unsold]
    /\ span = [first |-> 0, last |-> 0]

\* The day of a document counts for the period even if the line does not.
ReadLine(line) ==
    LET sku == Credit(line)
    IN /\ credited' = Append(credited, [line |-> line, sku |-> sku])
       /\ sold' = IF sku = None \/ line.quantity <= 0 THEN sold
                  ELSE [sold EXCEPT
                          ![sku].units = @ + line.quantity,
                          ![sku].documents =
                             IF line.document = None THEN @ ELSE @ \cup {line.document},
                          ![sku].last = IF line.day > @ THEN line.day ELSE @]
       /\ span' = IF line.day = 0 THEN span
                  ELSE [first |-> IF span.first = 0 THEN line.day
                                  ELSE Min({span.first, line.day}),
                        last |-> Max({span.last, line.day})]
       /\ UNCHANGED catalog

InventoryNext == Len(credited) < MaxSold /\ \E line \in Lines : ReadLine(line)

InventorySpec == InventoryInit /\ [][InventoryNext]_inventoryVars

-----------------------------------------------------------------------------
(* The snapshots.                                                           *)

\* _inventory_stock: the locations if one of them tells, else the summary of the
\* warehouse, else a field of the product.
Stock(product) ==
    LET known == {i \in DOMAIN product.locations : product.locations[i] # None}
    IN IF known # {} THEN MapThenSumSet(LAMBDA i : product.locations[i], known)
       ELSE IF product.summary # None THEN product.summary
       ELSE product.stock

PeriodDays == IF span.first = 0 THEN 0 ELSE span.last - span.first + 1

\* The identifier is the one that the first loop over the catalog ended with: it
\* is not read again for the product of the snapshot.
Identifier(product) == catalog[Max(Listed)].id

Snapshot(i) ==
    LET product == catalog[i]
        sku == Sku(product)
    IN [sku |-> sku,
        source_product_id |-> Identifier(product),
        stock_known |-> Stock(product) # None,
        available_units |-> IF Stock(product) = None THEN 0 ELSE Stock(product),
        cost_known |-> product.cost = "usd",
        units_sold |-> sold[sku].units,
        document_count |-> Cardinality(sold[sku].documents),
        last_sale |-> sold[sku].last,
        demand_days |-> PeriodDays]

\* eligible_replenishment_payloads.
Replenishable ==
    {i \in Listed : LET s == Snapshot(i)
                    IN s.stock_known /\ s.cost_known /\ s.demand_days > 0}

-----------------------------------------------------------------------------
\* A product is credited with exactly the lines that name it: by its code, or,
\* where a line has no code at all, by a name that no other product of the catalog
\* has. Its sales lie in the period that its demand is divided by.
SalesAreTheProducts ==
    \A s \in Skus :
        LET names(l) ==
              \/ l.code = s
              \/ l.code = None /\ l.nested = s
              \/ /\ l.code = None /\ l.nested = None /\ l.name # None
                 /\ \E i \in Listed : Sku(catalog[i]) = s /\ Named(l.name) = {i}
            own == {i \in DOMAIN credited : names(credited[i].line)
                                           /\ credited[i].line.quantity > 0}
        IN /\ sold[s].units = Total([i \in own |-> credited[i].line.quantity])
           /\ sold[s].last # 0 => sold[s].last \in span.first .. span.last /\ PeriodDays > 0

\* "source_product_id" of a snapshot (app/hub/inventory.py:436) is what the exact
\* match by product identifier relies on (app/hub/commercial.py:891): it must be
\* the identifier of the snapshot's own product.
IdentifierIsOwn == \A i \in Listed : Snapshot(i).source_product_id = catalog[i].id
=============================================================================
