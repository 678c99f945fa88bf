-------------------------- MODULE CommercialProducts --------------------------
(***************************************************************************)
(* What one customer bought and what it is offered: _record_product_        *)
(* activity of app/hub/commercial.py, called for every document and order   *)
(* of the customer, and _customer_product_opportunities, which looks for    *)
(* the products of its history in the inventory.                            *)
(*                                                                          *)
(* Names are values; the keywords in a name and the names that contain one  *)
(* another are given.  Days are numbers, 0 where there is no date.          *)
(***************************************************************************)
EXTENDS HubData, Sequences

CONSTANTS Sales,        \* [id, day] of documents and orders, the id may be None
          Goods,        \* [sku, pid, name] of the lines
          Quantities,
          Families,     \* sequence of the sets of keywords, one of each family
          Keywords,     \* name -> the keywords it contains
          Alike,        \* pairs of long names one of which contains the other
          Inventories,  \* sequences of [sku, pid, name, known, units, value]
          AsOf,
          LapseDays,    \* 90
          MaxLines      \* bound: lines read in all

ASSUME ProductsAssumption ==
    /\ LapseDays \in Nat /\ AsOf \in Nat /\ MaxLines \in Nat
    /\ \A s \in Sales : s.day \in 0 .. AsOf
    /\ Quantities \subseteq Int
    /\ \A stock \in Inventories :
          /\ Len(stock) \in Nat /\ DOMAIN stock = 1 .. Len(stock)
          /\ \A i \in DOMAIN stock : stock[i].units \in Int /\ stock[i].value \in Int

VARIABLES inventory,
          lines,       \* the lines read so far
          history      \* product_history: key -> what was bought of it

productsVars == <<inventory, lines, history>>

\* A product goes by its SKU, then by its identifier, then by its name.
HistoryKey(good) ==
    IF good.sku # None THEN <<"sku", good.sku>>
    ELSE IF good.pid # None THEN <<"product", good.pid>>
    ELSE <<"name", good.name>>

Unbought(good) ==
    [sku |-> good.sku, pid |-> good.pid, name |-> good.name,
     units |-> 0, events |-> 0, documents |-> {}, first |-> 0, last |-> 0]

\* Mutant: every line is a purchase of its own.
EveryLineAnEvent(bought, sale) == TRUE

\* A document counts once, but one without an identifier at each of its lines.
NewEvent(bought, sale) == sale.id = None \/ sale.id \notin bought.documents

\* A line without a quantity, or with one that is not positive, counts for one.
Bought(bought, good, sale, quantity) ==
    LET Kept(field) == IF bought[field] = None THEN good[field] ELSE bought[field]
    IN [bought EXCEPT
          !.sku = Kept("sku"), !.pid = Kept("pid"),
          !.units = @ + (IF quantity > 0 THEN quantity ELSE 1),
          !.events = IF NewEvent(bought, sale) THEN @ + 1 ELSE @,
          !.documents = IF sale.id = None THEN @ ELSE @ \cup {sale.id},
          !.first = IF sale.day # 0 /\ (@ = 0 \/ sale.day < @) THEN sale.day ELSE @,
          !.last = IF sale.day > @ THEN sale.day ELSE @]

ProductsInit ==
    /\ inventory \in Inventories
    /\ lines = <<>>
    /\ history = <<>>

RecordLine(good, sale, quantity) ==
    LET key == HistoryKey(good)
        before == IF key \in DOMAIN history THEN history[key] ELSE Unbought(good)
    IN /\ lines' = Append(lines, [good |-> good, sale |-> sale, quantity |-> quantity])
       /\ history' = [k \in DOMAIN history \cup {key} |->
                        IF k = key THEN Bought(before, good, sale, quantity) ELSE history[k]]
       /\ UNCHANGED inventory

ProductsNext ==
    /\ Len(lines) < MaxLines
    /\ \E good \in Goods, sale \in Sales, quantity \in Quantities :
          RecordLine(good, sale, quantity)

ProductsSpec == ProductsInit /\ [][ProductsNext]_productsVars
-----------------------------------------------------------------------------
(* The opportunities.                                                       *)

Positions == DOMAIN inventory

\* A dictionary keeps the last item of a key.
LastWith(field, value) ==
    LET found == {i \in Positions : value # None /\ inventory[i][field] = value}
    IN IF found = {} THEN 0 ELSE Max(found)

OnlyAlike(name) ==
    LET found == {i \in Positions : <<name, inventory[i].name>> \in Alike
                                    \/ <<inventory[i].name, name>> \in Alike}
    IN IF Cardinality(found) = 1 THEN CHOOSE i \in found : TRUE ELSE 0

\* _product_family: the first family with a keyword that the name contains; None
\* for the other products.
Family(name) ==
    LET found == {f \in DOMAIN Families : Families[f] \cap Keywords[name] # {}}
    IN IF found = {} THEN None ELSE Min(found)

\* The item in stock of the family that is worth most, the first of equals.
BestOfFamily(name) ==
    LET found == {i \in Positions : /\ Family(name) # None
                                    /\ Family(inventory[i].name) = Family(name)
                                    /\ inventory[i].known /\ inventory[i].units > 0}
        Beats(i, j) == \/ inventory[i].value > inventory[j].value
                       \/ inventory[i].value = inventory[j].value
                          /\ inventory[i].units > inventory[j].units
    IN IF found = {} THEN 0
       ELSE CHOOSE i \in found : \A j \in found \ {i} :
              Beats(i, j) \/ (~Beats(j, i) /\ i < j)

\* The ways to match, in the order they are tried.
Matches(h) ==
    <<LastWith("sku", h.sku), LastWith("pid", h.pid), LastWith("name", h.name),
      OnlyAlike(h.name), BestOfFamily(h.name)>>

Match(h) ==
    LET found == {m \in DOMAIN Matches(h) : Matches(h)[m] # 0}
    IN IF found = {} THEN 0 ELSE Matches(h)[Min(found)]

Lapse(h) == AsOf - h.last

Outcome(h) ==
    LET i == Match(h)
    IN CASE i = 0 -> "without match"
         [] i # 0 /\ ~inventory[i].known -> "without stock"
         [] i # 0 /\ inventory[i].known /\ inventory[i].units <= 0 -> "out of stock"
         [] OTHER -> IF h.last = 0 THEN "without date"
                     ELSE IF Lapse(h) < LapseDays THEN "recent" ELSE "eligible"

Offered == {k \in DOMAIN history : Outcome(history[k]) = "eligible"}

-----------------------------------------------------------------------------
\* What an offer says of the customer is what its documents say: "compró {product}
\* y su última compra de este producto fue hace {n} días" (app/hub/commercial.py:973)
\* names the latest of the lines of that product, in whatever order they are read,
\* none of them recent; each document counts as one purchase, however often the
\* product stands in it; its units are those of the lines; and the item that is offered can be sold.
OffersTellTheTruth ==
    \A k \in Offered :
        LET own == {i \in DOMAIN lines : HistoryKey(lines[i].good) = k}
            days == {lines[i].sale.day : i \in own} \ {0}
            unnamed == {i \in own : lines[i].sale.id = None}
            papers == {lines[i].sale.id : i \in own} \ {None}
            item == inventory[Match(history[k])]
        IN /\ days # {} /\ Lapse(history[k]) = AsOf - Max(days)
           /\ \A d \in days : AsOf - d >= LapseDays
           /\ history[k].events = Cardinality(papers) + Cardinality(unnamed)
           /\ history[k].units =
                Total([i \in own |-> IF lines[i].quantity > 0 THEN lines[i].quantity ELSE 1])
           /\ item.known /\ item.units > 0
=============================================================================
