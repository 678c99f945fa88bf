----------------------------- MODULE FinanceSales -----------------------------
(***************************************************************************)
(* The sums of extract_financial_snapshot in app/hub/finance.py: issued     *)
(* documents, received documents and the orders of the web shop are read    *)
(* one after the other, and the years are compared in the end.              *)
(*                                                                          *)
(* A date is a triple <<year, month, day>>, None where there is none.  The  *)
(* tax is 19 of 100, as VAT_FACTOR has it.                                  *)
(***************************************************************************)
EXTENDS HubData, Sequences

CONSTANTS Documents,     \* [date, rut, number, name, type, net, tax, gross, lines] that are read
          Orders,        \* [cancelled, paid, clp, total, date] of the web shop
          LeapYears,
          MaxRead        \* bound: documents and orders read in all

\* Amounts of a document that do not contradict each other.
Coherent(d) ==
    /\ {d.net, d.tax, d.gross} \subseteq Nat \cup {None} /\ d.lines \in Nat
    /\ d.net # None /\ d.gross # None =>
         IF d.tax = None THEN d.net <= d.gross ELSE d.net + d.tax = d.gross
    /\ d.net = None /\ d.gross # None /\ d.tax # None /\ d.type # "exempt" =>
         d.tax = d.gross - (d.gross * 100) \div 119
    /\ d.type = "exempt" => d.tax \in {None, 0}

ASSUME SalesAssumption ==
    /\ MaxRead \in Nat /\ None \notin Nat
    /\ IsFiniteSet(Documents)
    /\ \A d \in Documents :
         /\ Coherent(d)
         /\ d.date # None =>
              /\ d.date \in (Nat \ {0}) \X (1 .. 12) \X (1 .. 31)
              /\ d.date[2] = 2 /\ d.date[3] = 29 => d.date[1] \in LeapYears

VARIABLES stage,      \* what is being read
          read,       \* ghost: the documents and orders read, in their stage
          sales,      \* sums of the issued documents
          purchases,  \* sums of the received documents
          web         \* sums of the orders

salesVars == <<stage, read, sales, purchases, web>>

Stages == <<"sales", "purchases", "orders">>
Dates == {d.date : d \in Documents} \ {None}
Undated == <<0, 0>>    \* "sin_fecha"
MonthOf(date) == IF date = None THEN Undated ELSE <<date[1], date[2]>>

Absolute(n) == IF n < 0 THEN -n ELSE n

\* _amounts: what the document says, and what follows from it.
Amounts(d) ==
    LET exempt == d.type = "exempt"
        given == d.net # None \/ d.gross # None
        net == IF d.net # None THEN d.net
               ELSE IF d.gross # None
                    THEN IF exempt THEN d.gross ELSE (d.gross * 100) \div 119
               ELSE d.lines
        added == IF d.tax = None THEN (net * 19) \div 100 ELSE d.tax
        gross == IF ~given THEN IF exempt THEN net ELSE (net * 119) \div 100
                 ELSE IF d.gross # None THEN d.gross
                 ELSE IF exempt THEN net ELSE net + added
        tax == IF d.tax # None /\ given THEN d.tax
               ELSE IF gross > net THEN gross - net ELSE 0
    IN [net |-> net, tax |-> tax, gross |-> gross]

\* Mutant: the tax of a credit note keeps its sign.
TaxKeepsSign(d) ==
    LET a == Amounts(d)
    IN IF d.type = "credit note"
       THEN [net |-> -Absolute(a.net), tax |-> a.tax, gross |-> -Absolute(a.gross)]
       ELSE a

\* _purchase_amounts: a received credit note takes back what it names.
PurchaseAmounts(d) ==
    LET a == Amounts(d)
    IN IF d.type = "credit note"
       THEN [net |-> -Absolute(a.net), tax |-> -Absolute(a.tax), gross |-> -Absolute(a.gross)]
       ELSE a

NameOr(d, other) == IF d.name # None THEN d.name ELSE other

\* _customer: a document without the RUT of its receiver takes its own number for
\* one; only without both does the name tell its customer.
Customer(d) ==
    IF d.rut # None THEN d.rut
    ELSE IF d.number # None THEN d.number ELSE NameOr(d, "Cliente no identificado")

\* _supplier: the RUT of the issuer, or its name.
Supplier(d) == IF d.rut # None THEN d.rut ELSE NameOr(d, "Proveedor no identificado")

Partners == {Customer(d) : d \in Documents} \cup {Supplier(d) : d \in Documents}

NoSums ==
    [net |-> 0, tax |-> 0, gross |-> 0, documents |-> 0,
     months |-> [m \in {MonthOf(x) : x \in Dates \cup {None}} |-> 0],
     days |-> [x \in Dates |-> 0],
     partners |-> [p \in Partners |-> 0],
     dated |-> <<>>]

\* A document is added to the sums of all, of its month, its day and its customer
\* or supplier.
Booked(sums, d, partner, a) ==
    [sums EXCEPT
       !.net = @ + a.net, !.tax = @ + a.tax, !.gross = @ + a.gross, !.documents = @ + 1,
       !.months[MonthOf(d.date)] = @ + a.net,
       !.days = [x \in Dates |-> IF x = d.date THEN @[x] + a.net ELSE @[x]],
       !.partners[partner] = @ + a.net,
       !.dated = IF d.date = None THEN @ ELSE Append(@, [date |-> d.date, net |-> a.net])]

SalesInit ==
    /\ stage = 1
    /\ read = <<>>
    /\ sales = NoSums
    /\ purchases = NoSums
    /\ web = [gross |-> 0, orders |-> 0, cancelled |-> 0, unpaid |-> 0,
              foreign |-> 0, total |-> 0, date |-> 0]

NextStage ==
    /\ stage < Len(Stages)
    /\ stage' = stage + 1
    /\ UNCHANGED <<read, sales, purchases, web>>

Reading(what, row) ==
    /\ Stages[stage] = what
    /\ read' = Append(read, <<what, row>>)
    /\ UNCHANGED stage

ReadSale(d) ==
    /\ Reading("sales", d)
    /\ sales' = Booked(sales, d, Customer(d), Amounts(d))
    /\ UNCHANGED <<purchases, web>>

ReadPurchase(d) ==
    /\ Reading("purchases", d)
    /\ purchases' = Booked(purchases, d, Supplier(d), PurchaseAmounts(d))
    /\ UNCHANGED <<sales, web>>

\* _internet_sales_snapshot: the first reason to leave an order out, or "total".
Reason(o) ==
    IF o.cancelled THEN "cancelled"
    ELSE IF ~o.paid THEN "unpaid"
    ELSE IF ~o.clp THEN "foreign"
    ELSE IF o.total = None THEN "total"
    ELSE IF ~o.date THEN "date"
    ELSE "counted"

ReadOrder(o) ==
    /\ Reading("orders", o)
    /\ web' = IF Reason(o) = "counted"
              THEN [web EXCEPT !.gross = @ + o.total, !.orders = @ + 1]
              ELSE [web EXCEPT ![Reason(o)] = @ + 1]
    /\ UNCHANGED <<sales, purchases>>

SalesNext ==
    \/ NextStage
    \/ /\ Len(read) < MaxRead
       /\ \/ \E d \in Documents : ReadSale(d) \/ ReadPurchase(d)
          \/ \E o \in Orders : ReadOrder(o)

SalesSpec == SalesInit /\ [][SalesNext]_salesVars

-----------------------------------------------------------------------------
(* _annual_comparison.                                                      *)

Before(x, y) ==
    \/ x[1] < y[1]
    \/ x[1] = y[1] /\ x[2] < y[2]
    \/ x[1] = y[1] /\ x[2] = y[2] /\ x[3] <= y[3]

\* The latest day of anything read, if there is one.
Cutoff ==
    LET read_ == {sales.dated[i].date : i \in DOMAIN sales.dated}
                 \cup {purchases.dated[i].date : i \in DOMAIN purchases.dated}
    IN IF read_ = {} THEN None ELSE CHOOSE x \in read_ : \A y \in read_ : Before(y, x)

\* Mutant: the year before is compared as a whole.
YearBeforeWhole(date) == <<date[1] - 1, 12, 31>>

\* The same day of the year before, the 28th for the 29th of February.
YearBefore(date) ==
    IF date[2] = 2 /\ date[3] = 29 /\ date[1] - 1 \notin LeapYears
    THEN <<date[1] - 1, 2, 28>> ELSE <<date[1] - 1, date[2], date[3]>>

NetOf(sums, Test(_)) ==
    Total([i \in {j \in DOMAIN sums.dated : Test(sums.dated[j].date)} |-> sums.dated[i].net])

CurrentToDate(sums) ==
    NetOf(sums, LAMBDA x : x[1] = Cutoff[1] /\ Before(x, Cutoff))
PreviousToDate(sums) ==
    NetOf(sums, LAMBDA x : x[1] = Cutoff[1] - 1 /\ Before(x, YearBefore(Cutoff)))

-----------------------------------------------------------------------------
(* Properties.                                                              *)

\* The sums agree: whichever way the sales or the purchases are divided, by month,
\* by day or by partner, the parts add up to the whole.  Of documents each of which
\* has a net and a tax that make its gross, so have the sums, credit notes included.
SumsAgree ==
    \A sums \in {sales, purchases} :
        /\ Total(sums.months) = sums.net
        /\ Total(sums.partners) = sums.net
        /\ Total(sums.days) = sums.net - sums.months[Undated]
        /\ sums.net + sums.tax = sums.gross

\* The two years are compared over the same days: what a day of the year counts
\* towards this year to date, the same day counts towards the year before.
YearsAreComparable ==
    Cutoff # None =>
        \A sums \in {sales, purchases} :
            /\ CurrentToDate(sums) = NetOf(sums, LAMBDA x : x[1] = Cutoff[1])
            /\ PreviousToDate(sums) =
                 NetOf(sums, LAMBDA x : x[1] = Cutoff[1] - 1
                                        /\ Before(<<Cutoff[1], x[2], x[3]>>, Cutoff))
=============================================================================
