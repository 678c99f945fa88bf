------------------------- MODULE CommercialIdentity -------------------------
(***************************************************************************)
(* The customer portfolio of app/hub/commercial.py: extract_commercial_     *)
(* snapshot feeds the Facto customers, the Facto documents, the customers   *)
(* and the orders of the web shop, in this order, to _upsert_customer,      *)
(* which merges them by exact identifiers; build_commercial_report then     *)
(* attaches the companies of the CRM to the customers.                      *)
(*                                                                          *)
(* Identifiers, names and days are small values, None where a row has none; *)
(* normalisation has been applied to them.  The amount of a sale is the     *)
(* position of its row, so that no two sales are alike.                     *)
(***************************************************************************)
EXTENDS HubData, Sequences, Functions

CONSTANTS Contacts,      \* [rut, email, phone, name] of the people behind the rows
          Numbers,       \* numbers of sales documents
          Days,          \* days of a document, an order or a location
          MaxRows        \* bound: rows read in all

ASSUME IdentityAssumption ==
    /\ \A c \in Contacts : DOMAIN c = {"rut", "email", "phone", "name"}
    /\ Days \subseteq Nat \ {0}
    /\ MaxRows \in Nat

Kinds == <<"client", "document", "web customer", "order", "company">>

VARIABLES source,      \* the payload being read: an index of Kinds
          rows,        \* the rows read so far
          customers,   \* customer key -> customer
          aliases,     \* alias_index: exact identifier -> customer key
          owner        \* ghost: the customer each row went to

identityVars == <<source, rows, customers, aliases, owner>>

\* What is read of a row.  The number of a document matters only where there is
\* no RUT; a location may come with any row.
Rows(kind) ==
    {row \in [kind : {kind}, contact : Contacts,
              number : IF kind = "document" THEN Numbers \cup {None} ELSE {None},
              day : IF kind \in {"client", "company"} THEN {0} ELSE Days \cup {0},
              located : BOOLEAN] : row.contact.rut = None \/ row.number = None}

\* _facto_contact and _customer: a document without a RUT takes its own number
\* for one.
TaxId(row) ==
    IF row.contact.rut = None THEN row.number ELSE row.contact.rut

Stated(field, value) == IF value = None THEN <<>> ELSE <<<<field, value>>>>

\* The exact aliases, the preferred one first.
Identifiers(row) ==
    Stated("rut", TaxId(row)) \o Stated("email", row.contact.email)
                              \o Stated("phone", row.contact.phone)

\* _identity: a row without an exact identifier goes by its name, and one
\* without a name by its position.  A company that matches nobody is a customer
\* of its own.
Preferred(row, i) ==
    IF row.kind = "company" THEN <<"crm", i>>
    ELSE IF Identifiers(row) # <<>> THEN Identifiers(row)[1]
    ELSE IF row.contact.name # None THEN <<"name", row.contact.name>>
    ELSE <<"row", i>>

\* Mutant: any identifier that is known decides, the last one first.
KeyOfLast(row, i) ==
    LET ids == Identifiers(row)
        known == {j \in DOMAIN ids : ids[j] \in DOMAIN aliases}
    IN IF known = {} THEN Preferred(row, i)
       ELSE aliases[ids[CHOOSE j \in known : \A k \in known : j >= k]]

\* Mutant: the name of a row is looked for as well.
KeyByName(row, i) ==
    LET ids == Identifiers(row)
        known == {j \in DOMAIN ids : ids[j] \in DOMAIN aliases}
        named == {k \in DOMAIN customers : row.contact.name # None
                                           /\ customers[k].name = row.contact.name}
    IN IF known # {} THEN aliases[ids[CHOOSE j \in known : \A k \in known : j <= k]]
       ELSE IF named # {} THEN CHOOSE k \in named : TRUE
       ELSE Preferred(row, i)

\* The customer of the first identifier that is known, in the order RUT, email,
\* phone.
KeyOf(row, i) ==
    LET ids == Identifiers(row)
        known == {j \in DOMAIN ids : ids[j] \in DOMAIN aliases}
    IN IF known = {} THEN Preferred(row, i)
       ELSE aliases[ids[CHOOSE j \in known : \A k \in known : j <= k]]

\* "place" is the row the location comes from, "born" the row that made the
\* customer (the order of the dictionary), "company" the last company attached.
Blank(i) ==
    [rut |-> None, email |-> None, phone |-> None, name |-> None,
     place |-> 0, priority |-> 0, verified |-> 0,
     net |-> 0, documents |-> 0, orders |-> 0,
     born |-> i, company |-> 0]

\* An invoice or an order tells where its customer was on its day; the CRM was
\* reviewed by a person.
Priority(row) ==
    CASE row.kind = "company" -> 100
      [] row.kind = "document" \/ row.day # 0 -> 20
      [] OTHER -> 10

\* Mutant: a later row always moves the customer.
MovesAlways(customer, row) == row.located

\* Whether the location of the row replaces that of the customer.
Moves(customer, row) ==
    /\ row.located
    /\ \/ customer.place = 0
       \/ Priority(row) > customer.priority
       \/ Priority(row) = customer.priority /\ row.day # 0 /\ row.day >= customer.verified

\* _merge_contact: what is known stays, except that the phone is always the
\* latest one; the location may move.
Merged(customer, row, i) ==
    LET contact == [row.contact EXCEPT !.rut = TaxId(row)]
        Known(field) == IF customer[field] = None THEN contact[field] ELSE customer[field]
        filled == [customer EXCEPT !.rut = Known("rut"), !.email = Known("email"),
                                   !.phone = IF contact.phone = None THEN @ ELSE contact.phone,
                                   !.name = Known("name"),
                                   !.company = IF row.kind = "company" THEN i ELSE @]
    IN IF Moves(customer, row)
       THEN [filled EXCEPT !.place = i, !.priority = Priority(row),
                           !.verified = IF row.day # 0 THEN row.day ELSE @]
       ELSE filled

\* What a sale adds to its customer, with or without a day.
Sold(customer, row, i) ==
    CASE row.kind = "document" -> [customer EXCEPT !.net = @ + i, !.documents = @ + 1]
      [] row.kind = "order" -> [customer EXCEPT !.orders = @ + 1]
      [] OTHER -> customer

IdentityInit ==
    /\ source = 1
    /\ rows = <<>>
    /\ customers = <<>>
    /\ aliases = <<>>
    /\ owner = <<>>

\* The next payload of the portfolio.
NextSource ==
    /\ source < Len(Kinds) - 1
    /\ source' = source + 1
    /\ UNCHANGED <<rows, customers, aliases, owner>>

Known(customer) ==
    {<<field, customer[field]>> : field \in {f \in {"rut", "email", "phone"} : customer[f] # None}}

\* The portfolio is sorted by net sales, then by activity, the highest first.
ComesAfter(c, d) ==
    LET activity(x) == x.documents + x.orders
    IN \/ c.net < d.net
       \/ c.net = d.net /\ activity(c) < activity(d)
       \/ c.net = d.net /\ activity(c) = activity(d) /\ c.born >= d.born

\* The report indexes what it kept of the customers; the last one wins.
AliasesOfPortfolio ==
    [a \in UNION {Known(customers[k]) : k \in DOMAIN customers} |->
       CHOOSE k \in DOMAIN customers :
          /\ a \in Known(customers[k])
          /\ \A l \in DOMAIN customers : a \in Known(customers[l]) =>
               ComesAfter(customers[k], customers[l])]

\* build_commercial_report: the priorities of the locations are forgotten.
BeginReport ==
    /\ source = Len(Kinds) - 1
    /\ source' = Len(Kinds)
    /\ customers' = [k \in DOMAIN customers |-> [customers[k] EXCEPT !.priority = 0]]
    /\ aliases' = AliasesOfPortfolio
    /\ UNCHANGED <<rows, owner>>

\* _upsert_customer and what extract_commercial_snapshot adds to the customer.
\* In the report only the companies that matched nobody are indexed.
ReadRow(row) ==
    LET i == Len(rows) + 1
        key == KeyOf(row, i)
        before == IF key \in DOMAIN customers THEN customers[key] ELSE Blank(i)
        learnt == IF row.kind = "company" /\ key \in DOMAIN customers
                  THEN {} ELSE Range(Identifiers(row))
    IN /\ rows' = Append(rows, row)
       /\ owner' = Append(owner, key)
       /\ customers' = [k \in DOMAIN customers \cup {key} |->
                          IF k = key THEN Sold(Merged(before, row, i), row, i)
                          ELSE customers[k]]
       /\ aliases' = [a \in DOMAIN aliases \cup learnt |->
                        IF a \in learnt THEN key ELSE aliases[a]]
       /\ UNCHANGED source

IdentityNext ==
    \/ NextSource
    \/ BeginReport
    \/ /\ Len(rows) < MaxRows
       /\ \E row \in Rows(Kinds[source]) : ReadRow(row)

IdentitySpec == IdentityInit /\ [][IdentityNext]_identityVars

-----------------------------------------------------------------------------
RowsOf(key) == {i \in DOMAIN rows : owner[i] = key}

\* The rows of Facto and of the web shop that name one RUT are one customer, in
\* whatever order they come and whatever else they say: sales of one taxpayer
\* are never spread over two customers.
SameRutSameCustomer ==
    \A i, j \in DOMAIN rows :
        (/\ "company" \notin {rows[i].kind, rows[j].kind}
         /\ TaxId(rows[i]) # None
         /\ TaxId(rows[i]) = TaxId(rows[j])) => owner[i] = owner[j]

\* "Exact identifiers are the only automatic merge keys" (app/hub/commercial.py:5):
\* a row joins a customer only through a RUT, an e-mail or a phone that an earlier
\* row of it had, except that rows with nothing but a name go by the name.
MergedOnlyByLink ==
    \A i \in DOMAIN rows :
        LET earlier == {j \in RowsOf(owner[i]) : j < i}
            linked == \E j \in earlier :
                          Range(Identifiers(rows[i])) \cap Range(Identifiers(rows[j])) # {}
        IN earlier # {} =>
             \/ linked
             \/ rows[i].kind # "company" /\ rows[i].contact.name # None
                /\ Identifiers(rows[i]) = <<>>
                /\ \E j \in earlier : Identifiers(rows[j]) = <<>>
                                     /\ rows[j].contact.name = rows[i].contact.name

\* A customer is where the first company of the CRM that tells a place says;
\* failing that, where its latest dated invoice or order says, then any invoice,
\* then any other row, whatever the order in which the payloads are read.
LocationIsBest ==
    \A k \in DOMAIN customers :
        LET telling == {i \in RowsOf(k) : rows[i].located}
            at(p) == {i \in telling : Priority(rows[i]) = p}
            latest == {i \in at(20) : rows[i].day # 0
                                     /\ \A j \in at(20) : rows[j].day <= rows[i].day}
        IN customers[k].place =
             CASE telling = {} -> 0
               [] at(100) # {} -> Min(at(100))
               [] at(100) = {} /\ latest # {} -> Max(latest)
               [] at(100) = {} /\ latest = {} /\ at(20) # {} -> Min(at(20))
               [] OTHER -> Min(telling)
=============================================================================
