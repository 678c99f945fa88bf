-------------------------- MODULE FinanceCollections --------------------------
(***************************************************************************)
(* The receivables of a financial snapshot: _collections_snapshot of        *)
(* app/hub/finance.py takes the rows of Facto's collections, or what the    *)
(* PDFs of the documents say is left to pay, completes them with their      *)
(* documents and adds up the debt.                                          *)
(*                                                                          *)
(* Due days are relative to the cutoff: -1 is one day overdue.  A balance   *)
(* may stand in a row itself or in one of its parts ("inner": collection,   *)
(* payment, totals...).                                                     *)
(***************************************************************************)
EXTENDS HubData, Sequences

CONSTANTS Books,           \* sequences of the issued documents that were read
          ReceivableRows,  \* rows that Facto's collections may have
          Official,        \* "receivables" was read, or it was not available
          MaxReviewed      \* bound: rows reviewed in all

VARIABLES documents,
          official,    \* official_receivables_available
          reviewed,    \* the rows reviewed so far, as they were read
          debts,       \* document_rows: the debts found
          sums,        \* observed, overdue and due in the next 30 days
          aging,       \* bucket -> amount
          byCustomer   \* customer -> amount, overdue and due in the next 30 days

collectionsVars == <<documents, official, reviewed, debts, sums, aging, byCustomer>>

Buckets == {"current", "1-30", "31-60", "61-90", "over 90", "undated"}
NoDebt == [amount |-> 0, overdue |-> 0, next30 |-> 0]

\* _facto_pdf_receivables: one row for every PDF whose footer can be read.
PdfRow(d) ==
    [id |-> d.id, number |-> d.number, balance |-> d.pdf, inner |-> None,
     due |-> None, customer |-> None]
Pdfs == {i \in DOMAIN documents : documents[i].pdf # None}

Available == official \/ Pdfs # {}

\* The document of a row: by its identifier, else by its number; the last of
\* several.
Behind(row) ==
    LET by(field) == {i \in DOMAIN documents : row[field] # None
                                             /\ documents[i][field] = row[field]}
    IN IF by("id") # {} THEN documents[Max(by("id"))]
       ELSE IF by("number") # {} THEN documents[Max(by("number"))]
       ELSE row

\* _merge_receivable_rows: what the row says goes before what the document says.
Completed(row) ==
    [f \in {"id", "number", "balance", "inner", "due", "customer"} |->
       IF row[f] # None THEN row[f] ELSE Behind(row)[f]]

\* _reported_outstanding_amount: the parts are looked at before the row itself.
Reported(row) == IF row.inner # None THEN row.inner ELSE row.balance

\* What is left to pay; a row that does not say it is not taken for unpaid.
Owed(row) == IF Reported(Completed(row)) = None THEN 0 ELSE Reported(Completed(row))

DaysOverdue(due) == IF due # None /\ due < 0 THEN -due ELSE 0

\* Mutant: what is due today is in arrears.
BucketFromToday(due) ==
    LET days == DaysOverdue(due)
    IN CASE due = None -> "undated"
         [] due # None /\ due > 0 -> "current"
         [] OTHER -> IF days <= 30 THEN "1-30" ELSE IF days <= 60 THEN "31-60"
                     ELSE IF days <= 90 THEN "61-90" ELSE "over 90"

Bucket(due) ==
    LET days == DaysOverdue(due)
    IN CASE due = None -> "undated"
         [] due # None /\ days = 0 -> "current"
         [] OTHER -> IF days <= 30 THEN "1-30" ELSE IF days <= 60 THEN "31-60"
                     ELSE IF days <= 90 THEN "61-90" ELSE "over 90"

Soon(due) == due # None /\ due \in 0 .. 30

\* What a debt adds to the sums, of all or of its customer.
With(s, amount, due) ==
    [amount |-> s.amount + amount,
     overdue |-> IF DaysOverdue(due) > 0 THEN s.overdue + amount ELSE s.overdue,
     next30 |-> IF Soon(due) THEN s.next30 + amount ELSE s.next30]

Debtor(row) == IF row.customer = None THEN "Cliente no identificado" ELSE row.customer
Debtors == (({r.customer : r \in ReceivableRows}
             \cup UNION {{b[i].customer : i \in DOMAIN b} : b \in Books}) \ {None})
           \cup {"Cliente no identificado"}

Readable(row) == {row.balance, row.inner, row.due} \subseteq Int \cup {None}

ASSUME CollectionsAssumption ==
    /\ Official \subseteq BOOLEAN
    /\ MaxReviewed \in Nat
    /\ \A row \in ReceivableRows : Readable(row)
    /\ \A b \in Books : /\ Len(b) \in Nat /\ DOMAIN b = 1 .. Len(b)
                        /\ \A i \in DOMAIN b : Readable(b[i]) /\ b[i].pdf \in Int \cup {None}
    /\ IsFiniteSet(Debtors)

CollectionsInit ==
    /\ documents \in Books
    /\ official \in Official
    /\ reviewed = <<>>
    /\ debts = <<>>
    /\ sums = NoDebt
    /\ aging = [b \in Buckets |-> 0]
    /\ byCustomer = [c \in Debtors |-> NoDebt]

\* A row without a balance, or with nothing left to pay, is no debt.
Review(row) ==
    LET merged == Completed(row)
        amount == Owed(row)
    IN /\ reviewed' = Append(reviewed, row)
       /\ IF amount <= 0
          THEN UNCHANGED <<debts, sums, aging, byCustomer>>
          ELSE /\ debts' = Append(debts, [of |-> row, amount |-> amount, due |-> merged.due])
               /\ sums' = With(sums, amount, merged.due)
               /\ aging' = [aging EXCEPT ![Bucket(merged.due)] = @ + amount]
               /\ byCustomer' = [byCustomer EXCEPT ![Debtor(merged)] =
                                  With(@, amount, merged.due)]
       /\ UNCHANGED <<documents, official>>

ReviewOfficial ==
    /\ official
    /\ Len(reviewed) < MaxReviewed
    /\ \E row \in ReceivableRows : Review(row)

ReviewPdf ==
    /\ ~official
    /\ \E i \in Pdfs : /\ Cardinality({j \in Pdfs : j < i}) = Len(reviewed)
                      /\ Review(PdfRow(documents[i]))

\* Without receivables the documents are only counted.
ReviewDocument ==
    /\ ~Available
    /\ Len(reviewed) < Len(documents)
    /\ reviewed' = Append(reviewed, documents[Len(reviewed) + 1])
    /\ UNCHANGED <<documents, official, debts, sums, aging, byCustomer>>

CollectionsNext == ReviewOfficial \/ ReviewPdf \/ ReviewDocument

CollectionsSpec == CollectionsInit /\ [][CollectionsNext]_collectionsVars

-----------------------------------------------------------------------------
\* However the debt is divided, by age or by customer, the parts add up to what is
\* owed, and the overdue part is what stands in the buckets of overdue debt: an
\* invoice that is due today is not in arrears in one place and current in another.
DebtReconciles ==
    /\ Total(aging) = sums.amount
    /\ Total([c \in Debtors |-> byCustomer[c].amount]) = sums.amount
    /\ Total([c \in Debtors |-> byCustomer[c].overdue]) = sums.overdue
    /\ Total([c \in Debtors |-> byCustomer[c].next30]) = sums.next30
    /\ sums.overdue = sums.amount - aging["current"] - aging["undated"]
    /\ sums.next30 <= aging["current"]
=============================================================================
