------------------------- MODULE MCFinanceCollections -------------------------
(* Documents and rows of FinanceCollections for TLC.                        *)
EXTENDS FinanceCollections

Document(id, number, balance, inner, due, customer, pdf) ==
    [id |-> id, number |-> number, balance |-> balance, inner |-> inner, due |-> due,
     customer |-> customer, pdf |-> pdf]

\* Two documents share a number; one has a balance in one of its parts.
Issued ==
    {Document(1, "n1", None, 5, -31, "a", 3), Document(2, "n1", 4, None, 0, "b", None),
     Document(3, None, None, None, 30, None, 2)}

Ledgers == {<<>>} \cup {<<d>> : d \in Issued} \cup {<<d, e>> : d, e \in Issued}

\* Due days on both sides of every limit of a bucket.
Unpaid ==
    [id : {1, None}, number : {"n1"}, balance : {None, 0, 7}, inner : {None},
     due : {None, -91, -90, -60, -30, 0, 30, 31}, customer : {None, "a"}]
=============================================================================
