--------------------------- MODULE CommercialProofs ---------------------------
(***************************************************************************)
(* Proofs about the commercial analysis of the agent hub, for any          *)
(* portfolio.  CommercialReport: who buys more never scores less, and the  *)
(* segments are what they are announced as.  CommercialIdentity: rows of   *)
(* one RUT are one customer, rows are merged by exact identifiers only,    *)
(* and a customer is where its best row says.                              *)
(***************************************************************************)
EXTENDS CommercialReport, CommercialIdentity, FiniteSetTheorems, SequenceTheorems, TLAPS

-----------------------------------------------------------------------------
(* The report.                                                             *)

PortfolioOK == portfolio \in Seq(Customers) /\ others \in Seq(Nat)

\* A division by the same number keeps the order.
LEMMA DivisionGrows ==
  ASSUME NEW a \in Int, NEW b \in Int, NEW n \in Int, n > 0, a <= b
  PROVE  a \div n \in Int /\ b \div n \in Int /\ a \div n <= b \div n
  BY SMT

\* No customer but one of Customers is added.
LEMMA PortfolioIsTyped == ReportSpec => []PortfolioOK
  <1>1. ReportInit => PortfolioOK
    BY ReportAssumption DEF ReportInit, PortfolioOK
  <1>2. PortfolioOK /\ [ReportNext]_reportVars => PortfolioOK'
    BY DEF PortfolioOK, ReportNext, AddCustomer, reportVars
  <1>3. QED BY <1>1, <1>2, PTL DEF ReportSpec

\* A customer bought a number of times for an amount, in this order of days.
LEMMA CustomerOK ==
  ASSUME NEW c \in Customers
  PROVE  c.amount \in Nat /\ c.events \in Nat /\ c.first \in Nat /\ c.last \in Nat
         /\ (c.last # 0 => c.first <= c.last)
  <1>1. /\ c.amount \in Turnovers \cup {0} /\ c.events \in Counts \cup {0}
        /\ c.first \in 0 .. Today /\ c.last \in 0 .. Today
        /\ c.last # 0 => c.first \in 1 .. c.last
    BY DEF Customers
  <1>2. \A n \in Turnovers \cup Counts \cup {0, Today} : n \in Nat
    BY ReportAssumption
  <1>3. c.amount \in Nat /\ c.events \in Nat
    BY <1>1, <1>2
  <1>4. c.first \in Nat /\ c.last \in Nat
    BY <1>1, <1>2
  <1>5. c.last # 0 => c.first <= c.last
    BY <1>1, <1>4
  <1>6. QED BY <1>3, <1>4, <1>5

\* The sales of a customer are those of its place among all.
LEMMA ValuesOK ==
  ASSUME PortfolioOK
  PROVE  /\ \A i \in DOMAIN portfolio : i \in DOMAIN Values /\ Values[i] = portfolio[i].amount
         /\ \A i \in DOMAIN Values : Values[i] \in Nat
         /\ DOMAIN Values = 1 .. Len(portfolio) + Len(others)
  <1> DEFINE V == [i \in DOMAIN portfolio |-> portfolio[i].amount]
  <1> DEFINE n == Len(portfolio)
  <1>1. V \in Seq(Nat) /\ Len(V) = n /\ n \in Nat /\ DOMAIN portfolio = 1 .. n
    <2>1. n \in Nat /\ DOMAIN portfolio = 1 .. n
      BY DEF PortfolioOK
    <2>2. \A i \in 1 .. n : portfolio[i].amount \in Nat
      BY CustomerOK, <2>1 DEF PortfolioOK
    <2>3. QED BY <2>1, <2>2
  <1>2. Values = V \o others
    BY DEF Values
  <1> HIDE DEF V, n
  <1>3. /\ DOMAIN Values = 1 .. Len(portfolio) + Len(others)
        /\ \A i \in DOMAIN Values : Values[i] \in Nat
        /\ \A i \in 1 .. Len(V) : Values[i] = V[i]
    <2>1. others \in Seq(Nat) /\ n = Len(portfolio)
      BY DEF PortfolioOK, n
    <2>2. Values \in Seq(Nat) /\ Len(Values) = n + Len(others)
      BY <1>1, <1>2, <2>1, ConcatProperties
    <2>3. \A i \in 1 .. Len(V) : Values[i] = V[i]
      BY <1>1, <1>2, <2>1
    <2>4. QED BY <2>1, <2>2, <2>3
  <1>4. QED BY <1>1, <1>3 DEF V, n

\* Who has sales has a position among those that have, and the higher the sales
\* the fewer come before.
LEMMA PositionOK ==
  ASSUME PortfolioOK
  PROVE  /\ IsFiniteSet(Ranked) /\ Cardinality(Ranked) \in Nat
         /\ \A i \in Ranked : Position(i) \in 0 .. Cardinality(Ranked) - 1
         /\ \A i, j \in Ranked : Values[i] > Values[j] => Position(i) <= Position(j)
  <1> DEFINE before(i) ==
               {k \in Ranked : Values[k] > Values[i] \/ (Values[k] = Values[i] /\ k < i)}
  <1>1. IsFiniteSet(Ranked) /\ Cardinality(Ranked) \in Nat
    <2>1. Ranked \in SUBSET (1 .. Len(portfolio) + Len(others))
      BY ValuesOK DEF Ranked
    <2>2. IsFiniteSet(1 .. Len(portfolio) + Len(others))
      BY FS_Interval DEF PortfolioOK
    <2>3. QED BY <2>1, <2>2, FS_Subset, FS_CardinalityType
  <1>2. \A k \in Ranked : k \in Nat /\ Values[k] \in Nat
    BY ValuesOK DEF Ranked, PortfolioOK
  <1>3. \A i \in Ranked : IsFiniteSet(before(i)) /\ Cardinality(before(i)) \in Nat
    BY <1>1, FS_Subset, FS_CardinalityType
  <1>4. ASSUME NEW i \in Ranked
        PROVE  Position(i) \in 0 .. Cardinality(Ranked) - 1
    <2>1. before(i) \in SUBSET (Ranked \ {i})
      BY <1>2
    <2>2. IsFiniteSet(Ranked \ {i}) /\ Cardinality(Ranked \ {i}) = Cardinality(Ranked) - 1
      BY <1>1, FS_RemoveElement
    <2>3. Cardinality(before(i)) <= Cardinality(Ranked) - 1
      BY <2>1, <2>2, FS_Subset
    <2>4. Position(i) = Cardinality(before(i))
      BY DEF Position
    <2>5. QED BY <1>1, <1>3, <2>3, <2>4
  <1>5. ASSUME NEW i \in Ranked, NEW j \in Ranked, Values[i] > Values[j]
        PROVE  Position(i) <= Position(j)
    <2>1. before(i) \in SUBSET before(j)
      BY <1>2, <1>5
    <2>2. Cardinality(before(i)) <= Cardinality(before(j))
      BY <1>3, <2>1, FS_Subset
    <2>3. QED BY <2>2 DEF Position
  <1>6. QED BY <1>1, <1>4, <1>5

\* The points of the sales do not fall as the sales rise.
LEMMA ValuePointsGrow ==
  ASSUME PortfolioOK, NEW i \in DOMAIN portfolio, NEW j \in DOMAIN portfolio,
         portfolio[i].amount > portfolio[j].amount
  PROVE  /\ ValuePoints(i) \in Int /\ ValuePoints(j) \in Int
         /\ ValuePoints(i) >= ValuePoints(j)
  <1> DEFINE n == Cardinality(Ranked)
             steps == AtLeastOne(n - 1)
             points(p) == (2 * 40 * (steps - p) + steps) \div (2 * steps)
  <1>1. n \in Nat
    BY PositionOK
  <1>2. steps \in Nat /\ steps > 0 /\ steps >= n - 1
    BY <1>1 DEF AtLeastOne
  <1>3. i \in Ranked
    BY ValuesOK DEF Ranked, PortfolioOK
  <1>4. Position(i) \in Nat /\ Position(i) <= n - 1
    BY <1>1, <1>3, PositionOK
  <1>5. ValuePoints(i) = points(Position(i))
    BY <1>3 DEF ValuePoints
  <1> HIDE DEF n, steps
  <1>6. 0 \div (2 * steps) = 0
    BY <1>2, SMT
  <1>7. points(Position(i)) \in Int /\ points(Position(i)) >= 0
    <2>1. 2 * 40 * (steps - Position(i)) + steps >= 0 /\ 2 * steps > 0
      BY <1>1, <1>2, <1>4
    <2>2. QED BY <1>1, <1>2, <1>4, <1>6, <2>1, DivisionGrows
  <1>8. CASE j \notin Ranked
    <2>1. ValuePoints(j) = 0
      BY <1>8 DEF ValuePoints
    <2>2. QED BY <1>5, <1>7, <2>1
  <1>9. CASE j \in Ranked
    <2>1. Position(j) \in Nat /\ Position(i) <= Position(j)
      BY <1>3, <1>9, PositionOK, ValuesOK
    <2>2. ValuePoints(j) = points(Position(j))
      BY <1>9 DEF ValuePoints, n, steps
    <2>3. /\ 2 * 40 * (steps - Position(j)) + steps \in Int
          /\ 2 * 40 * (steps - Position(i)) + steps \in Int
          /\ 2 * 40 * (steps - Position(j)) + steps <= 2 * 40 * (steps - Position(i)) + steps
          /\ 2 * steps \in Int /\ 2 * steps > 0
      BY <1>2, <1>4, <2>1
    <2>4. points(Position(j)) \in Int /\ points(Position(j)) <= points(Position(i))
      BY <2>3, DivisionGrows
    <2>5. QED BY <1>5, <1>7, <2>2, <2>4
  <1>10. QED BY <1>8, <1>9

\* The other points are whole numbers.
LEMMA LifecyclePointsOK == ASSUME NEW c PROVE LifecyclePoints(c) \in 0 .. 25
  BY DEF LifecyclePoints

\* The score only adds to the points of the sales, up to a hundred.
LEMMA ScoresGrow == ASSUME PortfolioOK PROVE HigherValueNeverScoresLess
  <1> SUFFICES ASSUME NEW i \in DOMAIN portfolio, NEW j \in DOMAIN portfolio,
                      portfolio[i].amount > portfolio[j].amount,
                      Lifecycle(portfolio[i]) = Lifecycle(portfolio[j]),
                      portfolio[i].events = portfolio[j].events,
                      Channel(portfolio[i]) = Channel(portfolio[j]),
                      portfolio[i].email = portfolio[j].email
               PROVE  Score(i) >= Score(j)
    BY DEF HigherValueNeverScoresLess
  <1> DEFINE points(k) == LifecyclePoints(portfolio[k])
             often(k) == AtMost(20, 3 * portfolio[k].events)
             both(k) == IF Channel(portfolio[k]) = "both" THEN 10 ELSE 4
             mail(k) == IF portfolio[k].email THEN 5 ELSE 0
  <1>1. ValuePoints(i) \in Int /\ ValuePoints(j) \in Int /\ ValuePoints(i) >= ValuePoints(j)
    BY ValuePointsGrow
  <1>2. points(i) \in Int /\ points(i) = points(j)
    BY LifecyclePointsOK DEF LifecyclePoints
  <1>3. often(i) \in Int /\ often(i) = often(j)
    <2>1. portfolio[i].events \in Nat
      BY CustomerOK DEF PortfolioOK
    <2>2. QED BY <2>1 DEF AtMost
  <1>4. both(i) \in Int /\ both(i) = both(j) /\ mail(i) \in Int /\ mail(i) = mail(j)
    OBVIOUS
  <1>5. /\ Score(i) = AtMost(100, ValuePoints(i) + points(i) + often(i) + both(i) + mail(i))
        /\ Score(j) = AtMost(100, ValuePoints(j) + points(j) + often(j) + both(j) + mail(j))
    BY DEF Score
  <1> HIDE DEF points, often, both, mail
  <1>6. QED BY <1>1, <1>2, <1>3, <1>4, <1>5 DEF AtMost

\* HigherValueNeverScoresLess: the score of build_commercial_report follows the
\* sales, for any portfolio and any limits of the lifecycle.
THEOREM HigherSalesScoreHigher == ReportSpec => []HigherValueNeverScoresLess
  BY PortfolioIsTyped, ScoresGrow, PTL

\* What the lifecycle of a customer says of the days since its last purchase.
LEMMA LifecycleTells ==
  ASSUME NEW c \in Customers
  PROVE  /\ Lifecycle(c) = "new" => HasBought(c) /\ Since(c) <= NewDays
         /\ Lifecycle(c) = "active" => HasBought(c) /\ Since(c) <= ActiveDays
         /\ Lifecycle(c) = "at_risk" => Since(c) > ActiveDays /\ Since(c) <= RiskDays
         /\ Lifecycle(c) = "dormant" => Since(c) > RiskDays
  <1>1. c.last \in Nat /\ c.first \in Nat /\ (c.last # 0 => c.first <= c.last)
    BY CustomerOK
  <1>2. Since(c) \in Int /\ (c.last # 0 /\ Today - c.first <= NewDays => Since(c) <= NewDays)
    BY <1>1, ReportAssumption DEF Since
  <1>3. QED BY <1>2, ReportAssumption DEF Lifecycle, HasBought

\* The segments are announced with what the lifecycle, the tier and the counts of
\* their customers are.
LEMMA SegmentsTell == ASSUME PortfolioOK PROVE SegmentsAreAsTheySay
  <1>1. \A i \in DOMAIN portfolio : portfolio[i] \in Customers
    BY DEF PortfolioOK
  <1>2. ASSUME NEW i \in Segment("rescue")
        PROVE  Tier(i) \in {"A", "B"} /\ Since(portfolio[i]) > ActiveDays
    <2>1. i \in DOMAIN portfolio /\ Advice(i)[1] = "rescue_priority"
      BY DEF Segment
    <2>2. Lifecycle(portfolio[i]) \in {"at_risk", "dormant"} /\ Tier(i) \in {"A", "B"}
      BY <2>1 DEF Advice
    <2>3. QED BY <1>1, <2>1, <2>2, LifecycleTells, ReportAssumption DEF Since, Customers
  <1>3. ASSUME NEW i \in Segment("dormant") PROVE Since(portfolio[i]) > RiskDays
    BY <1>1, LifecycleTells DEF Segment
  <1>4. ASSUME NEW i \in Segment("at risk")
        PROVE  Since(portfolio[i]) > ActiveDays /\ Since(portfolio[i]) <= RiskDays
    BY <1>1, LifecycleTells DEF Segment
  <1>5. ASSUME NEW i \in Segment("loyal")
        PROVE  portfolio[i].events >= 4 /\ Since(portfolio[i]) <= ActiveDays
    <2>1. i \in DOMAIN portfolio /\ Advice(i)[1] = "loyalty_cross_sell"
      BY DEF Segment
    <2>2. Lifecycle(portfolio[i]) = "active" /\ portfolio[i].events >= 4
      BY <2>1 DEF Advice
    <2>3. QED BY <1>1, <2>1, <2>2, LifecycleTells
  <1>6. ASSUME NEW i \in Segment("new")
        PROVE  HasBought(portfolio[i]) /\ Since(portfolio[i]) <= NewDays
    <2>1. i \in DOMAIN portfolio /\ Advice(i)[1] = "onboard"
      BY DEF Segment
    <2>2. Lifecycle(portfolio[i]) = "new"
      BY <2>1 DEF Advice
    <2>3. QED BY <1>1, <2>1, <2>2, LifecycleTells
  <1>7. QED BY <1>2, <1>3, <1>4, <1>5, <1>6 DEF SegmentsAreAsTheySay

\* SegmentsAreAsTheySay: what the segments of build_commercial_report are sent
\* with is true of everybody in them, whatever the limits of the lifecycle.
THEOREM SegmentsTellTheTruth == ReportSpec => []SegmentsAreAsTheySay
  BY PortfolioIsTyped, SegmentsTell, PTL

-----------------------------------------------------------------------------
(* The identity of customers.                                              *)

\* A set of naturals that is not empty and bounded has a least element.
LEMMA LeastElement ==
    ASSUME NEW T, T \subseteq Nat, T # {}
    PROVE  \E x \in T : \A y \in T : x <= y
<1>1. PICK z \in T : TRUE
  OBVIOUS
<1> DEFINE Upto(x) == 0 .. x
           S == Upto(z)
           U == {Upto(x) : x \in {y \in T : y <= z}}
<1>2. \A x \in Nat : IsFiniteSet(Upto(x))
  BY FS_Interval
<1>3. IsWellFoundedOn(StrictSubsetOrdering(S), FiniteSubsetsOf(S))
  BY FS_StrictSubsetOrderingWellFounded
<1>4. U \subseteq FiniteSubsetsOf(S) /\ U # {}
  BY <1>1, <1>2 DEF FiniteSubsetsOf
<1>5. PICK u \in U : \A v \in U : <<v, u>> \notin StrictSubsetOrdering(S)
  <2> HIDE DEF U, S
  <2> QED
    BY <1>3, <1>4, WFMin
<1>6. PICK x \in T : x <= z /\ u = Upto(x)
  BY <1>5
<1>7. ASSUME NEW y \in T, y < x PROVE FALSE
  <2>1. y \in Nat /\ x \in Nat /\ z \in Nat /\ y <= z
    BY <1>6, <1>7
  <2>2. Upto(y) \in U
    BY <2>1
  <2>3. <<Upto(y), u>> \in StrictSubsetOrdering(S)
    <3>1. Upto(y) \subseteq Upto(x) /\ x \in Upto(x) /\ x \notin Upto(y) /\ Upto(x) \subseteq S
      BY <1>6, <1>7, <2>1
    <3> QED
      BY <1>6, <3>1 DEF StrictSubsetOrdering
  <2> QED
    BY <1>5, <2>2, <2>3
<1> QED
  BY <1>6, <1>7

Ids(row) == Range(Identifiers(row))

CustomerFields ==
    {"rut", "email", "phone", "name", "place", "priority", "verified", "net", "documents",
     "orders", "born", "company"}

\* The aliases of a row are those of its RUT, its e-mail and its phone that it has,
\* the RUT first.
LEMMA IdentifiersOK ==
  ASSUME NEW row
  PROVE  /\ Len(Identifiers(row)) \in 0 .. 3
         /\ DOMAIN Identifiers(row) = 1 .. Len(Identifiers(row))
         /\ TaxId(row) # None => /\ Len(Identifiers(row)) > 0
                                 /\ Identifiers(row)[1] = <<"rut", TaxId(row)>>
         /\ \A a : a \in Ids(row) <=> \/ a = <<"rut", TaxId(row)>> /\ TaxId(row) # None
                                      \/ a = <<"email", row.contact.email>> /\ row.contact.email # None
                                      \/ a = <<"phone", row.contact.phone>> /\ row.contact.phone # None
  <1> DEFINE r == Stated("rut", TaxId(row))
             e == Stated("email", row.contact.email)
             p == Stated("phone", row.contact.phone)
             ids == Identifiers(row)
  <1> PICK A : A = {<<"rut", TaxId(row)>>, <<"email", row.contact.email>>,
                    <<"phone", row.contact.phone>>}
    OBVIOUS
  <1>a. <<"rut", TaxId(row)>> \in A
    OBVIOUS
  <1>b. <<"email", row.contact.email>> \in A
    OBVIOUS
  <1>c. <<"phone", row.contact.phone>> \in A
    OBVIOUS
  <1>1. r \in Seq(A) /\ e \in Seq(A) /\ p \in Seq(A)
    <2>1. r \in Seq(A)
      BY <1>a DEF Stated
    <2>2. e \in Seq(A)
      BY <1>b DEF Stated
    <2>3. p \in Seq(A)
      BY <1>c DEF Stated
    <2>4. QED BY <2>1, <2>2, <2>3
  <1>2. /\ Len(r) = IF TaxId(row) # None THEN 1 ELSE 0
        /\ Len(e) = IF row.contact.email # None THEN 1 ELSE 0
        /\ Len(p) = IF row.contact.phone # None THEN 1 ELSE 0
        /\ TaxId(row) # None => r[1] = <<"rut", TaxId(row)>>
        /\ row.contact.email # None => e[1] = <<"email", row.contact.email>>
        /\ row.contact.phone # None => p[1] = <<"phone", row.contact.phone>>
    BY DEF Stated
  <1>3. ids = (r \o e) \o p
    BY DEF Identifiers
  <1> HIDE DEF r, e, p, ids
  <1> DEFINE re == r \o e
  <1>4. /\ re \in Seq(A) /\ Len(re) = Len(r) + Len(e)
        /\ \A k \in 1 .. Len(r) + Len(e) : re[k] = IF k <= Len(r) THEN r[k] ELSE e[k - Len(r)]
    BY <1>1, ConcatProperties
  <1>5. ids = re \o p
    BY <1>3
  <1> HIDE DEF re
  <1>6. /\ ids \in Seq(A) /\ Len(ids) = Len(re) + Len(p)
        /\ \A k \in 1 .. Len(re) + Len(p) : ids[k] = IF k <= Len(re) THEN re[k] ELSE p[k - Len(re)]
    <2>1. /\ re \o p \in Seq(A) /\ Len(re \o p) = Len(re) + Len(p)
          /\ \A k \in 1 .. Len(re) + Len(p) :
                (re \o p)[k] = IF k <= Len(re) THEN re[k] ELSE p[k - Len(re)]
      <3>1. re \in Seq(A) /\ p \in Seq(A)
        BY <1>1, <1>4
      <3>2. QED BY <3>1, ConcatProperties
    <2>2. QED BY <1>5, <2>1
  <1>7. Len(ids) \in 0 .. 3 /\ DOMAIN ids = 1 .. Len(ids) /\ Len(re) = Len(r) + Len(e)
    BY <1>2, <1>4, <1>6
  <1>8. TaxId(row) # None => Len(ids) > 0 /\ ids[1] = <<"rut", TaxId(row)>>
    BY <1>2, <1>4, <1>6
  <1>9. ASSUME NEW k \in DOMAIN ids
        PROVE  \/ ids[k] = <<"rut", TaxId(row)>> /\ TaxId(row) # None
               \/ ids[k] = <<"email", row.contact.email>> /\ row.contact.email # None
               \/ ids[k] = <<"phone", row.contact.phone>> /\ row.contact.phone # None
    <2>1. CASE k <= Len(r)
      <3>1. ids[k] = r[1] /\ TaxId(row) # None
        BY <1>2, <1>4, <1>6, <1>7, <2>1
      <3>2. QED BY <1>2, <3>1
    <2>2. CASE k > Len(r) /\ k <= Len(re)
      <3>1. ids[k] = e[1] /\ row.contact.email # None
        BY <1>2, <1>4, <1>6, <1>7, <2>2
      <3>2. QED BY <1>2, <3>1
    <2>3. CASE k > Len(re)
      <3>1. ids[k] = p[1] /\ row.contact.phone # None
        BY <1>2, <1>4, <1>6, <1>7, <2>3
      <3>2. QED BY <1>2, <3>1
    <2>4. QED BY <1>2, <1>4, <1>7, <2>1, <2>2, <2>3
  <1>10. /\ row.contact.email # None => \E k \in DOMAIN ids : ids[k] = <<"email", row.contact.email>>
         /\ row.contact.phone # None => \E k \in DOMAIN ids : ids[k] = <<"phone", row.contact.phone>>
    <2>1. ASSUME row.contact.email # None
          PROVE  \E k \in DOMAIN ids : ids[k] = <<"email", row.contact.email>>
      <3>1. Len(r) + 1 \in DOMAIN ids /\ ids[Len(r) + 1] = e[1]
        BY <1>2, <1>4, <1>6, <1>7, <2>1
      <3>2. QED BY <1>2, <2>1, <3>1
    <2>2. ASSUME row.contact.phone # None
          PROVE  \E k \in DOMAIN ids : ids[k] = <<"phone", row.contact.phone>>
      <3>1. Len(re) + 1 \in DOMAIN ids /\ ids[Len(re) + 1] = p[1]
        BY <1>2, <1>4, <1>6, <1>7, <2>2
      <3>2. QED BY <1>2, <2>2, <3>1
    <2>3. QED BY <2>1, <2>2
  <1>11. TaxId(row) # None => \E k \in DOMAIN ids : ids[k] = <<"rut", TaxId(row)>>
    BY <1>7, <1>8
  <1>12. \A a : a \in Ids(row) <=> \E k \in DOMAIN ids : ids[k] = a
    BY DEF Ids, Range, ids
  <1>13. QED BY <1>7, <1>8, <1>9, <1>10, <1>11, <1>12 DEF ids

\* A row goes to the customer of an alias that is known, of its RUT if that is, and
\* to the customer of its own key only if none is.
LEMMA KeyOfOK ==
  ASSUME NEW row, NEW i
  PROVE  /\ TaxId(row) # None /\ <<"rut", TaxId(row)>> \in DOMAIN aliases
              => KeyOf(row, i) = aliases[<<"rut", TaxId(row)>>]
         /\ \/ \E a \in Ids(row) : a \in DOMAIN aliases /\ KeyOf(row, i) = aliases[a]
            \/ KeyOf(row, i) = Preferred(row, i)
  <1> DEFINE ids == Identifiers(row)
             known == {j \in DOMAIN ids : ids[j] \in DOMAIN aliases}
             first == CHOOSE j \in known : \A k \in known : j <= k
  <1>1. KeyOf(row, i) = IF known = {} THEN Preferred(row, i) ELSE aliases[ids[first]]
    BY DEF KeyOf
  <1> PICK n \in 0 .. 3 : DOMAIN ids = 1 .. n /\ (TaxId(row) # None => n > 0 /\ ids[1] = <<"rut", TaxId(row)>>)
    BY IdentifiersOK
  <1>2. known \subseteq 1 .. 3
    OBVIOUS
  <1>3. ASSUME known # {}
        PROVE  first \in known /\ \A k \in known : first <= k
    <2>1. \E j \in known : \A k \in known : j <= k
      <3>1. CASE 1 \in known
        BY <1>2, <3>1
      <3>2. CASE 1 \notin known /\ 2 \in known
        <4>1. \A k \in known : 2 <= k
          BY <1>2, <3>2
        <4>2. QED BY <3>2, <4>1
      <3>3. CASE 1 \notin known /\ 2 \notin known
        <4>1. \A k \in known : k = 3
          BY <1>2, <3>3
        <4>2. QED BY <1>3, <4>1
      <3>4. QED BY <3>1, <3>2, <3>3
    <2>2. QED BY <2>1
  <1>4. ASSUME TaxId(row) # None, <<"rut", TaxId(row)>> \in DOMAIN aliases
        PROVE  KeyOf(row, i) = aliases[<<"rut", TaxId(row)>>]
    <2>1. 1 \in known
      BY <1>4
    <2>2. first = 1
      BY <1>2, <1>3, <2>1
    <2>3. ids[1] = <<"rut", TaxId(row)>>
      BY <1>4, IdentifiersOK
    <2>4. QED BY <1>1, <2>1, <2>2, <2>3
  <1>5. CASE known = {}
    BY <1>1, <1>4, <1>5
  <1>6. CASE known # {}
    <2>1. ids[first] \in Ids(row) /\ ids[first] \in DOMAIN aliases
      BY <1>3, <1>6 DEF Ids, Range
    <2>2. QED BY <1>1, <1>4, <1>6, <2>1
  <1>7. QED BY <1>5, <1>6

\* What a row leaves of the fields of its customer.
LEMMA MergedOK ==
  ASSUME NEW c, DOMAIN c = CustomerFields, NEW row, DOMAIN row.contact = {"rut", "email", "phone", "name"},
         NEW i
  PROVE  LET m == Sold(Merged(c, row, i), row, i)
         IN /\ DOMAIN m = CustomerFields
            /\ m.rut \in {c.rut, TaxId(row)}
            /\ m.email \in {c.email, row.contact.email}
            /\ m.phone \in {c.phone, row.contact.phone}
            /\ m.place = IF Moves(c, row) THEN i ELSE c.place
            /\ m.priority = IF Moves(c, row) THEN Priority(row) ELSE c.priority
            /\ m.verified = IF Moves(c, row) /\ row.day # 0 THEN row.day ELSE c.verified
            /\ m.net \in {c.net, c.net + i}
            /\ m.documents \in {c.documents, c.documents + 1}
            /\ m.orders \in {c.orders, c.orders + 1}
            /\ m.born = c.born
  <1> DEFINE g == Merged(c, row, i)
             m == Sold(g, row, i)
  <1>1. /\ DOMAIN g = CustomerFields
        /\ g.rut \in {c.rut, TaxId(row)}
        /\ g.email \in {c.email, row.contact.email}
        /\ g.phone \in {c.phone, row.contact.phone}
        /\ g.place = IF Moves(c, row) THEN i ELSE c.place
        /\ g.priority = IF Moves(c, row) THEN Priority(row) ELSE c.priority
        /\ g.verified = IF Moves(c, row) /\ row.day # 0 THEN row.day ELSE c.verified
        /\ g.net = c.net /\ g.documents = c.documents /\ g.orders = c.orders /\ g.born = c.born
    BY DEF Merged, CustomerFields
  <1> HIDE DEF g
  <1>2. /\ DOMAIN m = CustomerFields
        /\ m.rut = g.rut /\ m.email = g.email /\ m.phone = g.phone
        /\ m.place = g.place /\ m.priority = g.priority /\ m.verified = g.verified
        /\ m.net \in {g.net, g.net + i} /\ m.documents \in {g.documents, g.documents + 1}
        /\ m.orders \in {g.orders, g.orders + 1} /\ m.born = g.born
    BY <1>1 DEF Sold, CustomerFields
  <1>3. QED BY <1>1, <1>2 DEF g

AllRows == UNION {Rows(Kinds[s]) : s \in 1 .. 5}

\* What is read of a row.
LEMMA RowOK ==
  ASSUME NEW s \in 1 .. 5, NEW row \in Rows(Kinds[s])
  PROVE  /\ row \in AllRows
         /\ row.kind = Kinds[s]
         /\ (s = 5 <=> row.kind = "company")
         /\ row.contact \in Contacts /\ row.located \in BOOLEAN
         /\ row.day \in Nat
         /\ row.kind = "company" => row.day = 0
  <1>1. \A d \in Days : d \in Nat
    BY IdentityAssumption
  <1>2. /\ row.kind = Kinds[s] /\ row.contact \in Contacts /\ row.located \in BOOLEAN
        /\ row.day \in IF Kinds[s] \in {"client", "company"} THEN {0} ELSE Days \cup {0}
    BY DEF Rows
  <1>3. s = 5 <=> Kinds[s] = "company"
    <2>1. /\ Kinds[1] = "client" /\ Kinds[2] = "document" /\ Kinds[3] = "web customer"
          /\ Kinds[4] = "order" /\ Kinds[5] = "company"
      BY DEF Kinds
    <2>2. s = 1 \/ s = 2 \/ s = 3 \/ s = 4 \/ s = 5
      OBVIOUS
    <2>3. QED BY <2>1, <2>2
  <1>4. row.day \in Nat /\ (row.kind = "company" => row.day = 0)
    <2>1. row.day = 0 \/ row.day \in Days
      BY <1>2
    <2>2. row.kind = "company" => row.day = 0
      BY <1>2
    <2>3. QED BY <1>1, <2>1, <2>2
  <1>5. QED BY <1>2, <1>3, <1>4 DEF AllRows

\* An alias of a customer is one of a row of it.
HasRow(k, a) == \E j \in DOMAIN rows : owner[j] = k /\ a \in Ids(rows[j])

HasRowNext(k, a) == \E j \in DOMAIN rows' : owner'[j] = k /\ a \in Ids(rows'[j])

ShapeOK ==
    /\ source \in 1 .. 5
    /\ rows \in Seq(AllRows)
    /\ DOMAIN owner = DOMAIN rows
    /\ owner \in Seq(DOMAIN customers)
    /\ \A k \in DOMAIN customers : /\ DOMAIN customers[k] = CustomerFields
                                  /\ \E j \in DOMAIN rows : owner[j] = k

\* A key comes from the row that made the customer.
KeysOK ==
    \A j \in DOMAIN rows :
        \/ HasRow(owner[j], owner[j])
        \/ \E l \in DOMAIN rows : /\ owner[l] = owner[j]
                                  /\ Identifiers(rows[l]) = <<>>
                                  /\ owner[j] = <<"name", rows[l].contact.name>>
        \/ \E n \in DOMAIN rows : owner[j] \in {<<"row", n>>, <<"crm", n>>}

AliasesOK == \A a \in DOMAIN aliases : HasRow(aliases[a], a)

KnownOK == \A k \in DOMAIN customers : \A a \in Known(customers[k]) : HasRow(k, a)

\* Until the report, the RUT of a row leads to its customer.
RutsOK ==
    source # 5 =>
        \A j \in DOMAIN rows : TaxId(rows[j]) # None =>
            /\ <<"rut", TaxId(rows[j])>> \in DOMAIN aliases
            /\ aliases[<<"rut", TaxId(rows[j])>>] = owner[j]

\* By this the portfolio can be sorted.
SalesOK ==
    \A k \in DOMAIN customers :
        LET c == customers[k]
        IN /\ c.net \in Nat /\ c.documents \in Nat /\ c.orders \in Nat
           /\ c.born \in 1 .. Len(rows)

IdentityInv ==
    /\ ShapeOK
    /\ KeysOK
    /\ AliasesOK
    /\ KnownOK
    /\ RutsOK
    /\ SalesOK
    /\ SameRutSameCustomer
    /\ MergedOnlyByLink

\* Nothing is read at first.
LEMMA InitIdentity == IdentityInit => IdentityInv
  <1> SUFFICES ASSUME IdentityInit PROVE IdentityInv
    OBVIOUS
  <1>1. /\ source = 1 /\ rows = <<>> /\ owner = <<>> /\ DOMAIN rows = {} /\ DOMAIN owner = {}
        /\ DOMAIN customers = {} /\ DOMAIN aliases = {}
    BY DEF IdentityInit
  <1>2. ShapeOK
    BY <1>1 DEF ShapeOK
  <1>3. KeysOK /\ AliasesOK /\ KnownOK /\ RutsOK
    BY <1>1 DEF KeysOK, AliasesOK, KnownOK, RutsOK
  <1>4. SalesOK
    BY <1>1 DEF SalesOK
  <1>5. SameRutSameCustomer /\ MergedOnlyByLink
    BY <1>1 DEF SameRutSameCustomer, MergedOnlyByLink
  <1>6. QED BY <1>2, <1>3, <1>4, <1>5 DEF IdentityInv

-----------------------------------------------------------------------------

\* The customer that the row at this place is given to.
Before(row, i) ==
    IF KeyOf(row, i) \in DOMAIN customers THEN customers[KeyOf(row, i)] ELSE Blank(i)

\* The row is the last one, its customer is the only one that changes, and nobody
\* loses a row.
Given(row, n, key) ==
    /\ n = Len(rows) /\ key = KeyOf(row, n + 1)
    /\ n \in Nat /\ DOMAIN rows = 1 .. n /\ DOMAIN rows' = 1 .. n + 1
    /\ rows'[n + 1] = row /\ owner'[n + 1] = key
    /\ \A j \in 1 .. n : rows'[j] = rows[j] /\ owner'[j] = owner[j]
    /\ DOMAIN customers' = DOMAIN customers \cup {key}
    /\ \A k \in DOMAIN customers : k # key => customers'[k] = customers[k]
    /\ DOMAIN Before(row, n + 1) = CustomerFields
    /\ customers'[key] = Sold(Merged(Before(row, n + 1), row, n + 1), row, n + 1)
    /\ \A k, a : HasRow(k, a) => HasRowNext(k, a)
    /\ \A a \in Ids(row) : HasRowNext(key, a)

\* That is what a row does.
LEMMA ReadGives ==
  ASSUME ShapeOK, NEW row \in Rows(Kinds[source]), ReadRow(row)
  PROVE  Given(row, Len(rows), KeyOf(row, Len(rows) + 1))
  <1> PICK n : n = Len(rows)
    OBVIOUS
  <1> PICK key : key = KeyOf(row, n + 1)
    OBVIOUS
  <1>1. n \in Nat /\ DOMAIN rows = 1 .. n /\ Len(owner) = n /\ DOMAIN owner = 1 .. n
    BY DEF ShapeOK
  <1>2. rows' = Append(rows, row) /\ owner' = Append(owner, key)
    BY DEF ReadRow
  <1>3. /\ DOMAIN rows' = 1 .. n + 1 /\ rows'[n + 1] = row
        /\ \A j \in 1 .. n : rows'[j] = rows[j]
    BY <1>1, <1>2 DEF ShapeOK
  <1>4. /\ owner'[n + 1] = key
        /\ \A j \in 1 .. n : owner'[j] = owner[j]
    BY <1>1, <1>2 DEF ShapeOK
  <1>5. /\ DOMAIN customers' = DOMAIN customers \cup {key}
        /\ \A k \in DOMAIN customers : k # key => customers'[k] = customers[k]
        /\ customers'[key] = Sold(Merged(Before(row, n + 1), row, n + 1), row, n + 1)
    BY DEF ReadRow, Before
  <1>6. DOMAIN Before(row, n + 1) = CustomerFields
    BY DEF Before, ShapeOK, Blank, CustomerFields
  <1>7. ASSUME NEW k, NEW a, HasRow(k, a) PROVE HasRowNext(k, a)
    <2>1. PICK j \in DOMAIN rows : owner[j] = k /\ a \in Ids(rows[j])
      BY <1>7 DEF HasRow
    <2>2. j \in DOMAIN rows' /\ owner'[j] = k /\ a \in Ids(rows'[j])
      BY <1>1, <1>3, <1>4, <2>1
    <2>3. QED BY <2>2 DEF HasRowNext
  <1>8. ASSUME NEW a \in Ids(row) PROVE HasRowNext(key, a)
    <2>1. n + 1 \in DOMAIN rows' /\ owner'[n + 1] = key /\ a \in Ids(rows'[n + 1])
      BY <1>1, <1>3, <1>4
    <2>2. QED BY <2>1 DEF HasRowNext
  <1>9. Given(row, n, key)
    BY <1>1, <1>3, <1>4, <1>5, <1>6, <1>7, <1>8 DEF Given
  <1>10. QED BY <1>9

\* The lemmas that follow are about one row.
LEMMA ReadShape ==
  ASSUME ShapeOK, NEW row \in Rows(Kinds[source]), ReadRow(row),
         NEW n, NEW key, Given(row, n, key)
  PROVE  ShapeOK'
  <1>1. /\ n \in Nat /\ DOMAIN rows = 1 .. n /\ DOMAIN rows' = 1 .. n + 1
        /\ owner'[n + 1] = key
        /\ \A j \in 1 .. n : owner'[j] = owner[j]
        /\ DOMAIN customers' = DOMAIN customers \cup {key}
        /\ \A k \in DOMAIN customers : k # key => customers'[k] = customers[k]
        /\ DOMAIN Before(row, n + 1) = CustomerFields
        /\ customers'[key] = Sold(Merged(Before(row, n + 1), row, n + 1), row, n + 1)
    BY DEF Given
  <1>2. source' = source /\ source \in 1 .. 5
    BY DEF ReadRow, ShapeOK
  <1>3. row \in AllRows /\ DOMAIN row.contact = {"rut", "email", "phone", "name"}
    BY <1>2, RowOK, IdentityAssumption
  <1>4. rows' \in Seq(AllRows)
    BY <1>3 DEF ReadRow, ShapeOK
  <1>5. owner' \in Seq(DOMAIN customers') /\ DOMAIN owner' = DOMAIN rows'
    <2>1. owner \in Seq(DOMAIN customers') /\ DOMAIN owner = 1 .. n
      BY <1>1 DEF ShapeOK
    <2>2. owner' = Append(owner, key)
      BY DEF ReadRow, Given
    <2>3. key \in DOMAIN customers'
      BY <1>1
    <2>4. QED BY <1>1, <2>1, <2>2, <2>3
  <1>6. DOMAIN customers'[key] = CustomerFields
    BY <1>1, <1>3, MergedOK
  <1>7. ASSUME NEW k \in DOMAIN customers' PROVE DOMAIN customers'[k] = CustomerFields
    BY <1>1, <1>6 DEF ShapeOK
  <1>8. ASSUME NEW k \in DOMAIN customers' PROVE \E j \in DOMAIN rows' : owner'[j] = k
    <2>1. CASE k = key
      BY <1>1, <2>1
    <2>2. CASE k # key
      BY <1>1, <2>2 DEF ShapeOK
    <2>3. QED BY <2>1, <2>2
  <1>9. QED BY <1>2, <1>4, <1>5, <1>7, <1>8 DEF ShapeOK

\* The customer of a row is one of an alias that both have, or one of a key that
\* nobody else could have made.
LEMMA KeyIsOwn ==
  ASSUME ShapeOK, KeysOK, AliasesOK, NEW row \in Rows(Kinds[source]),
         NEW n, NEW key, Given(row, n, key)
  PROVE  \/ \E a \in Ids(row) : HasRow(key, a)
         \/ /\ \A j \in DOMAIN rows : owner[j] # key
            /\ \/ key \in Ids(row)
               \/ Identifiers(row) = <<>> /\ key = <<"name", row.contact.name>>
               \/ key \in {<<"row", n + 1>>, <<"crm", n + 1>>}
         \/ /\ row.kind # "company" /\ row.contact.name # None
            /\ Identifiers(row) = <<>> /\ key = <<"name", row.contact.name>>
            /\ \E j \in DOMAIN rows : /\ owner[j] = key /\ Identifiers(rows[j]) = <<>>
                                      /\ rows[j].contact.name = row.contact.name
  <1>1. n \in Nat /\ DOMAIN rows = 1 .. n /\ key = KeyOf(row, n + 1)
    BY DEF Given
  <1>2. CASE \E a \in Ids(row) : a \in DOMAIN aliases /\ key = aliases[a]
    BY <1>2 DEF AliasesOK
  <1>3. CASE key = Preferred(row, n + 1)
    <2>1. ASSUME NEW r, NEW a \in Ids(r) PROVE a[1] \in {"rut", "email", "phone"}
      <3>1. \/ a = <<"rut", TaxId(r)>>
            \/ a = <<"email", r.contact.email>>
            \/ a = <<"phone", r.contact.phone>>
        BY IdentifiersOK
      <3>2. QED BY <3>1
    <2>2. CASE key \in {<<"row", n + 1>>, <<"crm", n + 1>>}
      <3>1. ASSUME NEW j \in DOMAIN rows, owner[j] = key PROVE FALSE
        <4>1. ~HasRow(owner[j], owner[j])
          BY <2>1, <2>2, <3>1 DEF HasRow
        <4>2. ~\E l \in DOMAIN rows : owner[j] = <<"name", rows[l].contact.name>>
          BY <2>2, <3>1
        <4>3. PICK m \in DOMAIN rows : owner[j] \in {<<"row", m>>, <<"crm", m>>}
          BY <4>1, <4>2 DEF KeysOK
        <4>4. m = n + 1
          BY <2>2, <3>1, <4>3
        <4>5. QED BY <1>1, <4>4
      <3>2. QED BY <2>2, <3>1
    <2>3. CASE row.kind # "company" /\ Identifiers(row) # <<>> /\ key = Identifiers(row)[1]
      <3>1. key \in Ids(row)
        BY <2>3, IdentifiersOK DEF Ids, Range
      <3>2. ASSUME NEW j \in DOMAIN rows, owner[j] = key PROVE HasRow(key, key)
        <4>1. key[1] \in {"rut", "email", "phone"}
          BY <2>1, <3>1
        <4>2. QED BY <3>2, <4>1 DEF KeysOK
      <3>3. QED BY <3>1, <3>2
    <2>4. CASE /\ row.kind # "company" /\ Identifiers(row) = <<>> /\ row.contact.name # None
               /\ key = <<"name", row.contact.name>>
      <3>1. ASSUME NEW j \in DOMAIN rows, owner[j] = key
            PROVE  \E l \in DOMAIN rows : /\ owner[l] = key /\ Identifiers(rows[l]) = <<>>
                                          /\ rows[l].contact.name = row.contact.name
        <4>1. ~HasRow(owner[j], owner[j])
          BY <2>1, <2>4, <3>1 DEF HasRow
        <4>2. ~\E m \in DOMAIN rows : owner[j] \in {<<"row", m>>, <<"crm", m>>}
          BY <2>4, <3>1
        <4>3. QED BY <2>4, <3>1, <4>1, <4>2 DEF KeysOK
      <3>2. QED BY <2>4, <3>1
    <2>5. QED BY <1>3, <2>2, <2>3, <2>4 DEF Preferred
  <1>4. QED BY <1>1, <1>2, <1>3, KeyOfOK

LEMMA ReadKeys ==
  ASSUME ShapeOK, KeysOK, AliasesOK, NEW row \in Rows(Kinds[source]),
         NEW n, NEW key, Given(row, n, key)
  PROVE  KeysOK'
  <1>1. /\ n \in Nat /\ DOMAIN rows = 1 .. n /\ DOMAIN rows' = 1 .. n + 1
        /\ rows'[n + 1] = row /\ owner'[n + 1] = key
        /\ \A j \in 1 .. n : rows'[j] = rows[j] /\ owner'[j] = owner[j]
        /\ \A k, a : HasRow(k, a) => HasRowNext(k, a)
        /\ \A a \in Ids(row) : HasRowNext(key, a)
    BY DEF Given
  <1>2. \A r : Identifiers(r)' = Identifiers(r)
    BY DEF Identifiers, TaxId
  <1> DEFINE OK(k) == \/ HasRowNext(k, k)
                      \/ \E l \in DOMAIN rows' : /\ owner'[l] = k
                                                 /\ Identifiers(rows'[l]) = <<>>
                                                 /\ k = <<"name", rows'[l].contact.name>>
                      \/ \E m \in DOMAIN rows' : k \in {<<"row", m>>, <<"crm", m>>}
  <1>3. ASSUME NEW j \in 1 .. n PROVE OK(owner[j])
    <2>1. CASE HasRow(owner[j], owner[j])
      BY <1>1, <2>1
    <2>2. CASE \E l \in DOMAIN rows : /\ owner[l] = owner[j]
                                      /\ Identifiers(rows[l]) = <<>>
                                      /\ owner[j] = <<"name", rows[l].contact.name>>
      <3>1. PICK l \in DOMAIN rows : /\ owner[l] = owner[j]
                                     /\ Identifiers(rows[l]) = <<>>
                                     /\ owner[j] = <<"name", rows[l].contact.name>>
        BY <2>2
      <3>2. l \in DOMAIN rows' /\ rows'[l] = rows[l] /\ owner'[l] = owner[l]
        BY <1>1
      <3>3. QED BY <3>1, <3>2
    <2>3. CASE \E m \in DOMAIN rows : owner[j] \in {<<"row", m>>, <<"crm", m>>}
      BY <1>1, <2>3
    <2>4. QED BY <1>1, <2>1, <2>2, <2>3 DEF KeysOK
  <1>4. OK(key)
    <2>1. CASE \E j \in DOMAIN rows : owner[j] = key
      BY <1>1, <1>3, <2>1
    <2>2. CASE key \in Ids(row)
      BY <1>1, <2>2
    <2>3. CASE Identifiers(row) = <<>> /\ key = <<"name", row.contact.name>>
      <3>1. n + 1 \in DOMAIN rows'
        BY <1>1
      <3>2. QED BY <1>1, <2>3, <3>1
    <2>4. CASE key \in {<<"row", n + 1>>, <<"crm", n + 1>>}
      <3>1. n + 1 \in DOMAIN rows'
        BY <1>1
      <3>2. QED BY <2>4, <3>1
    <2>5. QED BY <2>1, <2>2, <2>3, <2>4, KeyIsOwn DEF HasRow
  <1>5. ASSUME NEW j \in DOMAIN rows' PROVE OK(owner'[j])
    <2>1. j \in 1 .. n \/ j = n + 1
      BY <1>1
    <2> HIDE DEF OK
    <2>2. QED BY <1>1, <1>3, <1>4, <2>1
  <1>6. QED BY <1>2, <1>5 DEF KeysOK, HasRow, HasRowNext

LEMMA ReadAliases ==
  ASSUME ShapeOK, AliasesOK, NEW row \in Rows(Kinds[source]), ReadRow(row),
         NEW n, NEW key, Given(row, n, key)
  PROVE  AliasesOK'
  <1>1. PICK learnt : /\ learnt \subseteq Ids(row)
                      /\ aliases' = [a \in DOMAIN aliases \cup learnt |->
                                       IF a \in learnt THEN key ELSE aliases[a]]
    <2>1. key = KeyOf(row, Len(rows) + 1)
      BY DEF Given
    <2>2. QED BY <2>1 DEF ReadRow, Ids
  <1>2. \A k, a : HasRow(k, a) => HasRowNext(k, a)
    BY DEF Given
  <1>3. \A a \in Ids(row) : HasRowNext(key, a)
    BY DEF Given
  <1>4. ASSUME NEW a \in DOMAIN aliases' PROVE HasRowNext(aliases'[a], a)
    <2>1. CASE a \in learnt
      <3>1. aliases'[a] = key
        BY <1>1, <2>1
      <3>2. HasRowNext(key, a)
        BY <1>1, <1>3, <2>1
      <3>3. QED BY <3>1, <3>2
    <2>2. CASE a \notin learnt
      <3>1. aliases'[a] = aliases[a] /\ a \in DOMAIN aliases
        BY <1>1, <2>2
      <3>2. HasRowNext(aliases[a], a)
        BY <1>2, <3>1 DEF AliasesOK
      <3>3. QED BY <3>1, <3>2
    <2>3. QED BY <2>1, <2>2
  <1>5. QED BY <1>4 DEF AliasesOK, HasRow, HasRowNext

\* The aliases that are known of a customer.
LEMMA KnownIs ==
  ASSUME NEW c, NEW a \in Known(c)
  PROVE  \/ a = <<"rut", c.rut>> /\ c.rut # None
         \/ a = <<"email", c.email>> /\ c.email # None
         \/ a = <<"phone", c.phone>> /\ c.phone # None
  BY DEF Known

LEMMA ReadKnown ==
  ASSUME ShapeOK, KnownOK, NEW row \in Rows(Kinds[source]), ReadRow(row),
         NEW n, NEW key, Given(row, n, key)
  PROVE  KnownOK'
  <1>1. /\ DOMAIN customers' = DOMAIN customers \cup {key}
        /\ \A k \in DOMAIN customers : k # key => customers'[k] = customers[k]
        /\ DOMAIN Before(row, n + 1) = CustomerFields
        /\ customers'[key] = Sold(Merged(Before(row, n + 1), row, n + 1), row, n + 1)
        /\ key = KeyOf(row, n + 1)
    BY DEF Given
  <1>2. \A k, a : HasRow(k, a) => HasRowNext(k, a)
    BY DEF Given
  <1>3. \A a \in Ids(row) : HasRowNext(key, a)
    BY DEF Given
  <1> PICK b : b = Before(row, n + 1)
    OBVIOUS
  <1> PICK m : m = customers'[key]
    OBVIOUS
  <1>4. /\ m.rut \in {b.rut, TaxId(row)}
        /\ m.email \in {b.email, row.contact.email}
        /\ m.phone \in {b.phone, row.contact.phone}
    <2>1. source \in 1 .. 5
      BY DEF ShapeOK
    <2>2. DOMAIN row.contact = {"rut", "email", "phone", "name"}
      BY <2>1, RowOK, IdentityAssumption
    <2>3. QED BY <1>1, <2>2, MergedOK
  <1>5. ASSUME NEW a \in Known(b) PROVE HasRow(key, a)
    <2>1. CASE key \in DOMAIN customers
      BY <1>1, <1>5, <2>1 DEF Before, KnownOK
    <2>2. CASE key \notin DOMAIN customers
      <3>1. b.rut = None /\ b.email = None /\ b.phone = None
        BY <1>1, <2>2 DEF Before, Blank
      <3>2. QED BY <1>5, <3>1, KnownIs
    <2>3. QED BY <2>1, <2>2
  <1>6. /\ b.rut # None => <<"rut", b.rut>> \in Known(b)
        /\ b.email # None => <<"email", b.email>> \in Known(b)
        /\ b.phone # None => <<"phone", b.phone>> \in Known(b)
    BY DEF Known
  <1>7. /\ TaxId(row) # None => <<"rut", TaxId(row)>> \in Ids(row)
        /\ row.contact.email # None => <<"email", row.contact.email>> \in Ids(row)
        /\ row.contact.phone # None => <<"phone", row.contact.phone>> \in Ids(row)
    BY IdentifiersOK
  <1>8. ASSUME NEW a \in Known(m) PROVE HasRowNext(key, a)
    <2>1. a \in Known(b) \/ a \in Ids(row)
      BY <1>4, <1>6, <1>7, <1>8, KnownIs
    <2>2. QED BY <1>2, <1>3, <1>5, <2>1
  <1>9. ASSUME NEW k \in DOMAIN customers', NEW a \in Known(customers'[k])
        PROVE  HasRowNext(k, a)
    <2>1. CASE k = key
      BY <1>8, <1>9, <2>1
    <2>2. CASE k # key
      <3>1. k \in DOMAIN customers /\ a \in Known(customers[k])
        BY <1>1, <1>9, <2>2
      <3>2. QED BY <1>2, <3>1 DEF KnownOK
    <2>3. QED BY <2>1, <2>2
  <1>10. \A c : Known(c)' = Known(c)
    BY DEF Known
  <1>11. QED BY <1>9, <1>10 DEF KnownOK, HasRow, HasRowNext

LEMMA ReadRuts ==
  ASSUME ShapeOK, RutsOK, NEW row \in Rows(Kinds[source]), ReadRow(row),
         NEW n, NEW key, Given(row, n, key)
  PROVE  RutsOK'
  <1> SUFFICES ASSUME source # 5, source' = source,
                      NEW j \in DOMAIN rows', TaxId(rows'[j]) # None
               PROVE  /\ <<"rut", TaxId(rows'[j])>> \in DOMAIN aliases'
                      /\ aliases'[<<"rut", TaxId(rows'[j])>>] = owner'[j]
    BY DEF RutsOK, ReadRow, TaxId
  <1>1. /\ n \in Nat /\ DOMAIN rows = 1 .. n /\ DOMAIN rows' = 1 .. n + 1
        /\ rows'[n + 1] = row /\ owner'[n + 1] = key /\ key = KeyOf(row, n + 1)
        /\ \A l \in 1 .. n : rows'[l] = rows[l] /\ owner'[l] = owner[l]
    BY DEF Given
  <1>2. row.kind # "company"
    BY RowOK DEF ShapeOK
  <1>3. aliases' = [a \in DOMAIN aliases \cup Ids(row) |->
                      IF a \in Ids(row) THEN key ELSE aliases[a]]
    <2>1. key = KeyOf(row, Len(rows) + 1)
      BY DEF Given
    <2>2. QED BY <1>2, <2>1 DEF ReadRow, Ids
  <1>4. CASE j = n + 1
    <2>1. <<"rut", TaxId(row)>> \in Ids(row)
      BY <1>1, <1>4, IdentifiersOK
    <2>2. QED BY <1>1, <1>3, <1>4, <2>1
  <1>5. CASE j \in 1 .. n
    <2> PICK a : a = <<"rut", TaxId(rows[j])>>
      OBVIOUS
    <2>1. rows'[j] = rows[j] /\ owner'[j] = owner[j] /\ TaxId(rows[j]) # None
      BY <1>1, <1>5
    <2>2. a \in DOMAIN aliases /\ aliases[a] = owner[j]
      BY <1>1, <1>5, <2>1 DEF RutsOK
    <2>3. a \in Ids(row) => key = owner[j]
      <3>1. ASSUME a \in Ids(row) PROVE TaxId(row) # None /\ TaxId(row) = TaxId(rows[j])
        <4>1. \/ a = <<"rut", TaxId(row)>> /\ TaxId(row) # None
              \/ a = <<"email", row.contact.email>>
              \/ a = <<"phone", row.contact.phone>>
          BY <3>1, IdentifiersOK
        <4>2. QED BY <4>1
      <3>2. QED BY <1>1, <2>1, <2>2, <3>1, KeyOfOK
    <2>4. QED BY <1>3, <2>1, <2>2, <2>3
  <1>6. QED BY <1>1, <1>4, <1>5

LEMMA ReadSales ==
  ASSUME ShapeOK, SalesOK, NEW row \in Rows(Kinds[source]), ReadRow(row),
         NEW n, NEW key, Given(row, n, key)
  PROVE  SalesOK'
  <1>1. /\ DOMAIN customers' = DOMAIN customers \cup {key}
        /\ \A k \in DOMAIN customers : k # key => customers'[k] = customers[k]
        /\ DOMAIN Before(row, n + 1) = CustomerFields
        /\ customers'[key] = Sold(Merged(Before(row, n + 1), row, n + 1), row, n + 1)
        /\ key = KeyOf(row, n + 1) /\ n \in Nat /\ n = Len(rows)
    BY DEF Given
  <1>2. Len(rows') = n + 1
    BY <1>1 DEF ReadRow, ShapeOK
  <1> PICK b : b = Before(row, n + 1)
    OBVIOUS
  <1> PICK m : m = customers'[key]
    OBVIOUS
  <1>3. /\ b.net \in Nat /\ b.documents \in Nat /\ b.orders \in Nat
        /\ b.born \in 1 .. n + 1
    <2>1. CASE key \in DOMAIN customers
      <3>1. b = customers[key]
        BY <1>1, <2>1 DEF Before
      <3>2. QED BY <1>1, <2>1, <3>1 DEF SalesOK
    <2>2. CASE key \notin DOMAIN customers
      <3>1. b = Blank(n + 1)
        BY <1>1, <2>2 DEF Before
      <3>2. QED BY <1>1, <3>1 DEF Blank
    <2>3. QED BY <2>1, <2>2
  <1>4. /\ m.net \in {b.net, b.net + (n + 1)}
        /\ m.documents \in {b.documents, b.documents + 1}
        /\ m.orders \in {b.orders, b.orders + 1}
        /\ m.born = b.born
    <2>1. source \in 1 .. 5
      BY DEF ShapeOK
    <2>2. DOMAIN row.contact = {"rut", "email", "phone", "name"}
      BY <2>1, RowOK, IdentityAssumption
    <2>3. QED BY <1>1, <2>2, MergedOK
  <1>5. /\ m.net \in Nat /\ m.documents \in Nat /\ m.orders \in Nat
        /\ m.born \in 1 .. n + 1
    <2>1. m.net \in Nat
      BY <1>1, <1>3, <1>4
    <2>2. m.documents \in Nat /\ m.orders \in Nat
      BY <1>3, <1>4
    <2>3. QED BY <1>3, <1>4, <2>1, <2>2
  <1>6. ASSUME NEW k \in DOMAIN customers'
        PROVE  /\ customers'[k].net \in Nat /\ customers'[k].documents \in Nat
               /\ customers'[k].orders \in Nat /\ customers'[k].born \in 1 .. n + 1
    <2>1. CASE k = key
      BY <1>5, <2>1
    <2>2. CASE k # key
      <3>1. k \in DOMAIN customers /\ customers'[k] = customers[k]
        BY <1>1, <2>2
      <3>2. QED BY <1>1, <3>1 DEF SalesOK
    <2>3. QED BY <2>1, <2>2
  <1>7. QED BY <1>2, <1>6 DEF SalesOK

LEMMA ReadSameRut ==
  ASSUME ShapeOK, RutsOK, SameRutSameCustomer, NEW row \in Rows(Kinds[source]), ReadRow(row),
         NEW n, NEW key, Given(row, n, key)
  PROVE  SameRutSameCustomer'
  <1>1. /\ n \in Nat /\ DOMAIN rows = 1 .. n /\ DOMAIN rows' = 1 .. n + 1
        /\ rows'[n + 1] = row /\ owner'[n + 1] = key /\ key = KeyOf(row, n + 1)
        /\ \A l \in 1 .. n : rows'[l] = rows[l] /\ owner'[l] = owner[l]
    BY DEF Given
  <1>2. ASSUME NEW j \in 1 .. n, row.kind # "company", TaxId(row) # None,
               TaxId(rows[j]) = TaxId(row)
        PROVE  owner[j] = key
    <2>1. source # 5
      BY <1>2, RowOK DEF ShapeOK
    <2>2. /\ <<"rut", TaxId(row)>> \in DOMAIN aliases
          /\ aliases[<<"rut", TaxId(row)>>] = owner[j]
      BY <1>1, <1>2, <2>1 DEF RutsOK
    <2>3. QED BY <1>1, <1>2, <2>2, KeyOfOK
  <1>3. ASSUME NEW i \in 1 .. n + 1, NEW j \in 1 .. n + 1,
               "company" \notin {rows'[i].kind, rows'[j].kind},
               TaxId(rows'[i]) # None, TaxId(rows'[i]) = TaxId(rows'[j])
        PROVE  owner'[i] = owner'[j]
    <2>1. CASE i \in 1 .. n /\ j \in 1 .. n
      BY <1>1, <1>3, <2>1 DEF SameRutSameCustomer
    <2>2. CASE i = n + 1 /\ j \in 1 .. n
      BY <1>1, <1>2, <1>3, <2>2
    <2>3. CASE i \in 1 .. n /\ j = n + 1
      BY <1>1, <1>2, <1>3, <2>3
    <2>4. CASE i = n + 1 /\ j = n + 1
      BY <2>4
    <2>5. QED BY <1>1, <2>1, <2>2, <2>3, <2>4
  <1>4. QED BY <1>1, <1>3 DEF SameRutSameCustomer, TaxId

\* A row and those of its customer that came before.
LinkedRow(i) ==
    (\E j \in DOMAIN rows : owner[j] = owner[i] /\ j < i) =>
        \/ \E j \in DOMAIN rows : /\ owner[j] = owner[i] /\ j < i
                                  /\ \E a \in Ids(rows[i]) : a \in Ids(rows[j])
        \/ /\ rows[i].kind # "company" /\ rows[i].contact.name # None
           /\ Identifiers(rows[i]) = <<>>
           /\ \E j \in DOMAIN rows : /\ owner[j] = owner[i] /\ j < i
                                     /\ Identifiers(rows[j]) = <<>>
                                     /\ rows[j].contact.name = rows[i].contact.name

LEMMA LinkedIs == MergedOnlyByLink <=> \A i \in DOMAIN rows : LinkedRow(i)
  <1>1. ASSUME NEW i \in DOMAIN rows
        PROVE  LinkedRow(i) <=>
                 LET earlier == {j \in RowsOf(owner[i]) : j < i}
                     linked == \E j \in earlier :
                                   Range(Identifiers(rows[i])) \cap Range(Identifiers(rows[j])) # {}
                 IN earlier # {} =>
                      \/ linked
                      \/ rows[i].kind # "company" /\ rows[i].contact.name # None
                         /\ Identifiers(rows[i]) = <<>>
                         /\ \E j \in earlier : Identifiers(rows[j]) = <<>>
                                              /\ rows[j].contact.name = rows[i].contact.name
    <2> DEFINE earlier == {j \in RowsOf(owner[i]) : j < i}
    <2>1. \A j : j \in earlier <=> j \in DOMAIN rows /\ owner[j] = owner[i] /\ j < i
      BY DEF RowsOf
    <2>2. earlier # {} <=> \E j \in DOMAIN rows : owner[j] = owner[i] /\ j < i
      BY <2>1
    <2>3. \A j : Ids(rows[i]) \cap Ids(rows[j]) # {} <=> \E a \in Ids(rows[i]) : a \in Ids(rows[j])
      OBVIOUS
    <2> HIDE DEF earlier
    <2>4. (\E j \in earlier : Ids(rows[i]) \cap Ids(rows[j]) # {})
             <=> \E j \in DOMAIN rows : /\ owner[j] = owner[i] /\ j < i
                                        /\ \E a \in Ids(rows[i]) : a \in Ids(rows[j])
      BY <2>1, <2>3
    <2>5. (\E j \in earlier : Identifiers(rows[j]) = <<>> /\ rows[j].contact.name = rows[i].contact.name)
             <=> \E j \in DOMAIN rows : /\ owner[j] = owner[i] /\ j < i
                                        /\ Identifiers(rows[j]) = <<>>
                                        /\ rows[j].contact.name = rows[i].contact.name
      BY <2>1
    <2>6. QED BY <2>2, <2>4, <2>5 DEF LinkedRow, Ids, earlier
  <1>2. QED BY <1>1 DEF MergedOnlyByLink

LEMMA ReadLinked ==
  ASSUME ShapeOK, KeysOK, AliasesOK, MergedOnlyByLink, NEW row \in Rows(Kinds[source]),
         ReadRow(row), NEW n, NEW key, Given(row, n, key)
  PROVE  MergedOnlyByLink'
  <1>1. /\ n \in Nat /\ DOMAIN rows = 1 .. n /\ DOMAIN rows' = 1 .. n + 1
        /\ rows'[n + 1] = row /\ owner'[n + 1] = key /\ key = KeyOf(row, n + 1)
        /\ \A l \in 1 .. n : rows'[l] = rows[l] /\ owner'[l] = owner[l]
    BY DEF Given
  <1> DEFINE Linked(i) ==
        (\E j \in DOMAIN rows' : owner'[j] = owner'[i] /\ j < i) =>
            \/ \E j \in DOMAIN rows' : /\ owner'[j] = owner'[i] /\ j < i
                                       /\ \E a \in Ids(rows'[i]) : a \in Ids(rows'[j])
            \/ /\ rows'[i].kind # "company" /\ rows'[i].contact.name # None
               /\ Identifiers(rows'[i]) = <<>>
               /\ \E j \in DOMAIN rows' : /\ owner'[j] = owner'[i] /\ j < i
                                          /\ Identifiers(rows'[j]) = <<>>
                                          /\ rows'[j].contact.name = rows'[i].contact.name
  <1>2. ASSUME NEW i \in 1 .. n PROVE Linked(i)
    <2>1. \A j \in DOMAIN rows' : j < i => j \in DOMAIN rows
      BY <1>1
    <2>2. rows'[i] = rows[i] /\ owner'[i] = owner[i] /\ LinkedRow(i) /\ \A j \in DOMAIN rows : j \in DOMAIN rows'
      BY <1>1, LinkedIs
    <2>3. SUFFICES ASSUME \E j \in DOMAIN rows' : owner'[j] = owner'[i] /\ j < i
                   PROVE  \/ \E j \in DOMAIN rows : /\ owner[j] = owner[i] /\ j < i
                                                    /\ \E a \in Ids(rows[i]) : a \in Ids(rows[j])
                          \/ /\ rows[i].kind # "company" /\ rows[i].contact.name # None
                             /\ Identifiers(rows[i]) = <<>>
                             /\ \E j \in DOMAIN rows : /\ owner[j] = owner[i] /\ j < i
                                                       /\ Identifiers(rows[j]) = <<>>
                                                       /\ rows[j].contact.name = rows[i].contact.name
      <3>1. \A j \in DOMAIN rows : rows'[j] = rows[j] /\ owner'[j] = owner[j]
        BY <1>1
      <3>2. QED BY <2>2, <3>1
    <2>4. \E j \in DOMAIN rows : owner[j] = owner[i] /\ j < i
      BY <1>1, <2>1, <2>2, <2>3
    <2>5. QED BY <2>2, <2>4 DEF LinkedRow
  <1>3. Linked(n + 1)
    <2>1. SUFFICES ASSUME \E j \in DOMAIN rows' : owner'[j] = key /\ j < n + 1
                   PROVE  \/ \E j \in DOMAIN rows' : /\ owner'[j] = key /\ j < n + 1
                                                     /\ \E a \in Ids(row) : a \in Ids(rows'[j])
                          \/ /\ row.kind # "company" /\ row.contact.name # None
                             /\ Identifiers(row) = <<>>
                             /\ \E j \in DOMAIN rows' : /\ owner'[j] = key /\ j < n + 1
                                                        /\ Identifiers(rows'[j]) = <<>>
                                                        /\ rows'[j].contact.name = row.contact.name
      BY <1>1
    <2>2. \A j \in DOMAIN rows : j \in DOMAIN rows' /\ j < n + 1 /\ rows'[j] = rows[j] /\ owner'[j] = owner[j]
      BY <1>1
    <2>3. ~\A j \in DOMAIN rows : owner[j] # key
      BY <1>1, <2>1
    <2>4. CASE \E a \in Ids(row) : HasRow(key, a)
      BY <2>2, <2>4 DEF HasRow
    <2>5. CASE /\ row.kind # "company" /\ row.contact.name # None
               /\ Identifiers(row) = <<>>
               /\ \E j \in DOMAIN rows : /\ owner[j] = key /\ Identifiers(rows[j]) = <<>>
                                         /\ rows[j].contact.name = row.contact.name
      BY <2>2, <2>5
    <2>6. QED BY <2>3, <2>4, <2>5, KeyIsOwn
  <1>4. ASSUME NEW i \in DOMAIN rows' PROVE Linked(i)
    <2>1. i \in 1 .. n \/ i = n + 1
      BY <1>1
    <2> HIDE DEF Linked
    <2>2. QED BY <1>2, <1>3, <2>1
  <1>5. (\A i \in DOMAIN rows : LinkedRow(i))'
    BY <1>4 DEF LinkedRow
  <1>6. (MergedOnlyByLink <=> \A i \in DOMAIN rows : LinkedRow(i))'
    BY LinkedIs, PTL
  <1>7. QED BY <1>5, <1>6

LEMMA ReadInv ==
  ASSUME IdentityInv, NEW row \in Rows(Kinds[source]), ReadRow(row) PROVE IdentityInv'
  <1> PICK n : n = Len(rows)
    OBVIOUS
  <1> PICK key : key = KeyOf(row, n + 1)
    OBVIOUS
  <1>1. Given(row, n, key)
    BY ReadGives DEF IdentityInv
  <1>2. ShapeOK' /\ KeysOK' /\ AliasesOK'
    BY <1>1, ReadShape, ReadKeys, ReadAliases DEF IdentityInv
  <1>3. KnownOK' /\ RutsOK' /\ SalesOK'
    BY <1>1, ReadKnown, ReadRuts, ReadSales DEF IdentityInv
  <1>4. SameRutSameCustomer' /\ MergedOnlyByLink'
    BY <1>1, ReadSameRut, ReadLinked DEF IdentityInv
  <1>5. QED BY <1>2, <1>3, <1>4 DEF IdentityInv

-----------------------------------------------------------------------------

\* The last of the portfolio that an alias is known of: the portfolio is finite and
\* its order is total.
LEMMA LastOfPortfolio ==
  ASSUME SalesOK, NEW S, S \subseteq DOMAIN customers, S # {}
  PROVE  \E k \in S : \A l \in S : ComesAfter(customers[k], customers[l])
  <1> DEFINE net(k) == customers[k].net
             activity(k) == customers[k].documents + customers[k].orders
             born(k) == customers[k].born
             n == Len(rows)
  <1>1. \A k \in S : net(k) \in Nat /\ activity(k) \in Nat /\ born(k) \in 1 .. n
    BY DEF SalesOK
  <1>2. \A k, l : ComesAfter(customers[k], customers[l]) <=>
                    \/ net(k) < net(l)
                    \/ net(k) = net(l) /\ activity(k) < activity(l)
                    \/ net(k) = net(l) /\ activity(k) = activity(l) /\ born(k) >= born(l)
    BY DEF ComesAfter
  <1> HIDE DEF net, activity, born
  <1>3. PICK x \in S : \A l \in S : net(x) <= net(l)
    <2>1. PICK v \in {net(k) : k \in S} : \A u \in {net(k) : k \in S} : v <= u
      <3>1. {net(k) : k \in S} \subseteq Nat /\ {net(k) : k \in S} # {}
        BY <1>1
      <3>2. QED BY <3>1, LeastElement
    <2>2. QED BY <2>1
  <1> DEFINE A == {k \in S : net(k) = net(x)}
  <1>4. PICK y \in A : \A l \in A : activity(y) <= activity(l)
    <2>1. PICK v \in {activity(k) : k \in A} : \A u \in {activity(k) : k \in A} : v <= u
      <3>1. {activity(k) : k \in A} \subseteq Nat /\ {activity(k) : k \in A} # {}
        BY <1>1, <1>3
      <3>2. QED BY <3>1, LeastElement
    <2>2. QED BY <2>1
  <1> DEFINE B == {k \in A : activity(k) = activity(y)}
  <1>5. PICK z \in B : \A l \in B : born(z) >= born(l)
    <2> DEFINE before(k) == n - born(k)
    <2>1. \A k \in B : n \in Int /\ born(k) \in Int /\ before(k) \in Nat
      BY <1>1
    <2> DEFINE T == {before(k) : k \in B}
    <2>2. T \subseteq Nat /\ T # {}
      BY <1>4, <2>1
    <2>3. PICK v \in T : \A u \in T : v <= u
      <3> HIDE DEF T
      <3>1. QED BY <2>2, LeastElement
    <2>4. PICK z \in B : v = before(z)
      BY <2>3
    <2>5. ASSUME NEW l \in B PROVE born(z) >= born(l)
      <3>1. before(z) <= before(l)
        BY <2>3, <2>4
      <3>2. QED BY <2>1, <3>1
    <2>6. QED BY <2>5
  <1>6. ASSUME NEW l \in S PROVE ComesAfter(customers[z], customers[l])
    <2>1. net(z) = net(x) /\ activity(z) = activity(y) /\ z \in S /\ x \in S /\ y \in S
      OBVIOUS
    <2>2. CASE net(l) # net(x)
      BY <1>1, <1>2, <1>3, <2>1, <2>2
    <2>3. CASE net(l) = net(x) /\ activity(l) # activity(y)
      BY <1>1, <1>2, <1>4, <2>1, <2>3
    <2>4. CASE net(l) = net(x) /\ activity(l) = activity(y)
      BY <1>1, <1>2, <1>5, <2>1, <2>4
    <2>5. QED BY <2>2, <2>3, <2>4
  <1>7. QED BY <1>6

\* The aliases of the report are the ones that are known of its customers.
LEMMA ReportKnows ==
  ASSUME SalesOK, NEW a \in DOMAIN AliasesOfPortfolio
  PROVE  /\ AliasesOfPortfolio[a] \in DOMAIN customers
         /\ a \in Known(customers[AliasesOfPortfolio[a]])
  <1> DEFINE S == {k \in DOMAIN customers : a \in Known(customers[k])}
             last(k) == /\ a \in Known(customers[k])
                        /\ \A l \in DOMAIN customers : a \in Known(customers[l]) =>
                               ComesAfter(customers[k], customers[l])
  <1>1. S # {} /\ S \subseteq DOMAIN customers
    BY DEF AliasesOfPortfolio
  <1>2. PICK k \in S : \A l \in S : ComesAfter(customers[k], customers[l])
    <2> HIDE DEF S
    <2>1. QED BY <1>1, LastOfPortfolio
  <1>3. \E l \in DOMAIN customers : last(l)
    BY <1>2
  <1>4. AliasesOfPortfolio[a] = CHOOSE l \in DOMAIN customers : last(l)
    BY DEF AliasesOfPortfolio
  <1> HIDE DEF last
  <1>5. AliasesOfPortfolio[a] \in DOMAIN customers /\ last(AliasesOfPortfolio[a])
    BY <1>3, <1>4
  <1>6. QED BY <1>5 DEF last

\* The report keeps the rows and what is known of the customers.
LEMMA BeginInv == ASSUME IdentityInv, BeginReport PROVE IdentityInv'
  <1>1. /\ rows' = rows /\ owner' = owner /\ source' = 5 /\ aliases' = AliasesOfPortfolio
        /\ customers' = [k \in DOMAIN customers |-> [customers[k] EXCEPT !.priority = 0]]
    BY DEF BeginReport, Kinds
  <1>2. ASSUME NEW k \in DOMAIN customers'
        PROVE  /\ k \in DOMAIN customers /\ DOMAIN customers'[k] = CustomerFields
               /\ Known(customers'[k]) = Known(customers[k])
               /\ customers'[k].net = customers[k].net
               /\ customers'[k].documents = customers[k].documents
               /\ customers'[k].orders = customers[k].orders
               /\ customers'[k].born = customers[k].born
    <2>1. k \in DOMAIN customers /\ customers'[k] = [customers[k] EXCEPT !.priority = 0]
      BY <1>1
    <2>2. DOMAIN customers[k] = CustomerFields
      BY <2>1 DEF IdentityInv, ShapeOK
    <2> PICK c : c = customers[k]
      OBVIOUS
    <2> PICK d : d = customers'[k]
      OBVIOUS
    <2>3. /\ DOMAIN d = CustomerFields
          /\ d.net = c.net /\ d.documents = c.documents /\ d.orders = c.orders /\ d.born = c.born
          /\ \A f \in {"rut", "email", "phone"} : d[f] = c[f]
      BY <2>1, <2>2 DEF CustomerFields
    <2>4. Known(d) = Known(c)
      BY <2>3 DEF Known
    <2>5. QED BY <2>1, <2>3, <2>4
  <1>3. DOMAIN customers' = DOMAIN customers
    BY <1>1
  <1>4. \A k, a : HasRow(k, a)' <=> HasRow(k, a)
    BY <1>1 DEF HasRow
  <1>5. ShapeOK'
    BY <1>1, <1>2, <1>3 DEF IdentityInv, ShapeOK
  <1>6. KeysOK' /\ SameRutSameCustomer' /\ MergedOnlyByLink'
    BY <1>1 DEF IdentityInv, KeysOK, HasRow, SameRutSameCustomer, MergedOnlyByLink, RowsOf, TaxId
  <1>7. KnownOK'
    <2>1. \A k \in DOMAIN customers' : \A a \in Known(customers'[k]) : HasRow(k, a)
      BY <1>2 DEF IdentityInv, KnownOK
    <2>2. QED BY <1>1, <2>1 DEF KnownOK, HasRow
  <1>8. AliasesOK'
    <2>1. \A a \in DOMAIN aliases' : HasRow(aliases'[a], a)
      BY <1>1, ReportKnows DEF IdentityInv, KnownOK
    <2>2. QED BY <1>1, <2>1 DEF AliasesOK, HasRow
  <1>9. RutsOK'
    BY <1>1 DEF RutsOK
  <1>10. SalesOK'
    BY <1>1, <1>2 DEF IdentityInv, SalesOK
  <1>11. QED BY <1>5, <1>6, <1>7, <1>8, <1>9, <1>10 DEF IdentityInv

LEMMA SourceInv == ASSUME IdentityInv, NextSource PROVE IdentityInv'
  <1>1. /\ source < 4 /\ source' = source + 1
        /\ rows' = rows /\ customers' = customers /\ aliases' = aliases /\ owner' = owner
    BY DEF NextSource, Kinds
  <1>2. ShapeOK'
    BY <1>1 DEF IdentityInv, ShapeOK
  <1>3. KeysOK' /\ AliasesOK' /\ KnownOK' /\ SalesOK' /\ SameRutSameCustomer' /\ MergedOnlyByLink'
    BY <1>1 DEF IdentityInv, KeysOK, AliasesOK, KnownOK, HasRow, SalesOK, SameRutSameCustomer,
                MergedOnlyByLink, RowsOf, TaxId, Known
  <1>4. RutsOK'
    BY <1>1 DEF IdentityInv, ShapeOK, RutsOK
  <1>5. QED BY <1>2, <1>3, <1>4 DEF IdentityInv

LEMMA NextIdentity == IdentityInv /\ [IdentityNext]_identityVars => IdentityInv'
  <1> SUFFICES ASSUME IdentityInv, [IdentityNext]_identityVars PROVE IdentityInv'
    OBVIOUS
  <1>1. CASE NextSource
    BY <1>1, SourceInv
  <1>2. CASE BeginReport
    BY <1>2, BeginInv
  <1>3. CASE \E row \in Rows(Kinds[source]) : ReadRow(row)
    BY <1>3, ReadInv
  <1>4. CASE UNCHANGED identityVars
    <2>1. /\ source' = source /\ rows' = rows /\ customers' = customers
          /\ aliases' = aliases /\ owner' = owner
      BY <1>4 DEF identityVars
    <2>2. ShapeOK' /\ RutsOK'
      BY <2>1 DEF IdentityInv, ShapeOK, RutsOK
    <2>3. KeysOK' /\ AliasesOK' /\ KnownOK' /\ SalesOK' /\ SameRutSameCustomer' /\ MergedOnlyByLink'
      BY <2>1 DEF IdentityInv, KeysOK, AliasesOK, KnownOK, HasRow, SalesOK, SameRutSameCustomer,
                  MergedOnlyByLink, RowsOf, TaxId, Known
    <2>4. QED BY <2>2, <2>3 DEF IdentityInv
  <1>5. QED BY <1>1, <1>2, <1>3, <1>4 DEF IdentityNext

LEMMA IdentityHolds == IdentitySpec => []IdentityInv
  BY InitIdentity, NextIdentity, PTL DEF IdentitySpec

\* SameRutSameCustomer: whatever the payloads hold and in whatever order their rows
\* come, _upsert_customer never gives two rows of one RUT to two customers.
THEOREM OneRutOneCustomer == IdentitySpec => []SameRutSameCustomer
  <1>1. IdentityInv => SameRutSameCustomer
    BY DEF IdentityInv
  <1>2. QED BY <1>1, IdentityHolds, PTL

\* MergedOnlyByLink: a row joins a customer by an exact identifier of an earlier row,
\* the companies that build_commercial_report attaches included.
THEOREM CustomersAreLinked == IdentitySpec => []MergedOnlyByLink
  <1>1. IdentityInv => MergedOnlyByLink
    BY DEF IdentityInv
  <1>2. QED BY <1>1, IdentityHolds, PTL

-----------------------------------------------------------------------------
(* Where a customer is.                                                    *)

\* The order of the sources of a location.
LEMMA PriorityOK ==
  ASSUME NEW row, row.kind = "company" => row.day = 0
  PROVE  /\ Priority(row) \in {10, 20, 100}
         /\ Priority(row) = 100 <=> row.kind = "company"
         /\ row.day # 0 => Priority(row) # 10
  BY DEF Priority

\* A customer c is where the rows T of r that tell a place put it.  In the report the
\* priorities start anew; before it, they say which rows have been read.
PlaceOK(r, c, T, s) ==
    LET C == {i \in T : Priority(r[i]) = 100}
        D == {i \in T : Priority(r[i]) = 20}
        L == {i \in D : r[i].day # 0}
    IN /\ T = {} => c.place = 0
       /\ C # {} => c.place \in C /\ \A j \in C : c.place <= j
       /\ C = {} /\ L # {} =>
            /\ c.place \in L
            /\ \A j \in L : \/ r[j].day < r[c.place].day
                            \/ r[j].day = r[c.place].day /\ j <= c.place
       /\ C = {} /\ L = {} /\ D # {} => c.place \in D /\ \A j \in D : c.place <= j
       /\ C = {} /\ D = {} /\ T # {} => c.place \in T /\ \A j \in T : c.place <= j
       /\ s = 5 => c.priority = IF C = {} THEN 0 ELSE 100
       /\ s # 5 => /\ C = {}
                   /\ c.priority = IF T = {} THEN 0 ELSE IF D = {} THEN 10 ELSE 20
                   /\ c.verified = IF L = {} THEN 0 ELSE r[c.place].day

\* Row m of r follows the rows T, and makes d of the customer c.
NextPlace(r, c, d, m, T, s) ==
    /\ m \in Nat /\ m > 0
    /\ \A i \in T : i \in 1 .. m - 1
    /\ \A i \in T \cup {m} : r[i].day \in Nat
    /\ r[m].located \in BOOLEAN
    /\ r[m].kind = "company" <=> s = 5
    /\ s = 5 => r[m].day = 0
    /\ PlaceOK(r, c, T, s)
    /\ d.place = IF Moves(c, r[m]) THEN m ELSE c.place
    /\ d.priority = IF Moves(c, r[m]) THEN Priority(r[m]) ELSE c.priority
    /\ d.verified = IF Moves(c, r[m]) /\ r[m].day # 0 THEN r[m].day ELSE c.verified

\* The next row, if it tells a place, moves the customer when it should.
LEMMA PlaceMoves ==
  ASSUME NEW r, NEW c, NEW d, NEW m, NEW T, NEW s, NextPlace(r, c, d, m, T, s)
  PROVE  PlaceOK(r, d, IF r[m].located THEN T \cup {m} ELSE T, s)
  <1> USE DEF NextPlace
  <1> DEFINE C == {i \in T : Priority(r[i]) = 100}
             D == {i \in T : Priority(r[i]) = 20}
             L == {i \in D : r[i].day # 0}
             T2 == T \cup {m}
             C2 == {i \in T2 : Priority(r[i]) = 100}
             D2 == {i \in T2 : Priority(r[i]) = 20}
             L2 == {i \in D2 : r[i].day # 0}
  <1>1. CASE ~r[m].located
    <2>1. d.place = c.place /\ d.priority = c.priority /\ d.verified = c.verified
      BY <1>1 DEF Moves
    <2>2. QED BY <1>1, <2>1 DEF PlaceOK
  <1>2. CASE r[m].located /\ s = 5
    <2>1. Priority(r[m]) = 100 /\ r[m].day = 0
      BY <1>2, PriorityOK
    <2>2. C2 = C \cup {m}
      BY <2>1
    <2>3. CASE C = {}
      <3>1. c.priority = 0
        BY <1>2, <2>3 DEF PlaceOK
      <3>2. Moves(c, r[m])
        BY <1>2, <2>1, <3>1 DEF Moves
      <3>3. d.place = m /\ d.priority = 100 /\ C2 = {m}
        BY <2>1, <2>2, <2>3, <3>2
      <3>4. QED BY <1>2, <3>3 DEF PlaceOK
    <2>4. CASE C # {}
      <3>1. c.priority = 100 /\ c.place \in C /\ \A j \in C : c.place <= j
        BY <1>2, <2>4 DEF PlaceOK
      <3>2. c.place \in 1 .. m - 1
        BY <3>1
      <3>3. ~Moves(c, r[m])
        BY <2>1, <3>1, <3>2 DEF Moves
      <3>4. d.place = c.place /\ d.priority = 100
        BY <3>1, <3>3
      <3>5. C2 # {} /\ d.place \in C2 /\ \A j \in C2 : d.place <= j
        BY <2>2, <3>1, <3>2, <3>4
      <3>6. QED BY <1>2, <3>4, <3>5 DEF PlaceOK
    <2>5. QED BY <2>3, <2>4
  <1>3. CASE r[m].located /\ s # 5
    <2>1. C = {} /\ Priority(r[m]) \in {10, 20}
      BY <1>3, PriorityOK DEF PlaceOK
    <2>2. /\ c.priority = IF T = {} THEN 0 ELSE IF D = {} THEN 10 ELSE 20
          /\ c.verified = IF L = {} THEN 0 ELSE r[c.place].day
      BY <1>3 DEF PlaceOK
    <2>3. /\ C2 = {}
          /\ D2 = IF Priority(r[m]) = 20 THEN D \cup {m} ELSE D
          /\ L2 = IF Priority(r[m]) = 20 /\ r[m].day # 0 THEN L \cup {m} ELSE L
      BY <2>1
    <2> DEFINE Placed(x) ==
          /\ C2 = {}
          /\ L2 # {} => /\ x \in L2
                        /\ \A j \in L2 : \/ r[j].day < r[x].day
                                         \/ r[j].day = r[x].day /\ j <= x
          /\ L2 = {} /\ D2 # {} => x \in D2 /\ \A j \in D2 : x <= j
          /\ D2 = {} => x \in T2 /\ \A j \in T2 : x <= j
          /\ d.priority = IF D2 = {} THEN 10 ELSE 20
          /\ d.verified = IF L2 = {} THEN 0 ELSE r[x].day
    <2>4. SUFFICES Placed(d.place)
      <3>1. T2 # {}
        OBVIOUS
      <3>2. QED BY <1>3, <3>1 DEF PlaceOK
    <2>5. CASE T = {}
      <3>1. Moves(c, r[m])
        BY <1>3, <2>5 DEF Moves, PlaceOK
      <3>2. d.place = m /\ d.priority = Priority(r[m])
            /\ d.verified = r[m].day /\ D = {} /\ L = {} /\ T2 = {m}
        BY <2>2, <2>5, <3>1
      <3>3. CASE Priority(r[m]) = 10
        <4>1. r[m].day = 0
          BY <3>3, PriorityOK
        <4>2. D2 = {} /\ L2 = {}
          BY <2>3, <3>2, <3>3
        <4>3. QED BY <2>3, <3>2, <3>3, <4>1, <4>2
      <3>4. CASE Priority(r[m]) = 20
        <4>1. D2 = {m} /\ L2 = IF r[m].day # 0 THEN {m} ELSE {}
          BY <2>3, <3>2, <3>4
        <4>2. QED BY <2>3, <3>2, <3>4, <4>1
      <3>5. QED BY <2>1, <3>3, <3>4
    <2>6. CASE T # {}
      <3>1. /\ c.place \in 1 .. m - 1 /\ c.place \in T
            /\ L # {} => /\ c.place \in L
                         /\ \A j \in L : \/ r[j].day < r[c.place].day
                                         \/ r[j].day = r[c.place].day /\ j <= c.place
            /\ L = {} /\ D # {} => c.place \in D /\ \A j \in D : c.place <= j
            /\ D = {} => \A j \in T : c.place <= j
        <4>1. /\ L # {} => /\ c.place \in L
                           /\ \A j \in L : \/ r[j].day < r[c.place].day
                                           \/ r[j].day = r[c.place].day /\ j <= c.place
              /\ L = {} /\ D # {} => c.place \in D /\ \A j \in D : c.place <= j
              /\ D = {} => c.place \in T /\ \A j \in T : c.place <= j
          BY <2>1, <2>6 DEF PlaceOK
        <4>2. c.place \in T
          BY <4>1
        <4>3. QED BY <4>1, <4>2
      <3>2. CASE Priority(r[m]) = 10
        <4>1. r[m].day = 0
          BY <3>2, PriorityOK
        <4>2. ~Moves(c, r[m])
          BY <2>2, <2>6, <3>1, <3>2, <4>1 DEF Moves
        <4>3. d.place = c.place /\ d.priority = c.priority /\ d.verified = c.verified
              /\ D2 = D /\ L2 = L
          BY <2>3, <3>2, <4>2
        <4>4. D = {} => \A j \in T2 : c.place <= j
          BY <3>1
        <4>5. QED BY <2>2, <2>3, <2>6, <3>1, <4>3, <4>4
      <3>3. CASE Priority(r[m]) = 20 /\ D = {}
        <4>1. Moves(c, r[m])
          BY <1>3, <2>2, <2>6, <3>3 DEF Moves
        <4>2. /\ d.place = m /\ d.priority = 20 /\ L = {} /\ D2 = {m}
              /\ L2 = IF r[m].day # 0 THEN {m} ELSE {}
              /\ d.verified = r[m].day
          BY <2>2, <2>3, <3>3, <4>1
        <4>3. QED BY <2>3, <4>2
      <3>4. CASE Priority(r[m]) = 20 /\ D # {} /\ r[m].day = 0
        <4>1. ~Moves(c, r[m])
          BY <2>2, <2>6, <3>1, <3>4 DEF Moves
        <4>2. d.place = c.place /\ d.priority = 20 /\ d.verified = c.verified
              /\ D2 = D \cup {m} /\ L2 = L
          BY <2>2, <2>3, <2>6, <3>4, <4>1
        <4>3. QED BY <2>2, <2>3, <3>1, <3>4, <4>2
      <3>5. CASE Priority(r[m]) = 20 /\ D # {} /\ r[m].day # 0
        <4>1. D2 = D \cup {m} /\ L2 = L \cup {m} /\ c.priority = 20
          BY <2>2, <2>3, <2>6, <3>5
        <4>2. Moves(c, r[m]) <=> r[m].day >= c.verified
          BY <1>3, <3>1, <3>5, <4>1 DEF Moves
        <4>3. CASE L = {}
          <5>1. Moves(c, r[m])
            BY <2>2, <4>2, <4>3
          <5>2. d.place = m /\ d.priority = 20 /\ d.verified = r[m].day /\ L2 = {m}
            BY <3>5, <4>1, <4>3, <5>1
          <5>3. QED BY <2>3, <4>1, <5>2
        <4>4. CASE L # {}
          <5>1. c.verified = r[c.place].day /\ c.place \in L
            BY <2>2, <3>1, <4>4
          <5>2. CASE r[m].day >= c.verified
            <6>1. d.place = m /\ d.priority = 20 /\ d.verified = r[m].day
              BY <3>5, <4>2, <5>2
            <6>2. ASSUME NEW j \in L2 PROVE r[j].day < r[m].day \/ (r[j].day = r[m].day /\ j <= m)
              BY <3>1, <4>1, <4>4, <5>1, <5>2
            <6>3. QED BY <2>3, <4>1, <6>1, <6>2
          <5>3. CASE ~(r[m].day >= c.verified)
            <6>1. d.place = c.place /\ d.priority = 20 /\ d.verified = r[c.place].day
              BY <4>1, <4>2, <5>1, <5>3
            <6>2. ASSUME NEW j \in L2
                  PROVE  r[j].day < r[c.place].day \/ (r[j].day = r[c.place].day /\ j <= c.place)
              BY <3>1, <4>1, <4>4, <5>1, <5>3
            <6>3. QED BY <2>3, <4>1, <4>4, <5>1, <6>1, <6>2
          <5>4. QED BY <5>2, <5>3
        <4>5. QED BY <4>3, <4>4
      <3>6. QED BY <2>1, <3>2, <3>3, <3>4, <3>5
    <2>7. QED BY <2>5, <2>6
  <1>4. QED BY <1>1, <1>2, <1>3

Told(k) == {i \in DOMAIN rows : owner[i] = k /\ rows[i].located}

PlacesOK == \A k \in DOMAIN customers : PlaceOK(rows, customers[k], Told(k), source)

PlacesInv == IdentityInv /\ PlacesOK

\* Another sequence that agrees on the rows tells the same.
LEMMA PlaceStays ==
  ASSUME NEW r, NEW q, NEW T, \A i \in T : q[i] = r[i], NEW c, NEW s,
         PlaceOK(r, c, T, s)
  PROVE  PlaceOK(q, c, T, s)
  <1> DEFINE C(v) == {i \in T : Priority(v[i]) = 100}
             D(v) == {i \in T : Priority(v[i]) = 20}
             L(v) == {i \in D(v) : v[i].day # 0}
  <1>1. C(q) = C(r) /\ D(q) = D(r) /\ L(q) = L(r)
    OBVIOUS
  <1>2. c.place \in L(q) => q[c.place] = r[c.place]
    OBVIOUS
  <1>3. \A j \in L(q) : q[j] = r[j]
    OBVIOUS
  <1>4. QED BY <1>1, <1>2, <1>3 DEF PlaceOK

LEMMA ReadPlaces ==
  ASSUME ShapeOK, PlacesOK, NEW row \in Rows(Kinds[source]), ReadRow(row),
         NEW n, NEW key, Given(row, n, key)
  PROVE  PlacesOK'
  <1>1. /\ n \in Nat /\ DOMAIN rows = 1 .. n /\ DOMAIN rows' = 1 .. n + 1
        /\ rows'[n + 1] = row /\ owner'[n + 1] = key /\ key = KeyOf(row, n + 1)
        /\ \A l \in 1 .. n : rows'[l] = rows[l] /\ owner'[l] = owner[l]
        /\ DOMAIN customers' = DOMAIN customers \cup {key}
        /\ \A k \in DOMAIN customers : k # key => customers'[k] = customers[k]
        /\ DOMAIN Before(row, n + 1) = CustomerFields
        /\ customers'[key] = Sold(Merged(Before(row, n + 1), row, n + 1), row, n + 1)
    BY DEF Given
  <1> PICK q : q = rows'
    OBVIOUS
  <1>2. source' = source /\ source \in 1 .. 5
    BY DEF ReadRow, ShapeOK
  <1>3. /\ (row.kind = "company" <=> source = 5) /\ row.located \in BOOLEAN
        /\ row.day \in Nat /\ (source = 5 => row.day = 0)
        /\ DOMAIN row.contact = {"rut", "email", "phone", "name"}
    BY <1>2, RowOK, IdentityAssumption
  <1>4. \A i \in 1 .. n : rows[i].day \in Nat
    <2>1. ASSUME NEW i \in 1 .. n PROVE rows[i].day \in Nat
      <3>1. rows[i] \in AllRows
        BY <1>1 DEF ShapeOK
      <3>2. PICK s \in 1 .. 5 : rows[i] \in Rows(Kinds[s])
        BY <3>1 DEF AllRows
      <3>3. QED BY <3>2, RowOK
    <2>2. QED BY <2>1
  <1> DEFINE Next(k) == {i \in DOMAIN q : owner'[i] = k /\ q[i].located}
  <1>5. \A k : Next(k) = IF k = key /\ row.located THEN Told(k) \cup {n + 1} ELSE Told(k)
    <2>1. \A i \in DOMAIN q : i \in 1 .. n \/ i = n + 1
      BY <1>1
    <2>2. QED BY <1>1, <2>1 DEF Told
  <1>6. ASSUME NEW k \in DOMAIN customers', k # key
        PROVE  PlaceOK(q, customers'[k], Next(k), source)
    <2>1. k \in DOMAIN customers /\ customers'[k] = customers[k] /\ Next(k) = Told(k)
      BY <1>1, <1>5, <1>6
    <2>2. PlaceOK(rows, customers[k], Told(k), source)
      BY <2>1 DEF PlacesOK
    <2>3. \A i \in Told(k) : q[i] = rows[i]
      BY <1>1 DEF Told
    <2> PICK c : c = customers[k]
      OBVIOUS
    <2> PICK T : T = Told(k)
      OBVIOUS
    <2>4. PlaceOK(q, c, T, source)
      BY <2>2, <2>3, PlaceStays
    <2> HIDE DEF Next
    <2>5. QED BY <2>1, <2>4
  <1>7. PlaceOK(q, customers'[key], Next(key), source)
    <2> PICK b : b = Before(row, n + 1)
      OBVIOUS
    <2> PICK d : d = customers'[key]
      OBVIOUS
    <2> PICK T : T = Told(key)
      OBVIOUS
    <2>1. PlaceOK(rows, b, T, source)
      <3>1. CASE key \in DOMAIN customers
        BY <1>1, <3>1 DEF Before, PlacesOK
      <3>2. CASE key \notin DOMAIN customers
        <4>1. b.place = 0 /\ b.priority = 0 /\ b.verified = 0
          BY <1>1, <3>2 DEF Before, Blank
        <4>2. T = {}
          BY <1>1, <3>2 DEF Told, ShapeOK
        <4>3. QED BY <4>1, <4>2 DEF PlaceOK
      <3>3. QED BY <3>1, <3>2
    <2>2. \A i \in T : i \in 1 .. n /\ q[i] = rows[i]
      BY <1>1 DEF Told
    <2>3. PlaceOK(q, b, T, source)
      BY <2>1, <2>2, PlaceStays
    <2>4. /\ d.place = IF Moves(b, row) THEN n + 1 ELSE b.place
          /\ d.priority = IF Moves(b, row) THEN Priority(row) ELSE b.priority
          /\ d.verified = IF Moves(b, row) /\ row.day # 0 THEN row.day ELSE b.verified
      BY <1>1, <1>3, MergedOK
    <2> PICK m : m = n + 1
      OBVIOUS
    <2>5. /\ m \in Nat /\ m > 0 /\ q[m] = row
          /\ \A i \in T : i \in 1 .. m - 1
          /\ \A i \in T \cup {m} : q[i].day \in Nat
      BY <1>1, <1>3, <1>4, <2>2
    <2>6. PlaceOK(q, d, IF q[m].located THEN T \cup {m} ELSE T, source)
      <3>1. /\ q[m].located \in BOOLEAN
            /\ (q[m].kind = "company" <=> source = 5)
            /\ source = 5 => q[m].day = 0
        BY <1>3, <2>5
      <3>2. /\ d.place = IF Moves(b, q[m]) THEN m ELSE b.place
            /\ d.priority = IF Moves(b, q[m]) THEN Priority(q[m]) ELSE b.priority
            /\ d.verified = IF Moves(b, q[m]) /\ q[m].day # 0 THEN q[m].day ELSE b.verified
        BY <2>4, <2>5
      <3>3. /\ m \in Nat /\ m > 0
            /\ \A i \in T : i \in 1 .. m - 1
            /\ \A i \in T \cup {m} : q[i].day \in Nat
        BY <2>5
      <3>4. NextPlace(q, b, d, m, T, source)
        BY <2>3, <3>1, <3>2, <3>3 DEF NextPlace
      <3>5. QED BY <3>4, PlaceMoves
    <2>7. QED BY <1>5, <2>5, <2>6
  <1>8. \A k \in DOMAIN customers' : PlaceOK(q, customers'[k], Next(k), source)
    BY <1>6, <1>7
  <1>9. \A k \in DOMAIN customers' :
           PlaceOK(rows', customers'[k], {i \in DOMAIN rows' : owner'[i] = k /\ rows'[i].located},
                   source')
    BY <1>2, <1>8
  <1>10. QED BY <1>9 DEF PlacesOK, Told, PlaceOK, Priority

LEMMA BeginPlaces == ASSUME ShapeOK, PlacesOK, BeginReport PROVE PlacesOK'
  <1>1. /\ rows' = rows /\ owner' = owner /\ source = 4 /\ source' = 5
        /\ customers' = [k \in DOMAIN customers |-> [customers[k] EXCEPT !.priority = 0]]
    BY DEF BeginReport, Kinds
  <1>2. ASSUME NEW k \in DOMAIN customers'
        PROVE  PlaceOK(rows, customers'[k], Told(k), 5)
    <2>1. k \in DOMAIN customers /\ customers'[k] = [customers[k] EXCEPT !.priority = 0]
      BY <1>1
    <2> PICK c : c = customers[k]
      OBVIOUS
    <2> PICK d : d = customers'[k]
      OBVIOUS
    <2>2. d.place = c.place /\ d.priority = 0
      BY <2>1 DEF ShapeOK, CustomerFields
    <2>3. PlaceOK(rows, c, Told(k), 4)
      BY <1>1, <2>1 DEF PlacesOK
    <2>4. QED BY <2>2, <2>3 DEF PlaceOK
  <1>3. \A k \in DOMAIN customers' :
           PlaceOK(rows', customers'[k], {i \in DOMAIN rows' : owner'[i] = k /\ rows'[i].located},
                   source')
    BY <1>1, <1>2 DEF Told
  <1>4. QED BY <1>3 DEF PlacesOK, Told, PlaceOK, Priority

\* What the places are is what LocationIsBest asks for.
LEMMA PlacesAreBest == ASSUME ShapeOK, PlacesOK PROVE LocationIsBest
  <1> SUFFICES ASSUME NEW k \in DOMAIN customers
               PROVE  LET telling == {i \in RowsOf(k) : rows[i].located}
                          at(p) == {i \in telling : Priority(rows[i]) = p}
                          latest == {i \in at(20) : rows[i].day # 0
                                           /\ \A j \in at(20) : rows[j].day <= rows[i].day}
                      IN customers[k].place =
                           CASE telling = {} -> 0
                             [] at(100) # {} -> Min(at(100))
                             [] at(100) = {} /\ latest # {} -> Max(latest)
                             [] at(100) = {} /\ latest = {} /\ at(20) # {} -> Min(at(20))
                             [] OTHER -> Min(telling)
    BY DEF LocationIsBest
  <1> PICK c : c = customers[k]
    OBVIOUS
  <1> DEFINE T == {i \in RowsOf(k) : rows[i].located}
             at(p) == {i \in T : Priority(rows[i]) = p}
             L == {i \in at(20) : rows[i].day # 0}
             latest == {i \in at(20) : rows[i].day # 0
                                       /\ \A j \in at(20) : rows[j].day <= rows[i].day}
  <1>1. PlaceOK(rows, c, T, source)
    BY DEF PlacesOK, Told, RowsOf
  <1>2. \A i \in T : i \in Nat /\ rows[i].day \in Nat
    <2>1. ASSUME NEW i \in DOMAIN rows PROVE i \in Nat /\ rows[i].day \in Nat
      <3>1. rows[i] \in AllRows /\ i \in Nat
        BY DEF ShapeOK
      <3>2. PICK s \in 1 .. 5 : rows[i] \in Rows(Kinds[s])
        BY <3>1 DEF AllRows
      <3>3. QED BY <3>1, <3>2, RowOK
    <2>2. QED BY <2>1 DEF RowsOf
  <1>3. /\ T = {} => c.place = 0
        /\ at(100) # {} => c.place \in at(100) /\ \A j \in at(100) : c.place <= j
        /\ at(100) = {} /\ L # {} =>
             /\ c.place \in L
             /\ \A j \in L : \/ rows[j].day < rows[c.place].day
                             \/ rows[j].day = rows[c.place].day /\ j <= c.place
        /\ at(100) = {} /\ L = {} /\ at(20) # {} => c.place \in at(20) /\ \A j \in at(20) : c.place <= j
        /\ at(100) = {} /\ at(20) = {} /\ T # {} => c.place \in T /\ \A j \in T : c.place <= j
    BY <1>1 DEF PlaceOK
  <1>4. ASSUME NEW S, S \subseteq T, NEW x \in S, \A j \in S : x <= j PROVE Min(S) = x
    BY <1>2, <1>4 DEF Min
  <1>5. ASSUME NEW S, S \subseteq T, NEW x \in S, \A j \in S : x >= j PROVE Max(S) = x
    BY <1>2, <1>5 DEF Max
  <1>6. latest \subseteq L
    OBVIOUS
  <1>7. CASE T = {}
    BY <1>3, <1>7
  <1>8. CASE at(100) # {}
    <2>1. Min(at(100)) = c.place
      BY <1>3, <1>4, <1>8
    <2>2. QED BY <1>8, <2>1
  <1>9. CASE at(100) = {} /\ L # {}
    <2>1. c.place \in latest
      <3>1. ASSUME NEW j \in at(20) PROVE rows[j].day <= rows[c.place].day
        <4>1. rows[j].day \in Nat /\ rows[c.place].day \in Nat /\ c.place \in L
          BY <1>2, <1>3, <1>9
        <4>2. QED BY <1>3, <1>9, <4>1
      <3>2. QED BY <1>3, <1>9, <3>1
    <2>2. ASSUME NEW j \in latest PROVE c.place >= j
      <3>1. j \in L /\ rows[j].day = rows[c.place].day
        BY <1>2, <1>3, <1>9, <2>1
      <3>2. QED BY <1>2, <1>3, <1>9, <2>1, <3>1
    <2>3. Max(latest) = c.place
      BY <1>5, <2>1, <2>2
    <2>4. QED BY <1>9, <2>1, <2>3
  <1>10. CASE at(100) = {} /\ L = {} /\ at(20) # {}
    <2>1. Min(at(20)) = c.place
      BY <1>3, <1>4, <1>10
    <2>2. QED BY <1>6, <1>10, <2>1
  <1>11. CASE at(100) = {} /\ at(20) = {} /\ T # {}
    <2>1. Min(T) = c.place
      BY <1>3, <1>4, <1>11
    <2>2. QED BY <1>11, <2>1
  <1>12. QED BY <1>7, <1>8, <1>9, <1>10, <1>11

LEMMA InitPlaces == IdentityInit => PlacesInv
  BY InitIdentity DEF IdentityInit, PlacesInv, PlacesOK

LEMMA NextPlaces == PlacesInv /\ [IdentityNext]_identityVars => PlacesInv'
  <1> SUFFICES ASSUME PlacesInv, [IdentityNext]_identityVars PROVE PlacesInv'
    OBVIOUS
  <1>1. IdentityInv' /\ ShapeOK
    BY NextIdentity DEF PlacesInv, IdentityInv
  <1>2. CASE NextSource
    <2>1. source' # 5 /\ source # 5 /\ rows' = rows /\ customers' = customers /\ owner' = owner
      BY <1>1, <1>2 DEF NextSource, Kinds, ShapeOK
    <2>2. QED BY <1>1, <2>1 DEF PlacesInv, PlacesOK, Told, PlaceOK, Priority
  <1>3. CASE BeginReport
    BY <1>1, <1>3, BeginPlaces DEF PlacesInv
  <1>4. ASSUME NEW row \in Rows(Kinds[source]), ReadRow(row) PROVE PlacesInv'
    <2>1. Given(row, Len(rows), KeyOf(row, Len(rows) + 1))
      BY <1>1, <1>4, ReadGives
    <2>2. QED BY <1>1, <1>4, <2>1, ReadPlaces DEF PlacesInv
  <1>5. CASE UNCHANGED identityVars
    <2>1. source' = source /\ rows' = rows /\ customers' = customers /\ owner' = owner
      BY <1>5 DEF identityVars
    <2>2. QED BY <1>1, <2>1 DEF PlacesInv, PlacesOK, Told, PlaceOK, Priority
  <1>6. QED BY <1>2, <1>3, <1>4, <1>5 DEF IdentityNext

\* LocationIsBest: the order of the payloads and of their rows does not matter but
\* among rows that are as good, for _merge_location and build_commercial_report.
THEOREM LocationsAreBest == IdentitySpec => []LocationIsBest
  <1>1. PlacesInv => LocationIsBest
    BY PlacesAreBest DEF PlacesInv, IdentityInv
  <1>2. QED BY <1>1, InitPlaces, NextPlaces, PTL DEF IdentitySpec
===============================================================================
