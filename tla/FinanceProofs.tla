---------------------------- MODULE FinanceProofs ----------------------------
(***************************************************************************)
(* The sums of the finance, inventory and product analyses are right, for  *)
(* any documents, debts and lines and in whatever order they are read, and *)
(* what a product offer says of a customer is what its documents say.      *)
(*                                                                         *)
(* Total adds the values of a function in an order that nothing tells.     *)
(* The first lemmas show that the order does not matter: whichever term    *)
(* is added last, a sum is that term and the sum of the others.  So a      *)
(* change of one term changes every sum that it enters by as much, and a   *)
(* grouping that adds up goes on adding up.                                *)
(***************************************************************************)
EXTENDS FinanceSales, FinanceCollections, Inventory, CommercialProducts,
        FiniteSetTheorems, WellFoundedInduction, SequenceTheorems, TLAPS

-----------------------------------------------------------------------------
(* Induction without an induction schema.                                   *)

\* A set of naturals that is not empty has a least element, because the intervals
\* from 0 to its elements are well-founded under inclusion.
LEMMA LeastElement ==
    ASSUME NEW T, T \subseteq Nat, T # {}
    PROVE  \E x \in T : \A y \in T : x <= y
<1>1. PICK z \in T : TRUE
  OBVIOUS
<1> DEFINE Upto(x) == 0 .. x
           S == Upto(z)
           U == {Upto(x) : x \in {y \in T : y <= z}}
<1>2. \A x \in Nat : IsFiniteSet(Upto(x))
  BY FS_Interval
<1>3. IsWellFoundedOn(StrictSubsetOrdering(S), FiniteSubsetsOf(S))
  BY FS_StrictSubsetOrderingWellFounded
<1>4. U \subseteq FiniteSubsetsOf(S) /\ U # {}
  BY <1>1, <1>2 DEF FiniteSubsetsOf
<1>5. PICK u \in U : \A v \in U : <<v, u>> \notin StrictSubsetOrdering(S)
  <2> HIDE DEF U, S
  <2> QED
    BY <1>3, <1>4, WFMin
<1>6. PICK x \in T : x <= z /\ u = Upto(x)
  BY <1>5
<1>7. ASSUME NEW y \in T, y < x PROVE FALSE
  <2>1. y \in Nat /\ x \in Nat /\ z \in Nat /\ y <= z
    BY <1>6, <1>7
  <2>2. Upto(y) \in U
    BY <2>1
  <2>3. <<Upto(y), u>> \in StrictSubsetOrdering(S)
    <3>1. Upto(y) \subseteq Upto(x) /\ x \in Upto(x) /\ x \notin Upto(y) /\ Upto(x) \subseteq S
      BY <1>6, <1>7, <2>1
    <3> QED
      BY <1>6, <3>1 DEF StrictSubsetOrdering
  <2> QED
    BY <1>5, <2>2, <2>3
<1> QED
  BY <1>6, <1>7

\* Induction, for a property given as the set of the numbers that have it.
LEMMA Induction ==
  ASSUME NEW P, 0 \in P, \A n \in Nat : n \in P => n + 1 \in P
  PROVE  Nat \subseteq P
  <1> SUFFICES ASSUME Nat \ P # {} PROVE FALSE
    OBVIOUS
  <1>1. PICK n \in Nat \ P : \A m \in Nat \ P : n <= m
    BY LeastElement
  <1>2. n # 0 /\ n - 1 \in Nat
    BY <1>1
  <1>3. n - 1 \in P
    BY <1>1, <1>2
  <1>4. n - 1 + 1 = n
    BY <1>1
  <1>5. QED BY <1>1, <1>2, <1>3, <1>4

\* The greatest place of a sequence that has something.
LEMMA GreatestElement ==
  ASSUME NEW n \in Nat, NEW S, S \subseteq 1 .. n, S # {}
  PROVE  Max(S) \in S /\ \A y \in S : Max(S) >= y
  <1> DEFINE T == {n - x : x \in S}
  <1>1. \A x \in S : x \in 1 .. n /\ n - x \in Nat
    OBVIOUS
  <1>2. PICK m \in T : \A k \in T : m <= k
    <2>1. T \subseteq Nat /\ T # {}
      BY <1>1
    <2> HIDE DEF T
    <2>2. QED BY <2>1, LeastElement
  <1>3. PICK x \in S : m = n - x
    BY <1>2
  <1>4. ASSUME NEW y \in S PROVE x >= y
    <2>1. n - y \in T
      OBVIOUS
    <2>2. n - x <= n - y
      BY <1>2, <1>3, <2>1
    <2>3. x \in Int /\ y \in Int
      BY <1>1
    <2>4. QED BY <2>2, <2>3
  <1> HIDE DEF T
  <1>5. QED BY <1>3, <1>4 DEF Max

-----------------------------------------------------------------------------
(* What Total is, of a function with finitely many integers.                *)

\* The term that MapThenSumSet adds last.
Any(s) == CHOOSE x \in s : TRUE

SumAt(f, g, s) == IF s = {} THEN 0 ELSE f[Any(s)] + g[s \ {Any(s)}]

\* The sums of a function over the subsets of its domain.
Sums(f) == CHOOSE g : g = [s \in SUBSET (DOMAIN f) |-> SumAt(f, g, s)]

LEMMA TotalIs == ASSUME NEW f PROVE Total(f) = Sums(f)[DOMAIN f]
  BY DEF Total, MapThenSumSet, MapThenFoldSet, Sums, SumAt, Any

LEMMA OneLess ==
  ASSUME NEW D, IsFiniteSet(D), NEW s \in SUBSET D
  PROVE  /\ IsFiniteSet(s) /\ Cardinality(s) \in Nat
         /\ Cardinality(s) = 0 <=> s = {}
         /\ \A x \in s : /\ s \ {x} \in SUBSET D
                         /\ Cardinality(s \ {x}) = Cardinality(s) - 1
  <1>1. IsFiniteSet(s)
    BY FS_Subset
  <1>2. QED BY <1>1, FS_CardinalityType, FS_EmptySet, FS_RemoveElement

LEMMA RemoveOne ==
  ASSUME NEW D, IsFiniteSet(D), NEW s, s \subseteq D, NEW x, x \in s
  PROVE  /\ s \ {x} \in SUBSET D
         /\ Cardinality(s) \in Nat /\ Cardinality(s \ {x}) = Cardinality(s) - 1
  BY OneLess

LEMMA SumsExist ==
  ASSUME NEW f, IsFiniteSet(DOMAIN f)
  PROVE  \E g : g = [s \in SUBSET (DOMAIN f) |-> SumAt(f, g, s)]
  <1> PICK D : D = DOMAIN f
    OBVIOUS
  <1> DEFINE Given(g, n) == \A s \in SUBSET D : Cardinality(s) <= n => g[s] = SumAt(f, g, s)
             P == {n \in Nat : \E g : Given(g, n)}
  <1>1. 0 \in P
    <2>1. Given([s \in SUBSET D |-> 0], 0)
      <3>1. \A s \in SUBSET D : Cardinality(s) <= 0 => s = {}
        BY OneLess
      <3>2. QED BY <3>1 DEF SumAt
    <2>2. QED BY <2>1
  <1>2. ASSUME NEW n \in Nat, n \in P PROVE n + 1 \in P
    <2>1. PICK g : Given(g, n)
      BY <1>2
    <2> DEFINE h == [s \in SUBSET D |-> IF Cardinality(s) <= n THEN g[s] ELSE SumAt(f, g, s)]
    <2>2. ASSUME NEW s \in SUBSET D, Cardinality(s) <= n + 1
          PROVE  h[s] = SumAt(f, h, s)
      <3>1. h[s] = SumAt(f, g, s)
        BY <2>1
      <3>2. CASE s = {}
        BY <3>1, <3>2 DEF SumAt
      <3>3. CASE s # {}
        <4>1. Any(s) \in s
          BY <3>3 DEF Any
        <4>2. s \ {Any(s)} \in SUBSET D /\ Cardinality(s \ {Any(s)}) <= n
          BY <4>1, <2>2, OneLess
        <4>3. h[s \ {Any(s)}] = g[s \ {Any(s)}]
          BY <4>2
        <4>4. QED BY <3>1, <3>3, <4>3 DEF SumAt
      <3>4. QED BY <3>2, <3>3
    <2>3. Given(h, n + 1)
      BY <2>2
    <2> HIDE DEF h, Given
    <2>4. QED BY <2>3
  <1>3. Cardinality(D) \in P
    <2> HIDE DEF P
    <2>1. QED BY <1>1, <1>2, Induction, OneLess
  <1>4. PICK g : Given(g, Cardinality(D))
    BY <1>3
  <1>5. \A s \in SUBSET D : g[s] = SumAt(f, g, s)
    <2>1. ASSUME NEW s \in SUBSET D PROVE Cardinality(s) <= Cardinality(D)
      BY FS_Subset
    <2>2. QED BY <1>4, <2>1
  <1> DEFINE h == [s \in SUBSET D |-> g[s]]
  <1>6. ASSUME NEW s \in SUBSET D PROVE h[s] = SumAt(f, h, s)
    <2>1. CASE s = {}
      BY <1>5, <2>1 DEF SumAt
    <2>2. CASE s # {}
      <3>1. Any(s) \in s
        BY <2>2 DEF Any
      <3>2. s \ {Any(s)} \in SUBSET D
        OBVIOUS
      <3>3. QED BY <1>5, <2>2, <3>2 DEF SumAt
    <2>3. QED BY <2>1, <2>2
  <1>7. h = [s \in SUBSET D |-> SumAt(f, h, s)]
    BY <1>6
  <1> HIDE DEF h
  <1>8. QED BY <1>7

LEMMA SumsAre ==
  ASSUME NEW f, IsFiniteSet(DOMAIN f), NEW s \in SUBSET (DOMAIN f)
  PROVE  Sums(f)[s] = SumAt(f, Sums(f), s)
  <1>1. Sums(f) = [t \in SUBSET (DOMAIN f) |-> SumAt(f, Sums(f), t)]
    BY SumsExist DEF Sums
  <1> PICK g : g = Sums(f)
    OBVIOUS
  <1>2. g = [t \in SUBSET (DOMAIN f) |-> SumAt(f, g, t)]
    BY <1>1
  <1>3. QED BY <1>2

\* The terms of the sum.
Summable(f) == IsFiniteSet(DOMAIN f) /\ \A x \in DOMAIN f : f[x] \in Int

\* Whichever term is added last.
LEMMA AnyTermLast ==
  ASSUME NEW f, Summable(f), NEW s \in SUBSET (DOMAIN f)
  PROVE  /\ Sums(f)[s] \in Int
         /\ Sums(f)[{}] = 0
         /\ \A x \in s : Sums(f)[s] = f[x] + Sums(f)[s \ {x}]
  <1> PICK D : D = DOMAIN f
    OBVIOUS
  <1> DEFINE S(t) == Sums(f)[t]
             Fine(t) == S(t) \in Int /\ \A x \in t : S(t) = f[x] + S(t \ {x})
             P == {n \in Nat : \A t \in SUBSET D : Cardinality(t) <= n => Fine(t)}
  <1>1. S({}) = 0
    BY SumsAre DEF SumAt, Summable
  <1>2. 0 \in P
    <2>1. \A t \in SUBSET D : Cardinality(t) <= 0 => t = {}
      BY OneLess DEF Summable
    <2>2. Fine({})
      BY <1>1
    <2> HIDE DEF Fine
    <2>3. QED BY <2>1, <2>2
  <1>3. ASSUME NEW n \in Nat, n \in P PROVE n + 1 \in P
    <2>1. ASSUME NEW t \in SUBSET D, Cardinality(t) <= n + 1, t # {}
          PROVE  Fine(t)
      <3> PICK y : y = Any(t)
        OBVIOUS
      <3>1. y \in t
        BY <2>1 DEF Any
      <3>2. S(t) = f[y] + S(t \ {y})
        BY <2>1, SumsAre DEF SumAt, Summable
      <3>3. \A x \in t : /\ t \ {x} \in SUBSET D /\ Cardinality(t \ {x}) <= n
                         /\ f[x] \in Int
        BY <2>1, OneLess DEF Summable
      <3>4. \A x \in t : Fine(t \ {x})
        <4> HIDE DEF Fine
        <4>1. QED BY <1>3, <3>3
      <3>5. S(t) \in Int
        <4>1. S(t \ {y}) \in Int /\ f[y] \in Int
          BY <3>1, <3>3, <3>4
        <4> HIDE DEF S
        <4>2. QED BY <3>2, <4>1
      <3>6. ASSUME NEW x \in t, x # y PROVE S(t) = f[x] + S(t \ {x})
        <4>1. S(t \ {y}) = f[x] + S((t \ {y}) \ {x})
          BY <3>1, <3>4, <3>6
        <4>2. S(t \ {x}) = f[y] + S((t \ {x}) \ {y})
          BY <3>1, <3>4, <3>6
        <4>3. (t \ {y}) \ {x} = (t \ {x}) \ {y}
          OBVIOUS
        <4>4. S((t \ {x}) \ {y}) \in Int
          <5> PICK u : u = t \ {x}
            OBVIOUS
          <5>1. u \in SUBSET D /\ Cardinality(u) <= n /\ y \in u
            BY <3>1, <3>3, <3>6
          <5>2. u \ {y} \in SUBSET D /\ Cardinality(u \ {y}) <= n
            BY <5>1, RemoveOne DEF Summable
          <5>3. Fine(u \ {y})
            <6> HIDE DEF Fine
            <6>1. QED BY <1>3, <5>2
          <5>4. QED BY <5>3
        <4>5. f[x] \in Int /\ f[y] \in Int
          BY <3>1, <3>3
        <4>6. PICK r \in Int : r = S((t \ {x}) \ {y})
          BY <4>4
        <4>7. S(t \ {y}) = f[x] + r /\ S(t \ {x}) = f[y] + r
          BY <4>1, <4>2, <4>3, <4>6
        <4>8. S(t) = f[y] + (f[x] + r)
          BY <3>2, <4>7
        <4>9. f[y] + (f[x] + r) = f[x] + (f[y] + r)
          BY <4>5
        <4>10. QED BY <4>7, <4>8, <4>9
      <3>7. QED BY <3>2, <3>5, <3>6
    <2>2. Fine({})
      BY <1>1
    <2> HIDE DEF Fine
    <2>3. QED BY <2>1, <2>2
  <1>4. Cardinality(s) \in P
    <2> HIDE DEF P
    <2>1. QED BY <1>2, <1>3, Induction, OneLess DEF Summable
  <1>5. Fine(s)
    BY <1>4, OneLess DEF Summable
  <1>6. QED BY <1>1, <1>5

LEMMA LastTerm ==
  ASSUME NEW f, Summable(f), NEW s, s \subseteq DOMAIN f, NEW x, x \in s
  PROVE  Sums(f)[s] = f[x] + Sums(f)[s \ {x}]
  BY AnyTermLast

\* Sums of what is equal are equal.
LEMMA SameTerms ==
  ASSUME NEW f, NEW g, Summable(f), Summable(g), NEW s,
         s \in SUBSET (DOMAIN f), s \in SUBSET (DOMAIN g), \A x \in s : f[x] = g[x]
  PROVE  Sums(f)[s] = Sums(g)[s]
  <1> DEFINE P == {n \in Nat : \A t \in SUBSET s : Cardinality(t) <= n => Sums(f)[t] = Sums(g)[t]}
  <1>1. IsFiniteSet(s)
    BY FS_Subset DEF Summable
  <1>2. 0 \in P
    <2>1. \A t \in SUBSET s : Cardinality(t) <= 0 => t = {}
      BY <1>1, OneLess
    <2>2. Sums(f)[{}] = 0 /\ Sums(g)[{}] = 0
      BY AnyTermLast
    <2>3. QED BY <2>1, <2>2
  <1>3. ASSUME NEW n \in Nat, n \in P PROVE n + 1 \in P
    <2>1. ASSUME NEW t \in SUBSET s, Cardinality(t) <= n + 1, NEW x \in t
          PROVE  Sums(f)[t] = Sums(g)[t]
      <3>1. t \ {x} \in SUBSET s /\ Cardinality(t \ {x}) <= n
        BY <1>1, <2>1, OneLess
      <3>2. Sums(f)[t \ {x}] = Sums(g)[t \ {x}]
        BY <1>3, <3>1
      <3>3. Sums(f)[t] = f[x] + Sums(f)[t \ {x}] /\ Sums(g)[t] = g[x] + Sums(g)[t \ {x}]
        BY AnyTermLast
      <3>4. QED BY <3>2, <3>3
    <2>2. Sums(f)[{}] = Sums(g)[{}]
      BY AnyTermLast
    <2>3. QED BY <2>1, <2>2
  <1>4. Cardinality(s) \in P
    <2> HIDE DEF P
    <2>1. QED BY <1>1, <1>2, <1>3, Induction, OneLess
  <1>5. QED BY <1>1, <1>4, OneLess

\* What a term adds, and what a change of one term changes.
LEMMA TotalAdds ==
  ASSUME NEW f, NEW g, NEW k, Summable(f), Summable(g), k \in DOMAIN g,
         DOMAIN f = DOMAIN g \ {k}, \A x \in DOMAIN f : f[x] = g[x]
  PROVE  Total(g) = Total(f) + g[k]
  <1> PICK s : s = DOMAIN g
    OBVIOUS
  <1>1. Sums(g)[DOMAIN g] = g[k] + Sums(g)[DOMAIN g \ {k}]
    <2>1. s \in SUBSET (DOMAIN g) /\ k \in s
      OBVIOUS
    <2>2. Sums(g)[s] = g[k] + Sums(g)[s \ {k}]
      BY <2>1, LastTerm
    <2>3. QED BY <2>2
  <1>2. Sums(f)[DOMAIN f] = Sums(g)[DOMAIN g \ {k}]
    BY SameTerms
  <1>3. Sums(f)[DOMAIN f] \in Int /\ g[k] \in Int
    BY AnyTermLast DEF Summable
  <1>4. QED BY <1>1, <1>2, <1>3, TotalIs

LEMMA TotalMoves ==
  ASSUME NEW f, NEW g, NEW k, Summable(f), Summable(g), k \in DOMAIN g,
         DOMAIN f = DOMAIN g, \A x \in DOMAIN f : x # k => f[x] = g[x]
  PROVE  Total(g) = Total(f) - f[k] + g[k]
  <1> DEFINE D == DOMAIN g \ {k}
  <1>1. /\ Sums(g)[DOMAIN g] = g[k] + Sums(g)[D]
        /\ Sums(f)[DOMAIN g] = f[k] + Sums(f)[D]
    <2> PICK s : s = DOMAIN g
      OBVIOUS
    <2>1. s \in SUBSET (DOMAIN g) /\ s \in SUBSET (DOMAIN f) /\ k \in s
      OBVIOUS
    <2>2. Sums(g)[s] = g[k] + Sums(g)[s \ {k}] /\ Sums(f)[s] = f[k] + Sums(f)[s \ {k}]
      BY <2>1, LastTerm
    <2>3. QED BY <2>2
  <1>2. Sums(f)[D] = Sums(g)[D]
    BY SameTerms
  <1>3. Sums(f)[D] \in Int /\ g[k] \in Int /\ f[k] \in Int
    BY AnyTermLast DEF Summable
  <1> HIDE DEF D
  <1>4. QED BY <1>1, <1>2, <1>3, TotalIs

LEMMA TotalSame ==
  ASSUME NEW f, NEW g, Summable(f), Summable(g), DOMAIN f = DOMAIN g,
         \A x \in DOMAIN f : f[x] = g[x]
  PROVE  Total(f) = Total(g)
  BY SameTerms, TotalIs

LEMMA TotalIsInt == ASSUME NEW f, Summable(f) PROVE Total(f) \in Int
  BY AnyTermLast, TotalIs

LEMMA TotalZero ==
  ASSUME NEW f, IsFiniteSet(DOMAIN f), \A x \in DOMAIN f : f[x] = 0
  PROVE  Total(f) = 0
  <1> DEFINE P == {n \in Nat : \A t \in SUBSET (DOMAIN f) : Cardinality(t) <= n => Sums(f)[t] = 0}
  <1>1. Summable(f)
    BY DEF Summable
  <1>2. 0 \in P
    <2>1. \A t \in SUBSET (DOMAIN f) : Cardinality(t) <= 0 => t = {}
      BY OneLess
    <2>2. QED BY <1>1, <2>1, AnyTermLast
  <1>3. ASSUME NEW n \in Nat, n \in P PROVE n + 1 \in P
    <2>1. ASSUME NEW t \in SUBSET (DOMAIN f), Cardinality(t) <= n + 1, NEW x \in t
          PROVE  Sums(f)[t] = 0
      <3>1. t \ {x} \in SUBSET (DOMAIN f) /\ Cardinality(t \ {x}) <= n
        BY <2>1, OneLess
      <3>2. Sums(f)[t \ {x}] = 0
        BY <1>3, <3>1
      <3>3. Sums(f)[t] = f[x] + Sums(f)[t \ {x}] /\ f[x] = 0
        BY <1>1, LastTerm
      <3>4. QED BY <3>2, <3>3
    <2>2. Sums(f)[{}] = 0
      BY <1>1, AnyTermLast
    <2>3. QED BY <2>1, <2>2
  <1>4. Cardinality(DOMAIN f) \in P
    <2> HIDE DEF P
    <2>1. QED BY <1>2, <1>3, Induction, OneLess
  <1>5. QED BY <1>4, OneLess, TotalIs

-----------------------------------------------------------------------------
(* FinanceCollections: what is owed.                                        *)

AllSums == [amount : Int, overdue : Int, next30 : Int]

CollectionsOK ==
    /\ documents \in Books
    /\ sums \in AllSums /\ aging \in [Buckets -> Int] /\ byCustomer \in [Debtors -> AllSums]

CollectionsInv == CollectionsOK /\ DebtReconciles

LEMMA BucketsFinite == IsFiniteSet(Buckets)
  <1>1. Buckets = {"current", "1-30", "31-60", "61-90", "over 90"} \cup {"undated"}
    BY DEF Buckets
  <1>2. /\ IsFiniteSet({}) /\ IsFiniteSet({} \cup {"current"})
    BY FS_EmptySet, FS_AddElement
  <1>3. IsFiniteSet({} \cup {"current"} \cup {"1-30"})
    BY <1>2, FS_AddElement
  <1>4. IsFiniteSet({} \cup {"current"} \cup {"1-30"} \cup {"31-60"})
    BY <1>3, FS_AddElement
  <1>5. IsFiniteSet({} \cup {"current"} \cup {"1-30"} \cup {"31-60"} \cup {"61-90"})
    BY <1>4, FS_AddElement
  <1>6. IsFiniteSet({} \cup {"current"} \cup {"1-30"} \cup {"31-60"} \cup {"61-90"} \cup {"over 90"})
    BY <1>5, FS_AddElement
  <1>7. {} \cup {"current"} \cup {"1-30"} \cup {"31-60"} \cup {"61-90"} \cup {"over 90"}
        = {"current", "1-30", "31-60", "61-90", "over 90"}
    OBVIOUS
  <1>8. QED BY <1>1, <1>6, <1>7, FS_AddElement

\* A row whose amount and day can be read, whatever its document adds.
LEMMA CompletedOK ==
  ASSUME documents \in Books, NEW row, Readable(row)
  PROVE  /\ Owed(row) \in Int
         /\ Completed(row).due \in Int \cup {None}
         /\ row.customer \in {None} \cup {r.customer : r \in ReceivableRows} =>
              Debtor(Completed(row)) \in Debtors
  <1> DEFINE by(field) == {i \in DOMAIN documents : row[field] # None
                                                    /\ documents[i][field] = row[field]}
  <1>1. ASSUME NEW field, by(field) # {} PROVE Max(by(field)) \in DOMAIN documents
    <2>1. by(field) \subseteq 1 .. Len(documents) /\ Len(documents) \in Nat
      BY CollectionsAssumption
    <2>2. Max(by(field)) \in by(field)
      BY <1>1, <2>1, GreatestElement
    <2>3. QED BY <2>2
  <1>2. Behind(row) = row \/ \E i \in DOMAIN documents : Behind(row) = documents[i]
    BY <1>1 DEF Behind
  <1>3. Readable(Behind(row))
    BY <1>2, CollectionsAssumption
  <1>4. Owed(row) \in Int /\ Completed(row).due \in Int \cup {None}
    BY <1>3 DEF Owed, Reported, Completed, Readable
  <1>5. ASSUME row.customer \in {None} \cup {r.customer : r \in ReceivableRows}
        PROVE  Debtor(Completed(row)) \in Debtors
    <2>1. \A i \in DOMAIN documents :
            documents[i].customer \in UNION {{b[j].customer : j \in DOMAIN b} : b \in Books}
      OBVIOUS
    <2>2. Completed(row).customer \in {row.customer, Behind(row).customer}
      BY DEF Completed
    <2>3. QED BY <1>2, <1>5, <2>1, <2>2 DEF Debtor, Debtors
  <1>6. QED BY <1>4, <1>5

\* What stands in one place for each customer.
Part(f, field) == [x \in Debtors |-> f[x][field]]

\* A debt moves the sums of its customer, and those of no other.
LEMMA PartsMove ==
  ASSUME NEW f \in [Debtors -> AllSums], NEW c \in Debtors, NEW s \in AllSums,
         NEW g, g = [f EXCEPT ![c] = s], NEW field \in {"amount", "overdue", "next30"}
  PROVE  /\ Total(Part(g, field)) = Total(Part(f, field)) - f[c][field] + s[field]
         /\ Total(Part(f, field)) \in Int
  <1> DEFINE p == Part(f, field)
             q == Part(g, field)
  <1>1. Summable(p) /\ Summable(q)
    BY CollectionsAssumption DEF Summable, AllSums, Part
  <1>2. DOMAIN p = DOMAIN q /\ c \in DOMAIN q /\ \A x \in DOMAIN p : x # c => p[x] = q[x]
    BY DEF Part
  <1>3. p[c] = f[c][field] /\ q[c] = s[field]
    BY DEF Part
  <1> HIDE DEF p, q
  <1>4. Total(q) = Total(p) - p[c] + q[c] /\ Total(p) \in Int
    BY <1>1, <1>2, TotalMoves, TotalIsInt
  <1>5. QED BY <1>3, <1>4 DEF p, q

\* The buckets tell the same of a day as the sums.
LEMMA BucketTells ==
  ASSUME NEW due \in Int \cup {None}
  PROVE  /\ Bucket(due) \in Buckets
         /\ DaysOverdue(due) > 0 <=> Bucket(due) \notin {"current", "undated"}
         /\ Soon(due) => Bucket(due) = "current"
  BY DEF Bucket, Buckets, DaysOverdue, Soon

LEMMA AddDebt ==
  ASSUME CollectionsInv, documents' = documents,
         NEW amount \in Nat, NEW due \in Int \cup {None}, NEW c \in Debtors,
         sums' = With(sums, amount, due),
         aging' = [aging EXCEPT ![Bucket(due)] = @ + amount],
         byCustomer' = [byCustomer EXCEPT ![c] = With(@, amount, due)]
  PROVE  CollectionsInv'
  <1> PICK b \in Buckets : b = Bucket(due)
    BY BucketTells
  <1>1. /\ DaysOverdue(due) > 0 <=> b \notin {"current", "undated"}
        /\ Soon(due) => b = "current"
    BY BucketTells
  <1> PICK s : s = With(byCustomer[c], amount, due)
    OBVIOUS
  <1>2. byCustomer \in [Debtors -> AllSums] /\ sums \in AllSums /\ aging \in [Buckets -> Int]
    BY DEF CollectionsInv, CollectionsOK
  <1>3. /\ s \in AllSums
        /\ s.amount = byCustomer[c].amount + amount
        /\ s.overdue = IF DaysOverdue(due) > 0 THEN byCustomer[c].overdue + amount
                                               ELSE byCustomer[c].overdue
        /\ s.next30 = IF Soon(due) THEN byCustomer[c].next30 + amount ELSE byCustomer[c].next30
    BY <1>2 DEF With, AllSums
  <1>4. /\ sums' \in AllSums
        /\ sums'.amount = sums.amount + amount
        /\ sums'.overdue = IF DaysOverdue(due) > 0 THEN sums.overdue + amount ELSE sums.overdue
        /\ sums'.next30 = IF Soon(due) THEN sums.next30 + amount ELSE sums.next30
    BY <1>2 DEF With, AllSums
  <1>5. /\ aging' \in [Buckets -> Int] /\ byCustomer' \in [Debtors -> AllSums]
        /\ byCustomer' = [byCustomer EXCEPT ![c] = s]
        /\ aging'[b] = aging[b] + amount /\ \A x \in Buckets : x # b => aging'[x] = aging[x]
    BY <1>2, <1>3
  <1>6. Total(aging') = Total(aging) + amount
    <2>1. Summable(aging) /\ Summable(aging')
      BY <1>2, <1>5, BucketsFinite DEF Summable
    <2> PICK f : f = aging
      OBVIOUS
    <2> PICK g : g = aging'
      OBVIOUS
    <2>2. Total(g) = Total(f) - f[b] + g[b]
      <3>1. /\ Summable(f) /\ Summable(g) /\ b \in DOMAIN g
            /\ DOMAIN f = DOMAIN g /\ \A x \in DOMAIN f : x # b => f[x] = g[x]
        BY <1>2, <1>5, <2>1
      <3>2. QED BY ONLY <3>1, TotalMoves
    <2>3. Total(aging) \in Int /\ aging[b] \in Int
      BY <1>2, <2>1, TotalIsInt
    <2>4. QED BY <1>5, <2>2, <2>3
  <1> PICK f : f = byCustomer
    OBVIOUS
  <1> PICK g : g = byCustomer'
    OBVIOUS
  <1>0. f \in [Debtors -> AllSums] /\ g = [f EXCEPT ![c] = s]
    BY <1>2, <1>5
  <1>7. /\ Total(Part(g, "amount")) = Total(Part(f, "amount")) - f[c]["amount"] + s["amount"]
        /\ Total(Part(f, "amount")) \in Int
    BY ONLY <1>0, <1>3, c \in Debtors, PartsMove
  <1>8. /\ Total(Part(g, "overdue")) = Total(Part(f, "overdue")) - f[c]["overdue"] + s["overdue"]
        /\ Total(Part(f, "overdue")) \in Int
    BY ONLY <1>0, <1>3, c \in Debtors, PartsMove
  <1>9. /\ Total(Part(g, "next30")) = Total(Part(f, "next30")) - f[c]["next30"] + s["next30"]
        /\ Total(Part(f, "next30")) \in Int
    BY ONLY <1>0, <1>3, c \in Debtors, PartsMove
  <1>10. /\ byCustomer[c].amount \in Int /\ byCustomer[c].overdue \in Int /\ byCustomer[c].next30 \in Int
         /\ sums.amount \in Int /\ sums.overdue \in Int /\ sums.next30 \in Int
         /\ aging["current"] \in Int /\ aging["undated"] \in Int
    BY <1>2 DEF AllSums, Buckets
  <1>11. /\ Total(aging) = sums.amount
         /\ Total(Part(f, "amount")) = sums.amount
         /\ Total(Part(f, "overdue")) = sums.overdue
         /\ Total(Part(f, "next30")) = sums.next30
         /\ sums.overdue = sums.amount - aging["current"] - aging["undated"]
         /\ sums.next30 <= aging["current"]
    BY DEF CollectionsInv, DebtReconciles, Part
  <1>12. Total(aging') = sums'.amount
    BY <1>4, <1>6, <1>11
  <1>13. Total(Part(g, "amount")) = sums'.amount
    BY <1>3, <1>4, <1>7, <1>10, <1>11
  <1>14. Total(Part(g, "overdue")) = sums'.overdue
    BY <1>3, <1>4, <1>8, <1>10, <1>11
  <1>15. Total(Part(g, "next30")) = sums'.next30
    BY <1>3, <1>4, <1>9, <1>10, <1>11
  <1>16. /\ sums'.overdue = sums'.amount - aging'["current"] - aging'["undated"]
         /\ sums'.next30 <= aging'["current"]
    <2>1. "current" \in Buckets /\ "undated" \in Buckets
      BY DEF Buckets
    <2>2. CASE b = "current"
      BY <1>1, <1>4, <1>5, <1>10, <1>11, <2>1, <2>2
    <2>3. CASE b = "undated"
      BY <1>1, <1>4, <1>5, <1>10, <1>11, <2>1, <2>3
    <2>4. CASE b \notin {"current", "undated"}
      BY <1>1, <1>4, <1>5, <1>10, <1>11, <2>1, <2>4
    <2>5. QED BY <2>2, <2>3, <2>4
  <1>17. DebtReconciles'
    BY <1>12, <1>13, <1>14, <1>15, <1>16 DEF DebtReconciles, Part
  <1>18. CollectionsOK'
    BY <1>4, <1>5 DEF CollectionsInv, CollectionsOK
  <1>19. QED BY <1>17, <1>18 DEF CollectionsInv

LEMMA NoDebtAdded ==
  ASSUME CollectionsInv, UNCHANGED <<documents, sums, aging, byCustomer>> PROVE CollectionsInv'
  BY DEF CollectionsInv, CollectionsOK, DebtReconciles

LEMMA ReviewInv ==
  ASSUME CollectionsInv, NEW row, Readable(row), Review(row),
         row.customer \in {None} \cup {r.customer : r \in ReceivableRows}
  PROVE  CollectionsInv'
  <1>1. CASE Owed(row) <= 0
    BY <1>1, NoDebtAdded DEF Review
  <1>2. CASE ~(Owed(row) <= 0)
    <2>1. /\ Owed(row) \in Int /\ Completed(row).due \in Int \cup {None}
          /\ Debtor(Completed(row)) \in Debtors
      BY CompletedOK DEF CollectionsInv, CollectionsOK
    <2>2. Owed(row) \in Nat
      BY <1>2, <2>1
    <2>3. /\ sums' = With(sums, Owed(row), Completed(row).due)
          /\ aging' = [aging EXCEPT ![Bucket(Completed(row).due)] = @ + Owed(row)]
          /\ byCustomer' = [byCustomer EXCEPT ![Debtor(Completed(row))] =
                              With(@, Owed(row), Completed(row).due)]
          /\ documents' = documents
      BY <1>2 DEF Review
    <2>4. QED BY <2>1, <2>2, <2>3, AddDebt
  <1>3. QED BY <1>1, <1>2

LEMMA InitCollections == CollectionsInit => CollectionsInv
  <1> SUFFICES ASSUME CollectionsInit PROVE CollectionsInv
    OBVIOUS
  <1>1. CollectionsOK
    BY DEF CollectionsInit, CollectionsOK, AllSums, NoDebt
  <1>2. Total(aging) = 0
    BY BucketsFinite, TotalZero DEF CollectionsInit
  <1>3. ASSUME NEW field \in {"amount", "overdue", "next30"}
        PROVE  Total([x \in Debtors |-> byCustomer[x][field]]) = 0
    <2> DEFINE p == [x \in Debtors |-> byCustomer[x][field]]
    <2>1. IsFiniteSet(DOMAIN p) /\ \A x \in DOMAIN p : p[x] = 0
      BY CollectionsAssumption DEF CollectionsInit, NoDebt
    <2> HIDE DEF p
    <2>2. Total(p) = 0
      BY <2>1, TotalZero
    <2>3. QED BY <2>2 DEF p
  <1>4. /\ sums.amount = 0 /\ sums.overdue = 0 /\ sums.next30 = 0
        /\ aging["current"] = 0 /\ aging["undated"] = 0
    BY DEF CollectionsInit, NoDebt, Buckets
  <1>5. /\ Total([x \in Debtors |-> byCustomer[x].amount]) = 0
        /\ Total([x \in Debtors |-> byCustomer[x].overdue]) = 0
        /\ Total([x \in Debtors |-> byCustomer[x].next30]) = 0
    BY <1>3
  <1>6. QED BY <1>1, <1>2, <1>4, <1>5 DEF CollectionsInv, DebtReconciles

LEMMA NextCollections == CollectionsInv /\ [CollectionsNext]_collectionsVars => CollectionsInv'
  <1> SUFFICES ASSUME CollectionsInv, [CollectionsNext]_collectionsVars PROVE CollectionsInv'
    OBVIOUS
  <1>1. CASE ReviewOfficial
    <2>1. PICK row \in ReceivableRows : Review(row)
      BY <1>1 DEF ReviewOfficial
    <2>2. Readable(row)
      BY CollectionsAssumption
    <2>3. QED BY <2>1, <2>2, ReviewInv
  <1>2. CASE ReviewPdf
    <2>1. PICK i \in Pdfs : Review(PdfRow(documents[i]))
      BY <1>2 DEF ReviewPdf
    <2>2. Readable(PdfRow(documents[i])) /\ PdfRow(documents[i]).customer = None
      BY CollectionsAssumption DEF Pdfs, PdfRow, Readable, CollectionsInv, CollectionsOK
    <2>3. QED BY <2>1, <2>2, ReviewInv
  <1>3. CASE ReviewDocument \/ UNCHANGED collectionsVars
    BY <1>3, NoDebtAdded DEF ReviewDocument, collectionsVars
  <1>4. QED BY <1>1, <1>2, <1>3 DEF CollectionsNext

\* DebtReconciles: however _collections_snapshot divides the debt, and whether
\* it comes from the official listing or from the documents, the parts add up.
THEOREM DebtAlwaysReconciles == CollectionsSpec => []DebtReconciles
  <1>1. CollectionsInv => DebtReconciles
    BY DEF CollectionsInv
  <1>2. QED BY <1>1, InitCollections, NextCollections, PTL DEF CollectionsSpec

-----------------------------------------------------------------------------
(* FinanceSales: what is sold and bought.                                   *)

Months == {MonthOf(x) : x \in Dates \cup {None}}

DatedNets == [date : Dates, net : Int]

SumsFields == {"net", "tax", "gross", "documents", "months", "days", "partners", "dated"}

\* What is summed, and that it adds up.
SumsOK(s) ==
    /\ DOMAIN s = SumsFields
    /\ s.net \in Int /\ s.tax \in Int /\ s.gross \in Int
    /\ s.months \in [Months -> Int] /\ s.days \in [Dates -> Int] /\ s.partners \in [Partners -> Int]
    /\ s.dated \in Seq(DatedNets)
    /\ Total(s.months) = s.net
    /\ Total(s.partners) = s.net
    /\ Total(s.days) = s.net - s.months[Undated]
    /\ s.net + s.tax = s.gross

DatesRead == {sales.dated[i].date : i \in DOMAIN sales.dated}
             \cup {purchases.dated[i].date : i \in DOMAIN purchases.dated}

\* There is a latest day of what was read.
LatestOK == DatesRead # {} => \E x \in DatesRead : \A y \in DatesRead : Before(y, x)

SalesInv == SumsOK(sales) /\ SumsOK(purchases) /\ LatestOK

LEMMA FiniteImage ==
  ASSUME NEW S, IsFiniteSet(S), NEW f, DOMAIN f = S
  PROVE  IsFiniteSet({f[x] : x \in S})
  <1> DEFINE T == {f[x] : x \in S}
             g == [x \in S |-> f[x]]
  <1>1. g \in Surjection(S, T)
    BY DEF Surjection
  <1> HIDE DEF T, g
  <1>2. IsFiniteSet(T)
    BY <1>1, FS_Surjection
  <1>3. QED BY <1>2 DEF T

LEMMA DatesFinite == IsFiniteSet(Dates) /\ IsFiniteSet(Months) /\ IsFiniteSet(Partners)
  <1>1. IsFiniteSet({d.date : d \in Documents})
    <2> DEFINE f == [d \in Documents |-> d.date]
    <2>1. IsFiniteSet({f[d] : d \in Documents})
      BY SalesAssumption, FiniteImage
    <2>2. QED BY <2>1
  <1>2. IsFiniteSet(Dates)
    BY <1>1, FS_Subset DEF Dates
  <1>3. IsFiniteSet(Months)
    <2> DEFINE f == [x \in Dates \cup {None} |-> MonthOf(x)]
    <2>1. IsFiniteSet(Dates \cup {None})
      BY <1>2, FS_AddElement
    <2>2. IsFiniteSet({f[x] : x \in Dates \cup {None}})
      BY <2>1, FiniteImage
    <2>3. {f[x] : x \in Dates \cup {None}} = Months
      BY DEF Months
    <2> HIDE DEF f
    <2>4. QED BY <2>2, <2>3
  <1>4. IsFiniteSet({Customer(d) : d \in Documents})
    <2> DEFINE f == [d \in Documents |-> Customer(d)]
    <2>1. IsFiniteSet({f[d] : d \in Documents})
      BY SalesAssumption, FiniteImage
    <2>2. QED BY <2>1
  <1>5. IsFiniteSet({Supplier(d) : d \in Documents})
    <2> DEFINE f == [d \in Documents |-> Supplier(d)]
    <2>1. IsFiniteSet({f[d] : d \in Documents})
      BY SalesAssumption, FiniteImage
    <2>2. QED BY <2>1
  <1>6. IsFiniteSet(Partners)
    BY <1>4, <1>5, FS_Union DEF Partners
  <1>7. QED BY <1>2, <1>3, <1>6

LEMMA DateOK ==
  ASSUME NEW x \in Dates
  PROVE  /\ x[1] \in Nat /\ x[2] \in Nat /\ x[3] \in Nat /\ x[1] # 0
         /\ x[2] = 2 /\ x[3] = 29 => x[1] \in LeapYears
         /\ x = <<x[1], x[2], x[3]>>
  BY SalesAssumption DEF Dates

\* Every document of coherent amounts has a net and a tax that make its gross.
LEMMA AmountsOK ==
  ASSUME NEW d \in Documents, NEW a, a = Amounts(d)
  PROVE  a.net \in Nat /\ a.tax \in Nat /\ a.gross \in Nat /\ a.net + a.tax = a.gross
  <1>1. Coherent(d) /\ None \notin Nat
    BY SalesAssumption
  <1>2. ASSUME NEW n \in Nat
        PROVE  /\ (n * 100) \div 119 \in Nat /\ (n * 100) \div 119 <= n
               /\ (n * 19) \div 100 \in Nat
               /\ (n * 119) \div 100 \in Nat /\ n <= (n * 119) \div 100
    BY SMT
  <1>3. CASE d.net # None /\ d.gross # None
    BY <1>1, <1>3 DEF Amounts, Coherent
  <1>4. CASE d.net # None /\ d.gross = None
    BY <1>1, <1>2, <1>4 DEF Amounts, Coherent
  <1>5. CASE d.net = None /\ d.gross # None
    BY <1>1, <1>2, <1>5 DEF Amounts, Coherent
  <1>6. CASE d.net = None /\ d.gross = None
    BY <1>1, <1>2, <1>6 DEF Amounts, Coherent
  <1>7. QED BY <1>3, <1>4, <1>5, <1>6

LEMMA PurchaseAmountsOK ==
  ASSUME NEW d \in Documents, NEW a, a = PurchaseAmounts(d)
  PROVE  a.net \in Int /\ a.tax \in Int /\ a.gross \in Int /\ a.net + a.tax = a.gross
  <1> PICK b : b = Amounts(d)
    OBVIOUS
  <1>1. b.net \in Nat /\ b.tax \in Nat /\ b.gross \in Nat /\ b.net + b.tax = b.gross
    BY AmountsOK
  <1>2. Absolute(b.net) = b.net /\ Absolute(b.tax) = b.tax /\ Absolute(b.gross) = b.gross
    BY <1>1 DEF Absolute
  <1>3. a = b \/ (a.net = -b.net /\ a.tax = -b.tax /\ a.gross = -b.gross)
    BY <1>2 DEF PurchaseAmounts
  <1>4. QED BY <1>1, <1>3

\* A change of one term by n changes the sum by n.
LEMMA TotalRises ==
  ASSUME NEW D, IsFiniteSet(D), NEW f \in [D -> Int], NEW k \in D, NEW n \in Int,
         NEW g, g = [f EXCEPT ![k] = @ + n]
  PROVE  g \in [D -> Int] /\ Total(g) = Total(f) + n /\ Total(f) \in Int
  <1>1. g \in [D -> Int] /\ g[k] = f[k] + n /\ f[k] \in Int
    OBVIOUS
  <1>2. Summable(f) /\ Summable(g) /\ k \in DOMAIN g
        /\ DOMAIN f = DOMAIN g /\ \A x \in DOMAIN f : x # k => f[x] = g[x]
    BY <1>1 DEF Summable
  <1>3. Total(g) = Total(f) - f[k] + g[k] /\ Total(f) \in Int
    BY ONLY <1>2, TotalMoves, TotalIsInt
  <1>4. QED BY <1>1, <1>3

LEMMA BookedOK ==
  ASSUME NEW s, SumsOK(s), NEW d \in Documents, NEW p \in Partners, NEW a,
         a.net \in Int /\ a.tax \in Int /\ a.gross \in Int /\ a.net + a.tax = a.gross,
         NEW t, t = Booked(s, d, p, a)
  PROVE  /\ SumsOK(t)
         /\ t.dated = IF d.date = None THEN s.dated
                      ELSE Append(s.dated, [date |-> d.date, net |-> a.net])
  <1>1. /\ DOMAIN t = SumsFields
        /\ t.net = s.net + a.net /\ t.tax = s.tax + a.tax /\ t.gross = s.gross + a.gross
        /\ t.months = [s.months EXCEPT ![MonthOf(d.date)] = @ + a.net]
        /\ t.days = [x \in Dates |-> IF x = d.date THEN s.days[x] + a.net ELSE s.days[x]]
        /\ t.partners = [s.partners EXCEPT ![p] = @ + a.net]
        /\ t.dated = IF d.date = None THEN s.dated
                     ELSE Append(s.dated, [date |-> d.date, net |-> a.net])
    BY DEF Booked, SumsOK, SumsFields
  <1>2. MonthOf(d.date) \in Months /\ d.date \in Dates \cup {None}
    BY DEF Months, Dates
  <1>3. /\ s.net \in Int /\ s.tax \in Int /\ s.gross \in Int /\ s.net + s.tax = s.gross
        /\ s.months \in [Months -> Int] /\ s.days \in [Dates -> Int]
        /\ s.partners \in [Partners -> Int] /\ s.dated \in Seq(DatedNets)
        /\ Total(s.months) = s.net /\ Total(s.partners) = s.net
        /\ Total(s.days) = s.net - s.months[Undated]
    BY DEF SumsOK
  <1>4. t.months \in [Months -> Int] /\ Total(t.months) = t.net
    <2> PICK f : f = s.months
      OBVIOUS
    <2> PICK m \in Months : m = MonthOf(d.date)
      BY <1>2
    <2>1. f \in [Months -> Int] /\ t.months = [f EXCEPT ![m] = @ + a.net]
      BY <1>1, <1>3
    <2>2. t.months \in [Months -> Int] /\ Total(t.months) = Total(f) + a.net
      BY <2>1, TotalRises, DatesFinite
    <2>3. QED BY <1>1, <1>3, <2>2
  <1>5. t.partners \in [Partners -> Int] /\ Total(t.partners) = t.net
    <2> PICK f : f = s.partners
      OBVIOUS
    <2>1. f \in [Partners -> Int] /\ t.partners = [f EXCEPT ![p] = @ + a.net]
      BY <1>1, <1>3
    <2>2. t.partners \in [Partners -> Int] /\ Total(t.partners) = Total(f) + a.net
      BY <2>1, TotalRises, DatesFinite
    <2>3. QED BY <1>1, <1>3, <2>2
  <1>6. t.days \in [Dates -> Int] /\ Total(t.days) = t.net - t.months[Undated]
    <2> PICK f : f = s.days
      OBVIOUS
    <2> PICK g : g = t.days
      OBVIOUS
    <2>1. f \in [Dates -> Int] /\ s.months[Undated] \in Int
      <3>1. Undated \in Months
        BY DEF Months, MonthOf
      <3>2. QED BY <1>3, <3>1
    <2>2. CASE d.date = None
      <3>1. None \notin Dates /\ MonthOf(d.date) = Undated
        BY <2>2 DEF Dates, MonthOf
      <3>2. g = f
        BY <1>1, <2>1, <2>2, <3>1
      <3>3. t.months[Undated] = s.months[Undated] + a.net
        BY <1>1, <1>2, <1>3, <3>1
      <3>4. Total(t.days) = s.net - s.months[Undated] /\ t.days \in [Dates -> Int]
        BY <1>3, <2>1, <3>2
      <3>5. t.net = s.net + a.net /\ s.net \in Int /\ a.net \in Int
        BY <1>1, <1>3
      <3>6. QED BY <2>1, <3>3, <3>4, <3>5
    <2>3. CASE d.date # None
      <3>1. PICK x \in Dates : x = d.date
        BY <1>2, <2>3
      <3>2. g = [f EXCEPT ![x] = @ + a.net]
        BY <1>1, <2>1, <3>1
      <3>3. g \in [Dates -> Int] /\ Total(g) = Total(f) + a.net
        BY <2>1, <3>2, TotalRises, DatesFinite
      <3>4. MonthOf(d.date) # Undated
        <4>1. x[1] # 0 /\ MonthOf(x) = <<x[1], x[2]>>
          BY <2>3, <3>1, DateOK DEF MonthOf
        <4>2. QED BY <3>1, <4>1 DEF Undated
      <3>5. t.months[Undated] = s.months[Undated]
        BY <1>1, <1>2, <1>3, <3>4
      <3>6. QED BY <1>1, <1>3, <2>1, <3>3, <3>5
    <2>4. QED BY <2>2, <2>3
  <1>7. t.dated \in Seq(DatedNets)
    <2>1. CASE d.date = None
      BY <1>1, <1>3, <2>1
    <2>2. CASE d.date # None
      <3>1. [date |-> d.date, net |-> a.net] \in DatedNets
        BY <1>2, <2>2 DEF DatedNets
      <3>2. QED BY <1>1, <1>3, <2>2, <3>1, AppendProperties
    <2>3. QED BY <2>1, <2>2
  <1>8. t.net \in Int /\ t.tax \in Int /\ t.gross \in Int /\ t.net + t.tax = t.gross
    <2>1. t.net = s.net + a.net /\ t.tax = s.tax + a.tax /\ t.gross = s.gross + a.gross
      BY <1>1
    <2>2. s.net \in Int /\ s.tax \in Int /\ s.gross \in Int /\ s.net + s.tax = s.gross
      BY <1>3
    <2>3. a.net \in Int /\ a.tax \in Int /\ a.gross \in Int /\ a.net + a.tax = a.gross
      OBVIOUS
    <2>4. QED BY ONLY <2>1, <2>2, <2>3
  <1>9. QED BY <1>1, <1>4, <1>5, <1>6, <1>7, <1>8 DEF SumsOK

\* Days are in one order.
LEMMA BeforeOrders ==
  ASSUME NEW x \in Dates, NEW y \in Dates, NEW z \in Dates
  PROVE  /\ Before(x, x)
         /\ Before(x, y) \/ Before(y, x)
         /\ Before(x, y) /\ Before(y, z) => Before(x, z)
  BY DateOK DEF Before

LEMMA Latest ==
  ASSUME NEW S, S \subseteq Dates, NEW x \in Dates,
         S # {} => \E y \in S : \A z \in S : Before(z, y)
  PROVE  \E y \in S \cup {x} : \A z \in S \cup {x} : Before(z, y)
  <1>1. CASE S = {}
    BY <1>1, BeforeOrders
  <1>2. CASE S # {}
    <2>1. PICK y \in S : \A z \in S : Before(z, y)
      BY <1>2
    <2>2. CASE Before(x, y)
      BY <2>1, <2>2
    <2>3. CASE Before(y, x)
      <3>1. \A z \in S : Before(z, x)
        BY <2>1, <2>3, BeforeOrders
      <3>2. QED BY <3>1, BeforeOrders
    <2>4. QED BY <2>2, <2>3, BeforeOrders
  <1>3. QED BY <1>1, <1>2

\* The days read of sales and of purchases.
DaysOf(s) == {s.dated[i].date : i \in DOMAIN s.dated}

LEMMA BookedDays ==
  ASSUME NEW s, SumsOK(s), NEW date, NEW n,
         NEW t, t.dated = IF date = None THEN s.dated
                          ELSE Append(s.dated, [date |-> date, net |-> n])
  PROVE  DaysOf(t) = IF date = None THEN DaysOf(s) ELSE DaysOf(s) \cup {date}
  <1>1. CASE date = None
    BY <1>1 DEF DaysOf
  <1>2. CASE date # None
    <2> PICK u : u = s.dated
      OBVIOUS
    <2> PICK e : e = [date |-> date, net |-> n]
      OBVIOUS
    <2> PICK v : v = t.dated
      OBVIOUS
    <2>1. u \in Seq(DatedNets) /\ v = Append(u, e) /\ e.date = date
      BY <1>2 DEF SumsOK
    <2>2. /\ DOMAIN u = 1 .. Len(u) /\ Len(u) \in Nat /\ DOMAIN v = 1 .. Len(u) + 1
          /\ v[Len(u) + 1] = e /\ \A i \in 1 .. Len(u) : v[i] = u[i]
      BY <2>1
    <2>3. {v[i].date : i \in DOMAIN v} = {u[i].date : i \in DOMAIN u} \cup {date}
      BY <2>1, <2>2
    <2>4. QED BY <1>2, <2>3 DEF DaysOf
  <1>3. QED BY <1>1, <1>2

LEMMA DaysOK == ASSUME NEW s, SumsOK(s) PROVE DaysOf(s) \subseteq Dates
  <1>1. s.dated \in Seq(DatedNets)
    BY DEF SumsOK
  <1>2. \A i \in DOMAIN s.dated : s.dated[i] \in DatedNets
    BY <1>1
  <1>3. QED BY <1>2 DEF DaysOf, DatedNets

\* A document is read, of one side or of the other.
LEMMA ReadDocument ==
  ASSUME LatestOK, SumsOK(sales), SumsOK(purchases), NEW date \in Dates \cup {None},
         DatesRead' = IF date = None THEN DatesRead ELSE DatesRead \cup {date}
  PROVE  LatestOK'
  <1>1. DatesRead \subseteq Dates
    BY DaysOK DEF DatesRead, DaysOf
  <1> PICK S : S = DatesRead
    OBVIOUS
  <1>2. CASE date = None
    BY <1>2 DEF LatestOK
  <1>3. CASE date # None
    <2>1. S \subseteq Dates /\ date \in Dates
          /\ (S # {} => \E y \in S : \A z \in S : Before(z, y))
      BY <1>1, <1>3 DEF LatestOK
    <2>2. \E y \in S \cup {date} : \A z \in S \cup {date} : Before(z, y)
      BY <2>1, Latest
    <2>3. DatesRead' = S \cup {date}
      BY <1>3
    <2> HIDE DEF DatesRead
    <2>4. QED BY <2>2, <2>3 DEF LatestOK
  <1>4. QED BY <1>2, <1>3

LEMMA ReadSaleInv == ASSUME SalesInv, NEW d \in Documents, ReadSale(d) PROVE SalesInv'
  <1> PICK t : t = sales'
    OBVIOUS
  <1> PICK a : a = Amounts(d)
    OBVIOUS
  <1>1. SumsOK(sales) /\ SumsOK(purchases) /\ LatestOK
    BY DEF SalesInv
  <1>2. t = Booked(sales, d, Customer(d), a) /\ purchases' = purchases
    BY DEF ReadSale
  <1>3. a.net \in Int /\ a.tax \in Int /\ a.gross \in Int /\ a.net + a.tax = a.gross
    BY AmountsOK
  <1>4. Customer(d) \in Partners /\ d.date \in Dates \cup {None}
    BY DEF Partners, Dates
  <1> PICK s : s = sales
    OBVIOUS
  <1> PICK p \in Partners : p = Customer(d)
    BY <1>4
  <1>5. SumsOK(t) /\ t.dated = IF d.date = None THEN s.dated
                               ELSE Append(s.dated, [date |-> d.date, net |-> a.net])
    <2>1. SumsOK(s) /\ t = Booked(s, d, p, a)
      BY <1>1, <1>2
    <2>2. QED BY ONLY <1>3, <2>1, d \in Documents, p \in Partners, BookedOK
  <1>6. DaysOf(t) = IF d.date = None THEN DaysOf(sales) ELSE DaysOf(sales) \cup {d.date}
    BY <1>1, <1>5, BookedDays
  <1>7. DatesRead' = IF d.date = None THEN DatesRead ELSE DatesRead \cup {d.date}
    BY <1>2, <1>6 DEF DatesRead, DaysOf
  <1>8. LatestOK'
    BY <1>1, <1>4, <1>7, ReadDocument
  <1>9. SumsOK(sales)' /\ SumsOK(purchases)'
    BY <1>1, <1>2, <1>5 DEF SumsOK
  <1>10. QED BY <1>8, <1>9 DEF SalesInv

LEMMA ReadPurchaseInv == ASSUME SalesInv, NEW d \in Documents, ReadPurchase(d) PROVE SalesInv'
  <1> PICK t : t = purchases'
    OBVIOUS
  <1> PICK a : a = PurchaseAmounts(d)
    OBVIOUS
  <1>1. SumsOK(sales) /\ SumsOK(purchases) /\ LatestOK
    BY DEF SalesInv
  <1>2. t = Booked(purchases, d, Supplier(d), a) /\ sales' = sales
    BY DEF ReadPurchase
  <1>3. a.net \in Int /\ a.tax \in Int /\ a.gross \in Int /\ a.net + a.tax = a.gross
    BY PurchaseAmountsOK
  <1>4. Supplier(d) \in Partners /\ d.date \in Dates \cup {None}
    BY DEF Partners, Dates
  <1> PICK s : s = purchases
    OBVIOUS
  <1> PICK p \in Partners : p = Supplier(d)
    BY <1>4
  <1>5. SumsOK(t) /\ t.dated = IF d.date = None THEN s.dated
                               ELSE Append(s.dated, [date |-> d.date, net |-> a.net])
    <2>1. SumsOK(s) /\ t = Booked(s, d, p, a)
      BY <1>1, <1>2
    <2>2. QED BY ONLY <1>3, <2>1, d \in Documents, p \in Partners, BookedOK
  <1>6. DaysOf(t) = IF d.date = None THEN DaysOf(purchases) ELSE DaysOf(purchases) \cup {d.date}
    BY <1>1, <1>5, BookedDays
  <1>7. DatesRead' = IF d.date = None THEN DatesRead ELSE DatesRead \cup {d.date}
    BY <1>2, <1>6 DEF DatesRead, DaysOf
  <1>8. LatestOK'
    BY <1>1, <1>4, <1>7, ReadDocument
  <1>9. SumsOK(sales)' /\ SumsOK(purchases)'
    BY <1>1, <1>2, <1>5 DEF SumsOK
  <1>10. QED BY <1>8, <1>9 DEF SalesInv

LEMMA NoDocumentRead ==
  ASSUME SalesInv, UNCHANGED <<sales, purchases>> PROVE SalesInv'
  <1>1. SumsOK(sales)' /\ SumsOK(purchases)'
    BY DEF SalesInv, SumsOK
  <1>2. DatesRead' = DatesRead
    BY DEF DatesRead
  <1>3. LatestOK'
    BY <1>2 DEF SalesInv, LatestOK
  <1>4. QED BY <1>1, <1>3 DEF SalesInv

LEMMA InitSales == SalesInit => SalesInv
  <1> SUFFICES ASSUME SalesInit PROVE SalesInv
    OBVIOUS
  <1>1. sales = NoSums /\ purchases = NoSums
    BY DEF SalesInit
  <1> PICK s : s = NoSums
    OBVIOUS
  <1>2. /\ DOMAIN s = SumsFields
        /\ s.net = 0 /\ s.tax = 0 /\ s.gross = 0 /\ s.dated = <<>>
        /\ s.months = [m \in Months |-> 0] /\ s.days = [x \in Dates |-> 0]
        /\ s.partners = [p \in Partners |-> 0]
    BY DEF NoSums, SumsFields, Months
  <1>3. Total(s.months) = 0 /\ Total(s.days) = 0 /\ Total(s.partners) = 0
    BY <1>2, DatesFinite, TotalZero
  <1>4. s.months[Undated] = 0
    BY <1>2 DEF Months, MonthOf
  <1>5. SumsOK(s)
    BY <1>2, <1>3, <1>4 DEF SumsOK
  <1>6. DatesRead = {}
    BY <1>1, <1>2 DEF DatesRead
  <1>7. QED BY <1>1, <1>5, <1>6 DEF SalesInv, LatestOK

LEMMA NextSales == SalesInv /\ [SalesNext]_salesVars => SalesInv'
  <1> SUFFICES ASSUME SalesInv, [SalesNext]_salesVars PROVE SalesInv'
    OBVIOUS
  <1>1. CASE \E d \in Documents : ReadSale(d)
    BY <1>1, ReadSaleInv
  <1>2. CASE \E d \in Documents : ReadPurchase(d)
    BY <1>2, ReadPurchaseInv
  <1>3. CASE NextStage \/ (\E o \in Orders : ReadOrder(o)) \/ UNCHANGED salesVars
    BY <1>3, NoDocumentRead DEF NextStage, ReadOrder, salesVars
  <1>4. QED BY <1>1, <1>2, <1>3 DEF SalesNext

LEMMA SalesHold == SalesSpec => []SalesInv
  BY InitSales, NextSales, PTL DEF SalesSpec

\* SumsAgree: every grouping of the sales and of the purchases that
\* extract_financial_snapshot makes adds up to the whole, in whatever order the documents
\* of coherent amounts are read and whether or not they have a date.
THEOREM SumsAlwaysAgree == SalesSpec => []SumsAgree
  <1>1. SalesInv => SumsAgree
    BY DEF SalesInv, SumsAgree, SumsOK
  <1>2. QED BY <1>1, SalesHold, PTL

\* The cutoff is the latest day that was read.
LEMMA CutoffOK ==
  ASSUME SalesInv, Cutoff # None
  PROVE  Cutoff \in Dates /\ \A y \in DatesRead : Before(y, Cutoff)
  <1>1. DatesRead # {}
    BY DEF Cutoff, DatesRead
  <1>2. PICK x \in DatesRead : \A y \in DatesRead : Before(y, x)
    BY <1>1 DEF SalesInv, LatestOK
  <1>3. Cutoff = CHOOSE z \in DatesRead : \A y \in DatesRead : Before(y, z)
    BY <1>1 DEF Cutoff, DatesRead
  <1>4. DatesRead \subseteq Dates
    BY DaysOK DEF SalesInv, DatesRead, DaysOf
  <1> HIDE DEF DatesRead
  <1>5. QED BY <1>2, <1>3, <1>4

\* A day is before the same day of the year before exactly if it is in this year.
LEMMA YearBeforeOK ==
  ASSUME NEW x \in Dates, NEW c \in Dates, x[1] = c[1] - 1
  PROVE  Before(x, YearBefore(c)) <=> Before(<<c[1], x[2], x[3]>>, c)
  <1>1. /\ x[1] \in Nat /\ x[2] \in Nat /\ x[3] \in Nat /\ c[1] \in Nat /\ c[2] \in Nat /\ c[3] \in Nat
        /\ x[2] = 2 /\ x[3] = 29 => x[1] \in LeapYears
    BY DateOK
  <1>2. CASE c[2] = 2 /\ c[3] = 29 /\ c[1] - 1 \notin LeapYears
    BY <1>1, <1>2 DEF Before, YearBefore
  <1>3. CASE ~(c[2] = 2 /\ c[3] = 29 /\ c[1] - 1 \notin LeapYears)
    BY <1>1, <1>3 DEF Before, YearBefore
  <1>4. QED BY <1>2, <1>3

LEMMA InvCompares == SalesInv => YearsAreComparable
  <1> SUFFICES ASSUME SalesInv, Cutoff # None, NEW s \in {sales, purchases}
               PROVE  /\ CurrentToDate(s) = NetOf(s, LAMBDA x : x[1] = Cutoff[1])
                      /\ PreviousToDate(s) =
                           NetOf(s, LAMBDA x : x[1] = Cutoff[1] - 1
                                        /\ Before(<<Cutoff[1], x[2], x[3]>>, Cutoff))
    BY DEF YearsAreComparable
  <1> PICK c : c = Cutoff
    OBVIOUS
  <1>1. c \in Dates /\ \A y \in DatesRead : Before(y, c)
    BY CutoffOK
  <1>2. \A i \in DOMAIN s.dated : s.dated[i].date \in Dates /\ Before(s.dated[i].date, c)
    <2>1. DaysOf(s) \subseteq DatesRead /\ DatesRead \subseteq Dates
      BY DaysOK DEF SalesInv, DatesRead, DaysOf
    <2>2. QED BY <1>1, <2>1 DEF DaysOf
  <1>3. {j \in DOMAIN s.dated : s.dated[j].date[1] = c[1] /\ Before(s.dated[j].date, c)}
        = {j \in DOMAIN s.dated : s.dated[j].date[1] = c[1]}
    BY <1>2
  <1>4. {j \in DOMAIN s.dated : s.dated[j].date[1] = c[1] - 1 /\ Before(s.dated[j].date, YearBefore(c))}
        = {j \in DOMAIN s.dated : s.dated[j].date[1] = c[1] - 1
             /\ Before(<<c[1], s.dated[j].date[2], s.dated[j].date[3]>>, c)}
    BY <1>1, <1>2, YearBeforeOK
  <1>5. QED BY <1>3, <1>4 DEF CurrentToDate, PreviousToDate, NetOf

\* YearsAreComparable: the two years to date of _annual_comparison are taken
\* over the same days of the year, whatever days were read, 29 February included.
THEOREM YearsCompare == SalesSpec => []YearsAreComparable
  BY InvCompares, SalesHold, PTL

-----------------------------------------------------------------------------
(* Inventory: what a product is credited with.                              *)

\* A line names a product, as the property has it.
Names(l, s) ==
    \/ l.code = s
    \/ l.code = None /\ l.nested = s
    \/ /\ l.code = None /\ l.nested = None /\ l.name # None
       /\ \E i \in Listed : Sku(catalog[i]) = s /\ Named(l.name) = {i}

Own(s) == {i \in DOMAIN credited : Names(credited[i].line, s) /\ credited[i].line.quantity > 0}

UnitsOf(s) == [i \in Own(s) |-> credited[i].line.quantity]

\* Where a product has been sold, all of its days are in the period.
ProductOK(s) ==
    /\ DOMAIN sold[s] = {"units", "documents", "last"}
    /\ sold[s].units \in Int /\ sold[s].last \in Nat
    /\ sold[s].units = Total(UnitsOf(s))
    /\ sold[s].last # 0 => span.first # 0 /\ span.first <= sold[s].last /\ sold[s].last <= span.last

InventoryInv ==
    /\ catalog \in Catalogs
    /\ credited \in Seq([line : Lines, sku : Skus \cup {None}])
    /\ DOMAIN sold = Skus
    /\ DOMAIN span = {"first", "last"} /\ span.first \in Nat /\ span.last \in Nat
    /\ span.first <= span.last
    /\ \A s \in Skus : ProductOK(s)

LEMMA OneNamed ==
  ASSUME catalog \in Catalogs, NEW name
  PROVE  Cardinality(Named(name)) = 1 <=> \E i \in Listed : Named(name) = {i}
  <1>1. Named(name) \subseteq Listed /\ Listed \subseteq 1 .. Len(catalog) /\ Len(catalog) \in Nat
    BY InventoryAssumption DEF Named, Listed
  <1>2. IsFiniteSet(Named(name))
    <2>1. IsFiniteSet(1 .. Len(catalog))
      BY <1>1, FS_Interval
    <2>2. QED BY <1>1, <2>1, FS_Subset
  <1>3. ASSUME Cardinality(Named(name)) = 1 PROVE \E i \in Listed : Named(name) = {i}
    <2>1. \E x : Named(name) = {x}
      BY <1>2, <1>3, FS_Singleton
    <2>2. QED BY <1>1, <2>1
  <1>4. ASSUME NEW i \in Listed, Named(name) = {i} PROVE Cardinality(Named(name)) = 1
    BY <1>4, FS_Singleton
  <1>5. QED BY <1>3, <1>4

LEMMA CreditNames ==
  ASSUME catalog \in Catalogs, NEW line, NEW s \in Skus
  PROVE  Credit(line) = s <=> Names(line, s)
  <1>1. s # None
    BY DEF Skus, Listed
  <1>2. CASE line.code # None
    BY <1>1, <1>2 DEF Credit, Names
  <1>3. CASE line.code = None /\ line.nested # None
    BY <1>1, <1>3 DEF Credit, Names
  <1>4. CASE line.code = None /\ line.nested = None
    <2>1. Credit(line) = IF Cardinality(Named(line.name)) = 1
                         THEN Sku(catalog[CHOOSE i \in Named(line.name) : TRUE]) ELSE None
      BY <1>4 DEF Credit
    <2>2. CASE \E i \in Listed : Named(line.name) = {i}
      <3>1. PICK i \in Listed : Named(line.name) = {i}
        BY <2>2
      <3>2. Credit(line) = Sku(catalog[i])
        BY <2>1, <3>1, OneNamed
      <3>3. line.name # None
        BY <3>1 DEF Named
      <3>4. \A j \in Listed : Named(line.name) = {j} => j = i
        BY <3>1
      <3>5. Names(line, s) <=> Sku(catalog[i]) = s
        BY <1>1, <1>4, <3>1, <3>3, <3>4 DEF Names
      <3>6. QED BY <3>2, <3>5
    <2>3. CASE ~\E i \in Listed : Named(line.name) = {i}
      BY <1>1, <1>4, <2>1, <2>3, OneNamed DEF Names
    <2>4. QED BY <2>2, <2>3
  <1>5. QED BY <1>2, <1>3, <1>4

LEMMA ReadLineInv ==
  ASSUME InventoryInv, NEW line \in Lines, ReadLine(line)
  PROVE  InventoryInv'
  <1> PICK sku : sku = Credit(line)
    OBVIOUS
  <1> PICK q \in Int : q = line.quantity
    BY InventoryAssumption
  <1> PICK n \in Nat : n = Len(credited)
    BY LenProperties DEF InventoryInv
  <1>1. /\ catalog' = catalog
        /\ credited' = Append(credited, [line |-> line, sku |-> sku])
        /\ sold' = IF sku = None \/ q <= 0 THEN sold
                   ELSE [sold EXCEPT
                          ![sku].units = @ + q,
                          ![sku].documents =
                             IF line.document = None THEN @ ELSE @ \cup {line.document},
                          ![sku].last = IF line.day > @ THEN line.day ELSE @]
        /\ span' = IF line.day = 0 THEN span
                   ELSE [first |-> IF span.first = 0 THEN line.day
                                  ELSE Min({span.first, line.day}),
                         last |-> Max({span.last, line.day})]
    BY DEF ReadLine
  <1>2. Skus' = Skus /\ catalog \in Catalogs
    BY <1>1 DEF Skus, Listed, InventoryInv
  <1>3. sku \in Skus \cup {None} /\ (sku # None => sku \in Skus)
    <2>1. ASSUME Cardinality(Named(line.name)) = 1
          PROVE  Sku(catalog[CHOOSE i \in Named(line.name) : TRUE]) \in Skus
      BY <1>2, <2>1, OneNamed DEF Named, Skus
    <2>2. QED BY <2>1 DEF Credit
  <1>4. credited' \in Seq([line : Lines, sku : Skus \cup {None}])
    BY <1>1, <1>3, AppendProperties DEF InventoryInv
  <1>5. /\ DOMAIN credited = 1 .. n /\ DOMAIN credited' = 1 .. n + 1
        /\ credited'[n + 1].line = line
        /\ \A i \in 1 .. n : credited'[i] = credited[i]
    BY <1>1 DEF InventoryInv
  <1>6. /\ DOMAIN span' = {"first", "last"} /\ span'.first \in Nat /\ span'.last \in Nat
        /\ span'.first <= span'.last
        /\ span.first # 0 => span'.first # 0 /\ span'.first <= span.first
        /\ span.last <= span'.last
        /\ line.day # 0 => span'.first # 0 /\ span'.first <= line.day /\ line.day <= span'.last
    <2>1. /\ line.day \in Nat /\ DOMAIN span = {"first", "last"} /\ span.first \in Nat /\ span.last \in Nat
          /\ span.first <= span.last
      BY InventoryAssumption DEF InventoryInv
    <2>2. \A a, b \in Nat : Min({a, b}) = (IF a <= b THEN a ELSE b)
                            /\ Max({a, b}) = (IF a <= b THEN b ELSE a)
      BY DEF Min, Max
    <2>3. CASE line.day = 0
      BY <1>1, <2>1, <2>3
    <2>4. CASE line.day # 0
      <3>1. /\ span'.first = IF span.first = 0 THEN line.day
                             ELSE IF span.first <= line.day THEN span.first ELSE line.day
            /\ span'.last = IF span.last <= line.day THEN line.day ELSE span.last
            /\ DOMAIN span' = {"first", "last"}
        BY <1>1, <2>1, <2>2, <2>4
      <3>2. QED BY <2>1, <2>4, <3>1
    <2>5. QED BY <2>3, <2>4
  <1>7. ASSUME NEW s \in Skus PROVE ProductOK(s)'
    <2>1. ProductOK(s)
      BY DEF InventoryInv
    <2>2. ASSUME NEW i \in 1 .. n
          PROVE  Names(credited[i].line, s)' <=> Names(credited[i].line, s)
      BY <1>1, <1>5 DEF Names, Listed, Named
    <2>3. Names(credited[n + 1].line, s)' <=> sku = s
      <3>1. Names(line, s) <=> sku = s
        BY <1>2, CreditNames
      <3>2. Names(credited[n + 1].line, s)' <=> Names(line, s)
        <4>1. Names(line, s)' <=> Names(line, s)
          BY <1>1 DEF Names, Listed, Named
        <4>2. Names(credited[n + 1].line, s)' <=> Names(line, s)'
          BY <1>5 DEF Names
        <4>3. QED BY <4>1, <4>2
      <3>3. QED BY <3>1, <3>2
    <2>4. Own(s) \subseteq 1 .. n
      BY <1>5 DEF Own
    <2>5. ASSUME NEW i \in 1 .. n + 1
          PROVE  i \in Own(s)' <=> IF i = n + 1 THEN sku = s /\ q > 0 ELSE i \in Own(s)
      <3>1. CASE i = n + 1
        BY <1>5, <2>3, <3>1 DEF Own
      <3>2. CASE i # n + 1
        <4>1. i \in 1 .. n
          BY <3>2
        <4>2. QED BY <1>5, <2>2, <3>2, <4>1 DEF Own
      <3>3. QED BY <3>1, <3>2
    <2>6. Own(s)' \subseteq 1 .. n + 1
      BY <1>5 DEF Own
    <2> PICK f : f = UnitsOf(s)
      OBVIOUS
    <2> PICK g : g = UnitsOf(s)'
      OBVIOUS
    <2>7. /\ DOMAIN f = Own(s) /\ DOMAIN g = Own(s)'
          /\ \A i \in DOMAIN f : f[i] = credited[i].line.quantity
          /\ \A i \in DOMAIN g : g[i] = credited'[i].line.quantity
      BY DEF UnitsOf
    <2>8. Summable(f) /\ Summable(g)
      <3>1. IsFiniteSet(1 .. n) /\ IsFiniteSet(1 .. n + 1)
        BY FS_Interval
      <3>2. IsFiniteSet(Own(s)) /\ IsFiniteSet(Own(s)')
        BY <2>4, <2>6, <3>1, FS_Subset
      <3>3. /\ \A i \in DOMAIN credited : credited[i].line \in Lines
            /\ \A i \in DOMAIN credited' : credited'[i].line \in Lines
        <4> DEFINE S == [line : Lines, sku : Skus \cup {None}]
        <4>1. credited \in Seq(S) /\ credited' \in Seq(S)
          BY <1>4 DEF InventoryInv
        <4>2. \A e \in S : e.line \in Lines
          OBVIOUS
        <4> HIDE DEF S
        <4>3. QED BY <4>1, <4>2, ElementOfSeq
      <3>4. (\A i \in DOMAIN f : f[i] \in Int) /\ (\A i \in DOMAIN g : g[i] \in Int)
        BY <1>5, <2>4, <2>6, <2>7, <3>3, InventoryAssumption
      <3>5. QED BY <2>7, <3>2, <3>4 DEF Summable
    <2>9. Total(f) \in Int /\ Total(g) = IF sku = s /\ q > 0 THEN Total(f) + q ELSE Total(f)
      <3>1. \A i \in Own(s) : i \in Own(s)' /\ credited'[i] = credited[i]
        BY <1>5, <2>4, <2>5
      <3>2. CASE sku = s /\ q > 0
        <4>1. Own(s) = Own(s)' \ {n + 1} /\ n + 1 \in Own(s)'
          BY <2>4, <2>5, <2>6, <3>2
        <4>2. g[n + 1] = q /\ n + 1 \in DOMAIN g /\ DOMAIN f = DOMAIN g \ {n + 1}
              /\ \A i \in DOMAIN f : f[i] = g[i]
          BY <1>5, <2>7, <3>1, <4>1
        <4>3. Total(g) = Total(f) + g[n + 1] /\ Total(f) \in Int
          BY ONLY <2>8, <4>2, TotalAdds, TotalIsInt
        <4>4. QED BY <3>2, <4>2, <4>3
      <3>3. CASE ~(sku = s /\ q > 0)
        <4>1. Own(s) = Own(s)'
          <5>1. ASSUME NEW i \in Own(s)' PROVE i \in Own(s)
            BY <2>5, <2>6, <3>3
          <5>2. QED BY <3>1, <5>1
        <4>2. DOMAIN f = DOMAIN g /\ \A i \in DOMAIN f : f[i] = g[i]
          BY <2>7, <3>1, <4>1
        <4>3. Total(f) = Total(g) /\ Total(f) \in Int
          BY ONLY <2>8, <4>2, TotalSame, TotalIsInt
        <4>4. QED BY <3>3, <4>3
      <3>4. QED BY <3>2, <3>3
    <2>10. /\ DOMAIN sold[s] = {"units", "documents", "last"}
           /\ sold[s].units = Total(f) /\ sold[s].last \in Nat
           /\ sold[s].last # 0 => span.first # 0 /\ span.first <= sold[s].last /\ sold[s].last <= span.last
      BY <2>1 DEF ProductOK
    <2>11. line.day \in Nat
      BY InventoryAssumption
    <2>12. /\ DOMAIN sold'[s] = {"units", "documents", "last"}
           /\ sold'[s].units = IF sku = s /\ q > 0 THEN sold[s].units + q ELSE sold[s].units
           /\ sold'[s].last = IF sku = s /\ q > 0 /\ line.day > sold[s].last THEN line.day
                              ELSE sold[s].last
      <3>1. CASE sku = s /\ q > 0
        <4>1. sku # None /\ ~(q <= 0)
          BY <3>1 DEF Skus, Listed
        <4>2. QED BY <1>1, <2>10, <3>1, <4>1 DEF InventoryInv
      <3>2. CASE ~(sku = s /\ q > 0)
        <4>1. sold'[s] = sold[s]
          BY <1>1, <3>2 DEF InventoryInv
        <4>2. QED BY <2>10, <3>2, <4>1
      <3>3. QED BY <3>1, <3>2
    <2>13. /\ sold'[s].units = Total(g) /\ sold'[s].units \in Int
      BY <2>9, <2>10, <2>12
    <2>14. /\ sold'[s].last \in Nat
           /\ sold'[s].last # 0 => span'.first # 0 /\ span'.first <= sold'[s].last
                                   /\ sold'[s].last <= span'.last
      <3>1. span.first \in Nat /\ span.last \in Nat
        BY DEF InventoryInv
      <3>2. CASE sold'[s].last = sold[s].last
        BY <1>6, <2>10, <3>1, <3>2
      <3>3. CASE sold'[s].last = line.day
        BY <1>6, <2>11, <3>3
      <3>4. QED BY <2>12, <3>2, <3>3
    <2>15. QED BY <2>12, <2>13, <2>14 DEF ProductOK
  <1>8. QED BY <1>1, <1>2, <1>4, <1>6, <1>7 DEF InventoryInv

LEMMA InitInventory == InventoryInit => InventoryInv
  <1> SUFFICES ASSUME InventoryInit PROVE InventoryInv
    OBVIOUS
  <1>1. ASSUME NEW s \in Skus PROVE ProductOK(s)
    <2> PICK f : f = UnitsOf(s)
      OBVIOUS
    <2>1. Own(s) = {}
      BY DEF InventoryInit, Own
    <2>2. IsFiniteSet(DOMAIN f) /\ \A x \in DOMAIN f : f[x] = 0
      BY <2>1, FS_EmptySet DEF UnitsOf
    <2>3. Total(f) = 0
      BY <2>2, TotalZero
    <2>4. sold[s].units = 0 /\ sold[s].last = 0 /\ DOMAIN sold[s] = {"units", "documents", "last"}
      BY DEF InventoryInit, Unsold
    <2>5. QED BY <2>3, <2>4 DEF ProductOK
  <1>2. QED BY <1>1 DEF InventoryInit, InventoryInv

LEMMA NextInventory == InventoryInv /\ [InventoryNext]_inventoryVars => InventoryInv'
  <1> SUFFICES ASSUME InventoryInv, [InventoryNext]_inventoryVars PROVE InventoryInv'
    OBVIOUS
  <1>1. CASE InventoryNext
    BY <1>1, ReadLineInv DEF InventoryNext
  <1>2. CASE UNCHANGED inventoryVars
    <2>1. catalog' = catalog /\ credited' = credited /\ sold' = sold /\ span' = span
      BY <1>2 DEF inventoryVars
    <2>2. Skus' = Skus
      BY <2>1 DEF Skus, Listed
    <2>3. ASSUME NEW s \in Skus PROVE Own(s)' = Own(s)
      BY <2>1 DEF Own, Names, Listed, Named
    <2>4. ASSUME NEW s \in Skus PROVE UnitsOf(s)' = UnitsOf(s)
      BY <2>1, <2>3 DEF UnitsOf
    <2>5. ASSUME NEW s \in Skus PROVE ProductOK(s)'
      BY <2>1, <2>4 DEF ProductOK, InventoryInv
    <2>6. QED BY <2>1, <2>2, <2>5 DEF InventoryInv
  <1>3. QED BY <1>1, <1>2

LEMMA InvCredits == InventoryInv => SalesAreTheProducts
  <1> SUFFICES ASSUME InventoryInv, NEW s \in Skus
               PROVE  /\ sold[s].units = Total(UnitsOf(s))
                      /\ sold[s].last # 0 => sold[s].last \in span.first .. span.last /\ PeriodDays > 0
    BY DEF SalesAreTheProducts, Names, Own, UnitsOf
  <1>1. ProductOK(s) /\ span.first \in Nat /\ span.last \in Nat /\ span.first <= span.last
    BY DEF InventoryInv
  <1>2. QED BY <1>1 DEF ProductOK, PeriodDays

\* SalesAreTheProducts: the sales that extract_product_snapshots credits a product
\* with are those of the lines that name it, whatever the catalog and the lines hold.
THEOREM CreditsAreExact == InventorySpec => []SalesAreTheProducts
  BY InitInventory, NextInventory, InvCredits, PTL DEF InventorySpec

-----------------------------------------------------------------------------
(* CommercialProducts: what is offered.                                     *)

\* The lines of a product among those of a sequence, and what they add up to.
LinesOf(ls, k) == {i \in DOMAIN ls : HistoryKey(ls[i].good) = k}
UnnamedOf(ls, k) == {i \in LinesOf(ls, k) : ls[i].sale.id = None}
PapersOf(ls, k) == {ls[i].sale.id : i \in LinesOf(ls, k)} \ {None}
UnitsBought(ls, k) == [i \in LinesOf(ls, k) |-> IF ls[i].quantity > 0 THEN ls[i].quantity ELSE 1]

ReadLines == [good : Goods, sale : Sales, quantity : Quantities]

\* What was bought of a product tells its lines.
Tells(bought, ls, k) ==
    /\ {"last", "documents", "events", "units"} \subseteq DOMAIN bought
    /\ bought.last \in 0 .. AsOf
    /\ \A i \in LinesOf(ls, k) : ls[i].sale.day <= bought.last
    /\ bought.last # 0 => \E i \in LinesOf(ls, k) : ls[i].sale.day = bought.last
    /\ bought.documents = PapersOf(ls, k)
    /\ bought.events = Cardinality(PapersOf(ls, k)) + Cardinality(UnnamedOf(ls, k))
    /\ bought.units = Total(UnitsBought(ls, k))

ProductsInv ==
    /\ inventory \in Inventories
    /\ lines \in Seq(ReadLines)
    /\ \A i \in DOMAIN lines : HistoryKey(lines[i].good) \in DOMAIN history
    /\ \A k \in DOMAIN history : Tells(history[k], lines, k)

\* Of finitely many, one has the most.
LEMMA MostExists ==
  ASSUME NEW S, IsFiniteSet(S), S # {}, NEW f, \A x \in S : f[x] \in Int
  PROVE  \E x \in S : \A y \in S : f[y] <= f[x]
  <1> DEFINE Has(t) == \E x \in t : \A y \in t : f[y] <= f[x]
             P == {n \in Nat : \A t \in SUBSET S : Cardinality(t) <= n /\ t # {} => Has(t)}
  <1>1. 0 \in P
    <2>1. \A t \in SUBSET S : Cardinality(t) <= 0 => t = {}
      BY OneLess
    <2>2. QED BY <2>1
  <1>2. ASSUME NEW n \in Nat, n \in P PROVE n + 1 \in P
    <2>1. ASSUME NEW t \in SUBSET S, Cardinality(t) <= n + 1, NEW x \in t
          PROVE  Has(t)
      <3>1. t \ {x} \in SUBSET S /\ Cardinality(t \ {x}) <= n
        BY <2>1, OneLess
      <3>2. CASE t \ {x} = {}
        <4>1. \A y \in t : y = x
          BY <3>2
        <4>2. f[x] \in Int
          OBVIOUS
        <4>3. QED BY <4>1, <4>2
      <3>3. CASE t \ {x} # {}
        <4>1. Has(t \ {x})
          <5> HIDE DEF Has
          <5>1. QED BY <1>2, <3>1, <3>3
        <4>2. PICK z \in t \ {x} : \A y \in t \ {x} : f[y] <= f[z]
          BY <4>1
        <4>3. f[x] \in Int /\ f[z] \in Int /\ \A y \in t : f[y] \in Int
          OBVIOUS
        <4>4. CASE f[x] <= f[z]
          BY <4>2, <4>3, <4>4
        <4>5. CASE f[z] < f[x]
          <5>1. \A y \in t : f[y] <= f[x]
            BY <4>2, <4>3, <4>5
          <5>2. QED BY <5>1
        <4>6. QED BY <4>3, <4>4, <4>5
      <3>4. QED BY <3>2, <3>3
    <2> HIDE DEF Has
    <2>2. QED BY <2>1
  <1>3. Cardinality(S) \in P
    <2>1. Cardinality(S) \in Nat
      BY OneLess
    <2> HIDE DEF P
    <2>2. QED BY <1>1, <1>2, <2>1, Induction
  <1>4. S \in SUBSET S /\ Cardinality(S) <= Cardinality(S)
    BY OneLess
  <1>5. QED BY <1>3, <1>4

\* What is chosen for a product is an item of the inventory.
LEMMA BestIsItem ==
  ASSUME inventory \in Inventories, NEW name
  PROVE  BestOfFamily(name) \in Positions \cup {0}
  <1> DEFINE found == {i \in Positions : /\ Family(name) # None
                                         /\ Family(inventory[i].name) = Family(name)
                                         /\ inventory[i].known /\ inventory[i].units > 0}
             Beats(i, j) == \/ inventory[i].value > inventory[j].value
                            \/ inventory[i].value = inventory[j].value
                               /\ inventory[i].units > inventory[j].units
             Best(i) == \A j \in found \ {i} : Beats(i, j) \/ (~Beats(j, i) /\ i < j)
  <1>1. BestOfFamily(name) = IF found = {} THEN 0 ELSE CHOOSE i \in found : Best(i)
    BY DEF BestOfFamily
  <1>2. /\ Len(inventory) \in Nat /\ DOMAIN inventory = 1 .. Len(inventory)
        /\ \A i \in DOMAIN inventory : inventory[i].units \in Int /\ inventory[i].value \in Int
    BY ProductsAssumption
  <1>3. found \subseteq Positions /\ Positions = 1 .. Len(inventory)
    BY <1>2 DEF Positions
  <1> HIDE DEF found
  <1>4. ASSUME found # {} PROVE \E i \in found : Best(i)
    <2> DEFINE value == [i \in found |-> inventory[i].value]
               units == [i \in found |-> inventory[i].units]
    <2>1. IsFiniteSet(found) /\ found \subseteq Nat
          /\ \A i \in found : inventory[i].units \in Int /\ inventory[i].value \in Int
      <3>1. IsFiniteSet(1 .. Len(inventory))
        BY <1>2, FS_Interval
      <3>2. IsFiniteSet(found)
        BY <1>3, <3>1, FS_Subset
      <3>3. found \subseteq Nat
        BY <1>2, <1>3
      <3>4. \A i \in found : inventory[i].units \in Int /\ inventory[i].value \in Int
        BY <1>2, <1>3 DEF Positions
      <3>5. QED BY <3>2, <3>3, <3>4
    <2>2. PICK x \in found : \A i \in found : inventory[i].value <= inventory[x].value
      <3>1. \A i \in found : value[i] \in Int
        BY <2>1
      <3> HIDE DEF value
      <3>2. PICK x \in found : \A i \in found : value[i] <= value[x]
        BY <1>4, <2>1, <3>1, MostExists
      <3>3. QED BY <3>2 DEF value
    <2> DEFINE dear == {i \in found : inventory[i].value = inventory[x].value}
    <2>3. PICK y \in dear : \A i \in dear : inventory[i].units <= inventory[y].units
      <3>1. /\ \A i \in dear : units[i] \in Int
            /\ IsFiniteSet(dear) /\ dear # {}
        BY <2>1, <2>2, FS_Subset
      <3> HIDE DEF units, dear
      <3>2. PICK y \in dear : \A i \in dear : units[i] <= units[y]
        BY <3>1, MostExists
      <3>3. QED BY <3>2 DEF units, dear
    <2> DEFINE many == {i \in dear : inventory[i].units = inventory[y].units}
    <2>4. PICK z \in many : \A i \in many : z <= i
      <3>1. many \subseteq Nat /\ many # {}
        BY <2>1, <2>3
      <3> HIDE DEF many
      <3>2. QED BY ONLY <3>1, LeastElement
    <2>5. ASSUME NEW j \in found \ {z} PROVE Beats(z, j) \/ (~Beats(j, z) /\ z < j)
      <3>1. /\ inventory[z].value = inventory[x].value /\ inventory[j].value <= inventory[x].value
            /\ inventory[z].units = inventory[y].units
            /\ inventory[j].value = inventory[x].value => inventory[j].units <= inventory[y].units
            /\ inventory[j].value = inventory[x].value /\ inventory[j].units = inventory[y].units
                 => z <= j
        BY <2>2, <2>3, <2>4
      <3>2. /\ inventory[z].value \in Int /\ inventory[j].value \in Int
            /\ inventory[z].units \in Int /\ inventory[j].units \in Int
            /\ z \in Nat /\ j \in Nat /\ z # j
        BY <2>1
      <3>3. QED BY <3>1, <3>2
    <2>6. QED BY <2>5
  <1>5. QED BY <1>1, <1>3, <1>4

LEMMA MatchIsItem ==
  ASSUME inventory \in Inventories, NEW h, Match(h) # 0
  PROVE  Match(h) \in Positions
  <1>1. /\ Len(inventory) \in Nat /\ Positions = 1 .. Len(inventory)
    BY ProductsAssumption DEF Positions
  <1>2. ASSUME NEW field, NEW value PROVE LastWith(field, value) \in Positions \cup {0}
    <2> DEFINE found == {i \in Positions : value # None /\ inventory[i][field] = value}
    <2>1. LastWith(field, value) = IF found = {} THEN 0 ELSE Max(found)
      BY DEF LastWith
    <2>2. found \subseteq 1 .. Len(inventory)
      BY <1>1
    <2> HIDE DEF found
    <2>3. found # {} => Max(found) \in found
      BY <1>1, <2>2, GreatestElement
    <2>4. QED BY <1>1, <2>1, <2>2, <2>3
  <1>3. OnlyAlike(h.name) \in Positions \cup {0}
    <2> DEFINE found == {i \in Positions : <<h.name, inventory[i].name>> \in Alike
                                           \/ <<inventory[i].name, h.name>> \in Alike}
    <2>1. OnlyAlike(h.name) = IF Cardinality(found) = 1 THEN CHOOSE i \in found : TRUE ELSE 0
      BY DEF OnlyAlike
    <2>2. Cardinality(found) = 1 => found # {}
      <3> HIDE DEF found
      <3>1. QED BY FS_EmptySet
    <2>3. found \subseteq Positions
      OBVIOUS
    <2> HIDE DEF found
    <2>4. QED BY <2>1, <2>2, <2>3
  <1>4. BestOfFamily(h.name) \in Positions \cup {0}
    BY BestIsItem
  <1>5. /\ DOMAIN Matches(h) = 1 .. 5
        /\ \A m \in 1 .. 5 : Matches(h)[m] \in Positions \cup {0}
    <2> PICK a : a = LastWith("sku", h.sku)
      OBVIOUS
    <2> PICK b : b = LastWith("pid", h.pid)
      OBVIOUS
    <2> PICK c : c = LastWith("name", h.name)
      OBVIOUS
    <2> PICK d : d = OnlyAlike(h.name)
      OBVIOUS
    <2> PICK e : e = BestOfFamily(h.name)
      OBVIOUS
    <2>1. \A v \in {a, b, c, d, e} : v \in Positions \cup {0}
      BY <1>2, <1>3, <1>4
    <2>2. Matches(h) = <<a, b, c, d, e>>
      BY DEF Matches
    <2>3. QED BY <2>1, <2>2
  <1> DEFINE found == {m \in DOMAIN Matches(h) : Matches(h)[m] # 0}
  <1>6. Match(h) = IF found = {} THEN 0 ELSE Matches(h)[Min(found)]
    BY DEF Match
  <1>7. found \subseteq 1 .. 5
    BY <1>5
  <1>8. found # {} => Min(found) \in found
    <2>1. found \subseteq Nat
      BY <1>7
    <2> HIDE DEF found
    <2>2. found # {} => \E x \in found : \A y \in found : x <= y
      BY ONLY <2>1, LeastElement
    <2>3. QED BY <2>2 DEF Min
  <1> HIDE DEF found
  <1>9. QED BY <1>5, <1>6, <1>7, <1>8

\* What of the lines of a product is finite, and that their units can be added.
LEMMA LinesFinite ==
  ASSUME NEW ls \in Seq(ReadLines), NEW k
  PROVE  /\ IsFiniteSet(LinesOf(ls, k)) /\ IsFiniteSet(UnnamedOf(ls, k))
         /\ IsFiniteSet(PapersOf(ls, k)) /\ Summable(UnitsBought(ls, k))
         /\ DOMAIN UnitsBought(ls, k) = LinesOf(ls, k)
         /\ Cardinality(UnnamedOf(ls, k)) \in Nat /\ Cardinality(PapersOf(ls, k)) \in Nat
  <1>1. DOMAIN ls = 1 .. Len(ls) /\ Len(ls) \in Nat /\ \A i \in DOMAIN ls : ls[i] \in ReadLines
    OBVIOUS
  <1>2. IsFiniteSet(1 .. Len(ls))
    BY <1>1, FS_Interval
  <1>3. LinesOf(ls, k) \subseteq 1 .. Len(ls) /\ UnnamedOf(ls, k) \subseteq LinesOf(ls, k)
    BY <1>1 DEF LinesOf, UnnamedOf
  <1>4. IsFiniteSet(LinesOf(ls, k)) /\ IsFiniteSet(UnnamedOf(ls, k))
    BY <1>2, <1>3, FS_Subset
  <1>5. IsFiniteSet(PapersOf(ls, k))
    <2> DEFINE f == [i \in LinesOf(ls, k) |-> ls[i].sale.id]
               T == {f[i] : i \in LinesOf(ls, k)}
    <2>1. PapersOf(ls, k) \subseteq T
      BY DEF PapersOf
    <2>2. DOMAIN f = LinesOf(ls, k)
      OBVIOUS
    <2> HIDE DEF f
    <2>3. IsFiniteSet(T)
      BY <1>4, <2>2, FiniteImage
    <2>4. QED BY <2>1, <2>3, FS_Subset
  <1>6. \A i \in LinesOf(ls, k) : ls[i].quantity \in Int
    BY <1>1, ProductsAssumption DEF LinesOf, ReadLines
  <1>7. /\ DOMAIN UnitsBought(ls, k) = LinesOf(ls, k)
        /\ \A i \in LinesOf(ls, k) : UnitsBought(ls, k)[i] \in Int
    BY <1>6 DEF UnitsBought
  <1>8. Cardinality(UnnamedOf(ls, k)) \in Nat /\ Cardinality(PapersOf(ls, k)) \in Nat
    BY <1>4, <1>5, FS_CardinalityType
  <1>9. QED BY <1>4, <1>5, <1>7, <1>8 DEF Summable

\* Its lines have a day of their own or none.
LEMMA DaysRead ==
  ASSUME NEW ls \in Seq(ReadLines), NEW k
  PROVE  \A i \in LinesOf(ls, k) : ls[i].sale.day \in 0 .. AsOf
  <1>1. \A i \in DOMAIN ls : ls[i] \in ReadLines
    OBVIOUS
  <1>2. \A i \in LinesOf(ls, k) : ls[i].sale \in Sales
    BY <1>1 DEF LinesOf, ReadLines
  <1>3. QED BY <1>2, ProductsAssumption

\* One line more.
Read(good, sale, quantity) == [good |-> good, sale |-> sale, quantity |-> quantity]

LEMMA LinesGrow ==
  ASSUME NEW ls \in Seq(ReadLines), NEW l \in ReadLines
  PROVE  /\ Append(ls, l) \in Seq(ReadLines)
         /\ DOMAIN Append(ls, l) = DOMAIN ls \cup {Len(ls) + 1}
         /\ Len(ls) + 1 \notin DOMAIN ls
         /\ \A i \in DOMAIN ls : Append(ls, l)[i] = ls[i]
         /\ Append(ls, l)[Len(ls) + 1] = l
  OBVIOUS

\* A line of another product changes nothing of this one.
LEMMA OtherLine ==
  ASSUME NEW ls \in Seq(ReadLines), NEW l \in ReadLines, NEW k, HistoryKey(l.good) # k,
         NEW h, Tells(h, ls, k)
  PROVE  Tells(h, Append(ls, l), k)
  <1> PICK m : m = Append(ls, l)
    OBVIOUS
  <1> PICK n : n = Len(ls) + 1
    OBVIOUS
  <1>1. /\ DOMAIN m = DOMAIN ls \cup {n} /\ n \notin DOMAIN ls /\ m[n] = l
        /\ \A i \in DOMAIN ls : m[i] = ls[i]
    BY LinesGrow
  <1>2. LinesOf(m, k) = LinesOf(ls, k) /\ \A i \in LinesOf(ls, k) : m[i] = ls[i]
    BY <1>1 DEF LinesOf
  <1>3. /\ UnnamedOf(m, k) = UnnamedOf(ls, k) /\ PapersOf(m, k) = PapersOf(ls, k)
        /\ UnitsBought(m, k) = UnitsBought(ls, k)
    BY <1>2 DEF UnnamedOf, PapersOf, UnitsBought
  <1>4. Tells(h, m, k)
    BY <1>2, <1>3 DEF Tells
  <1>5. QED BY <1>4

\* Before its first line, nothing was bought of a product.
LEMMA NothingBought ==
  ASSUME NEW ls \in Seq(ReadLines), NEW good, NEW k, LinesOf(ls, k) = {}
  PROVE  Tells(Unbought(good), ls, k)
  <1>1. PapersOf(ls, k) = {} /\ UnnamedOf(ls, k) = {} /\ DOMAIN UnitsBought(ls, k) = {}
    BY DEF PapersOf, UnnamedOf, UnitsBought
  <1>2. Total(UnitsBought(ls, k)) = 0
    <2> PICK f : f = UnitsBought(ls, k)
      OBVIOUS
    <2>1. IsFiniteSet(DOMAIN f) /\ \A x \in DOMAIN f : f[x] = 0
      BY <1>1, FS_EmptySet
    <2>2. Total(f) = 0
      BY <2>1, TotalZero
    <2>3. QED BY <2>2
  <1>3. Cardinality(PapersOf(ls, k)) = 0 /\ Cardinality(UnnamedOf(ls, k)) = 0
    BY <1>1, FS_EmptySet
  <1>4. 0 \in 0 .. AsOf
    BY ProductsAssumption
  <1>5. QED BY <1>1, <1>2, <1>3, <1>4 DEF Tells, Unbought

\* A line of the product is counted as one more.
LEMMA LineCounts ==
  ASSUME NEW ls \in Seq(ReadLines), NEW l \in ReadLines, NEW k, HistoryKey(l.good) = k,
         NEW b, Tells(b, ls, k)
  PROVE  Tells(Bought(b, l.good, l.sale, l.quantity), Append(ls, l), k)
  <1> PICK m : m = Append(ls, l)
    OBVIOUS
  <1> PICK n : n = Len(ls) + 1
    OBVIOUS
  <1> PICK r : r = Bought(b, l.good, l.sale, l.quantity)
    OBVIOUS
  <1>1. /\ DOMAIN m = DOMAIN ls \cup {n} /\ n \notin DOMAIN ls /\ m[n] = l
        /\ \A i \in DOMAIN ls : m[i] = ls[i]
        /\ m \in Seq(ReadLines)
    BY LinesGrow
  <1>2. /\ LinesOf(m, k) = LinesOf(ls, k) \cup {n} /\ n \notin LinesOf(ls, k)
        /\ \A i \in LinesOf(ls, k) : m[i] = ls[i]
    BY <1>1 DEF LinesOf
  <1>3. l.sale \in Sales /\ l.quantity \in Int /\ l.sale.day \in 0 .. AsOf /\ AsOf \in Nat
    BY ProductsAssumption DEF ReadLines
  <1>4. /\ DOMAIN r = DOMAIN b
        /\ r.last = IF l.sale.day > b.last THEN l.sale.day ELSE b.last
        /\ r.documents = IF l.sale.id = None THEN b.documents ELSE b.documents \cup {l.sale.id}
        /\ r.events = IF NewEvent(b, l.sale) THEN b.events + 1 ELSE b.events
        /\ r.units = b.units + (IF l.quantity > 0 THEN l.quantity ELSE 1)
    <2>1. {"last", "documents", "events", "units"} \subseteq DOMAIN b
      BY DEF Tells
    <2>2. QED BY <2>1 DEF Bought
  <1>5. /\ r.last \in 0 .. AsOf /\ \A i \in LinesOf(m, k) : m[i].sale.day <= r.last
        /\ r.last # 0 => \E i \in LinesOf(m, k) : m[i].sale.day = r.last
    <2>1. /\ b.last \in 0 .. AsOf /\ \A i \in LinesOf(ls, k) : ls[i].sale.day <= b.last
          /\ b.last # 0 => \E i \in LinesOf(ls, k) : ls[i].sale.day = b.last
      BY DEF Tells
    <2>2. \A i \in LinesOf(ls, k) : ls[i].sale.day \in 0 .. AsOf
      BY DaysRead
    <2>3. r.last \in 0 .. AsOf /\ l.sale.day <= r.last /\ b.last <= r.last
      BY <1>3, <1>4, <2>1
    <2>4. ASSUME NEW i \in LinesOf(m, k) PROVE m[i].sale.day <= r.last
      <3>1. CASE i = n
        BY <1>1, <2>3, <3>1
      <3>2. CASE i # n
        <4>1. i \in LinesOf(ls, k) /\ m[i] = ls[i]
          BY <1>2, <3>2
        <4>2. ls[i].sale.day <= b.last /\ ls[i].sale.day \in 0 .. AsOf
          BY <2>1, <2>2, <4>1
        <4>3. QED BY <1>3, <2>1, <2>3, <4>1, <4>2
      <3>3. QED BY <3>1, <3>2
    <2>5. CASE l.sale.day > b.last
      BY <1>1, <1>2, <1>4, <2>3, <2>4, <2>5
    <2>6. CASE ~(l.sale.day > b.last)
      BY <1>1, <1>2, <1>4, <2>1, <2>3, <2>4, <2>6
    <2>7. QED BY <2>5, <2>6
  <1>6. PapersOf(m, k) = PapersOf(ls, k) \cup ({l.sale.id} \ {None})
    <2> DEFINE S(q, t) == {q[i].sale.id : i \in t}
    <2>1. S(m, LinesOf(m, k)) = S(m, LinesOf(ls, k)) \cup {l.sale.id}
      BY <1>1, <1>2
    <2>2. S(m, LinesOf(ls, k)) = S(ls, LinesOf(ls, k))
      BY <1>2
    <2>3. PapersOf(m, k) = S(m, LinesOf(m, k)) \ {None} /\ PapersOf(ls, k) = S(ls, LinesOf(ls, k)) \ {None}
      BY DEF PapersOf
    <2> HIDE DEF S
    <2>4. QED BY <2>1, <2>2, <2>3
  <1>7. UnnamedOf(m, k) = UnnamedOf(ls, k) \cup (IF l.sale.id = None THEN {n} ELSE {})
    BY <1>1, <1>2 DEF UnnamedOf
  <1>8. b.documents = PapersOf(ls, k)
        /\ b.events = Cardinality(PapersOf(ls, k)) + Cardinality(UnnamedOf(ls, k))
    BY DEF Tells
  <1>9. r.documents = PapersOf(m, k)
    BY <1>4, <1>6, <1>8
  <1>10. r.events = Cardinality(PapersOf(m, k)) + Cardinality(UnnamedOf(m, k))
    <2>1. /\ IsFiniteSet(PapersOf(ls, k)) /\ IsFiniteSet(UnnamedOf(ls, k))
          /\ Cardinality(UnnamedOf(ls, k)) \in Nat /\ Cardinality(PapersOf(ls, k)) \in Nat
      BY LinesFinite
    <2>2. n \notin UnnamedOf(ls, k) /\ None \notin PapersOf(ls, k)
      BY <1>2 DEF UnnamedOf, PapersOf
    <2>3. CASE l.sale.id = None
      <3>1. PapersOf(m, k) = PapersOf(ls, k) /\ UnnamedOf(m, k) = UnnamedOf(ls, k) \cup {n}
        BY <1>6, <1>7, <2>3
      <3>2. Cardinality(UnnamedOf(m, k)) = Cardinality(UnnamedOf(ls, k)) + 1
        <4> PICK u : u = UnnamedOf(ls, k)
          OBVIOUS
        <4>1. Cardinality(u \cup {n}) = Cardinality(u) + 1
          <5>1. IsFiniteSet(u) /\ n \notin u
            BY <2>1, <2>2
          <5>2. QED BY ONLY <5>1, FS_AddElement
        <4>2. QED BY <3>1, <4>1
      <3>3. r.events = b.events + 1
        BY <1>4, <2>3 DEF NewEvent
      <3>4. QED BY <1>8, <2>1, <3>1, <3>2, <3>3
    <2>4. CASE l.sale.id # None
      <3>1. /\ PapersOf(m, k) = PapersOf(ls, k) \cup {l.sale.id}
            /\ UnnamedOf(m, k) = UnnamedOf(ls, k)
        BY <1>6, <1>7, <2>4
      <3>2. Cardinality(PapersOf(m, k)) =
              IF l.sale.id \in PapersOf(ls, k) THEN Cardinality(PapersOf(ls, k))
              ELSE Cardinality(PapersOf(ls, k)) + 1
        BY <2>1, <3>1, FS_AddElement
      <3>3. r.events = IF l.sale.id \in PapersOf(ls, k) THEN b.events ELSE b.events + 1
        BY <1>4, <1>8, <2>4 DEF NewEvent
      <3>4. QED BY <1>8, <2>1, <3>1, <3>2, <3>3
    <2>5. QED BY <2>3, <2>4
  <1>11. r.units = Total(UnitsBought(m, k))
    <2> PICK f : f = UnitsBought(ls, k)
      OBVIOUS
    <2> PICK g : g = UnitsBought(m, k)
      OBVIOUS
    <2>1. Summable(f) /\ Summable(g) /\ DOMAIN f = LinesOf(ls, k) /\ DOMAIN g = LinesOf(m, k)
      BY <1>1, LinesFinite
    <2>2. n \in DOMAIN g /\ DOMAIN f = DOMAIN g \ {n}
      BY <1>2, <2>1
    <2>3. /\ \A x \in DOMAIN f : f[x] = g[x]
          /\ g[n] = IF l.quantity > 0 THEN l.quantity ELSE 1
      BY <1>1, <1>2, <2>1 DEF UnitsBought
    <2>4. Total(g) = Total(f) + g[n]
      BY ONLY <2>1, <2>2, <2>3, TotalAdds
    <2>5. b.units = Total(f)
      BY DEF Tells
    <2>6. QED BY <1>4, <2>3, <2>4, <2>5
  <1>12. Tells(r, m, k)
    <2>1. {"last", "documents", "events", "units"} \subseteq DOMAIN r
      BY <1>4 DEF Tells
    <2>2. QED BY <1>5, <1>9, <1>10, <1>11, <2>1 DEF Tells
  <1>13. QED BY <1>12

LEMMA RecordLineInv ==
  ASSUME ProductsInv, NEW good \in Goods, NEW sale \in Sales, NEW quantity \in Quantities,
         RecordLine(good, sale, quantity)
  PROVE  ProductsInv'
  <1> DEFINE key == HistoryKey(good)
             before == IF key \in DOMAIN history THEN history[key] ELSE Unbought(good)
  <1> PICK l : l = Read(good, sale, quantity)
    OBVIOUS
  <1>1. /\ l \in ReadLines /\ l.good = good /\ l.sale = sale /\ l.quantity = quantity
        /\ lines' = Append(lines, l) /\ inventory' = inventory
        /\ DOMAIN history' = DOMAIN history \cup {key}
        /\ history'[key] = Bought(before, good, sale, quantity)
        /\ \A k \in DOMAIN history \ {key} : history'[k] = history[k]
    BY DEF RecordLine, Read, ReadLines
  <1>2. /\ lines \in Seq(ReadLines) /\ inventory \in Inventories
        /\ \A i \in DOMAIN lines : HistoryKey(lines[i].good) \in DOMAIN history
        /\ \A k \in DOMAIN history : Tells(history[k], lines, k)
    BY DEF ProductsInv
  <1>3. Tells(before, lines, key)
    <2>1. CASE key \in DOMAIN history
      BY <1>2, <2>1
    <2>2. CASE key \notin DOMAIN history
      <3>1. LinesOf(lines, key) = {}
        BY <1>2, <2>2 DEF LinesOf
      <3>2. Tells(Unbought(good), lines, key)
        <4> HIDE DEF key
        <4>1. QED BY <1>2, <3>1, NothingBought
      <3>3. QED BY <2>2, <3>2
    <2>3. QED BY <2>1, <2>2
  <1>4. Tells(history'[key], lines', key)
    <2> PICK b : b = before
      OBVIOUS
    <2>1. HistoryKey(l.good) = key /\ Tells(b, lines, key)
      BY <1>1, <1>3
    <2> HIDE DEF key, before
    <2>2. Tells(Bought(b, l.good, l.sale, l.quantity), Append(lines, l), key)
      BY <1>1, <1>2, <2>1, LineCounts
    <2>3. QED BY <1>1, <2>2
  <1>5. ASSUME NEW k \in DOMAIN history \ {key} PROVE Tells(history'[k], lines', k)
    <2>1. Tells(history[k], lines, k) /\ HistoryKey(l.good) # k
      BY <1>1, <1>2
    <2>2. Tells(history[k], Append(lines, l), k)
      BY <1>1, <1>2, <2>1, OtherLine
    <2>3. QED BY <1>1, <2>2
  <1>6. lines' \in Seq(ReadLines) /\ \A i \in DOMAIN lines' : HistoryKey(lines'[i].good) \in DOMAIN history'
    <2> HIDE DEF key, before
    <2>1. /\ lines' \in Seq(ReadLines) /\ DOMAIN lines' = DOMAIN lines \cup {Len(lines) + 1}
          /\ \A i \in DOMAIN lines : lines'[i] = lines[i]
          /\ lines'[Len(lines) + 1] = l
      BY <1>1, <1>2, LinesGrow
    <2>2. HistoryKey(l.good) = key
      BY <1>1 DEF key
    <2>3. QED BY <1>1, <1>2, <2>1, <2>2
  <1>7. \A k \in DOMAIN history' : Tells(history'[k], lines', k)
    BY <1>1, <1>4, <1>5
  <1> HIDE DEF key, before
  <1>8. QED BY <1>1, <1>2, <1>6, <1>7 DEF ProductsInv

LEMMA InitProducts == ProductsInit => ProductsInv
  BY DEF ProductsInit, ProductsInv

LEMMA NextProducts == ProductsInv /\ [ProductsNext]_productsVars => ProductsInv'
  <1> SUFFICES ASSUME ProductsInv, [ProductsNext]_productsVars PROVE ProductsInv'
    OBVIOUS
  <1>1. CASE ProductsNext
    BY <1>1, RecordLineInv DEF ProductsNext
  <1>2. CASE UNCHANGED productsVars
    BY <1>2 DEF productsVars, ProductsInv
  <1>3. QED BY <1>1, <1>2

\* What an eligible outcome takes.
LEMMA EligibleIs ==
  ASSUME NEW h, Outcome(h) = "eligible"
  PROVE  /\ Match(h) # 0 /\ inventory[Match(h)].known /\ ~(inventory[Match(h)].units <= 0)
         /\ h.last # 0 /\ ~(Lapse(h) < LapseDays)
  <1> PICK i : i = Match(h)
    OBVIOUS
  <1>1. Outcome(h) = CASE i = 0 -> "without match"
                       [] i # 0 /\ ~inventory[i].known -> "without stock"
                       [] i # 0 /\ inventory[i].known /\ inventory[i].units <= 0 -> "out of stock"
                       [] OTHER -> IF h.last = 0 THEN "without date"
                                   ELSE IF Lapse(h) < LapseDays THEN "recent" ELSE "eligible"
    BY DEF Outcome
  <1>2. QED BY <1>1

LEMMA InvOffers == ProductsInv => OffersTellTheTruth
  <1> SUFFICES ASSUME ProductsInv, NEW k \in Offered
               PROVE  LET own == {i \in DOMAIN lines : HistoryKey(lines[i].good) = k}
                          days == {lines[i].sale.day : i \in own} \ {0}
                          unnamed == {i \in own : lines[i].sale.id = None}
                          papers == {lines[i].sale.id : i \in own} \ {None}
                          item == inventory[Match(history[k])]
                      IN /\ days # {} /\ Lapse(history[k]) = AsOf - Max(days)
                         /\ \A d \in days : AsOf - d >= LapseDays
                         /\ history[k].events = Cardinality(papers) + Cardinality(unnamed)
                         /\ history[k].units =
                              Total([i \in own |->
                                       IF lines[i].quantity > 0 THEN lines[i].quantity ELSE 1])
                         /\ item.known /\ item.units > 0
    BY DEF OffersTellTheTruth
  <1> PICK h : h = history[k]
    OBVIOUS
  <1> DEFINE own == LinesOf(lines, k)
             days == {lines[i].sale.day : i \in own} \ {0}
  <1>1. /\ lines \in Seq(ReadLines) /\ inventory \in Inventories
        /\ Tells(h, lines, k) /\ Outcome(h) = "eligible"
    BY DEF ProductsInv, Offered
  <1>2. /\ Match(h) # 0 /\ inventory[Match(h)].known /\ ~(inventory[Match(h)].units <= 0)
        /\ h.last # 0 /\ ~(Lapse(h) < LapseDays)
    BY <1>1, EligibleIs
  <1>3. inventory[Match(h)].units > 0
    <2>1. Match(h) \in DOMAIN inventory
      BY <1>1, <1>2, MatchIsItem DEF Positions
    <2>2. inventory[Match(h)].units \in Int
      BY <1>1, <2>1, ProductsAssumption
    <2>3. QED BY <1>2, <2>2
  <1>4. /\ h.last \in 1 .. AsOf /\ AsOf \in Nat /\ LapseDays \in Nat
        /\ \A i \in own : lines[i].sale.day <= h.last
        /\ \E i \in own : lines[i].sale.day = h.last
    BY <1>1, <1>2, ProductsAssumption DEF Tells
  <1>5. \A i \in own : lines[i].sale.day \in 0 .. AsOf
    BY <1>1, DaysRead
  <1>6. days \subseteq 1 .. AsOf /\ h.last \in days /\ \A d \in days : d <= h.last
    BY <1>4, <1>5
  <1>7. Max(days) = h.last
    <2> HIDE DEF days
    <2> PICK x : x = Max(days)
      OBVIOUS
    <2>1. x \in days /\ \A d \in days : x >= d
      BY <1>4, <1>6, GreatestElement
    <2>2. x \in 1 .. AsOf /\ x >= h.last /\ x <= h.last
      BY <1>6, <2>1
    <2>3. QED BY <1>4, <2>2
  <1>8. Lapse(h) = AsOf - Max(days) /\ \A d \in days : AsOf - d >= LapseDays
    <2>1. Lapse(h) = AsOf - h.last
      BY DEF Lapse
    <2>2. AsOf - h.last >= LapseDays
      BY <1>2, <1>4, <2>1
    <2> HIDE DEF days
    <2>3. QED BY <1>4, <1>6, <1>7, <2>1, <2>2
  <1>9. /\ h.events = Cardinality(PapersOf(lines, k)) + Cardinality(UnnamedOf(lines, k))
        /\ h.units = Total(UnitsBought(lines, k))
    BY <1>1 DEF Tells
  <1>10. own = {i \in DOMAIN lines : HistoryKey(lines[i].good) = k}
    BY DEF LinesOf
  <1>11. /\ PapersOf(lines, k) = {lines[i].sale.id : i \in own} \ {None}
         /\ UnnamedOf(lines, k) = {i \in own : lines[i].sale.id = None}
         /\ UnitsBought(lines, k) =
              [i \in own |-> IF lines[i].quantity > 0 THEN lines[i].quantity ELSE 1]
    BY DEF PapersOf, UnnamedOf, UnitsBought
  <1> HIDE DEF own
  <1>12. QED BY <1>2, <1>3, <1>6, <1>8, <1>9, <1>10, <1>11

\* What an offer says of the customer is what its documents say, in whatever order
\* they were read, and the item offered can be sold (_customer_product_opportunities,
\* app/hub/commercial.py:817).
THEOREM OffersAreTrue == ProductsSpec => []OffersTellTheTruth
  <1>1. ProductsSpec => []ProductsInv
    BY InitProducts, NextProducts, PTL DEF ProductsSpec
  <1>2. QED BY <1>1, InvOffers, PTL
=============================================================================
