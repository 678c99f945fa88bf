------------------------- MODULE WorkerSafetyProofs -------------------------
(***************************************************************************)
(* More proofs about ProspectingWorker, for any tasks, candidates, workers *)
(* and bounds, each from an invariant of its own beside IInv:              *)
(*                                                                         *)
(*  - no candidate is lost: CandidatesInv says that what a row carries is  *)
(*    taken by the CRM or held by the row or by a later one, for a split   *)
(*    sets a batch apart for two halves that follow it;                    *)
(*  - tasks are fenced: TasksInv says that an owner owns for the attempt   *)
(*    it leased, and that no token of a claim is stored twice;             *)
(*  - with one worker sources are called a bounded number of times:        *)
(*    RunsInv says where the attempt of a task is counted, from the lease  *)
(*    of the task to the call of its source.                               *)
(***************************************************************************)
EXTENDS ProspectingWorkerProofs, WellFoundedInduction

-----------------------------------------------------------------------------
(* No candidate is lost.                                                   *)

\* The CRM has the candidate, or turned it away because the run was full; it is
\* no candidate that the CRM refuses.
Taken(c) == c \notin Invalid /\ (c \in crmCands \/ Cardinality(crmCands) = MaxCandidates)

Contains(i, c) ==
    outbox[i].kind = "candidates" /\ \E p \in DOMAIN outbox[i].payload : outbox[i].payload[p] = c

\* The row may still deliver the candidate, or set it apart for good.
Holds(i, c) ==
    /\ Contains(i, c)
    /\ \/ outbox[i].status \in {"queued", "dead"}
       \/ outbox[i].status = "discarded" /\ c \in Invalid

\* The candidates of a row are taken, or held by it or by a later row: the
\* halves of a batch follow it.
Accounted ==
    \A i \in DOMAIN outbox, c \in Candidates : Contains(i, c) =>
        Taken(c) \/ \E j \in DOMAIN outbox : i <= j /\ Holds(j, c)

\* A half row follows the row it was split from and has its half.
HalvesFollow ==
    \A j \in DOMAIN outbox, i \in Nat, half \in {0, 1} : outbox[j].key = SplitKey(i, half) =>
        /\ i \in DOMAIN outbox /\ i < j
        /\ outbox[j].kind = "candidates"
        /\ outbox[j].payload = Half(i, half).payload

WithinLimit == Cardinality(crmCands) <= MaxCandidates

CommittedTaken ==
    \A i \in DOMAIN outbox, c \in Candidates :
        Contains(i, c) /\ Known(outbox[i].key) => Taken(c)

RowsAccounted == Accounted /\ HalvesFollow /\ WithinLimit /\ CommittedTaken

\* A worker whose batch the CRM refused holds an invalid candidate.
RefusedIsInvalid ==
    \A w \in Workers : pc[w] = "mark" /\ sent[w] = "perm" =>
        \A i \in queue[w] : First(w, i) /\ outbox[i].kind = "candidates" =>
            \E c \in Invalid : Contains(i, c)

CandidatesInv == RowsAccounted /\ RefusedIsInvalid

-----------------------------------------------------------------------------
(* What upsert_candidates admits.                                          *)

\* A set of naturals that is not empty has a least element: the intervals from
\* 0 to its elements are well-founded under inclusion.
LEMMA LeastElement ==
    ASSUME NEW T, T \subseteq Nat, T # {}
    PROVE  \E x \in T : \A y \in T : x <= y
<1>1. PICK z \in T : TRUE
  OBVIOUS
<1> DEFINE Upto(x) == 0 .. x
           S == Upto(z)
           U == {Upto(x) : x \in {y \in T : y <= z}}
<1>2. \A x \in Nat : IsFiniteSet(Upto(x))
  BY FS_Interval
<1>3. IsWellFoundedOn(StrictSubsetOrdering(S), FiniteSubsetsOf(S))
  BY FS_StrictSubsetOrderingWellFounded
<1>4. U \subseteq FiniteSubsetsOf(S) /\ U # {}
  BY <1>1, <1>2 DEF FiniteSubsetsOf
<1>5. PICK u \in U : \A v \in U : <<v, u>> \notin StrictSubsetOrdering(S)
  <2> HIDE DEF U, S
  <2> QED
    BY <1>3, <1>4, WFMin
<1>6. PICK x \in T : x <= z /\ u = Upto(x)
  BY <1>5
<1>7. ASSUME NEW y \in T, y < x PROVE FALSE
  <2>1. y \in Nat /\ x \in Nat /\ z \in Nat /\ y <= z
    BY <1>6, <1>7
  <2>2. Upto(y) \in U
    BY <2>1
  <2>3. <<Upto(y), u>> \in StrictSubsetOrdering(S)
    <3>1. Upto(y) \subseteq Upto(x) /\ x \in Upto(x) /\ x \notin Upto(y) /\ Upto(x) \subseteq S
      BY <1>6, <1>7, <2>1
    <3> QED
      BY <1>6, <3>1 DEF StrictSubsetOrdering
  <2> QED
    BY <1>5, <2>2, <2>3
<1> QED
  BY <1>6, <1>7

\* A bounded set of naturals that is not empty has a greatest element.
LEMMA GreatestElement ==
    ASSUME NEW N \in Nat, NEW T, T \subseteq 0 .. N, T # {}
    PROVE  \E x \in T : \A y \in T : y <= x
  <1> DEFINE mirror == {N - x : x \in T}
  <1>1. mirror \subseteq Nat /\ mirror # {}
    <2>1. \A x \in T : N - x \in Nat
      OBVIOUS
    <2>2. QED BY <2>1
  <1>2. PICK y \in mirror : \A z \in mirror : y <= z
    BY <1>1, LeastElement
  <1>3. PICK x \in T : y = N - x
    BY <1>2
  <1>4. ASSUME NEW z \in T PROVE z <= x
    <2>1. N - z \in mirror
      OBVIOUS
    <2>2. N - x <= N - z
      BY <1>2, <1>3, <2>1
    <2>3. x \in Nat /\ z \in Nat
      BY <1>3
    <2>4. QED BY <2>2, <2>3
  <1>5. QED BY <1>3, <1>4

\* The position of a candidate is one of its places in the batch.
LEMMA PositionInBatch ==
    ASSUME NEW payload \in Seq(Candidates), NEW n \in DOMAIN payload
    PROVE  /\ Position(payload[n], payload) \in 1 .. Len(payload)
           /\ payload[Position(payload[n], payload)] = payload[n]
  <1> DEFINE places == {i \in DOMAIN payload : payload[i] = payload[n]}
  <1>1. DOMAIN payload = 1 .. Len(payload) /\ Len(payload) \in Nat
    BY LenProperties
  <1>2. PICK i \in places : \A j \in places : i <= j
    <2>1. places \subseteq Nat /\ n \in places
      BY <1>1
    <2>2. QED BY <2>1, LeastElement
  <1>3. \E p \in DOMAIN payload :
           payload[p] = payload[n] /\ \A j \in DOMAIN payload : payload[j] = payload[n] => p <= j
    BY <1>2
  <1>4. QED BY <1>1, <1>3 DEF Position

\* Two new candidates of a batch have different positions.
LEMMA FreshPositions ==
    ASSUME NEW payload \in Seq(Candidates), NEW c \in Fresh(payload)
    PROVE  /\ Position(c, payload) \in 1 .. Len(payload)
           /\ payload[Position(c, payload)] = c
  <1>1. PICK n \in DOMAIN payload : c = payload[n]
    BY DEF Fresh
  <1>2. QED BY <1>1, PositionInBatch

\* Either every new candidate of a batch is admitted or the run is full, and
\* the limit of the run is never exceeded.
LEMMA AdmittedUpToTheLimit ==
    ASSUME IInv, WithinLimit, NEW payload \in Seq(Candidates)
    PROVE  /\ Cardinality(crmCands \cup Admitted(payload)) <= MaxCandidates
           /\ \/ Cardinality(crmCands \cup Admitted(payload)) = MaxCandidates
              \/ \A n \in DOMAIN payload : payload[n] \in crmCands \cup Admitted(payload)
  <1> DEFINE F == Fresh(payload)
             A == Admitted(payload)
             P(c) == Position(c, payload)
             Before(c) == {d \in F : P(d) < P(c)}
             m == Cardinality(crmCands)
             N == Len(payload)
  <1>1. /\ IsFiniteSet(crmCands) /\ m \in Nat /\ m <= MaxCandidates /\ MaxCandidates \in Nat
        /\ N \in Nat
    <2>1. crmCands \subseteq Candidates
      BY DEF IInv, CrmOK, CrmTypeOK
    <2>2. IsFiniteSet(crmCands)
      BY <2>1, CrmAssumption, FS_Subset
    <2>3. QED BY <2>2, FS_CardinalityType, LenProperties, CrmAssumption DEF WithinLimit
  <1>2. IsFiniteSet(F)
    <2>1. \A n \in DOMAIN payload : payload[n] \in Candidates
      BY LenProperties, ElementOfSeq
    <2>2. F \subseteq Candidates
      BY <2>1 DEF Fresh
    <2>3. QED BY <2>2, CrmAssumption, FS_Subset
  <1>3. A = {c \in F : Cardinality(Before(c)) + m < MaxCandidates}
    BY DEF Admitted
  <1>4. \A c \in F : P(c) \in Nat /\ P(c) \in 0 .. N /\ payload[P(c)] = c
    BY <1>1, FreshPositions
  <1>5. F \cap crmCands = {} /\ \A n \in DOMAIN payload : payload[n] \in crmCands \cup F
    BY DEF Fresh
  <1> HIDE DEF F, A, P, m, N
  <1>6. \A c \in F : IsFiniteSet(Before(c)) /\ Cardinality(Before(c)) \in Nat
    <2>1. ASSUME NEW c \in F PROVE IsFiniteSet(Before(c)) /\ Cardinality(Before(c)) \in Nat
      <3>1. Before(c) \in SUBSET F
        OBVIOUS
      <3>2. IsFiniteSet(Before(c))
        BY <1>2, <3>1, FS_Subset
      <3>3. QED BY <3>2, FS_CardinalityType
    <2>2. QED BY <2>1
  <1>7. A \subseteq F /\ IsFiniteSet(A) /\ Cardinality(A) \in Nat
    <2>1. A \in SUBSET F
      BY <1>3
    <2>2. IsFiniteSet(A)
      BY <1>2, <2>1, FS_Subset
    <2>3. QED BY <2>1, <2>2, FS_CardinalityType
  <1>8. Cardinality(crmCands \cup A) = m + Cardinality(A)
    <2>1. crmCands \cap A = {}
      BY <1>5, <1>7
    <2>2. Cardinality(crmCands \cup A)
             = Cardinality(crmCands) + Cardinality(A) - Cardinality(crmCands \cap A)
      BY <1>1, <1>7, FS_Union
    <2>3. Cardinality(crmCands \cap A) = 0
      BY <2>1, FS_EmptySet
    <2>4. QED BY <1>1, <1>7, <2>2, <2>3 DEF m
  <1>9. m + Cardinality(A) <= MaxCandidates
    <2>1. CASE A = {}
      BY <1>1, <2>1, FS_EmptySet
    <2>2. CASE A # {}
      <3> DEFINE places == {P(c) : c \in A}
      <3>1. places \subseteq 0 .. N /\ places # {}
        BY <1>4, <1>7, <2>2
      <3>2. PICK last \in places : \A y \in places : y <= last
        BY <1>1, <3>1, GreatestElement
      <3>3. PICK d \in A : last = P(d)
        BY <3>2
      <3>4. ASSUME NEW c \in A PROVE c \in Before(d) \cup {d}
        <4>1. P(c) <= P(d)
          BY <3>2, <3>3
        <4>2. c \in F /\ d \in F
          BY <1>7
        <4>3. P(c) = P(d) => c = d
          BY <1>4, <4>2
        <4>4. QED BY <1>4, <4>1, <4>2, <4>3
      <3>5. IsFiniteSet(Before(d)) /\ Cardinality(Before(d)) \in Nat
            /\ Cardinality(Before(d)) + m < MaxCandidates
        BY <1>3, <1>6, <1>7
      <3>6. /\ IsFiniteSet(Before(d) \cup {d})
            /\ Cardinality(Before(d) \cup {d}) <= Cardinality(Before(d)) + 1
        <4> HIDE DEF Before
        <4>1. /\ IsFiniteSet(Before(d) \cup {d})
              /\ Cardinality(Before(d) \cup {d}) = IF d \in Before(d) THEN Cardinality(Before(d))
                                                  ELSE Cardinality(Before(d)) + 1
          BY <3>5, FS_AddElement
        <4>2. QED BY <3>5, <4>1
      <3>7. A \in SUBSET (Before(d) \cup {d})
        BY <3>4
      <3>8. Cardinality(A) <= Cardinality(Before(d) \cup {d})
        <4> HIDE DEF Before
        <4>1. QED BY <3>6, <3>7, FS_Subset
      <3>9. Cardinality(Before(d) \cup {d}) \in Nat
        <4> HIDE DEF Before
        <4>1. QED BY <3>6, FS_CardinalityType
      <3> HIDE DEF Before
      <3>10. QED BY <1>1, <1>7, <3>5, <3>6, <3>8, <3>9
    <2>3. QED BY <2>1, <2>2
  <1>10. ASSUME A # F PROVE m + Cardinality(A) >= MaxCandidates
    <2> DEFINE places == {P(c) : c \in F \ A}
    <2>1. places \subseteq Nat /\ places # {}
      BY <1>4, <1>7, <1>10
    <2>2. PICK first \in places : \A y \in places : first <= y
      BY <2>1, LeastElement
    <2>3. PICK c \in F \ A : first = P(c)
      BY <2>2
    <2>4. ASSUME NEW d \in Before(c) PROVE d \in A
      <3>1. d \in F /\ P(d) < P(c) /\ P(d) \in Nat /\ P(c) \in Nat
        BY <1>4, <2>3
      <3>2. CASE d \notin A
        <4>1. P(d) \in places
          BY <3>1, <3>2
        <4>2. P(c) <= P(d)
          BY <2>2, <2>3, <4>1
        <4>3. QED BY <3>1, <4>2
      <3>3. QED BY <3>2
    <2>5. Cardinality(Before(c)) <= Cardinality(A)
      <3>1. Before(c) \in SUBSET A
        BY <2>4
      <3> HIDE DEF Before
      <3>2. QED BY <1>7, <3>1, FS_Subset
    <2>6. ~(Cardinality(Before(c)) + m < MaxCandidates) /\ Cardinality(Before(c)) \in Nat
      BY <1>3, <1>6, <2>3
    <2> HIDE DEF Before
    <2>7. QED BY <1>1, <1>7, <2>5, <2>6
  <1>11. CASE A = F
    BY <1>5, <1>8, <1>9, <1>11 DEF A
  <1>12. CASE A # F
    <2>1. m + Cardinality(A) = MaxCandidates
      BY <1>1, <1>7, <1>9, <1>10, <1>12
    <2>2. QED BY <1>8, <2>1, <1>1 DEF A
  <1>13. QED BY <1>11, <1>12

-----------------------------------------------------------------------------
(* What the transactions of the outbox do to the candidates.               *)

\* A row that is kept contains the candidates it contained.
LEMMA ContentsKept ==
    ASSUME RowsKept, NEW i \in DOMAIN outbox, NEW c
    PROVE  Contains(i, c)' <=> Contains(i, c)
  BY DEF RowsKept, Contains

\* The candidates a half row must have do not change either.
LEMMA HalfKept ==
    ASSUME RowsKept, NEW i \in DOMAIN outbox, NEW half
    PROVE  Half(i, half)' = Half(i, half)
  BY DEF RowsKept, Half

\* Rows are only added after the others.
LEMMA NewRowIsLater ==
    ASSUME RowsOK, RowsOK', NEW i \in DOMAIN outbox, NEW j \in DOMAIN outbox' \ DOMAIN outbox
    PROVE  i < j
  <1>1. DOMAIN outbox = 1 .. Len(outbox) /\ Len(outbox) \in Nat
    BY RowsAreArray DEF RowsOK
  <1>2. DOMAIN outbox' = 1 .. Len(outbox') /\ Len(outbox') \in Nat
    BY RowsAreArray DEF RowsOK
  <1>3. QED BY <1>1, <1>2

\* A transaction of the store that changes the status of one row at most: it
\* is queued or dead, committed, or set apart with its only candidate invalid.
MayBecome(i, status) ==
    \/ status \in {"queued", "dead", outbox[i].status}
    \/ status = "delivered" /\ Known(outbox[i].key)
    \/ status = "discarded" /\ \A c \in Candidates : Contains(i, c) => c \in Invalid

OneRowMoves(i) ==
    /\ DOMAIN outbox' = DOMAIN outbox
    /\ RowsKept
    /\ \A j \in DOMAIN outbox : j # i => outbox'[j].status = outbox[j].status
    /\ outbox[i].kind = "candidates" => MayBecome(i, outbox'[i].status)

\* Such a transaction loses no candidate.
LEMMA RowMoves ==
    ASSUME IInv, RowsAccounted, UNCHANGED <<crmCands, ledger>>,
           NEW i \in DOMAIN outbox, OneRowMoves(i)
    PROVE  RowsAccounted'
  <1>1. \A c : Taken(c)' <=> Taken(c)
    BY DEF Taken
  <1>2. \A j \in DOMAIN outbox, c \in Candidates : Contains(j, c)' <=> Contains(j, c)
    BY ContentsKept DEF OneRowMoves
  <1>3. ASSUME NEW j \in DOMAIN outbox, NEW c \in Candidates, Holds(j, c)
        PROVE  Taken(c) \/ Holds(j, c)'
    <2>1. Contains(j, c) /\ Contains(j, c)'
      BY <1>2, <1>3 DEF Holds
    <2>2. CASE j # i
      BY <1>3, <2>1, <2>2 DEF Holds, OneRowMoves
    <2>3. CASE j = i
      <3>1. MayBecome(i, outbox'[i].status)
        BY <2>1, <2>3 DEF Contains, OneRowMoves
      <3>2. CASE outbox'[i].status \in {"queued", "dead"}
        BY <2>1, <2>3, <3>2 DEF Holds
      <3>3. CASE outbox'[i].status = outbox[i].status
        BY <1>3, <2>1, <2>3, <3>3 DEF Holds
      <3>4. CASE outbox'[i].status = "delivered" /\ Known(outbox[i].key)
        BY <2>1, <2>3, <3>4 DEF RowsAccounted, CommittedTaken
      <3>5. CASE /\ outbox'[i].status = "discarded"
                 /\ \A d \in Candidates : Contains(i, d) => d \in Invalid
        BY <2>1, <2>3, <3>5 DEF Holds
      <3>6. QED BY <3>1, <3>2, <3>3, <3>4, <3>5 DEF MayBecome
    <2>4. QED BY <2>2, <2>3
  <1>4. Accounted'
    <2>1. ASSUME NEW j \in DOMAIN outbox', NEW c \in Candidates, Contains(j, c)'
          PROVE  Taken(c)' \/ \E k \in DOMAIN outbox' : j <= k /\ Holds(k, c)'
      <3>1. j \in DOMAIN outbox /\ Contains(j, c)
        BY <1>2, <2>1 DEF OneRowMoves
      <3>2. CASE Taken(c)
        BY <1>1, <3>2
      <3>3. ASSUME NEW k \in DOMAIN outbox, j <= k, Holds(k, c)
            PROVE  Taken(c)' \/ \E l \in DOMAIN outbox' : j <= l /\ Holds(l, c)'
        BY <1>1, <1>3, <3>3 DEF OneRowMoves
      <3>4. QED BY <3>1, <3>2, <3>3 DEF RowsAccounted, Accounted
    <2>2. QED BY <2>1 DEF Accounted
  <1>5. HalvesFollow'
    <2>1. ASSUME NEW j \in DOMAIN outbox', NEW n \in Nat, NEW half \in {0, 1},
                 outbox'[j].key = SplitKey(n, half)
          PROVE  /\ n \in DOMAIN outbox' /\ n < j
                 /\ outbox'[j].kind = "candidates"
                 /\ outbox'[j].payload = Half(n, half)'.payload
      <3>1. j \in DOMAIN outbox /\ outbox[j].key = SplitKey(n, half)
        BY <2>1 DEF OneRowMoves, RowsKept
      <3>2. /\ n \in DOMAIN outbox /\ n < j
            /\ outbox[j].kind = "candidates"
            /\ outbox[j].payload = Half(n, half).payload
        BY <3>1 DEF RowsAccounted, HalvesFollow
      <3>3. Half(n, half)' = Half(n, half)
        BY <3>2, HalfKept DEF OneRowMoves
      <3>4. QED BY <3>1, <3>2, <3>3 DEF OneRowMoves, RowsKept
    <2>2. QED BY <2>1 DEF HalvesFollow, SplitKey
  <1>6. CommittedTaken'
    <2>1. \A j \in DOMAIN outbox : outbox'[j].key = outbox[j].key
      BY DEF OneRowMoves, RowsKept
    <2>2. \A j \in DOMAIN outbox : Known(outbox[j].key)' <=> Known(outbox[j].key)
      BY <2>1 DEF Known
    <2>3. DOMAIN outbox' = DOMAIN outbox
      BY DEF OneRowMoves
    <2>4. QED BY <1>1, <1>2, <2>2, <2>3 DEF RowsAccounted, CommittedTaken
  <1>7. WithinLimit'
    BY DEF RowsAccounted, WithinLimit
  <1>8. QED BY <1>4, <1>5, <1>6, <1>7 DEF RowsAccounted

\* A transaction that leaves the outbox alone loses none either.
LEMMA RowsStay ==
    ASSUME RowsAccounted, UNCHANGED <<crmCands, ledger, outbox>>
    PROVE  RowsAccounted'
  <1>1. Accounted'
    BY DEF RowsAccounted, Accounted, Taken, Contains, Holds
  <1>2. HalvesFollow'
    BY DEF RowsAccounted, HalvesFollow, Half, SplitKey
  <1>3. WithinLimit' /\ CommittedTaken'
    BY DEF RowsAccounted, WithinLimit, CommittedTaken, Taken, Contains, Known
  <1>4. QED BY <1>1, <1>2, <1>3 DEF RowsAccounted

\* A row added to the outbox holds its candidates; its key is new to the CRM.
NewRowsHold ==
    \A j \in DOMAIN outbox' \ DOMAIN outbox :
        /\ outbox'[j].status = "queued"
        /\ \A n \in Nat, half \in {0, 1} : outbox'[j].key = SplitKey(n, half) =>
              /\ n \in DOMAIN outbox
              /\ outbox'[j].kind = "candidates"
              /\ outbox'[j].payload = Half(n, half).payload

\* What holds of every transaction that adds rows, a split or not: half rows
\* follow the row they come from and what the CRM committed it has taken.
LEMMA RowsAppended ==
    ASSUME IInv, RowsAccounted, UNCHANGED <<crmCands, ledger>>, RowsOK', RowsKept, NewRowsHold
    PROVE  /\ (HalvesFollow /\ WithinLimit /\ CommittedTaken)'
           /\ \A j \in DOMAIN outbox' \ DOMAIN outbox, c \in Candidates :
                 Contains(j, c)' => Holds(j, c)'
  <1>1. RowsOK /\ RowsOK' /\ RowsKept
    BY RowsOfStore DEF IInv
  <1>2. HalvesFollow'
    <2>1. ASSUME NEW j \in DOMAIN outbox', NEW n \in Nat, NEW half \in {0, 1},
                 outbox'[j].key = SplitKey(n, half)
          PROVE  /\ n \in DOMAIN outbox' /\ n < j
                 /\ outbox'[j].kind = "candidates"
                 /\ outbox'[j].payload = Half(n, half)'.payload
      <3>1. CASE j \in DOMAIN outbox
        <4>1. /\ n \in DOMAIN outbox /\ n < j
              /\ outbox[j].kind = "candidates"
              /\ outbox[j].payload = Half(n, half).payload
          BY <1>1, <2>1, <3>1 DEF RowsKept, RowsAccounted, HalvesFollow
        <4>2. Half(n, half)' = Half(n, half)
          BY <1>1, <4>1, HalfKept
        <4>3. QED BY <1>1, <3>1, <4>1, <4>2 DEF RowsKept
      <3>2. CASE j \notin DOMAIN outbox
        <4>1. /\ n \in DOMAIN outbox
              /\ outbox'[j].kind = "candidates"
              /\ outbox'[j].payload = Half(n, half).payload
          BY <2>1, <3>2 DEF NewRowsHold
        <4>2. n < j
          BY <1>1, <2>1, <3>2, <4>1, NewRowIsLater
        <4>3. Half(n, half)' = Half(n, half)
          BY <1>1, <4>1, HalfKept
        <4>4. QED BY <1>1, <4>1, <4>2, <4>3 DEF RowsKept
      <3>3. QED BY <3>1, <3>2
    <2>2. QED BY <2>1 DEF HalvesFollow, SplitKey
  <1>3. WithinLimit'
    BY DEF RowsAccounted, WithinLimit
  <1>4. CommittedTaken'
    <2>1. ASSUME NEW j \in DOMAIN outbox', NEW c \in Candidates, Contains(j, c)',
                 outbox'[j].key \in DOMAIN ledger
          PROVE  Taken(c)
      <3>1. PICK i \in DOMAIN outbox : outbox[i].key = outbox'[j].key
        BY <2>1 DEF IInv, StoreOK, LedgerFromOutbox
      <3>2. i = j
        BY <1>1, <2>1, <3>1 DEF RowsKept, RowsOK, KeysUnique
      <3>3. Contains(i, c) /\ Known(outbox[i].key)
        BY <1>1, <2>1, <3>1, <3>2, ContentsKept DEF Known
      <3>4. QED BY <3>3 DEF RowsAccounted, CommittedTaken
    <2>2. QED BY <2>1 DEF CommittedTaken, Known, Taken
  <1>5. ASSUME NEW j \in DOMAIN outbox' \ DOMAIN outbox, NEW c \in Candidates, Contains(j, c)'
        PROVE  Holds(j, c)'
    BY <1>5 DEF NewRowsHold, Holds
  <1>6. QED BY <1>2, <1>3, <1>4, <1>5

\* Insert adds the row at the end or not at all.
LEMMA Inserted ==
    ASSUME NEW table \in Seq(RowType), NEW r
    PROVE  /\ DOMAIN table \subseteq DOMAIN Insert(table, r)
           /\ \A i \in DOMAIN table : Insert(table, r)[i] = table[i]
           /\ \A i \in DOMAIN Insert(table, r) \ DOMAIN table : Insert(table, r)[i] = r
  <1>1. CASE \E i \in DOMAIN table : table[i].key = r.key
    BY <1>1 DEF Insert
  <1>2. CASE ~ \E i \in DOMAIN table : table[i].key = r.key
    <2> DEFINE S == RowType \cup {r}
    <2>1. table \in Seq(S) /\ r \in S
      OBVIOUS
    <2>2. Insert(table, r) = Append(table, r)
      BY <1>2 DEF Insert
    <2> HIDE DEF S
    <2>3. /\ Append(table, r) \in Seq(S)
          /\ Len(Append(table, r)) = Len(table) + 1
          /\ \A i \in 1 .. Len(table) : Append(table, r)[i] = table[i]
          /\ Append(table, r)[Len(table) + 1] = r
      BY <2>1, AppendProperties
    <2>4. /\ DOMAIN Append(table, r) = 1 .. Len(table) + 1
          /\ DOMAIN table = 1 .. Len(table) /\ Len(table) \in Nat
      BY <2>1, <2>3, LenProperties
    <2>5. \A i \in 1 .. Len(table) + 1 : i \in DOMAIN table \/ i = Len(table) + 1
      BY <2>4
    <2>6. QED BY <2>2, <2>3, <2>4, <2>5
  <1>3. QED BY <1>1, <1>2

\* A message that is queued loses no candidate.
LEMMA RowQueued ==
    ASSUME IInv, RowsAccounted, DataKept, UNCHANGED <<crmCands, ledger>>,
           NEW r, r.status = "queued", outbox' = Insert(outbox, r),
           \A n \in Nat, half \in {0, 1} : r.key # SplitKey(n, half)
    PROVE  RowsAccounted'
  <1>1. outbox \in Seq(RowType) /\ RowsOK' /\ RowsKept
    BY RowsOfStore DEF IInv, RowsOK, DataKept, StoreOK, StoreTypeOK
  <1>2. /\ DOMAIN outbox \subseteq DOMAIN outbox'
        /\ \A i \in DOMAIN outbox : outbox'[i] = outbox[i]
        /\ \A i \in DOMAIN outbox' \ DOMAIN outbox : outbox'[i] = r
    BY <1>1, Inserted
  <1>3. NewRowsHold
    BY <1>2 DEF NewRowsHold
  <1>4. /\ (HalvesFollow /\ WithinLimit /\ CommittedTaken)'
        /\ \A j \in DOMAIN outbox' \ DOMAIN outbox, c \in Candidates :
              Contains(j, c)' => Holds(j, c)'
    BY <1>1, <1>3, RowsAppended
  <1>5. \A j \in DOMAIN outbox, c \in Candidates :
           /\ Contains(j, c)' <=> Contains(j, c)
           /\ Holds(j, c)' <=> Holds(j, c)
    BY <1>2 DEF Contains, Holds
  <1>6. Accounted'
    <2>1. ASSUME NEW j \in DOMAIN outbox', NEW c \in Candidates, Contains(j, c)'
          PROVE  Taken(c)' \/ \E k \in DOMAIN outbox' : j <= k /\ Holds(k, c)'
      <3>1. CASE j \in DOMAIN outbox
        <4>1. Taken(c) \/ \E k \in DOMAIN outbox : j <= k /\ Holds(k, c)
          BY <1>5, <2>1, <3>1 DEF RowsAccounted, Accounted
        <4>2. Taken(c)' <=> Taken(c)
          BY DEF Taken
        <4>3. QED BY <1>2, <1>5, <4>1, <4>2
      <3>2. CASE j \notin DOMAIN outbox
        <4>1. Holds(j, c)'
          BY <1>4, <2>1, <3>2
        <4>2. j <= j
          BY <1>1, RowsAreArray DEF RowsOK
        <4>3. QED BY <4>1, <4>2
      <3>3. QED BY <3>1, <3>2
    <2>2. QED BY <2>1 DEF Accounted
  <1>7. QED BY <1>4, <1>6 DEF RowsAccounted

\* Every candidate of a batch is in one of its halves.
LEMMA HalvesCover ==
    ASSUME RowsOK, NEW i \in DOMAIN outbox, NEW c \in Candidates, Contains(i, c)
    PROVE  \E half \in {0, 1} :
              \E p \in DOMAIN Half(i, half).payload : Half(i, half).payload[p] = c
  <1> DEFINE payload == outbox[i].payload
             midpoint == Len(payload) \div 2
  <1>1. payload \in Seq(Candidates)
    BY RowsAreArray, RowFields DEF RowsOK, Contains
  <1>2. /\ Half(i, 0).payload = SubSeq(payload, 1, midpoint)
        /\ Half(i, 1).payload = SubSeq(payload, midpoint + 1, Len(payload))
    <2>1. /\ Half(i, 0) = Row("candidates", SplitKey(i, 0), SubSeq(payload, 1, midpoint))
          /\ Half(i, 1) = Row("candidates", SplitKey(i, 1),
                              SubSeq(payload, midpoint + 1, Len(payload)))
      BY DEF Half
    <2> HIDE DEF midpoint
    <2>2. QED BY <2>1 DEF Row
  <1>3. PICK p \in DOMAIN payload : payload[p] = c
    BY DEF Contains
  <1> HIDE DEF payload
  <1>4. /\ Len(payload) \in Nat /\ (\A n \in 1 .. Len(payload) : payload[n] \in Candidates)
        /\ p \in 1 .. Len(payload)
    BY <1>1, <1>3, LenProperties, ElementOfSeq
  <1>5. midpoint \in Nat /\ midpoint <= Len(payload)
    BY <1>4
  <1> HIDE DEF midpoint
  <1>6. CASE p <= midpoint
    <2>1. \A n \in 1 .. midpoint : payload[n] \in Candidates
      BY <1>4, <1>5
    <2>2. /\ SubSeq(payload, 1, midpoint) \in Seq(Candidates)
          /\ Len(SubSeq(payload, 1, midpoint))
                = IF 1 <= midpoint THEN midpoint - 1 + 1 ELSE 0
          /\ \A n \in 1 .. midpoint - 1 + 1 : SubSeq(payload, 1, midpoint)[n] = payload[1 + n - 1]
      BY <2>1, <1>5, SubSeqProperties
    <2>3. Len(SubSeq(payload, 1, midpoint)) = midpoint
          /\ SubSeq(payload, 1, midpoint)[p] = payload[p]
      BY <1>4, <1>5, <1>6, <2>2
    <2>4. p \in DOMAIN SubSeq(payload, 1, midpoint)
      BY <1>4, <1>6, <2>2, <2>3, LenProperties
    <2>5. QED BY <1>2, <1>3, <2>3, <2>4
  <1>7. CASE ~(p <= midpoint)
    <2> DEFINE rest == SubSeq(payload, midpoint + 1, Len(payload))
    <2>1. \A n \in midpoint + 1 .. Len(payload) : payload[n] \in Candidates
      BY <1>4, <1>5
    <2>2. /\ rest \in Seq(Candidates)
          /\ Len(rest) = IF midpoint + 1 <= Len(payload)
                         THEN Len(payload) - (midpoint + 1) + 1 ELSE 0
          /\ \A n \in 1 .. Len(payload) - (midpoint + 1) + 1 :
                rest[n] = payload[midpoint + 1 + n - 1]
      BY <2>1, <1>4, <1>5, SubSeqProperties
    <2> HIDE DEF rest
    <2> DEFINE q == p - midpoint
    <2>3. q \in 1 .. Len(payload) - midpoint /\ midpoint + 1 + q - 1 = p
      BY <1>4, <1>5, <1>7
    <2>4. Len(rest) = Len(payload) - midpoint
      BY <1>4, <1>5, <1>7, <2>2
    <2>5. Len(payload) - (midpoint + 1) + 1 = Len(payload) - midpoint
      BY <1>4, <1>5
    <2> HIDE DEF q
    <2>6. rest[q] = payload[p]
      BY <2>2, <2>3, <2>5
    <2>7. q \in DOMAIN rest
      BY <2>2, <2>3, <2>4, LenProperties
    <2>8. QED BY <1>2, <1>3, <2>6, <2>7 DEF rest
  <1>8. QED BY <1>6, <1>7

\* A row is in the outbox under the key it was inserted with.
LEMMA InsertedKey ==
    ASSUME NEW table \in Seq(RowType), NEW r \in RowType
    PROVE  \E j \in DOMAIN Insert(table, r) : Insert(table, r)[j].key = r.key
  <1>1. CASE \E j \in DOMAIN table : table[j].key = r.key
    BY <1>1 DEF Insert
  <1>2. CASE ~ \E j \in DOMAIN table : table[j].key = r.key
    <2>1. Insert(table, r) = Append(table, r)
      BY <1>2 DEF Insert
    <2>2. /\ DOMAIN Append(table, r) = 1 .. Len(table) + 1
          /\ Append(table, r)[Len(table) + 1] = r
          /\ Len(table) \in Nat
      BY AppendProperties, LenProperties
    <2>3. Len(table) + 1 \in 1 .. Len(table) + 1
      BY <2>2
    <2>4. QED BY <2>1, <2>2, <2>3
  <1>3. QED BY <1>1, <1>2

\* What a split leaves: the row set apart, the rows of its halves, old or new.
SplitLeaves(i) ==
    /\ \A j \in DOMAIN outbox : j # i => outbox'[j] = outbox[j]
    /\ \A j \in DOMAIN outbox' \ DOMAIN outbox : \E half \in {0, 1} : outbox'[j] = Half(i, half)
    /\ \A half \in {0, 1} : \E j \in DOMAIN outbox' : outbox'[j].key = SplitKey(i, half)

\* A split leaves such rows.
LEMMA SplitRows ==
    ASSUME RowsOK, NEW i \in DOMAIN outbox, outbox[i].kind = "candidates", Split(i)
    PROVE  SplitLeaves(i)
  <1> DEFINE r == [outbox[i] EXCEPT !.status = "split"]
             marked == WithStatus(i, "split")
             one == Insert(marked, Half(i, 0))
             two == Insert(one, Half(i, 1))
  <1>1. outbox[i] \in RowType /\ outbox \in Seq(RowType)
    BY RowsAreArray DEF RowsOK
  <1>2. r \in RowType
    BY <1>1, RowUpdated, TRUE \in BOOLEAN DEF RowStatus
  <1>3. r.key = outbox[i].key
    BY <1>1 DEF RowType, RowOf
  <1>4. marked = [outbox EXCEPT ![i] = r]
    BY DEF WithStatus
  <1>5. Half(i, 0) \in RowType /\ Half(i, 1) \in RowType
    BY HalfIsRow
  <1>6. Half(i, 0).key = SplitKey(i, 0) /\ Half(i, 1).key = SplitKey(i, 1)
    BY DEF Half, Row
  <1>7. outbox' = two
    BY DEF Split
  <1> HIDE DEF r, marked
  <1>8. /\ marked \in Seq(RowType)
        /\ DOMAIN marked = DOMAIN outbox
        /\ \A j \in DOMAIN outbox : marked[j] = IF j = i THEN r ELSE outbox[j]
    BY <1>1, <1>2, <1>4, RowReplaced
  <1>9. \A j, k \in DOMAIN marked : marked[j].key = marked[k].key => j = k
    BY <1>3, <1>8 DEF RowsOK, KeysUnique
  <1>10. /\ one \in Seq(RowType)
         /\ DOMAIN marked \subseteq DOMAIN one
         /\ \A j \in DOMAIN marked : one[j] = marked[j]
         /\ \A j \in DOMAIN one \ DOMAIN marked : one[j] = Half(i, 0)
         /\ \A j, k \in DOMAIN one : one[j].key = one[k].key => j = k
    BY <1>5, <1>8, <1>9, InsertProperties
  <1>11. \E j \in DOMAIN one : one[j].key = SplitKey(i, 0)
    BY <1>5, <1>6, <1>8, InsertedKey
  <1> HIDE DEF one
  <1>12. /\ DOMAIN one \subseteq DOMAIN two
         /\ \A j \in DOMAIN one : two[j] = one[j]
         /\ \A j \in DOMAIN two \ DOMAIN one : two[j] = Half(i, 1)
    BY <1>5, <1>10, InsertProperties
  <1>13. \E j \in DOMAIN two : two[j].key = SplitKey(i, 1)
    BY <1>5, <1>6, <1>10, InsertedKey
  <1> HIDE DEF two
  <1>14. \A j \in DOMAIN outbox : j # i => outbox'[j] = outbox[j]
    BY <1>7, <1>8, <1>10, <1>12
  <1>15. \A j \in DOMAIN outbox' \ DOMAIN outbox : \E half \in {0, 1} : outbox'[j] = Half(i, half)
    BY <1>7, <1>8, <1>10, <1>12
  <1>16. \A half \in {0, 1} : \E j \in DOMAIN outbox' : outbox'[j].key = SplitKey(i, half)
    BY <1>7, <1>11, <1>12, <1>13
  <1>17. QED BY <1>14, <1>15, <1>16 DEF SplitLeaves

\* A batch that is split loses no candidate, even when a worker that stalled
\* splits a batch that was split before.
LEMMA RowIsSplit ==
    ASSUME IInv, RowsAccounted, UNCHANGED <<crmCands, ledger>>,
           NEW i \in DOMAIN outbox, outbox[i].kind = "candidates", Split(i)
    PROVE  RowsAccounted'
  <1>1. RowsOK
    BY RowsOfStore DEF IInv
  <1>2. OutboxStep
    BY <1>1, OutboxSplit DEF Split
  <1>3. SplitLeaves(i)
    BY <1>1, SplitRows
  <1>4. NewRowsHold
    <2>1. ASSUME NEW j \in DOMAIN outbox' \ DOMAIN outbox
          PROVE  /\ outbox'[j].status = "queued"
                 /\ \A n \in Nat, half \in {0, 1} : outbox'[j].key = SplitKey(n, half) =>
                       /\ n \in DOMAIN outbox
                       /\ outbox'[j].kind = "candidates"
                       /\ outbox'[j].payload = Half(n, half).payload
      <3>1. PICK h \in {0, 1} : outbox'[j] = Half(i, h)
        BY <1>3 DEF SplitLeaves
      <3>2. /\ Half(i, h).status = "queued" /\ Half(i, h).kind = "candidates"
            /\ Half(i, h).key = SplitKey(i, h)
        BY DEF Half, Row
      <3>3. ASSUME NEW n \in Nat, NEW half \in {0, 1}, SplitKey(i, h) = SplitKey(n, half)
            PROVE  n = i /\ half = h
        BY <3>3 DEF SplitKey
      <3>4. QED BY <3>1, <3>2, <3>3
    <2>2. QED BY <2>1 DEF NewRowsHold
  <1>5. /\ (HalvesFollow /\ WithinLimit /\ CommittedTaken)'
        /\ \A j \in DOMAIN outbox' \ DOMAIN outbox, c \in Candidates :
              Contains(j, c)' => Holds(j, c)'
    BY <1>2, <1>4, RowsAppended DEF OutboxStep
  <1>6. \A j \in DOMAIN outbox, c \in Candidates : Contains(j, c)' <=> Contains(j, c)
    BY <1>2, ContentsKept DEF OutboxStep
  <1>7. \A j \in DOMAIN outbox, c \in Candidates : j # i /\ Holds(j, c) => Holds(j, c)'
    BY <1>3, <1>6 DEF SplitLeaves, Holds
  <1>8. /\ DOMAIN outbox \subseteq DOMAIN outbox' /\ DOMAIN outbox' \subseteq Nat
        /\ \A c : Taken(c)' <=> Taken(c)
    BY <1>2, RowsAreArray DEF OutboxStep, RowsOK, RowsKept, Taken
  <1>9. ASSUME NEW c \in Candidates, Contains(i, c)
        PROVE  Taken(c) \/ \E k \in DOMAIN outbox' : i < k /\ Holds(k, c)'
    <2>1. PICK half \in {0, 1} :
             \E p \in DOMAIN Half(i, half).payload : Half(i, half).payload[p] = c
      BY <1>1, <1>9, HalvesCover
    <2>2. PICK j \in DOMAIN outbox' : outbox'[j].key = SplitKey(i, half)
      BY <1>3 DEF SplitLeaves
    <2>3. /\ i < j /\ outbox'[j].kind = "candidates"
          /\ outbox'[j].payload = Half(i, half).payload
      <3>1. i \in Nat
        BY <1>8
      <3>2. Half(i, half)' = Half(i, half)
        BY <1>2, HalfKept DEF OutboxStep
      <3>3. /\ i < j /\ outbox'[j].kind = "candidates"
            /\ outbox'[j].payload = Half(i, half)'.payload
        BY <1>5, <2>2, <3>1 DEF HalvesFollow, SplitKey
      <3>4. QED BY <3>2, <3>3
    <2>4. Contains(j, c)'
      BY <2>1, <2>3 DEF Contains
    <2>5. CASE j \notin DOMAIN outbox
      BY <1>5, <2>3, <2>4, <2>5
    <2>6. CASE j \in DOMAIN outbox
      <3>1. Taken(c) \/ \E k \in DOMAIN outbox : j <= k /\ Holds(k, c)
        BY <1>6, <2>4, <2>6 DEF RowsAccounted, Accounted
      <3>2. ASSUME NEW k \in DOMAIN outbox, j <= k, Holds(k, c)
            PROVE  k \in DOMAIN outbox' /\ i < k /\ Holds(k, c)'
        <4>1. i < k /\ k # i
          BY <1>8, <2>3, <3>2
        <4>2. QED BY <1>7, <1>8, <3>2, <4>1
      <3>3. QED BY <3>1, <3>2
    <2>7. QED BY <2>5, <2>6
  <1>10. Accounted'
    <2>1. ASSUME NEW j \in DOMAIN outbox', NEW c \in Candidates, Contains(j, c)'
          PROVE  Taken(c)' \/ \E k \in DOMAIN outbox' : j <= k /\ Holds(k, c)'
      <3>1. CASE j \in DOMAIN outbox
        <4>1. Contains(j, c)
          BY <1>6, <2>1, <3>1
        <4>2. Taken(c) \/ \E k \in DOMAIN outbox : j <= k /\ Holds(k, c)
          BY <3>1, <4>1 DEF RowsAccounted, Accounted
        <4>3. ASSUME NEW k \in DOMAIN outbox, j <= k, Holds(k, c)
              PROVE  Taken(c) \/ \E l \in DOMAIN outbox' : j <= l /\ Holds(l, c)'
          <5>1. CASE k # i
            BY <1>7, <1>8, <4>3, <5>1
          <5>2. CASE k = i
            <6>1. Contains(i, c)
              BY <4>3, <5>2 DEF Holds
            <6>2. \A l \in DOMAIN outbox' : i < l => j <= l
              BY <1>8, <4>3, <5>2
            <6>3. QED BY <1>9, <6>1, <6>2
          <5>3. QED BY <5>1, <5>2
        <4>4. QED BY <1>8, <4>2, <4>3
      <3>2. CASE j \notin DOMAIN outbox
        <4>1. Holds(j, c)'
          BY <1>5, <2>1, <3>2
        <4>2. j <= j
          BY <1>8
        <4>3. QED BY <4>1, <4>2
      <3>3. QED BY <3>1, <3>2
    <2>2. QED BY <2>1 DEF Accounted
  <1>11. QED BY <1>5, <1>10 DEF RowsAccounted

-----------------------------------------------------------------------------
(* What the calls to the CRM do to the candidates.                         *)

\* A call that accepts no candidates commits no batch.
LEMMA NoBatchCommitted ==
    ASSUME RowsAccounted, UNCHANGED <<outbox, crmCands>>,
           \A i \in DOMAIN outbox :
              outbox[i].kind = "candidates" /\ Known(outbox[i].key)' => Known(outbox[i].key)
    PROVE  RowsAccounted'
  <1>1. Accounted'
    BY DEF RowsAccounted, Accounted, Taken, Contains, Holds
  <1>2. HalvesFollow'
    BY DEF RowsAccounted, HalvesFollow, Half, SplitKey
  <1>3. WithinLimit'
    BY DEF RowsAccounted, WithinLimit
  <1>4. CommittedTaken'
    BY DEF RowsAccounted, CommittedTaken, Taken, Contains, Known
  <1>5. QED BY <1>1, <1>2, <1>3, <1>4 DEF RowsAccounted

\* An event or a terminal message commits no batch.
LEMMA OtherCommitted ==
    ASSUME IInv, RowsAccounted, UNCHANGED <<outbox, crmCands>>, NEW i \in DOMAIN outbox,
           outbox[i].kind # "candidates", DOMAIN ledger' \subseteq DOMAIN ledger \cup {outbox[i].key}
    PROVE  RowsAccounted'
  <1>1. \A j \in DOMAIN outbox : outbox[j].key = outbox[i].key => j = i
    BY DEF IInv, StoreOK, KeysUnique
  <1>2. QED BY <1>1, NoBatchCommitted DEF Known

\* A batch that is committed for the first time is taken.
LEMMA BatchCommitted ==
    ASSUME IInv, RowsAccounted, UNCHANGED outbox, NEW i \in DOMAIN outbox,
           outbox[i].kind = "candidates", \A c \in Invalid : ~Contains(i, c),
           crmCands' = crmCands \cup Admitted(outbox[i].payload),
           DOMAIN ledger' \subseteq DOMAIN ledger \cup {outbox[i].key}
    PROVE  RowsAccounted'
  <1> DEFINE payload == outbox[i].payload
  <1>1. payload \in Seq(Candidates)
    BY RowsAreArray, RowsOfStore, RowFields DEF IInv, RowsOK
  <1>2. /\ Cardinality(crmCands') <= MaxCandidates
        /\ \/ Cardinality(crmCands') = MaxCandidates
           \/ \A n \in DOMAIN payload : payload[n] \in crmCands'
    BY <1>1, AdmittedUpToTheLimit DEF RowsAccounted
  <1>3. WithinLimit'
    BY <1>2 DEF WithinLimit
  <1>4. ASSUME NEW c, Taken(c) PROVE Taken(c)'
    <2>1. CASE c \in crmCands
      BY <1>4, <2>1 DEF Taken
    <2>2. CASE Cardinality(crmCands) = MaxCandidates
      <3>1. crmCands' \subseteq Candidates
        <4>1. \A n \in DOMAIN payload : payload[n] \in Candidates
          BY <1>1, LenProperties, ElementOfSeq
        <4>2. QED BY <4>1 DEF Admitted, Fresh, IInv, CrmOK, CrmTypeOK
      <3>2. IsFiniteSet(crmCands')
        BY <3>1, CrmAssumption, FS_Subset
      <3>3. crmCands \in SUBSET crmCands'
        OBVIOUS
      <3>4. Cardinality(crmCands) <= Cardinality(crmCands')
        BY <3>2, <3>3, FS_Subset
      <3>5. Cardinality(crmCands') \in Nat /\ MaxCandidates \in Nat
        BY <3>2, FS_CardinalityType, CrmAssumption
      <3>6. Cardinality(crmCands') = MaxCandidates
        BY <1>2, <2>2, <3>4, <3>5
      <3>7. QED BY <1>4, <3>6 DEF Taken
    <2>3. QED BY <1>4, <2>1, <2>2 DEF Taken
  <1>5. Accounted'
    <2>1. \A j \in DOMAIN outbox, c \in Candidates :
             /\ Contains(j, c)' <=> Contains(j, c)
             /\ Holds(j, c)' <=> Holds(j, c)
      BY DEF Contains, Holds
    <2>2. ASSUME NEW j \in DOMAIN outbox', NEW c \in Candidates, Contains(j, c)'
          PROVE  Taken(c)' \/ \E k \in DOMAIN outbox' : j <= k /\ Holds(k, c)'
      <3>1. Taken(c) \/ \E k \in DOMAIN outbox : j <= k /\ Holds(k, c)
        BY <2>1, <2>2 DEF RowsAccounted, Accounted
      <3>2. QED BY <1>4, <2>1, <3>1
    <2>3. QED BY <2>2 DEF Accounted
  <1>6. HalvesFollow'
    BY DEF RowsAccounted, HalvesFollow, Half, SplitKey
  <1>7. CommittedTaken'
    <2>1. ASSUME NEW j \in DOMAIN outbox, NEW c \in Candidates, Contains(j, c),
                 outbox[j].key \in DOMAIN ledger'
          PROVE  Taken(c)'
      <3>1. CASE outbox[j].key \in DOMAIN ledger
        BY <1>4, <2>1, <3>1 DEF RowsAccounted, CommittedTaken, Known
      <3>2. CASE outbox[j].key = outbox[i].key
        <4>1. j = i
          BY <3>2 DEF IInv, StoreOK, KeysUnique
        <4>2. c \notin Invalid /\ \E n \in DOMAIN payload : payload[n] = c
          BY <2>1, <4>1 DEF Contains
        <4>3. QED BY <1>2, <4>2 DEF Taken
      <3>3. QED BY <2>1, <3>1, <3>2
    <2>2. QED BY <2>1 DEF CommittedTaken, Contains, Known
  <1>8. QED BY <1>3, <1>5, <1>6, <1>7 DEF RowsAccounted

\* A delivery, with or without its answer, loses no candidate.
LEMMA SendingAccounts ==
    ASSUME IInv, RowsAccounted, NEW w \in Workers, NEW next, Sending(w, next)
    PROVE  RowsAccounted'
  <1>1. PICK i \in queue[w] :
           /\ First(w, i)
           /\ \/ UNCHANGED crmVars
              \/ /\ Outcome(tok[w], outbox[i].kind, outbox[i].key, outbox[i].payload) = "ok"
                 /\ Commit(outbox[i].kind, outbox[i].key, outbox[i].payload)
    BY DEF Sending
  <1>2. i \in DOMAIN outbox /\ UNCHANGED outbox
    BY <1>1, FirstOfQueue DEF Sending, storeVars
  <1>3. CASE UNCHANGED crmVars
    BY <1>2, <1>3, RowsStay DEF crmVars
  <1>4. CASE outbox[i].kind = "events" /\ AppendEvents(outbox[i].key, outbox[i].payload)
    <2>1. UNCHANGED crmCands /\ DOMAIN ledger' \subseteq DOMAIN ledger \cup {outbox[i].key}
      BY <1>4 DEF AppendEvents, Remember
    <2>2. QED BY <1>2, <1>4, <2>1, OtherCommitted
  <1>5. CASE outbox[i].kind = "complete" /\ CompleteRun(outbox[i].key, outbox[i].payload)
    <2>1. UNCHANGED crmCands /\ DOMAIN ledger' \subseteq DOMAIN ledger \cup {outbox[i].key}
      BY <1>5 DEF CompleteRun, Remember
    <2>2. QED BY <1>2, <1>5, <2>1, OtherCommitted
  <1>6. CASE /\ outbox[i].kind = "candidates"
             /\ UpsertCandidates(outbox[i].key, outbox[i].payload)
             /\ Outcome(tok[w], outbox[i].kind, outbox[i].key, outbox[i].payload) = "ok"
    <2>1. CASE Known(outbox[i].key)
      <3>1. UNCHANGED <<crmCands, ledger>>
        BY <1>6, <2>1 DEF UpsertCandidates
      <3>2. QED BY <1>2, <3>1, RowsStay
    <2>2. CASE ~Known(outbox[i].key)
      <3>1. /\ crmCands' = crmCands \cup Admitted(outbox[i].payload)
            /\ DOMAIN ledger' \subseteq DOMAIN ledger \cup {outbox[i].key}
        BY <1>6, <2>2 DEF UpsertCandidates, Remember
      <3>2. \A c \in Invalid : ~Contains(i, c)
        BY <1>6 DEF Outcome, Contains
      <3>3. QED BY <1>2, <1>6, <3>1, <3>2, BatchCommitted
    <2>3. QED BY <2>1, <2>2
  <1>7. QED BY <1>1, <1>3, <1>4, <1>5, <1>6 DEF Commit

-----------------------------------------------------------------------------
(* The steps, and the candidates they leave behind.                        *)

\* The queueing of an event.
LEMMA EventAccounts ==
    ASSUME IInv, RowsAccounted, DataKept, UNCHANGED crmVars, NEW event, SaveEvent(event)
    PROVE  RowsAccounted'
  <1> DEFINE r == Row("events", <<"event", Len(outbox) + 1>>, event)
  <1>1. outbox' = Insert(outbox, r)
    BY DEF SaveEvent, Queue
  <1>2. r.status = "queued" /\ \A n \in Nat, half \in {0, 1} : r.key # SplitKey(n, half)
    BY DEF Row, SplitKey
  <1> HIDE DEF r
  <1>3. QED BY <1>1, <1>2, RowQueued DEF crmVars

\* The queueing of a batch, or of nothing.
LEMMA SaveAccounts ==
    ASSUME IInv, RowsAccounted, NEW w \in Workers, Save(w)
    PROVE  RowsAccounted'
  <1>1. PICK batch : SaveCandidates(job[w].task, job[w].attempt, batch)
    BY DEF Save
  <1>2. DataKept /\ UNCHANGED <<crmCands, ledger>>
    BY SaveData DEF Save, Quiet, crmVars
  <1> DEFINE r == Row("candidates", CandidatesKey(job[w].task, job[w].attempt), batch)
  <1>3. CASE batch = <<>>
    BY <1>1, <1>2, <1>3, RowsStay DEF SaveCandidates
  <1>4. CASE batch # <<>>
    <2>1. outbox' = Insert(outbox, r)
      BY <1>1, <1>4 DEF SaveCandidates, Queue
    <2>2. r.status = "queued" /\ \A n \in Nat, half \in {0, 1} : r.key # SplitKey(n, half)
      BY DEF Row, SplitKey, CandidatesKey
    <2> HIDE DEF r
    <2>3. QED BY <1>2, <2>1, <2>2, RowQueued
  <1>5. QED BY <1>3, <1>4

\* The queueing of the terminal message.
LEMMA ConcludeAccounts ==
    ASSUME IInv, RowsAccounted, NEW w \in Workers, Conclude(w)
    PROVE  RowsAccounted'
  <1> DEFINE r == Row("complete", TerminalKey(final[w].status), final[w])
  <1>1. DataKept /\ UNCHANGED <<crmCands, ledger>>
    BY ConcludeData DEF Conclude, Quiet, crmVars
  <1>2. outbox' = Insert(outbox, r)
    BY DEF Conclude, QueueTerminal, Queue
  <1>3. r.status = "queued" /\ \A n \in Nat, half \in {0, 1} : r.key # SplitKey(n, half)
    BY DEF Row, SplitKey, TerminalKey
  <1> HIDE DEF r
  <1>4. QED BY <1>1, <1>2, <1>3, RowQueued

\* A row whose status is set, or that is put off.
LEMMA StatusAccounts ==
    ASSUME IInv, RowsAccounted, DataKept, UNCHANGED crmVars, NEW i \in DOMAIN outbox,
           NEW status, outbox' = WithStatus(i, status),
           outbox[i].kind = "candidates" => MayBecome(i, status)
    PROVE  RowsAccounted'
  <1>1. /\ DOMAIN outbox' = DOMAIN outbox
        /\ \A j \in DOMAIN outbox : j # i => outbox'[j] = outbox[j]
    BY DEF WithStatus
  <1>2. outbox'[i].status = status
    <2>1. outbox[i] \in RowType
      BY RowsAreArray, RowsOfStore DEF IInv, RowsOK
    <2>2. outbox'[i] = [outbox[i] EXCEPT !.status = status]
      BY DEF WithStatus
    <2>3. QED BY <2>1, <2>2 DEF RowType, RowOf
  <1>3. OneRowMoves(i)
    BY <1>1, <1>2 DEF OneRowMoves, DataKept
  <1>4. QED BY <1>3, RowMoves DEF crmVars

\* A row that failed is queued again or dead.
LEMMA FailedAccounts ==
    ASSUME IInv, RowsAccounted, DataKept, UNCHANGED crmVars, NEW i \in DOMAIN outbox,
           NEW retryable \in BOOLEAN, MarkFailed(i, retryable)
    PROVE  RowsAccounted'
  <1> DEFINE status == IF retryable THEN "queued" ELSE "dead"
  <1>1. /\ DOMAIN outbox' = DOMAIN outbox
        /\ \A j \in DOMAIN outbox : j # i => outbox'[j] = outbox[j]
    BY DEF MarkFailed
  <1>2. outbox'[i].status = status
    <2>1. outbox[i] \in RowType
      BY RowsAreArray, RowsOfStore DEF IInv, RowsOK
    <2>2. outbox'[i] = [outbox[i] EXCEPT !.status = status, !.avail = ~retryable]
      BY DEF MarkFailed
    <2> HIDE DEF status
    <2>3. QED BY <2>1, <2>2 DEF RowType, RowOf
  <1>3. MayBecome(i, outbox'[i].status)
    BY <1>2 DEF MayBecome
  <1>4. OneRowMoves(i)
    BY <1>1, <1>3 DEF OneRowMoves, DataKept
  <1>5. QED BY <1>4, RowMoves DEF crmVars

\* A row whose back-off elapses stays queued.
LEMMA RetryAccounts ==
    ASSUME IInv, RowsAccounted, NEW i \in MessageIds, Retry(i)
    PROVE  RowsAccounted'
  <1>1. DataKept /\ UNCHANGED crmVars /\ i \in DOMAIN outbox
    BY RetryData DEF Retry, MessageIds
  <1>2. /\ DOMAIN outbox' = DOMAIN outbox
        /\ \A j \in DOMAIN outbox : j # i => outbox'[j] = outbox[j]
    BY DEF Retry, BackoffElapses
  <1>3. outbox'[i].status = outbox[i].status
    <2>1. outbox[i] \in RowType
      BY <1>1, RowsAreArray, RowsOfStore DEF IInv, RowsOK
    <2>2. outbox'[i] = [outbox[i] EXCEPT !.avail = TRUE]
      BY <1>1 DEF Retry, BackoffElapses
    <2>3. QED BY <2>1, <2>2 DEF RowType, RowOf
  <1>4. OneRowMoves(i)
    BY <1>1, <1>2, <1>3 DEF OneRowMoves, MayBecome, DataKept
  <1>5. QED BY <1>1, <1>4, RowMoves DEF crmVars

\* The store learns of a success: the row is delivered and its key committed.
LEMMA DeliveredAccounts ==
    ASSUME IInv, RowsAccounted, NEW w \in Workers,
           Delivered(w) \/ Settle(w) \/ (Replayed(w) /\ sent[w] = "ok")
    PROVE  RowsAccounted'
  <1>1. PICK i \in queue[w] : /\ First(w, i)
                              /\ \/ outbox' = WithStatus(i, "delivered")
                                 \/ UNCHANGED outbox
    BY DEF Delivered, Settle, Replayed, MarkDelivered, FinalizeTerminal, RecordAck, storeVars
  <1>2. i \in DOMAIN outbox /\ Known(outbox[i].key)
    <2>1. sent[w] = "ok"
      BY DEF Delivered, Settle, At, IInv, WorkerOK
    <2>2. QED BY <1>1, <2>1, FirstOfQueue
  <1>3. DataKept /\ UNCHANGED crmVars
    BY DeliveredData, SettleData, ReplayedData DEF Delivered, Settle, Replayed, Quiet
  <1>4. CASE UNCHANGED outbox
    BY <1>3, <1>4, RowsStay DEF crmVars
  <1>5. CASE outbox' = WithStatus(i, "delivered")
    BY <1>2, <1>3, <1>5, StatusAccounts DEF MayBecome
  <1>6. QED BY <1>1, <1>4, <1>5

\* The store learns of a failure: the row is queued again or dead.
LEMMA UndeliveredAccounts ==
    ASSUME IInv, RowsAccounted, NEW w \in Workers,
           Undelivered(w) \/ (Replayed(w) /\ sent[w] # "ok")
    PROVE  RowsAccounted'
  <1>1. PICK i \in queue[w] : First(w, i) /\ \E retryable \in BOOLEAN : MarkFailed(i, retryable)
    <2>1. CASE Undelivered(w)
      <3>1. (sent[w] = "retry") \in BOOLEAN
        OBVIOUS
      <3>2. QED BY <2>1, <3>1 DEF Undelivered
    <2>2. CASE Replayed(w) /\ sent[w] # "ok"
      BY <2>2 DEF Replayed
    <2>3. QED BY <2>1, <2>2
  <1>2. i \in DOMAIN outbox
    BY <1>1, FirstOfQueue
  <1>3. DataKept /\ UNCHANGED crmVars
    BY UndeliveredData, ReplayedData DEF Undelivered, Replayed, Quiet
  <1>4. QED BY <1>1, <1>2, <1>3, FailedAccounts

\* Only a refused batch is set apart, and a batch of one is its invalid candidate.
LEMMA IsolateAccounts ==
    ASSUME IInv, CandidatesInv, NEW w \in Workers, Isolate(w)
    PROVE  RowsAccounted'
  <1>1. PICK i \in queue[w] : First(w, i) /\ outbox[i].kind = "candidates"
                                /\ (Split(i) \/ Discard(i))
    BY DEF Isolate
  <1>2. i \in DOMAIN outbox /\ outbox[i] \in RowType
    BY <1>1, FirstOfQueue
  <1>3. DataKept /\ UNCHANGED crmVars
    BY IsolateData DEF Isolate, Quiet
  <1>4. CASE Split(i)
    BY <1>1, <1>2, <1>3, <1>4, RowIsSplit DEF CandidatesInv, crmVars
  <1>5. CASE Discard(i)
    <2>1. PICK c \in Invalid : Contains(i, c)
      BY <1>1 DEF CandidatesInv, RefusedIsInvalid, Isolate, At
    <2>2. Len(outbox[i].payload) = 1
      BY <1>5 DEF Discard, CanDiscard
    <2>3. DOMAIN outbox[i].payload = 1 .. 1
      BY <1>1, <1>2, <2>2, RowFields, LenProperties
    <2>4. \A d \in Candidates : Contains(i, d) => d \in Invalid
      BY <2>1, <2>3 DEF Contains
    <2>5. QED BY <1>2, <1>3, <1>5, <2>4, StatusAccounts DEF Discard, MayBecome, CandidatesInv
  <1>6. QED BY <1>1, <1>4, <1>5

\* What one worker was told of a refused batch.
Told(w) ==
    pc[w] = "mark" /\ sent[w] = "perm" =>
        \A i \in queue[w] : First(w, i) /\ outbox[i].kind = "candidates" =>
            \E c \in Invalid : Contains(i, c)

\* A worker that no step moved still holds the row it was told of.
LEMMA ToldBefore ==
    ASSUME IInv, RowsKept, NEW v \in Workers, SameWorker(v), Told(v)
    PROVE  Told(v)'
  <1>1. queue[v] \subseteq DOMAIN outbox
    BY DEF IInv, WorkerOK
  <1>2. \A i \in queue[v] : First(v, i)' <=> First(v, i)
    BY DEF First, SameWorker
  <1>3. \A i \in queue[v] : /\ outbox'[i].kind = outbox[i].kind
                            /\ outbox'[i].payload = outbox[i].payload
    BY <1>1 DEF RowsKept
  <1>4. QED BY <1>2, <1>3 DEF Told, SameWorker, Contains

\* Steps of a worker that do not end at the point where it reads a refusal.
Elsewhere(w) ==
    \/ Poll(w) \/ ClaimRun(w) \/ NothingToClaim(w) \/ Ensure(w) \/ ClaimLost(w)
    \/ Replay(w) \/ Replayed(w) \/ Fetch(w) \/ Delivered(w) \/ Settle(w)
    \/ LeaseLost(w) \/ Isolate(w) \/ Undelivered(w)
    \/ Loop(w) \/ Check(w) \/ TakeTask(w) \/ Drain(w) \/ Renew(w) \/ Recheck(w)
    \/ Start(w) \/ Search(w) \/ Searched(w) \/ Save(w) \/ FinishJob(w) \/ Announce(w)
    \/ Fail(w) \/ AnnounceFailure(w) \/ Executed(w) \/ AnnounceFails(w) \/ Crash(w)
    \/ StopTasks(w) \/ AnnounceCancel(w) \/ Report(w) \/ Conclude(w)

\* Those steps move their worker only, and away from that point.
LEMMA ElsewhereMoves ==
    ASSUME IInv, NEW w \in Workers, Elsewhere(w)
    PROVE  pc'[w] # "mark" /\ \A v \in Workers \ {w} : SameWorker(v)
  <1> USE DEF Goto, Leave, SameWorker
  <1>1. /\ pc \in [Workers -> Labels] /\ DOMAIN job = Workers /\ DOMAIN queue = Workers
        /\ DOMAIN sent = Workers /\ DOMAIN after = Workers /\ DOMAIN final = Workers
    BY DEF IInv, WorkerTypeOK
  <1>2. CASE Poll(w) \/ ClaimRun(w) \/ NothingToClaim(w) \/ Ensure(w) \/ ClaimLost(w)
    BY <1>1, <1>2 DEF Poll, ClaimRun, NothingToClaim, Ensure, ClaimLost
  <1>3. CASE Replay(w) \/ Replayed(w)
    BY <1>1, <1>3 DEF Replay, Replayed, Sending
  <1>4. CASE Fetch(w)
    BY <1>1, <1>4 DEF Fetch, GaveUp, Returned
  <1>5. CASE Delivered(w) \/ Settle(w)
    BY <1>1, <1>5 DEF Delivered, Settle, NextRow, Proceed
  <1>6. CASE LeaseLost(w) \/ Isolate(w) \/ Undelivered(w)
    BY <1>1, <1>6 DEF LeaseLost, Isolate, Undelivered, NextRow, GaveUp
  <1>7. CASE Loop(w) \/ Check(w) \/ Drain(w) \/ Renew(w) \/ Recheck(w)
    BY <1>1, <1>7 DEF Loop, Check, Drain, Renew, Recheck, Proceed, Finish
  <1>8. CASE TakeTask(w)
    BY <1>1, <1>8 DEF TakeTask, Proceed
  <1>9. CASE Start(w) \/ Search(w) \/ Searched(w) \/ Save(w) \/ FinishJob(w) \/ Announce(w)
    BY <1>1, <1>9 DEF Start, Search, Searched, Save, FinishJob, Announce, Deliver, Proceed
  <1>10. CASE Fail(w) \/ AnnounceFailure(w) \/ Executed(w) \/ AnnounceFails(w) \/ Crash(w)
    BY <1>1, <1>10 DEF Fail, AnnounceFailure, Executed, AnnounceFails, Crash, Proceed
  <1>11. CASE StopTasks(w) \/ AnnounceCancel(w) \/ Report(w) \/ Conclude(w)
    BY <1>1, <1>11 DEF StopTasks, AnnounceCancel, Report, Conclude, Deliver, Proceed
  <1>12. QED BY <1>2, <1>3, <1>4, <1>5, <1>6, <1>7, <1>8, <1>9, <1>10, <1>11 DEF Elsewhere

\* Only a batch with an invalid candidate is refused by the CRM for good.
LEMMA SendTold ==
    ASSUME IInv, NEW w \in Workers, Send(w) \/ Refuse(w)
    PROVE  Told(w)' /\ \A v \in Workers \ {w} : SameWorker(v)
  <1>1. /\ pc \in [Workers -> Labels] /\ queue[w] \subseteq Nat
        /\ sent \in [Workers -> {"none", "ok", "lease", "retry", "perm", "conflict"}]
    BY DEF IInv, WorkerTypeOK
  <1>2. UNCHANGED <<job, queue, after, final, outbox>>
    BY DEF Send, Sending, Refuse, storeVars
  <1>3. \A v \in Workers \ {w} : SameWorker(v)
    BY <1>1, <1>2 DEF Send, Sending, Refuse, Goto, SameWorker
  <1>4. \A i, j \in queue[w] : First(w, i) /\ First(w, j) => i = j
    BY <1>1 DEF First
  <1>5. \A i \in queue[w] : First(w, i)' <=> First(w, i)
    BY <1>2 DEF First
  <1>6. CASE Send(w)
    <2>1. PICK i \in queue[w] :
             /\ First(w, i)
             /\ \/ sent' = [sent EXCEPT ![w] = "ok"]
                \/ sent' = [sent EXCEPT ![w] =
                              Outcome(tok[w], outbox[i].kind, outbox[i].key, outbox[i].payload)]
                \/ sent' = [sent EXCEPT ![w] = "retry"]
      BY <1>6 DEF Send, Sending
    <2>2. sent'[w] = "perm" =>
             Outcome(tok[w], outbox[i].kind, outbox[i].key, outbox[i].payload) = "perm"
      BY <1>1, <2>1
    <2>3. sent'[w] = "perm" => \E c \in Invalid : Contains(i, c)
      BY <2>2 DEF Outcome, Contains
    <2>4. \A j \in queue[w] : First(w, j)' => j = i
      BY <1>4, <1>5, <2>1
    <2>5. QED BY <1>2, <1>3, <2>3, <2>4 DEF Told, Contains
  <1>7. CASE Refuse(w)
    <2>1. PICK i \in queue[w] : First(w, i) /\ outbox[i].kind # "candidates"
      BY <1>7 DEF Refuse
    <2>2. \A j \in queue[w] : First(w, j)' => j = i
      BY <1>4, <1>5, <2>1
    <2>3. QED BY <1>2, <1>3, <2>1, <2>2 DEF Told
  <1>8. QED BY <1>6, <1>7

\* A heartbeat does not move the worker.
LEMMA HeartbeatMoves ==
    ASSUME NEW w \in Workers, RunHeartbeat(w) \/ TaskHeartbeat(w)
    PROVE  \A v \in Workers : SameWorker(v)
  BY DEF RunHeartbeat, TaskHeartbeat, SameWorker

\* No step loses a candidate.
LEMMA StepAccounts ==
    ASSUME IInv, CandidatesInv, [Next]_vars
    PROVE  RowsAccounted'
  <1> USE DEF CandidatesInv
  <1>1. ASSUME UNCHANGED storeVars, UNCHANGED <<crmCands, ledger>> PROVE RowsAccounted'
    BY <1>1, RowsStay DEF storeVars
  <1>2. ASSUME NEW w \in Workers, Step(w) \/ ClaimLost(w) \/ Refuse(w) \/ AnnounceFails(w)
                 \/ RunHeartbeat(w) \/ TaskHeartbeat(w) \/ Crash(w)
        PROVE  RowsAccounted'
    <2>1. CASE Idle(w)
      <3>1. UNCHANGED crmVars
        BY <2>1 DEF Idle, Poll, NothingToClaim, Fetch, LeaseLost, Loop, Check, Drain, Renew,
               Recheck, Search, Searched, Executed, Report, Refuse, AnnounceFails, RunHeartbeat,
               TaskHeartbeat, Crash, Quiet
      <3>2. UNCHANGED storeVars
        BY <2>1 DEF Idle, Poll, NothingToClaim, Fetch, LeaseLost, Loop, Check, Drain, Renew,
               Recheck, Search, Searched, Executed, Report, Refuse, AnnounceFails, RunHeartbeat,
               TaskHeartbeat, Crash
      <3>3. QED BY <1>1, <3>1, <3>2 DEF crmVars
    <2>2. CASE ClaimRun(w) \/ ClaimLost(w)
      BY <1>1, <2>2 DEF ClaimRun, ClaimLost, CrmClaimRun
    <2>3. CASE Replay(w) \/ Send(w)
      BY <2>3, SendingAccounts DEF Replay, Send
    <2>4. CASE Ensure(w) \/ TakeTask(w) \/ FinishJob(w) \/ Fail(w) \/ StopTasks(w)
      <3>1. UNCHANGED outbox
        BY <2>4 DEF Ensure, EnsureRun, TakeTask, ClaimTask, FinishJob, FinishTask, Fail, FailTask,
                    StopTasks, CancelTasks, storeVars
      <3>2. UNCHANGED crmVars
        BY <2>4 DEF Ensure, TakeTask, FinishJob, Fail, StopTasks, Quiet
      <3>3. QED BY <3>1, <3>2, RowsStay DEF crmVars
    <2>5. CASE Start(w) \/ Announce(w) \/ AnnounceFailure(w) \/ AnnounceCancel(w)
      <3>1. DataKept
        BY <2>5, StartData, AnnounceCancelData
      <3>2. UNCHANGED crmVars /\ \E event : SaveEvent(event)
        BY <2>5 DEF Start, Announce, AnnounceFailure, AnnounceCancel, Quiet
      <3>3. QED BY <3>1, <3>2, EventAccounts
    <2>6. CASE Save(w) \/ Conclude(w)
      BY <2>6, SaveAccounts, ConcludeAccounts
    <2>7. CASE Delivered(w) \/ Settle(w) \/ Replayed(w) \/ Undelivered(w)
      BY <2>7, DeliveredAccounts, UndeliveredAccounts
    <2>8. CASE Isolate(w)
      BY <2>8, IsolateAccounts
    <2>9. QED BY <1>2, <2>1, <2>2, <2>3, <2>4, <2>5, <2>6, <2>7, <2>8 DEF Step, Idle
  <1>3. CASE RunLeaseExpires \/ Cancel \/ \E t \in Tasks : TaskLeaseEnds(t)
    <2>1. UNCHANGED <<outbox, crmCands, ledger>>
      BY <1>3 DEF RunLeaseExpires, CrmLeaseExpires, Cancel, RequestCancel, TaskLeaseEnds,
                  TaskLeaseExpires, storeVars, crmVars
    <2>2. QED BY <2>1, RowsStay
  <1>4. CASE \E i \in MessageIds : Retry(i)
    BY <1>4, RetryAccounts
  <1>5. CASE UNCHANGED vars
    BY <1>1, <1>5 DEF vars, crmVars
  <1>6. QED BY <1>2, <1>3, <1>4, <1>5 DEF Next

\* No step removes a row or changes what it carries, or makes the CRM forget a key.
LEMMA NextKeepsRows ==
    ASSUME IInv, [Next]_vars
    PROVE  RowsKept /\ LedgerGrows
  <1>1. ASSUME NEW w \in Workers, Step(w) \/ ClaimLost(w) \/ Refuse(w) \/ AnnounceFails(w)
                 \/ RunHeartbeat(w) \/ TaskHeartbeat(w) \/ Crash(w)
        PROVE  DataKept
    <2>1. CASE Idle(w)
      BY <2>1, IdleData
    <2>2. CASE ClaimRun(w) \/ ClaimLost(w)
      BY <2>2, ClaimData DEF ClaimRun, ClaimLost
    <2>3. CASE Replay(w) \/ Send(w)
      BY <2>3, SendingData DEF Replay, Send
    <2>4. CASE ~Idle(w) /\ ~(ClaimRun(w) \/ ClaimLost(w)) /\ ~(Replay(w) \/ Send(w))
      BY <1>1, <2>4, EnsureData, ReplayedData, DeliveredData, SettleData, IsolateData,
         UndeliveredData, TakeTaskData, StartData, SaveData, FinishJobData, FailData,
         StopTasksData, AnnounceCancelData, ConcludeData DEF Step, Idle
    <2>5. QED BY <2>1, <2>2, <2>3, <2>4
  <1>2. CASE UNCHANGED vars
    BY <1>2, AnsweredFromLedger DEF vars, DataKept
  <1>3. QED BY <1>1, <1>2, RunLeaseExpiresData, TaskLeaseEndsData, RetryData, CancelData
            DEF Next, DataKept

\* Every worker is told the truth about its batch.
LEMMA StepTold ==
    ASSUME IInv, CandidatesInv, [Next]_vars
    PROVE  RefusedIsInvalid'
  <1>1. IInv' /\ RowsKept
    BY NextInv, NextKeepsRows
  <1>2. \A v \in Workers : Told(v)
    BY DEF CandidatesInv, RefusedIsInvalid, Told
  <1>3. ASSUME \A v \in Workers : SameWorker(v) PROVE RefusedIsInvalid'
    <2>1. \A v \in Workers : Told(v)'
      BY <1>1, <1>2, <1>3, ToldBefore
    <2>2. QED BY <2>1 DEF Told, RefusedIsInvalid
  <1>4. ASSUME NEW w \in Workers, Told(w)', \A v \in Workers \ {w} : SameWorker(v)
        PROVE  RefusedIsInvalid'
    <2>1. \A v \in Workers : Told(v)'
      BY <1>1, <1>2, <1>4, ToldBefore
    <2>2. QED BY <2>1 DEF Told, RefusedIsInvalid
  <1>5. ASSUME NEW w \in Workers, Step(w) \/ ClaimLost(w) \/ Refuse(w) \/ AnnounceFails(w)
                 \/ RunHeartbeat(w) \/ TaskHeartbeat(w) \/ Crash(w)
        PROVE  RefusedIsInvalid'
    <2>1. CASE Elsewhere(w)
      <3>1. Told(w)'
        BY <2>1, ElsewhereMoves DEF Told
      <3>2. QED BY <1>4, <2>1, <3>1, ElsewhereMoves
    <2>2. CASE Send(w) \/ Refuse(w)
      BY <1>4, <2>2, SendTold
    <2>3. CASE RunHeartbeat(w) \/ TaskHeartbeat(w)
      BY <1>3, <2>3, HeartbeatMoves
    <2>4. QED BY <1>5, <2>1, <2>2, <2>3 DEF Step, Elsewhere
  <1>6. CASE UNCHANGED workerVars
    BY <1>3, <1>6 DEF workerVars, SameWorker
  <1>7. QED BY <1>5, <1>6 DEF Next, vars, RunLeaseExpires, TaskLeaseEnds, Retry, Cancel

\* Nothing is queued and nothing accepted before the first step.
LEMMA InitAccounts == Init => CandidatesInv
  <1> SUFFICES ASSUME Init PROVE CandidatesInv
    OBVIOUS
  <1>1. DOMAIN outbox = {} /\ crmCands = {}
    BY DEF Init, StoreInit, CrmInit
  <1>2. RowsAccounted
    BY <1>1, FS_EmptySet, CrmAssumption
       DEF RowsAccounted, Accounted, HalvesFollow, WithinLimit, CommittedTaken
  <1>3. RefusedIsInvalid
    BY DEF Init, RefusedIsInvalid
  <1>4. QED BY <1>2, <1>3 DEF CandidatesInv

\* Every candidate is accounted for in every state, whatever the CRM and the
\* workers did (the outbox of store.py).
THEOREM CandidatesAreKept == Spec => []CandidatesInv
  <1>1. Init => CandidatesInv
    BY InitAccounts
  <1>2. IInv /\ CandidatesInv /\ [Next]_vars => CandidatesInv'
    BY StepAccounts, StepTold DEF CandidatesInv
  <1>3. QED BY <1>1, <1>2, Invariance, PTL DEF Spec

\* No candidate of a batch that was ever queued is lost, whatever workers, claims,
\* losses, refusals, splits and crashes: it is in the CRM, turned away by the full
\* run, set apart as invalid, or still in a row that will deliver it
\* (split_candidate_outbox, discard_candidate_outbox, mark_outbox_failed).
THEOREM CandidatesAreNeverLost == Spec => []NoCandidateLost
  <1>1. IInv /\ CandidatesInv => NoCandidateLost
    <2> SUFFICES ASSUME IInv, CandidatesInv,
                        NEW i \in DOMAIN outbox, outbox[i].kind = "candidates",
                        NEW n \in DOMAIN outbox[i].payload
                 PROVE  LET c == outbox[i].payload[n] IN
                        Taken(c) \/ \E j \in DOMAIN outbox : Holds(j, c)
      BY DEF NoCandidateLost, MessageIds, Taken, Holds, Contains
    <2>1. outbox[i].payload[n] \in Candidates
      <3>1. outbox[i].payload \in Seq(Candidates)
        BY RowsAreArray, RowsOfStore, RowFields DEF IInv, RowsOK
      <3>2. QED BY <3>1, LenProperties, ElementOfSeq
    <2>2. Contains(i, outbox[i].payload[n])
      BY DEF Contains
    <2>3. QED BY <2>1, <2>2 DEF CandidatesInv, RowsAccounted, Accounted
  <1>2. QED BY <1>1, Invariance, CandidatesAreKept, PTL

-----------------------------------------------------------------------------
(* The tasks and their leases.                                             *)

\* A worker that still owns the task of its job owns it for that attempt.
OwnAttempt ==
    \A w \in Workers : job[w].task \in Tasks /\ Owns(w, job[w].task) =>
        taskRow[job[w].task].attempts = job[w].attempt

\* A worker that is about to store its claim has a token no one stored.
TokensFresh ==
    /\ runToken <= crmIssued
    /\ \A w \in Workers : tok[w] <= crmIssued
    /\ \A w \in Workers : pc[w] = "ensure" =>
          tok[w] # runToken /\ \A v \in Workers : pc[v] = "ensure" /\ tok[v] = tok[w] => v = w

TasksInv == OwnAttempt /\ TokensFresh

-----------------------------------------------------------------------------
(* One worker.                                                             *)

\* The events the CRM committed are counted in the attempts of their tasks.
EventsCounted ==
    \A k \in DOMAIN ledger : k \in EventKeys =>
        \A t \in Tasks : ledger[k].payload.task = t =>
            ledger[k].payload.attempt <= crmTask[t].attempts

Announcing(w) == pc[w] \in DeliveryLabels /\ after[w] = "started"

\* From the lease of a task to the call of its source.
BeforeSearch(w) == pc[w] \in {"renew", "recheck", "start", "search"} \/ Announcing(w)

RunsCounted(w) ==
    /\ \A t \in Tasks : /\ sourceRuns[t] <= MaxAttempts
                        /\ sourceRuns[t] <= taskRow[t].attempts
                        /\ sourceRuns[t] <= crmTask[t].attempts
                        /\ pc[w] = "ensure" => sourceRuns[t] <= claim[w].tasks[t].attempts
    /\ BeforeSearch(w) =>
          /\ sourceRuns[job[w].task] < job[w].attempt
          /\ job[w].attempt <= taskRow[job[w].task].attempts
          /\ job[w].attempt <= MaxAttempts
    /\ Announcing(w) =>
          \E i \in DOMAIN outbox :
             /\ outbox[i].kind = "events"
             /\ outbox[i].payload = Event(job[w].task, "running", job[w].attempt)
             /\ outbox[i].status \in {"queued", "delivered"}
    /\ pc[w] = "search" => job[w].attempt <= crmTask[job[w].task].attempts

SoloRuns == EventsCounted /\ \A w \in Workers : RunsCounted(w)

-----------------------------------------------------------------------------
(* What a step does to a task row, and to the job of a worker.             *)

FinishMove(t) ==
    \E w \in Workers : /\ pc[w] = "finish" /\ job[w].task = t /\ Owns(w, t)
                       /\ taskRow'[t].status = "completed"
                       /\ taskRow'[t].owner = NoWorker
                       /\ taskRow'[t].attempts = taskRow[t].attempts

StopMove(t) ==
    /\ taskRow[t].status \in {"pending", "running"}
    /\ taskRow'[t].status \in {"pending", "failed", "cancelled"}
    /\ taskRow'[t].owner = NoWorker
    /\ taskRow'[t].attempts = taskRow[t].attempts

LeaseEnd(t) ==
    /\ taskRow'[t].status = taskRow[t].status
    /\ taskRow'[t].owner = taskRow[t].owner
    /\ taskRow'[t].attempts = taskRow[t].attempts

ClaimMove(t) ==
    \E w \in Workers : /\ taskRow[t].status \in {"pending", "running"}
                       /\ taskRow[t].attempts < MaxAttempts
                       /\ taskRow'[t].status = "running"
                       /\ taskRow'[t].owner = w
                       /\ taskRow'[t].attempts = taskRow[t].attempts + 1
                       /\ job'[w] = [task |-> t, attempt |-> taskRow[t].attempts + 1]

EnsureMove(t) ==
    \E w \in Workers : /\ Ensure(w) /\ pc[w] = "ensure" /\ runToken' = tok[w]
                       /\ taskRow'[t].owner = NoWorker
                       /\ IF PreserveCompletion(t, claim[w].tasks[t])
                          THEN /\ taskRow'[t].status = taskRow[t].status
                               /\ taskRow'[t].attempts = taskRow[t].attempts
                          ELSE /\ taskRow'[t].status = claim[w].tasks[t].status
                               /\ taskRow'[t].attempts = claim[w].tasks[t].attempts

TaskMoves(t) ==
    \/ LeaseEnd(t) \/ FinishMove(t) \/ StopMove(t) \/ ClaimMove(t) \/ EnsureMove(t)

\* Releasing the task of a job moves that row only.
LEMMA ReleaseMoves ==
    ASSUME IInv, NEW t \in Tasks, NEW u, NEW status, Release(u, status)
    PROVE  IF t = u
           THEN /\ taskRow'[t].status = status /\ taskRow'[t].owner = NoWorker
                /\ taskRow'[t].attempts = taskRow[t].attempts
           ELSE taskRow'[t] = taskRow[t]
  <1>1. taskRow \in [Tasks -> LocalTask]
    BY DEF IInv, StoreOK, StoreTypeOK
  <1>2. CASE t = u
    BY <1>1, <1>2 DEF Release, LocalTask
  <1>3. CASE t # u
    BY <1>1, <1>3 DEF Release
  <1>4. QED BY <1>2, <1>3

\* finish_task and fail_task move the row of their job, or none.
LEMMA ReleaseJobMoves ==
    ASSUME IInv, NEW w \in Workers, FinishJob(w) \/ Fail(w), NEW t \in Tasks
    PROVE  TaskMoves(t)
  <1>1. CASE UNCHANGED taskRow
    BY <1>1 DEF TaskMoves, LeaseEnd
  <1>2. CASE FinishTask(w, job[w].task) /\ At(w, "finish")
    <2>1. Owns(w, job[w].task) /\ Release(job[w].task, "completed")
      BY <1>2 DEF FinishTask
    <2>2. CASE t = job[w].task
      BY <1>2, <2>1, <2>2, ReleaseMoves DEF TaskMoves, FinishMove, At
    <2>3. CASE t # job[w].task
      BY <2>1, <2>3, ReleaseMoves DEF TaskMoves, LeaseEnd
    <2>4. QED BY <2>2, <2>3
  <1>3. CASE FailTask(w, job[w].task) /\ Owns(w, job[w].task)
    <2> DEFINE status == IF taskRow[job[w].task].attempts >= MaxAttempts THEN "failed"
                         ELSE "pending"
    <2>1. Release(job[w].task, status) /\ taskRow[job[w].task].status = "running"
      BY <1>3 DEF FailTask, Owns
    <2>2. CASE t = job[w].task
      <3>1. status \in {"failed", "pending"}
        OBVIOUS
      <3> HIDE DEF status
      <3>2. QED BY <2>1, <2>2, <3>1, ReleaseMoves DEF TaskMoves, StopMove
    <2>3. CASE t # job[w].task
      <3> HIDE DEF status
      <3>1. QED BY <2>1, <2>3, ReleaseMoves DEF TaskMoves, LeaseEnd
    <2>4. QED BY <2>2, <2>3
  <1>4. QED BY <1>1, <1>2, <1>3 DEF FinishJob, Fail, FailTask, storeVars

\* claim_task leases a row, fails the exhausted ones and leaves the others.
LEMMA TakeTaskMoves ==
    ASSUME IInv, NEW w \in Workers, TakeTask(w), NEW t \in Tasks
    PROVE  TaskMoves(t)
  <1>1. taskRow[t] \in LocalTask /\ taskRow[t].attempts \in Nat
    BY TaskTyped
  <1>2. taskRow'[t] = IF t \in Claimed
                      THEN [status |-> "running", attempts |-> taskRow[t].attempts + 1,
                            owner |-> w, live |-> TRUE]
                      ELSE IF Exhausted(t)
                      THEN [taskRow[t] EXCEPT !.status = "failed", !.owner = NoWorker]
                      ELSE taskRow[t]
    BY DEF TakeTask, ClaimTask
  <1>3. CASE t \in Claimed
    <2>1. CanClaim(t) /\ \A u \in Claimed : u = t
      BY <1>3, CrmAssumption DEF Claimed
    <2>2. job' = [job EXCEPT ![w] = [task |-> t, attempt |-> taskRow[t].attempts + 1]]
      BY <1>3, <2>1 DEF TakeTask
    <2>3. job'[w] = [task |-> t, attempt |-> taskRow[t].attempts + 1]
      BY <2>2 DEF IInv, WorkerTypeOK
    <2>4. QED BY <1>2, <1>3, <2>1, <2>3 DEF TaskMoves, ClaimMove, CanClaim, LeaseExpired
  <1>4. CASE t \notin Claimed /\ Exhausted(t)
    BY <1>1, <1>2, <1>4 DEF TaskMoves, StopMove, Exhausted, LeaseExpired, LocalTask
  <1>5. CASE t \notin Claimed /\ ~Exhausted(t)
    BY <1>2, <1>5 DEF TaskMoves, LeaseEnd
  <1>6. QED BY <1>3, <1>4, <1>5

\* cancel_tasks stops the rows that have not ended.
LEMMA StopTasksMoves ==
    ASSUME IInv, NEW w \in Workers, StopTasks(w), NEW t \in Tasks
    PROVE  TaskMoves(t)
  <1>1. taskRow[t] \in LocalTask
    BY TaskTyped
  <1>2. taskRow'[t] = IF taskRow[t].status \in {"pending", "running"}
                      THEN [taskRow[t] EXCEPT !.status = "cancelled", !.owner = NoWorker,
                                              !.live = FALSE]
                      ELSE taskRow[t]
    BY DEF StopTasks, CancelTasks
  <1>3. QED BY <1>1, <1>2 DEF TaskMoves, StopMove, LeaseEnd, LocalTask

\* A lease that runs out leaves status, owner and attempts alone.
LEMMA LeaseEndsMoves ==
    ASSUME IInv, NEW u \in Tasks, TaskLeaseEnds(u), NEW t \in Tasks
    PROVE  TaskMoves(t)
  <1>1. taskRow \in [Tasks -> LocalTask]
    BY DEF IInv, StoreOK, StoreTypeOK
  <1>2. taskRow' = [taskRow EXCEPT ![u].live = FALSE]
    BY DEF TaskLeaseEnds, TaskLeaseExpires
  <1>3. QED BY <1>1, <1>2 DEF TaskMoves, LeaseEnd, LocalTask

\* ensure_run overwrites a row, or preserves its completion.
LEMMA EnsureMoves ==
    ASSUME IInv, NEW w \in Workers, Ensure(w), NEW t \in Tasks
    PROVE  EnsureMove(t)
  <1> DEFINE kept == PreserveCompletion(t, claim[w].tasks[t])
  <1>1. taskRow'[t] = [status   |-> IF kept THEN taskRow[t].status ELSE claim[w].tasks[t].status,
                       attempts |-> IF kept THEN taskRow[t].attempts
                                    ELSE claim[w].tasks[t].attempts,
                       owner    |-> NoWorker,
                       live     |-> FALSE]
    BY DEF Ensure, EnsureRun
  <1>2. pc[w] = "ensure" /\ runToken' = tok[w]
    BY DEF Ensure, EnsureRun, At
  <1> HIDE DEF kept
  <1>3. QED BY <1>1, <1>2 DEF EnsureMove, kept

\* Steps of a worker that leave the task rows alone.
TasksApart(w) ==
    \/ Idle(w) \/ ClaimRun(w) \/ ClaimLost(w) \/ Replay(w) \/ Replayed(w) \/ Send(w)
    \/ Delivered(w) \/ Settle(w) \/ Isolate(w) \/ Undelivered(w)
    \/ Start(w) \/ Save(w) \/ Announce(w) \/ AnnounceFailure(w) \/ AnnounceCancel(w) \/ Conclude(w)

\* Those steps leave them alone.
LEMMA TasksApartMoves ==
    ASSUME NEW w \in Workers, TasksApart(w)
    PROVE  UNCHANGED taskRow
  <1>1. CASE Idle(w)
    BY <1>1 DEF Idle, Poll, NothingToClaim, Fetch, LeaseLost, Loop, Check, Drain, Renew,
           Recheck, Search, Searched, Executed, Report, Refuse, AnnounceFails, RunHeartbeat,
           TaskHeartbeat, Crash, storeVars
  <1>2. CASE ClaimRun(w) \/ ClaimLost(w) \/ Replay(w) \/ Send(w)
    BY <1>2 DEF ClaimRun, ClaimLost, Replay, Send, Sending, storeVars
  <1>3. CASE Replayed(w) \/ Delivered(w) \/ Settle(w) \/ Isolate(w) \/ Undelivered(w)
    BY <1>3 DEF Replayed, Delivered, Settle, Isolate, Undelivered, FinalizeTerminal, MarkFailed,
           MarkDelivered, RecordAck, Split, Discard, storeVars
  <1>4. CASE Start(w) \/ Save(w) \/ Announce(w) \/ AnnounceFailure(w) \/ AnnounceCancel(w)
               \/ Conclude(w)
    BY <1>4 DEF Start, Save, Announce, AnnounceFailure, AnnounceCancel, Conclude, SaveEvent,
           SaveCandidates, QueueTerminal
  <1>5. QED BY <1>1, <1>2, <1>3, <1>4 DEF TasksApart

\* Every step moves a task row in one of these ways.
LEMMA TaskRowMoves ==
    ASSUME IInv, [Next]_vars, NEW t \in Tasks
    PROVE  TaskMoves(t)
  <1>1. ASSUME UNCHANGED taskRow PROVE TaskMoves(t)
    BY <1>1 DEF TaskMoves, LeaseEnd
  <1>2. ASSUME NEW w \in Workers, Step(w) \/ ClaimLost(w) \/ Refuse(w) \/ AnnounceFails(w)
                 \/ RunHeartbeat(w) \/ TaskHeartbeat(w) \/ Crash(w)
        PROVE  TaskMoves(t)
    <2>1. CASE TasksApart(w)
      BY <1>1, <2>1, TasksApartMoves
    <2>2. CASE Ensure(w)
      BY <2>2, EnsureMoves DEF TaskMoves
    <2>3. CASE TakeTask(w) \/ FinishJob(w) \/ Fail(w) \/ StopTasks(w)
      BY <2>3, TakeTaskMoves, ReleaseJobMoves, StopTasksMoves
    <2>4. QED BY <1>2, <2>1, <2>2, <2>3 DEF Step, TasksApart, Idle
  <1>3. CASE RunLeaseExpires \/ Cancel \/ (\E i \in MessageIds : Retry(i)) \/ UNCHANGED vars
    BY <1>1, <1>3 DEF RunLeaseExpires, Cancel, Retry, BackoffElapses, vars, storeVars
  <1>4. QED BY <1>2, <1>3, LeaseEndsMoves DEF Next

\* The job of a worker stays, is given up, or is the task that it claims.
JobMoves(w) ==
    \/ job'[w] = job[w]
    \/ job'[w] = NoJob
    \/ \E t \in Tasks : /\ job'[w].task = t /\ job'[w].attempt = taskRow'[t].attempts

\* Every step moves the job of a worker in one of these ways.
LEMMA NextJobMoves ==
    ASSUME IInv, [Next]_vars, NEW v \in Workers
    PROVE  JobMoves(v)
  <1>1. DOMAIN job = Workers /\ \A t \in Tasks : taskRow[t] \in LocalTask
    BY TaskTyped DEF IInv, WorkerTypeOK
  <1>2. ASSUME UNCHANGED job \/ (\E w \in Workers : job' = [job EXCEPT ![w] = NoJob])
        PROVE  JobMoves(v)
    BY <1>1, <1>2 DEF JobMoves
  <1>3. ASSUME NEW w \in Workers, TakeTask(w)
        PROVE  JobMoves(v)
    <2>1. CASE UNCHANGED job
      BY <1>2, <2>1
    <2>2. CASE \E t \in Claimed : job' = [job EXCEPT ![w] = [task |-> t,
                                                             attempt |-> taskRow[t].attempts + 1]]
      <3>1. PICK t \in Claimed : job' = [job EXCEPT ![w] = [task |-> t,
                                                            attempt |-> taskRow[t].attempts + 1]]
        BY <2>2
      <3>2. t \in Tasks /\ taskRow'[t].attempts = taskRow[t].attempts + 1
        BY <1>3 DEF Claimed, TakeTask, ClaimTask
      <3>3. QED BY <1>1, <3>1, <3>2 DEF JobMoves
    <2>3. QED BY <1>3, <2>1, <2>2 DEF TakeTask, Proceed
  <1>4. ASSUME NEW w \in Workers, Step(w) \/ ClaimLost(w) \/ Refuse(w) \/ AnnounceFails(w)
                 \/ RunHeartbeat(w) \/ TaskHeartbeat(w) \/ Crash(w), ~TakeTask(w)
        PROVE  JobMoves(v)
    <2> USE DEF Leave
    <2>1. CASE Poll(w) \/ ClaimRun(w) \/ NothingToClaim(w) \/ Ensure(w) \/ ClaimLost(w)
      BY <1>2, <2>1 DEF Poll, ClaimRun, NothingToClaim, Ensure, ClaimLost
    <2>2. CASE Replay(w) \/ Replayed(w) \/ Send(w) \/ Refuse(w)
      BY <1>2, <2>2 DEF Replay, Replayed, Send, Sending, Refuse
    <2>3. CASE Fetch(w)
      BY <1>2, <2>3 DEF Fetch, GaveUp, Returned
    <2>4. CASE Delivered(w) \/ Settle(w)
      BY <1>2, <2>4 DEF Delivered, Settle, NextRow, Proceed
    <2>5. CASE LeaseLost(w) \/ Isolate(w) \/ Undelivered(w)
      BY <1>2, <2>5 DEF LeaseLost, Isolate, Undelivered, NextRow, GaveUp
    <2>6. CASE Loop(w) \/ Check(w) \/ Drain(w) \/ Renew(w) \/ Recheck(w)
      BY <1>2, <2>6 DEF Loop, Check, Drain, Renew, Recheck, Proceed, Finish
    <2>7. CASE Start(w) \/ Search(w) \/ Searched(w) \/ Save(w) \/ FinishJob(w) \/ Announce(w)
      BY <1>2, <2>7 DEF Start, Search, Searched, Save, FinishJob, Announce, Deliver, Proceed
    <2>8. CASE Fail(w) \/ AnnounceFailure(w) \/ Executed(w) \/ AnnounceFails(w) \/ Crash(w)
      BY <1>2, <2>8 DEF Fail, AnnounceFailure, Executed, AnnounceFails, Crash, Proceed
    <2>9. CASE StopTasks(w) \/ AnnounceCancel(w) \/ Report(w) \/ Conclude(w)
      BY <1>2, <2>9 DEF StopTasks, AnnounceCancel, Report, Conclude, Deliver, Proceed
    <2>10. CASE RunHeartbeat(w) \/ TaskHeartbeat(w)
      BY <1>2, <2>10 DEF RunHeartbeat, TaskHeartbeat
    <2>11. QED BY <1>4, <2>1, <2>2, <2>3, <2>4, <2>5, <2>6, <2>7, <2>8, <2>9, <2>10 DEF Step
  <1>5. CASE UNCHANGED workerVars
    BY <1>2, <1>5 DEF workerVars
  <1>6. QED BY <1>3, <1>4, <1>5
            DEF Next, vars, RunLeaseExpires, TaskLeaseEnds, Retry, Cancel

\* A worker that still owns its task owns it for the attempt it leased.
LEMMA StepOwnAttempt ==
    ASSUME IInv, TasksInv, [Next]_vars
    PROVE  OwnAttempt'
  <1> SUFFICES ASSUME NEW w \in Workers, job'[w].task \in Tasks,
                      taskRow'[job'[w].task].owner = w,
                      taskRow'[job'[w].task].status = "running"
               PROVE  taskRow'[job'[w].task].attempts = job'[w].attempt
    BY DEF OwnAttempt, Owns
  <1> DEFINE t == job'[w].task
  <1>1. JobMoves(w) /\ TaskMoves(t)
    BY NextJobMoves, TaskRowMoves
  <1>2. job'[w] # NoJob /\ w # NoWorker
    BY CrmAssumption, StoreAssumption DEF NoJob, NoTask
  <1>3. CASE \E u \in Tasks : job'[w].task = u /\ job'[w].attempt = taskRow'[u].attempts
    BY <1>3
  <1>4. CASE job'[w] = job[w]
    <2>1. CASE LeaseEnd(t)
      BY <1>4, <2>1 DEF LeaseEnd, TasksInv, OwnAttempt, Owns
    <2>2. CASE ClaimMove(t)
      <3>1. PICK v \in Workers : /\ taskRow'[t].owner = v
                                 /\ taskRow'[t].attempts = taskRow[t].attempts + 1
                                 /\ job'[v] = [task |-> t, attempt |-> taskRow[t].attempts + 1]
        BY <2>2 DEF ClaimMove
      <3>2. QED BY <3>1
    <2>3. CASE FinishMove(t) \/ StopMove(t) \/ EnsureMove(t)
      BY <1>2, <2>3 DEF FinishMove, StopMove, EnsureMove
    <2>4. QED BY <1>1, <2>1, <2>2, <2>3 DEF TaskMoves
  <1>5. QED BY <1>1, <1>2, <1>3, <1>4 DEF JobMoves

\* Tokens are numbers of claims, and each is stored once.
LEMMA StepTokensFresh ==
    ASSUME IInv, TasksInv, [Next]_vars
    PROVE  TokensFresh'
  <1> USE DEF TasksInv, TokensFresh, Goto, Leave
  <1>1. /\ pc \in [Workers -> Labels] /\ tok \in [Workers -> Nat]
        /\ crmIssued \in Nat /\ runToken \in Nat
    BY DEF IInv, WorkerTypeOK, CrmOK, CrmTypeOK, StoreOK, StoreTypeOK
  <1>2. ASSUME UNCHANGED runToken, crmIssued' = crmIssued,
               \A v \in Workers : /\ pc'[v] = "ensure" => pc[v] = "ensure" /\ tok'[v] = tok[v]
                                  /\ tok'[v] \in {tok[v], 0, runToken}
        PROVE  TokensFresh'
    BY <1>1, <1>2
  <1>3. ASSUME NEW w \in Workers, ClaimRun(w)
        PROVE  TokensFresh'
    <2>1. /\ runToken' = runToken /\ crmIssued' = crmIssued + 1
          /\ \A v \in Workers : /\ pc'[v] = IF v = w THEN "ensure" ELSE pc[v]
                                /\ tok'[v] = IF v = w THEN crmIssued + 1 ELSE tok[v]
      BY <1>1, <1>3 DEF ClaimRun, CrmClaimRun, storeVars
    <2>2. QED BY <1>1, <2>1
  <1>4. ASSUME NEW w \in Workers, ClaimLost(w)
        PROVE  TokensFresh'
    <2>1. /\ runToken' = runToken /\ crmIssued' = crmIssued + 1
          /\ \A v \in Workers : /\ pc'[v] = IF v = w THEN "idle" ELSE pc[v]
                                /\ tok'[v] = IF v = w THEN 0 ELSE tok[v]
      BY <1>1, <1>4 DEF ClaimLost, CrmClaimRun, storeVars
    <2>2. QED BY <1>1, <2>1
  <1>5. ASSUME NEW w \in Workers, Ensure(w)
        PROVE  TokensFresh'
    <2>1. /\ runToken' = tok[w] /\ crmIssued' = crmIssued /\ pc[w] = "ensure" /\ tok' = tok
          /\ \A v \in Workers : pc'[v] = IF v = w THEN "fetch" ELSE pc[v]
      BY <1>1, <1>5 DEF Ensure, EnsureRun, Quiet, crmVars, At
    <2>2. QED BY <1>1, <2>1
  <1>6. ASSUME NEW w \in Workers, Step(w) \/ Refuse(w) \/ AnnounceFails(w)
                 \/ RunHeartbeat(w) \/ TaskHeartbeat(w) \/ Crash(w), ~ClaimRun(w), ~Ensure(w)
        PROVE  TokensFresh'
    <2>1. UNCHANGED runToken
      <3>1. CASE Idle(w)
        BY <3>1 DEF Idle, Poll, NothingToClaim, Fetch, LeaseLost, Loop, Check, Drain, Renew,
           Recheck, Search, Searched, Executed, Report, Refuse, AnnounceFails, RunHeartbeat,
           TaskHeartbeat, Crash, storeVars
      <3>2. CASE Replay(w) \/ Send(w)
        BY <3>2 DEF Replay, Send, Sending, storeVars
      <3>3. CASE Replayed(w) \/ Delivered(w) \/ Settle(w) \/ Isolate(w) \/ Undelivered(w)
        BY <3>3 DEF Replayed, Delivered, Settle, Isolate, Undelivered, FinalizeTerminal,
           MarkFailed, MarkDelivered, RecordAck, Split, Discard, runVars, storeVars
      <3>4. CASE Start(w) \/ Save(w) \/ Announce(w) \/ AnnounceFailure(w) \/ AnnounceCancel(w)
                   \/ Conclude(w)
        BY <3>4 DEF Start, Save, Announce, AnnounceFailure, AnnounceCancel, Conclude, SaveEvent,
           SaveCandidates, QueueTerminal, runVars
      <3>5. CASE TakeTask(w) \/ FinishJob(w) \/ Fail(w) \/ StopTasks(w)
        BY <3>5 DEF TakeTask, ClaimTask, FinishJob, FinishTask, Fail, FailTask, StopTasks,
           CancelTasks, runVars, storeVars
      <3>6. QED BY <1>6, <3>1, <3>2, <3>3, <3>4, <3>5 DEF Step, Idle
    <2>2. crmIssued' = crmIssued
      <3>1. CASE Replay(w) \/ Send(w)
        BY <3>1 DEF Replay, Send, Sending, Commit, AppendEvents, UpsertCandidates, CompleteRun,
           crmVars
      <3>2. CASE ~(Replay(w) \/ Send(w))
        BY <1>6, <3>2 DEF Step, Poll, NothingToClaim, Fetch, LeaseLost, Loop, Check, Drain, Renew,
           Recheck, Search, Searched, Executed, Report, Refuse, AnnounceFails, RunHeartbeat,
           TaskHeartbeat, Crash, Replayed, Delivered, Settle, Isolate, Undelivered, Start, Save,
           Announce, AnnounceFailure, AnnounceCancel, Conclude, TakeTask, FinishJob, Fail,
           StopTasks, Quiet, crmVars
      <3>3. QED BY <3>1, <3>2
    <2>3. ASSUME NEW v \in Workers
          PROVE  /\ pc'[v] = "ensure" => pc[v] = "ensure" /\ tok'[v] = tok[v]
                 /\ tok'[v] \in {tok[v], 0, runToken}
      <3>1. CASE Poll(w) \/ NothingToClaim(w)
        BY <1>1, <3>1 DEF Poll, NothingToClaim
      <3>2. CASE Replay(w) \/ Replayed(w) \/ Send(w) \/ Refuse(w)
        BY <1>1, <3>2 DEF Replay, Replayed, Send, Sending, Refuse
      <3>3. CASE Fetch(w)
        BY <1>1, <3>3 DEF Fetch, GaveUp, Returned
      <3>4. CASE Delivered(w) \/ Settle(w)
        BY <1>1, <3>4 DEF Delivered, Settle, NextRow, Proceed
      <3>5. CASE LeaseLost(w) \/ Isolate(w) \/ Undelivered(w)
        BY <1>1, <3>5 DEF LeaseLost, Isolate, Undelivered, NextRow, GaveUp
      <3>6. CASE Loop(w) \/ Check(w) \/ Drain(w) \/ Renew(w) \/ Recheck(w)
        BY <1>1, <3>6 DEF Loop, Check, Drain, Renew, Recheck, Proceed, Finish
      <3>7. CASE Start(w) \/ Search(w) \/ Searched(w) \/ Save(w) \/ FinishJob(w) \/ Announce(w)
        BY <1>1, <3>7 DEF Start, Search, Searched, Save, FinishJob, Announce, Deliver, Proceed
      <3>8. CASE Fail(w) \/ AnnounceFailure(w) \/ Executed(w) \/ AnnounceFails(w) \/ Crash(w)
        BY <1>1, <3>8 DEF Fail, AnnounceFailure, Executed, AnnounceFails, Crash, Proceed
      <3>9. CASE StopTasks(w) \/ AnnounceCancel(w) \/ Report(w) \/ Conclude(w)
        BY <1>1, <3>9 DEF StopTasks, AnnounceCancel, Report, Conclude, Deliver, Proceed
      <3>10. CASE RunHeartbeat(w) \/ TaskHeartbeat(w) \/ TakeTask(w)
        BY <1>1, <3>10 DEF RunHeartbeat, TaskHeartbeat, TakeTask, Proceed
      <3>11. QED BY <1>6, <3>1, <3>2, <3>3, <3>4, <3>5, <3>6, <3>7, <3>8, <3>9, <3>10 DEF Step
    <2>4. QED BY <1>2, <2>1, <2>2, <2>3
  <1>7. CASE UNCHANGED <<pc, tok, runToken, crmIssued>>
    BY <1>7
  <1>8. QED BY <1>3, <1>4, <1>5, <1>6, <1>7
            DEF Next, vars, workerVars, storeVars, crmVars, runVars, RunLeaseExpires,
                CrmLeaseExpires, TaskLeaseEnds, TaskLeaseExpires, Retry, BackoffElapses, Cancel,
                RequestCancel

\* At the start nobody has a job and no token was issued.
LEMMA InitTasks == Init => TasksInv
  <1> SUFFICES ASSUME Init PROVE TasksInv
    OBVIOUS
  <1>1. OwnAttempt
    BY CrmAssumption, StoreAssumption DEF Init, StoreInit, OwnAttempt, Owns, NoJob, NoTask
  <1>2. TokensFresh
    BY DEF Init, StoreInit, CrmInit, TokensFresh
  <1>3. QED BY <1>1, <1>2 DEF TasksInv

\* Ownership and tokens are as the workers expect them, in every run.
THEOREM TasksAreOwned == Spec => []TasksInv
  <1>1. Init => IInv /\ TasksInv
    BY InitInv, InitTasks
  <1>2. IInv /\ TasksInv /\ [Next]_vars => (IInv /\ TasksInv)'
    <2> SUFFICES ASSUME IInv, TasksInv, [Next]_vars
                 PROVE  IInv' /\ TasksInv'
      OBVIOUS
    <2>1. IInv'
      BY NextInv
    <2>2. OwnAttempt'
      BY StepOwnAttempt
    <2>3. TokensFresh'
      BY StepTokensFresh
    <2>4. QED BY <2>1, <2>2, <2>3 DEF TasksInv
  <1>3. QED BY <1>1, <1>2, PTL DEF Spec

\* A step that completes a task is fenced (finish_task, ensure_run).
LEMMA FinishIsFenced ==
    ASSUME IInv, TasksInv, [Next]_vars, NEW t \in Tasks,
           taskRow[t].status # "completed", taskRow'[t].status = "completed"
    PROVE  \/ /\ taskRow[t].status = "running"
              /\ \E w \in Workers : /\ pc[w] = "finish"
                                    /\ job[w] = [task |-> t, attempt |-> taskRow[t].attempts]
           \/ runToken' # runToken
  <1>1. TaskMoves(t)
    BY TaskRowMoves
  <1>2. CASE FinishMove(t)
    <2>1. PICK w \in Workers : pc[w] = "finish" /\ job[w].task = t /\ Owns(w, t)
      BY <1>2 DEF FinishMove
    <2>2. taskRow[t].status = "running" /\ taskRow[t].attempts = job[w].attempt
      BY <2>1 DEF TasksInv, OwnAttempt, Owns
    <2>3. job[w] \in [task : TaskRef, attempt : Nat]
      BY DEF IInv, WorkerTypeOK
    <2>4. job[w] = [task |-> t, attempt |-> taskRow[t].attempts]
      BY <2>1, <2>2, <2>3
    <2>5. QED BY <2>1, <2>2, <2>4
  <1>3. CASE EnsureMove(t)
    BY <1>3 DEF EnsureMove, TasksInv, TokensFresh
  <1>4. CASE LeaseEnd(t) \/ StopMove(t) \/ ClaimMove(t)
    BY <1>4 DEF LeaseEnd, StopMove, ClaimMove
  <1>5. QED BY <1>1, <1>2, <1>3, <1>4 DEF TaskMoves

\* Whatever stalls, expires or is claimed again, only the worker that leased a
\* task completes it, for the attempt it leased, or a new claim does
\* (finish_task and claim_task of store.py).
THEOREM FinishesAreFenced == Spec => FencedFinish
  <1>1. IInv /\ TasksInv /\ [Next]_vars =>
          [\A t \in Tasks :
             taskRow[t].status # "completed" /\ taskRow'[t].status = "completed" =>
                \/ /\ taskRow[t].status = "running"
                   /\ \E w \in Workers : /\ pc[w] = "finish"
                                         /\ job[w] = [task |-> t, attempt |-> taskRow[t].attempts]
                \/ runToken' # runToken]_vars
    BY FinishIsFenced
  <1>2. QED BY <1>1, Invariance, TasksAreOwned, PTL DEF Spec, FencedFinish

\* A step leaves a completed task alone while its event is queued.
LEMMA QueuedCompletionStays ==
    ASSUME IInv, [Next]_vars, NEW t \in Tasks,
           taskRow[t].status = "completed", CompletionQueued(t)
    PROVE  taskRow'[t].status \notin {"pending", "running"}
  <1>1. TaskMoves(t)
    BY TaskRowMoves
  <1>2. CASE EnsureMove(t)
    BY <1>2 DEF EnsureMove, PreserveCompletion
  <1>3. CASE LeaseEnd(t) \/ StopMove(t) \/ ClaimMove(t) \/ FinishMove(t)
    BY <1>3 DEF LeaseEnd, StopMove, ClaimMove, FinishMove
  <1>4. QED BY <1>1, <1>2, <1>3 DEF TaskMoves

\* The snapshot of a claim, however stale, does not make the worker repeat a
\* task whose completion event the CRM has still to get (ensure_run).
THEOREM CompletionsAreNotRepeated == Spec => NoRerunWhileCompletionQueued
  <1>1. IInv /\ [Next]_vars =>
          [\A t \in Tasks :
             taskRow[t].status = "completed" /\ CompletionQueued(t) =>
                taskRow'[t].status \notin {"pending", "running"}]_vars
    BY QueuedCompletionStays
  <1>2. QED BY <1>1, Invariance, PTL DEF Spec, NoRerunWhileCompletionQueued

-----------------------------------------------------------------------------
(* One worker calls a source at most max_attempts times.                   *)

\* The key of an event is the position of a row.
EventPositions ==
    \A i \in DOMAIN outbox, n \in Nat : outbox[i].key = <<"event", n>> => n \in DOMAIN outbox

RunsInv == EventPositions /\ SoloRuns

\* A transaction adds no event, or one whose key is its position.
LEMMA PositionsKept ==
    ASSUME EventPositions, RowsKept,
           \A i \in DOMAIN outbox' \ DOMAIN outbox, n \in Nat :
              outbox'[i].key = <<"event", n>> => n \in DOMAIN outbox'
    PROVE  EventPositions'
  BY DEF EventPositions, RowsKept

\* save_event adds the row of the event: its key is new.
LEMMA EventAppended ==
    ASSUME IInv, EventPositions, NEW event, SaveEvent(event)
    PROVE  /\ outbox' = Append(outbox, Row("events", <<"event", Len(outbox) + 1>>, event))
           /\ DOMAIN outbox' = 1 .. Len(outbox) + 1
           /\ Len(outbox) \in Nat
           /\ outbox'[Len(outbox) + 1] = Row("events", <<"event", Len(outbox) + 1>>, event)
           /\ \A i \in DOMAIN outbox : outbox'[i] = outbox[i]
  <1> DEFINE r == Row("events", <<"event", Len(outbox) + 1>>, event)
  <1>1. /\ outbox \in Seq(RowType) /\ Len(outbox) \in Nat /\ DOMAIN outbox = 1 .. Len(outbox)
    BY RowsAreArray DEF IInv, StoreOK, StoreTypeOK
  <1>2. r.key = <<"event", Len(outbox) + 1>>
    BY DEF Row
  <1>3. Len(outbox) + 1 \in Nat /\ Len(outbox) + 1 \notin DOMAIN outbox
    BY <1>1
  <1>4. ~ \E i \in DOMAIN outbox : outbox[i].key = r.key
    BY <1>2, <1>3 DEF EventPositions
  <1>5. outbox' = Append(outbox, r)
    BY <1>4 DEF SaveEvent, Queue, Insert
  <1> DEFINE S == RowType \cup {r}
  <1>6. outbox \in Seq(S) /\ r \in S
    BY <1>1
  <1> HIDE DEF r, S
  <1>7. /\ Append(outbox, r) \in Seq(S)
        /\ Len(Append(outbox, r)) = Len(outbox) + 1
        /\ \A i \in 1 .. Len(outbox) : Append(outbox, r)[i] = outbox[i]
        /\ Append(outbox, r)[Len(outbox) + 1] = r
    BY <1>6, AppendProperties
  <1>8. DOMAIN Append(outbox, r) = 1 .. Len(outbox) + 1
    BY <1>7, LenProperties
  <1>9. QED BY <1>1, <1>5, <1>7, <1>8 DEF r

\* Every step keeps the keys of the events positions.
LEMMA StepPositions ==
    ASSUME IInv, EventPositions, [Next]_vars
    PROVE  EventPositions'
  <1>1. RowsKept
    BY NextKeepsRows
  <1>2. outbox \in Seq(RowType)
    BY DEF IInv, StoreOK, StoreTypeOK
  <1>3. ASSUME DOMAIN outbox' \subseteq DOMAIN outbox PROVE EventPositions'
    BY <1>1, <1>3, PositionsKept
  <1>4. ASSUME NEW r, outbox' = Insert(outbox, r), \A n \in Nat : r.key # <<"event", n>>
        PROVE  EventPositions'
    BY <1>1, <1>2, <1>4, Inserted, PositionsKept
  <1>5. ASSUME NEW event, SaveEvent(event)
        PROVE  EventPositions'
    <2>1. /\ DOMAIN outbox' = 1 .. Len(outbox) + 1 /\ Len(outbox) \in Nat
          /\ outbox'[Len(outbox) + 1] = Row("events", <<"event", Len(outbox) + 1>>, event)
      BY <1>5, EventAppended
    <2>2. DOMAIN outbox = 1 .. Len(outbox)
      BY <1>2, RowsAreArray
    <2>3. \A i \in DOMAIN outbox' \ DOMAIN outbox : i = Len(outbox) + 1
      BY <2>1, <2>2
    <2>4. outbox'[Len(outbox) + 1].key = <<"event", Len(outbox) + 1>>
      BY <2>1 DEF Row
    <2>5. Len(outbox) + 1 \in DOMAIN outbox'
      BY <2>1
    <2>6. QED BY <1>1, <2>3, <2>4, <2>5, PositionsKept
  <1>6. ASSUME NEW w \in Workers, Step(w) \/ ClaimLost(w) \/ Refuse(w) \/ AnnounceFails(w)
                 \/ RunHeartbeat(w) \/ TaskHeartbeat(w) \/ Crash(w)
        PROVE  EventPositions'
    <2>1. CASE Idle(w) \/ ClaimRun(w) \/ ClaimLost(w) \/ Replay(w) \/ Send(w)
      <3>1. UNCHANGED outbox
        <4>1. CASE Idle(w)
          BY <4>1 DEF Idle, Poll, NothingToClaim, Fetch, LeaseLost, Loop, Check, Drain, Renew,
             Recheck, Search, Searched, Executed, Report, Refuse, AnnounceFails, RunHeartbeat,
             TaskHeartbeat, Crash, storeVars
        <4>2. CASE ~Idle(w)
          BY <2>1, <4>2 DEF ClaimRun, ClaimLost, Replay, Send, Sending, storeVars
        <4>3. QED BY <4>1, <4>2
      <3>2. QED BY <1>3, <3>1
    <2>2. CASE Ensure(w) \/ TakeTask(w) \/ FinishJob(w) \/ Fail(w) \/ StopTasks(w)
      <3>1. UNCHANGED outbox
        BY <2>2 DEF Ensure, EnsureRun, TakeTask, ClaimTask, FinishJob, FinishTask, Fail, FailTask,
                    StopTasks, CancelTasks, storeVars
      <3>2. QED BY <1>3, <3>1
    <2>3. CASE Start(w) \/ Announce(w) \/ AnnounceFailure(w) \/ AnnounceCancel(w)
      BY <1>5, <2>3 DEF Start, Announce, AnnounceFailure, AnnounceCancel
    <2>4. CASE Save(w)
      <3>1. PICK batch : SaveCandidates(job[w].task, job[w].attempt, batch)
        BY <2>4 DEF Save
      <3> DEFINE r == Row("candidates", CandidatesKey(job[w].task, job[w].attempt), batch)
      <3>2. outbox' = outbox \/ outbox' = Insert(outbox, r)
        BY <3>1 DEF SaveCandidates, Queue
      <3>3. \A n \in Nat : r.key # <<"event", n>>
        BY DEF Row, CandidatesKey
      <3> HIDE DEF r
      <3>4. QED BY <1>3, <1>4, <3>2, <3>3
    <2>5. CASE Conclude(w)
      <3> DEFINE r == Row("complete", TerminalKey(final[w].status), final[w])
      <3>1. outbox' = Insert(outbox, r)
        BY <2>5 DEF Conclude, QueueTerminal, Queue
      <3>2. \A n \in Nat : r.key # <<"event", n>>
        BY DEF Row, TerminalKey
      <3> HIDE DEF r
      <3>3. QED BY <1>4, <3>1, <3>2
    <2>6. CASE Delivered(w) \/ Settle(w) \/ Replayed(w) \/ Undelivered(w)
      <3>1. DOMAIN outbox' = DOMAIN outbox
        BY <2>6 DEF Delivered, Settle, Replayed, Undelivered, MarkDelivered, MarkFailed,
                    FinalizeTerminal, RecordAck, WithStatus, storeVars
      <3>2. QED BY <1>3, <3>1
    <2>7. CASE Isolate(w)
      <3>1. PICK i \in queue[w] : /\ First(w, i) /\ outbox[i].kind = "candidates"
                                  /\ Split(i) \/ Discard(i)
        BY <2>7 DEF Isolate
      <3>2. i \in DOMAIN outbox
        BY <3>1, FirstOfQueue
      <3>3. CASE Discard(i)
        BY <1>3, <3>3 DEF Discard, WithStatus
      <3>4. CASE Split(i)
        <4>1. \A j \in DOMAIN outbox' \ DOMAIN outbox : \E half \in {0, 1} :
                 outbox'[j] = Half(i, half)
          BY <3>1, <3>2, <3>4, SplitRows, RowsOfStore DEF IInv, SplitLeaves
        <4>2. \A half \in {0, 1}, n \in Nat : Half(i, half).key # <<"event", n>>
          BY DEF Half, Row, SplitKey
        <4>3. QED BY <1>1, <4>1, <4>2, PositionsKept
      <3>5. QED BY <3>1, <3>3, <3>4
    <2>8. QED BY <1>6, <2>1, <2>2, <2>3, <2>4, <2>5, <2>6, <2>7 DEF Step, Idle
  <1>7. CASE \E i \in MessageIds : Retry(i)
    BY <1>3, <1>7 DEF Retry, BackoffElapses
  <1>8. CASE RunLeaseExpires \/ Cancel \/ (\E t \in Tasks : TaskLeaseEnds(t)) \/ UNCHANGED vars
    BY <1>3, <1>8 DEF RunLeaseExpires, Cancel, TaskLeaseEnds, TaskLeaseExpires, vars, storeVars
  <1>9. QED BY <1>6, <1>7, <1>8 DEF Next

\* What a call to the CRM, or its user, does to the attempts of the tasks.
AttemptsGrow == \A t \in Tasks : crmTask'[t].attempts >= crmTask[t].attempts

\* append_events keeps the larger number of attempts, and counts the event.
LEMMA EventCounts ==
    ASSUME IInv, EventsCounted, UNCHANGED storeVars, NEW i \in DOMAIN outbox,
           outbox[i].kind = "events", AppendEvents(outbox[i].key, outbox[i].payload)
    PROVE  AttemptsGrow /\ EventsCounted'
  <1> DEFINE event == outbox[i].payload
             key == outbox[i].key
  <1>1. \A t \in Tasks : crmTask[t].attempts \in Nat /\ t # NoTask
    BY CrmAssumption DEF IInv, CrmOK, CrmTypeOK, RemoteTask, NoTask
  <1>2. event \in EventType /\ key \in EventKeys
    BY RowsAreArray, RowsOfStore, RowFields DEF IInv, RowsOK
  <1>3. event.attempt \in Nat
    BY <1>2 DEF EventType
  <1>4. CASE Known(key)
    BY <1>1, <1>4 DEF AppendEvents, AttemptsGrow, EventsCounted
  <1>5. CASE ~Known(key)
    <2>1. /\ DOMAIN ledger' = DOMAIN ledger \cup {key}
          /\ ledger'[key].payload = event
          /\ \A k \in DOMAIN ledger : ledger'[k] = ledger[k]
      BY <1>5 DEF AppendEvents, Remember, Known
    <2>2. \A t \in Tasks :
             /\ t # event.task => crmTask'[t] = crmTask[t]
             /\ t = event.task =>
                   crmTask'[t].attempts = IF event.attempt > crmTask[t].attempts
                                          THEN event.attempt ELSE crmTask[t].attempts
      <3>1. crmTask' = [t \in Tasks |->
                          IF t # event.task THEN crmTask[t]
                          ELSE [status |-> event.status,
                                attempts |-> IF event.attempt > crmTask[t].attempts
                                             THEN event.attempt ELSE crmTask[t].attempts]]
        BY <1>5 DEF AppendEvents
      <3> HIDE DEF event
      <3>2. QED BY <3>1
    <2> HIDE DEF event, key
    <2>3. ASSUME NEW t \in Tasks
          PROVE  /\ crmTask'[t].attempts \in Nat
                 /\ crmTask'[t].attempts >= crmTask[t].attempts
                 /\ event.task = t => crmTask'[t].attempts >= event.attempt
      <3>1. crmTask[t].attempts \in Nat
        BY <1>1
      <3>2. CASE t # event.task
        BY <2>2, <3>1, <3>2
      <3>3. CASE t = event.task
        <4>1. crmTask'[t].attempts = IF event.attempt > crmTask[t].attempts
                                     THEN event.attempt ELSE crmTask[t].attempts
          BY <2>2, <3>3
        <4>2. QED BY <1>3, <3>1, <4>1
      <3>4. QED BY <3>2, <3>3
    <2>4. AttemptsGrow
      BY <2>3 DEF AttemptsGrow
    <2>5. ASSUME NEW k \in DOMAIN ledger', k \in EventKeys,
                 NEW t \in Tasks, ledger'[k].payload.task = t
          PROVE  ledger'[k].payload.attempt <= crmTask'[t].attempts
      <3>1. CASE k = key
        BY <1>3, <2>1, <2>3, <2>5, <3>1
      <3>2. CASE k \in DOMAIN ledger
        <4>1. ledger[k].payload.attempt <= crmTask[t].attempts
          BY <2>1, <2>5, <3>2 DEF EventsCounted
        <4>2. ledger[k].payload.attempt \in Nat
          <5>1. PICK j \in DOMAIN outbox : outbox[j].key = k /\ outbox[j].payload = ledger[k].payload
            BY <3>2 DEF IInv, StoreOK, LedgerFromOutbox
          <5>2. outbox[j] \in RowType
            BY RowsAreArray, RowsOfStore DEF IInv, RowsOK
          <5>3. outbox[j].kind = "events"
            BY <2>5, <5>1, <5>2, RowFields DEF EventKeys, CandidateKeys, TerminalKeys
          <5>4. QED BY <5>1, <5>2, <5>3, RowFields DEF EventType
        <4>3. QED BY <1>1, <2>1, <2>3, <3>2, <4>1, <4>2
      <3>3. QED BY <2>1, <2>5, <3>1, <3>2
    <2>6. QED BY <2>4, <2>5 DEF EventsCounted
  <1>6. QED BY <1>4, <1>5

\* A call that commits a batch or a report counts nothing.
LEMMA OtherCounts ==
    ASSUME IInv, EventsCounted, UNCHANGED <<outbox, crmTask>>, NEW i \in DOMAIN outbox,
           outbox[i].kind # "events",
           \/ UNCHANGED ledger
           \/ \E accepted, found : Remember(outbox[i].key, outbox[i].payload, accepted, found)
    PROVE  AttemptsGrow /\ EventsCounted'
  <1>1. outbox[i].key \notin EventKeys
    BY RowsAreArray, RowsOfStore, RowFields
       DEF IInv, RowsOK, EventKeys, CandidateKeys, TerminalKeys
  <1>2. AttemptsGrow
    BY DEF AttemptsGrow, IInv, CrmOK, CrmTypeOK, RemoteTask
  <1>3. \A k \in DOMAIN ledger' : k \in EventKeys => k \in DOMAIN ledger /\ ledger'[k] = ledger[k]
    BY <1>1 DEF Remember
  <1>4. QED BY <1>2, <1>3 DEF EventsCounted

\* No step lowers the attempts of a task in the CRM nor loses count of an event.
LEMMA StepCounts ==
    ASSUME IInv, EventsCounted, [Next]_vars
    PROVE  AttemptsGrow /\ EventsCounted'
  <1>1. ASSUME UNCHANGED <<crmTask, ledger>> PROVE AttemptsGrow /\ EventsCounted'
    BY <1>1 DEF AttemptsGrow, EventsCounted, IInv, CrmOK, CrmTypeOK, RemoteTask
  <1>2. ASSUME NEW w \in Workers, NEW next, Sending(w, next)
        PROVE  AttemptsGrow /\ EventsCounted'
    <2>1. PICK i \in queue[w] :
             /\ First(w, i)
             /\ \/ UNCHANGED crmVars
                \/ Commit(outbox[i].kind, outbox[i].key, outbox[i].payload)
      BY <1>2 DEF Sending
    <2>2. i \in DOMAIN outbox /\ UNCHANGED storeVars /\ UNCHANGED outbox
      BY <1>2, <2>1, FirstOfQueue DEF Sending, storeVars
    <2>3. CASE UNCHANGED crmVars
      BY <1>1, <2>3 DEF crmVars
    <2>4. CASE outbox[i].kind = "events" /\ AppendEvents(outbox[i].key, outbox[i].payload)
      BY <2>2, <2>4, EventCounts
    <2>5. CASE outbox[i].kind = "candidates" /\ UpsertCandidates(outbox[i].key, outbox[i].payload)
      BY <2>2, <2>5, OtherCounts DEF UpsertCandidates
    <2>6. CASE outbox[i].kind = "complete" /\ CompleteRun(outbox[i].key, outbox[i].payload)
      BY <2>2, <2>6, OtherCounts DEF CompleteRun
    <2>7. QED BY <2>1, <2>3, <2>4, <2>5, <2>6 DEF Commit
  <1>3. CASE Cancel
    <2>1. UNCHANGED ledger
      BY <1>3 DEF Cancel, RequestCancel
    <2>2. \A t \in Tasks : crmTask[t].attempts \in Nat /\ crmTask'[t].attempts = crmTask[t].attempts
      BY <1>3 DEF Cancel, RequestCancel, IInv, CrmOK, CrmTypeOK, RemoteTask
    <2>3. QED BY <2>1, <2>2 DEF AttemptsGrow, EventsCounted
  <1>4. ASSUME NEW w \in Workers, Step(w) \/ ClaimLost(w) \/ Refuse(w) \/ AnnounceFails(w)
                 \/ RunHeartbeat(w) \/ TaskHeartbeat(w) \/ Crash(w)
        PROVE  AttemptsGrow /\ EventsCounted'
    <2>1. CASE Replay(w) \/ Send(w)
      BY <1>2, <2>1 DEF Replay, Send
    <2>2. CASE ClaimRun(w) \/ ClaimLost(w)
      BY <1>1, <2>2 DEF ClaimRun, ClaimLost, CrmClaimRun
    <2>3. CASE ~(Replay(w) \/ Send(w) \/ ClaimRun(w) \/ ClaimLost(w))
      <3>1. UNCHANGED crmVars
        BY <1>4, <2>3 DEF Step, Poll, NothingToClaim, Fetch, LeaseLost, Loop, Check, Drain, Renew,
           Recheck, Search, Searched, Executed, Report, Refuse, AnnounceFails, RunHeartbeat,
           TaskHeartbeat, Crash, Replayed, Delivered, Settle, Isolate, Undelivered, Start, Save,
           Announce, AnnounceFailure, AnnounceCancel, Conclude, TakeTask, FinishJob, Fail,
           StopTasks, Ensure, Quiet
      <3>2. QED BY <1>1, <3>1 DEF crmVars
    <2>4. QED BY <2>1, <2>2, <2>3
  <1>5. CASE RunLeaseExpires \/ (\E t \in Tasks : TaskLeaseEnds(t))
               \/ (\E i \in MessageIds : Retry(i)) \/ UNCHANGED vars
    BY <1>1, <1>5 DEF RunLeaseExpires, CrmLeaseExpires, TaskLeaseEnds, Retry, vars, crmVars
  <1>6. QED BY <1>3, <1>4, <1>5 DEF Next

-----------------------------------------------------------------------------
(* The worker between the lease of a task and the call of its source.      *)

\* The attempts of the task rows do not go down outside ensure_run.
LEMMA AttemptsStay ==
    ASSUME IInv, [Next]_vars, \A w \in Workers : ~Ensure(w), NEW t \in Tasks
    PROVE  taskRow'[t].attempts >= taskRow[t].attempts
  <1>1. taskRow[t].attempts \in Nat
    BY TaskTyped
  <1>2. TaskMoves(t) /\ ~EnsureMove(t)
    BY TaskRowMoves DEF EnsureMove
  <1>3. \/ taskRow'[t].attempts = taskRow[t].attempts
        \/ taskRow'[t].attempts = taskRow[t].attempts + 1
    BY <1>2 DEF TaskMoves, LeaseEnd, FinishMove, StopMove, ClaimMove
  <1>4. QED BY <1>1, <1>3

\* Where the row of an event goes: it stays queued, is delivered, or its
\* delivery failed.
LEMMA EventRowMoves ==
    ASSUME IInv, [Next]_vars, NEW i \in DOMAIN outbox, outbox[i].kind = "events",
           outbox[i].status \in {"queued", "delivered"},
           \A w \in Workers : ~Undelivered(w)
    PROVE  outbox'[i].status \in {"queued", "delivered"}
  <1>1. outbox \in Seq(RowType) /\ outbox[i] \in RowType
    BY RowsAreArray DEF IInv, StoreOK, StoreTypeOK
  <1>2. ASSUME \/ outbox'[i] = outbox[i]
               \/ \E j : outbox' = WithStatus(j, "delivered")
               \/ \E j : outbox' = [outbox EXCEPT ![j].avail = TRUE]
        PROVE  outbox'[i].status \in {"queued", "delivered"}
    <2>1. \/ outbox'[i] = outbox[i]
          \/ outbox'[i] = [outbox[i] EXCEPT !.status = "delivered"]
          \/ outbox'[i] = [outbox[i] EXCEPT !.avail = TRUE]
      BY <1>2 DEF WithStatus
    <2>2. QED BY <1>1, <2>1 DEF RowType, RowOf
  <1>3. ASSUME NEW r, outbox' = Insert(outbox, r)
        PROVE  outbox'[i].status \in {"queued", "delivered"}
    BY <1>1, <1>2, <1>3, Inserted
  <1>4. ASSUME NEW w \in Workers, Step(w) \/ ClaimLost(w) \/ Refuse(w) \/ AnnounceFails(w)
                 \/ RunHeartbeat(w) \/ TaskHeartbeat(w) \/ Crash(w)
        PROVE  outbox'[i].status \in {"queued", "delivered"}
    <2>1. CASE Idle(w)
      <3>1. UNCHANGED outbox
        BY <2>1 DEF Idle, Poll, NothingToClaim, Fetch, LeaseLost, Loop, Check, Drain, Renew,
           Recheck, Search, Searched, Executed, Report, Refuse, AnnounceFails, RunHeartbeat,
           TaskHeartbeat, Crash, storeVars
      <3>2. QED BY <1>2, <3>1
    <2>2. CASE ClaimRun(w) \/ ClaimLost(w) \/ Replay(w) \/ Send(w) \/ Ensure(w) \/ TakeTask(w)
                 \/ FinishJob(w) \/ Fail(w) \/ StopTasks(w)
      <3>1. UNCHANGED outbox
        BY <2>2 DEF ClaimRun, ClaimLost, Replay, Send, Sending, Ensure, EnsureRun, TakeTask,
           ClaimTask, FinishJob, FinishTask, Fail, FailTask, StopTasks, CancelTasks, storeVars
      <3>2. QED BY <1>2, <3>1
    <2>3. CASE Start(w) \/ Announce(w) \/ AnnounceFailure(w) \/ AnnounceCancel(w) \/ Save(w)
                 \/ Conclude(w)
      <3>1. UNCHANGED outbox \/ \E r : outbox' = Insert(outbox, r)
        BY <2>3 DEF Start, Announce, AnnounceFailure, AnnounceCancel, Save, Conclude, SaveEvent,
                    SaveCandidates, QueueTerminal, Queue
      <3>2. QED BY <1>2, <1>3, <3>1
    <2>4. CASE Delivered(w) \/ Settle(w)
      <3>1. UNCHANGED outbox \/ \E j : outbox' = WithStatus(j, "delivered")
        BY <2>4 DEF Delivered, Settle, MarkDelivered, FinalizeTerminal, RecordAck, storeVars
      <3>2. QED BY <1>2, <3>1
    <2>5. CASE Replayed(w)
      <3>1. PICK j \in queue[w] :
              \/ outbox' = WithStatus(j, "delivered")
              \/ outbox' = [outbox EXCEPT ![j].status = "queued", ![j].avail = ~TRUE]
              \/ outbox' = [outbox EXCEPT ![j].status = "dead", ![j].avail = ~FALSE]
        BY <2>5 DEF Replayed, FinalizeTerminal, MarkFailed
      <3>2. j # i
        BY <2>5 DEF Replayed, At, IInv, WorkerOK
      <3>3. outbox'[i] = outbox[i]
        BY <3>1, <3>2 DEF WithStatus
      <3>4. QED BY <1>2, <3>3
    <2>6. CASE Isolate(w)
      <3>1. PICK j \in queue[w] : /\ First(w, j) /\ outbox[j].kind = "candidates"
                                  /\ Split(j) \/ Discard(j)
        BY <2>6 DEF Isolate
      <3>2. j \in DOMAIN outbox /\ j # i
        BY <3>1, FirstOfQueue
      <3>3. CASE Discard(j)
        BY <1>2, <3>2, <3>3 DEF Discard, WithStatus
      <3>4. CASE Split(j)
        BY <1>2, <3>1, <3>2, <3>4, SplitRows, RowsOfStore DEF IInv, SplitLeaves
      <3>5. QED BY <3>1, <3>3, <3>4
    <2>7. QED BY <1>4, <2>1, <2>2, <2>3, <2>4, <2>5, <2>6 DEF Step, Idle
  <1>5. CASE \E j \in MessageIds : Retry(j)
    BY <1>2, <1>5 DEF Retry, BackoffElapses
  <1>6. CASE RunLeaseExpires \/ Cancel \/ (\E t \in Tasks : TaskLeaseEnds(t)) \/ UNCHANGED vars
    BY <1>2, <1>6 DEF RunLeaseExpires, Cancel, TaskLeaseEnds, TaskLeaseExpires, vars, storeVars
  <1>7. QED BY <1>4, <1>5, <1>6 DEF Next

\* The row that announces the attempt of a worker.
Announced(w, i) ==
    /\ outbox[i].kind = "events"
    /\ outbox[i].payload = Event(job[w].task, "running", job[w].attempt)
    /\ outbox[i].status \in {"queued", "delivered"}

\* The conditions under which a step that calls no source keeps the count.
LEMMA RunsStay ==
    ASSUME IInv, NEW w \in Workers, RunsCounted(w), sourceRuns' = sourceRuns, RowsKept,
           AttemptsGrow, \A t \in Tasks : taskRow'[t].attempts >= taskRow[t].attempts,
           \A t \in Tasks : taskRow'[t].attempts \in Nat /\ crmTask'[t].attempts \in Nat,
           pc'[w] = "ensure" => pc[w] = "ensure" /\ claim'[w] = claim[w],
           BeforeSearch(w)' => BeforeSearch(w) /\ job'[w] = job[w],
           Announcing(w)' => Announcing(w) /\ \A i \in DOMAIN outbox :
                                Announced(w, i) => outbox'[i].status \in {"queued", "delivered"},
           pc'[w] = "search" => pc[w] = "search"
    PROVE  RunsCounted(w)'
  <1>1. \A t \in Tasks : sourceRuns[t] \in Nat /\ taskRow[t].attempts \in Nat
                         /\ crmTask[t].attempts \in Nat
    BY TaskTyped DEF IInv, WorkerTypeOK, CrmOK, CrmTypeOK, RemoteTask
  <1>2. job[w].attempt \in Nat /\ MaxAttempts \in Nat
    BY StoreAssumption DEF IInv, WorkerTypeOK
  <1>3. BeforeSearch(w) => job[w].task \in Tasks
    BY DEF BeforeSearch, Announcing, IInv, WorkerOK, JobLabels
  <1>4. ASSUME NEW t \in Tasks
        PROVE  /\ sourceRuns'[t] <= MaxAttempts
               /\ sourceRuns'[t] <= taskRow'[t].attempts
               /\ sourceRuns'[t] <= crmTask'[t].attempts
               /\ pc'[w] = "ensure" => sourceRuns'[t] <= claim'[w].tasks[t].attempts
    <2>1. /\ sourceRuns[t] <= MaxAttempts
          /\ sourceRuns[t] <= taskRow[t].attempts
          /\ sourceRuns[t] <= crmTask[t].attempts
          /\ pc[w] = "ensure" => sourceRuns[t] <= claim[w].tasks[t].attempts
      BY DEF RunsCounted
    <2>2. crmTask'[t].attempts >= crmTask[t].attempts
      BY DEF AttemptsGrow
    <2>3. QED BY <1>1, <2>1, <2>2
  <1>5. BeforeSearch(w)' =>
          /\ sourceRuns'[job'[w].task] < job'[w].attempt
          /\ job'[w].attempt <= taskRow'[job'[w].task].attempts
          /\ job'[w].attempt <= MaxAttempts
    <2>1. SUFFICES ASSUME BeforeSearch(w)'
                   PROVE  /\ sourceRuns[job[w].task] < job[w].attempt
                          /\ job[w].attempt <= taskRow'[job[w].task].attempts
                          /\ job[w].attempt <= MaxAttempts
      OBVIOUS
    <2>2. /\ sourceRuns[job[w].task] < job[w].attempt
          /\ job[w].attempt <= taskRow[job[w].task].attempts
          /\ job[w].attempt <= MaxAttempts
          /\ job[w].task \in Tasks
      BY <1>3, <2>1 DEF RunsCounted
    <2> DEFINE before == taskRow[job[w].task].attempts
               next == taskRow'[job[w].task].attempts
    <2>3. next >= before /\ next \in Nat /\ before \in Nat /\ job[w].attempt <= before
      BY <1>1, <2>2
    <2> HIDE DEF before, next
    <2>4. job[w].attempt <= next
      BY <1>2, <2>3
    <2>5. QED BY <2>2, <2>4 DEF next
  <1>6. Announcing(w)' => \E i \in DOMAIN outbox' : Announced(w, i)'
    <2>1. SUFFICES ASSUME Announcing(w)'
                   PROVE  \E i \in DOMAIN outbox' : Announced(w, i)'
      OBVIOUS
    <2>2. PICK i \in DOMAIN outbox : Announced(w, i)
      BY <2>1 DEF RunsCounted, Announced
    <2>3. job'[w] = job[w]
      BY <2>1 DEF BeforeSearch
    <2>4. i \in DOMAIN outbox' /\ Announced(w, i)'
      BY <2>1, <2>2, <2>3 DEF RowsKept, Announced, Event
    <2>5. QED BY <2>4
  <1>7. pc'[w] = "search" => job'[w].attempt <= crmTask'[job'[w].task].attempts
    <2>1. SUFFICES ASSUME pc'[w] = "search"
                   PROVE  job[w].attempt <= crmTask'[job[w].task].attempts
      BY DEF BeforeSearch
    <2>2. pc[w] = "search" /\ job[w].task \in Tasks
      BY <1>3, <2>1 DEF BeforeSearch
    <2> DEFINE before == crmTask[job[w].task].attempts
               next == crmTask'[job[w].task].attempts
    <2>3. job[w].attempt <= before /\ before <= next /\ before \in Nat /\ next \in Nat
      BY <1>1, <2>2 DEF RunsCounted, AttemptsGrow
    <2> HIDE DEF before, next
    <2>4. job[w].attempt <= next
      BY <1>2, <2>3
    <2>5. QED BY <2>4 DEF next
  <1>8. QED BY <1>4, <1>5, <1>6, <1>7 DEF RunsCounted, Announced, Event

\* Steps that do not end between the lease of a task and the call of its source.
FarFromSearch(w) ==
    \/ Poll(w) \/ NothingToClaim(w) \/ ClaimLost(w) \/ Replay(w) \/ Replayed(w)
    \/ LeaseLost(w) \/ Undelivered(w) \/ Loop(w) \/ Check(w) \/ Drain(w)
    \/ Searched(w) \/ Save(w) \/ FinishJob(w) \/ Announce(w) \/ AnnounceFails(w)
    \/ Fail(w) \/ AnnounceFailure(w) \/ Executed(w) \/ Crash(w)
    \/ StopTasks(w) \/ AnnounceCancel(w) \/ Report(w) \/ Conclude(w)

\* Where they end.
LEMMA FarMoves ==
    ASSUME IInv, NEW w \in Workers, FarFromSearch(w)
    PROVE  ~BeforeSearch(w)' /\ pc'[w] # "ensure"
  <1> USE DEF Goto, Leave, BeforeSearch, Announcing, DeliveryLabels
  <1>1. pc \in [Workers -> Labels] /\ DOMAIN after = Workers
    BY DEF IInv, WorkerTypeOK
  <1>2. CASE Poll(w) \/ NothingToClaim(w) \/ ClaimLost(w) \/ Crash(w)
    BY <1>1, <1>2 DEF Poll, NothingToClaim, ClaimLost, Crash
  <1>3. CASE Replay(w) \/ Replayed(w)
    BY <1>1, <1>3 DEF Replay, Replayed, Sending
  <1>4. CASE LeaseLost(w) \/ Undelivered(w)
    BY <1>1, <1>4 DEF LeaseLost, Undelivered, GaveUp
  <1>5. CASE Loop(w) \/ Check(w) \/ Drain(w)
    BY <1>1, <1>5 DEF Loop, Check, Drain, Proceed, Finish
  <1>6. CASE Searched(w) \/ Save(w) \/ FinishJob(w) \/ Announce(w) \/ AnnounceFails(w)
    BY <1>1, <1>6 DEF Searched, Save, FinishJob, Announce, AnnounceFails, Proceed
  <1>7. CASE Fail(w) \/ AnnounceFailure(w) \/ Executed(w)
    BY <1>1, <1>7 DEF Fail, AnnounceFailure, Executed, Proceed
  <1>8. CASE StopTasks(w) \/ AnnounceCancel(w) \/ Report(w) \/ Conclude(w)
    BY <1>1, <1>8 DEF StopTasks, AnnounceCancel, Report, Conclude, Deliver, Proceed
  <1>9. QED BY <1>2, <1>3, <1>4, <1>5, <1>6, <1>7, <1>8 DEF FarFromSearch

\* Steps on the way to the search.
OnTheWay(w) ==
    \/ Send(w) \/ Refuse(w) \/ Delivered(w) \/ Settle(w) \/ Isolate(w)
    \/ Renew(w) \/ Recheck(w) \/ RunHeartbeat(w) \/ TaskHeartbeat(w)

\* A step on the way keeps the job, and arrives from the way.
LEMMA WayMoves ==
    ASSUME IInv, NEW w \in Workers, OnTheWay(w)
    PROVE  /\ pc'[w] = "ensure" => pc[w] = "ensure" /\ claim'[w] = claim[w]
           /\ BeforeSearch(w)' => BeforeSearch(w) /\ job'[w] = job[w]
           /\ Announcing(w)' => Announcing(w)
           /\ pc'[w] = "search" => pc[w] = "search"
  <1> USE DEF Goto, Leave, BeforeSearch, Announcing, DeliveryLabels
  <1>1. pc \in [Workers -> Labels] /\ DOMAIN after = Workers /\ DOMAIN job = Workers
    BY DEF IInv, WorkerTypeOK
  <1>2. CASE Send(w) \/ Refuse(w)
    BY <1>1, <1>2 DEF Send, Refuse, Sending, At
  <1>3. CASE Delivered(w) \/ Settle(w) \/ Isolate(w)
    BY <1>1, <1>3 DEF Delivered, Settle, Isolate, NextRow, Proceed, At
  <1>4. CASE Renew(w) \/ Recheck(w)
    BY <1>1, <1>4 DEF Renew, Recheck, Proceed, Finish, At
  <1>5. CASE RunHeartbeat(w) \/ TaskHeartbeat(w)
    BY <1>1, <1>5 DEF RunHeartbeat, TaskHeartbeat
  <1>6. QED BY <1>2, <1>3, <1>4, <1>5 DEF OnTheWay

\* What every step keeps of the counts that it does not move itself.
CountsAround(w) ==
    /\ IInv' /\ RowsKept /\ AttemptsGrow
    /\ \A t \in Tasks : taskRow'[t].attempts \in Nat /\ crmTask'[t].attempts \in Nat

\* Claiming the run: the snapshot has the attempts of the CRM.
LEMMA ClaimCounted ==
    ASSUME IInv, NEW w \in Workers, RunsCounted(w), ClaimRun(w)
    PROVE  RunsCounted(w)'
  <1>1. /\ pc'[w] = "ensure" /\ claim'[w].tasks = crmTask
        /\ UNCHANGED <<sourceRuns, taskRow, crmTask>>
    BY DEF ClaimRun, CrmClaimRun, Goto, storeVars, IInv, WorkerTypeOK
  <1>2. ~BeforeSearch(w)'
    BY <1>1 DEF BeforeSearch, Announcing, DeliveryLabels
  <1>3. QED BY <1>1, <1>2 DEF RunsCounted, BeforeSearch

\* Storing the claim: the task rows have the attempts of the snapshot.
LEMMA EnsureCounted ==
    ASSUME IInv, NEW w \in Workers, RunsCounted(w), Ensure(w)
    PROVE  RunsCounted(w)'
  <1>1. /\ pc[w] = "ensure" /\ pc'[w] = "fetch" /\ after'[w] = "loop"
        /\ UNCHANGED <<sourceRuns, crmTask>>
    BY DEF Ensure, Goto, At, Quiet, crmVars, IInv, WorkerTypeOK
  <1>2. ~BeforeSearch(w)'
    BY <1>1 DEF BeforeSearch, Announcing
  <1>3. \A t \in Tasks : taskRow'[t].attempts \in {taskRow[t].attempts, claim[w].tasks[t].attempts}
    BY EnsureMoves DEF EnsureMove, Ensure, EnsureRun
  <1>4. QED BY <1>1, <1>2, <1>3 DEF RunsCounted, BeforeSearch

\* Leasing a task: one attempt more than the row had.
LEMMA TakeCounted ==
    ASSUME IInv, NEW w \in Workers, RunsCounted(w), TakeTask(w), CountsAround(w),
           \A t \in Tasks : taskRow'[t].attempts >= taskRow[t].attempts
    PROVE  RunsCounted(w)'
  <1>1. UNCHANGED <<sourceRuns, crmTask>> /\ pc \in [Workers -> Labels] /\ UNCHANGED after
    BY DEF TakeTask, Quiet, crmVars, Proceed, IInv, WorkerTypeOK
  <1>2. CASE Proceed(w, "drain")
    <2>1. pc'[w] = "drain"
      BY <1>1, <1>2 DEF Proceed, Goto
    <2>2. ~BeforeSearch(w)' /\ pc'[w] # "ensure" /\ ~Announcing(w)'
      BY <2>1 DEF BeforeSearch, Announcing, DeliveryLabels
    <2>3. QED BY <1>1, <2>1, <2>2, RunsStay DEF CountsAround
  <1>3. CASE Goto(w, "renew") /\ \E t \in Claimed :
                job' = [job EXCEPT ![w] = [task |-> t, attempt |-> taskRow[t].attempts + 1]]
    <2>1. PICK t \in Claimed :
             job' = [job EXCEPT ![w] = [task |-> t, attempt |-> taskRow[t].attempts + 1]]
      BY <1>3
    <2>2. /\ pc'[w] = "renew"
          /\ job'[w].task = t /\ job'[w].attempt = taskRow[t].attempts + 1
      BY <1>1, <1>3, <2>1 DEF Goto, IInv, WorkerTypeOK
    <2>3. t \in Tasks /\ taskRow[t].attempts < MaxAttempts /\ taskRow[t].attempts \in Nat
      BY TaskTyped DEF Claimed, CanClaim
    <2>4. taskRow'[t].attempts = taskRow[t].attempts + 1
      BY <2>1, <2>3 DEF TakeTask, ClaimTask
    <2>5. MaxAttempts \in Nat /\ sourceRuns[t] \in Nat /\ sourceRuns[t] <= taskRow[t].attempts
      BY <2>3, StoreAssumption DEF RunsCounted, IInv, WorkerTypeOK
    <2>6. /\ sourceRuns'[job'[w].task] < job'[w].attempt
          /\ job'[w].attempt <= taskRow'[job'[w].task].attempts
          /\ job'[w].attempt <= MaxAttempts
      BY <1>1, <2>2, <2>3, <2>4, <2>5
    <2>7. ~Announcing(w)' /\ pc'[w] # "ensure" /\ pc'[w] # "search"
      BY <2>2 DEF Announcing, DeliveryLabels
    <2>8. ASSUME NEW u \in Tasks
          PROVE  /\ sourceRuns'[u] <= MaxAttempts
                 /\ sourceRuns'[u] <= taskRow'[u].attempts
                 /\ sourceRuns'[u] <= crmTask'[u].attempts
      <3>1. /\ sourceRuns[u] <= MaxAttempts /\ sourceRuns[u] <= crmTask[u].attempts
            /\ sourceRuns[u] <= taskRow[u].attempts
        BY DEF RunsCounted
      <3>2. sourceRuns[u] \in Nat /\ taskRow[u].attempts \in Nat /\ taskRow'[u].attempts \in Nat
        BY TaskTyped DEF IInv, WorkerTypeOK, CountsAround
      <3>3. sourceRuns[u] <= taskRow'[u].attempts
        BY <3>1, <3>2
      <3>4. QED BY <1>1, <3>1, <3>3
    <2>9. QED BY <2>6, <2>7, <2>8 DEF RunsCounted
  <1>4. QED BY <1>2, <1>3 DEF TakeTask

\* The event that announces the attempt is queued.
LEMMA StartCounted ==
    ASSUME IInv, EventPositions, NEW w \in Workers, RunsCounted(w), Start(w)
    PROVE  RunsCounted(w)'
  <1>1. /\ SaveEvent(Event(job[w].task, "running", job[w].attempt))
        /\ pc[w] = "start" /\ pc'[w] = "fetch" /\ job'[w] = job[w]
        /\ UNCHANGED <<sourceRuns, taskRow, crmTask>>
    BY DEF Start, SaveEvent, Deliver, Goto, At, Quiet, crmVars, IInv, WorkerTypeOK
  <1> DEFINE event == Event(job[w].task, "running", job[w].attempt)
  <1>2. PICK n \in DOMAIN outbox' : outbox'[n] = Row("events", <<"event", n>>, event)
    <2> HIDE DEF event
    <2>1. /\ DOMAIN outbox' = 1 .. Len(outbox) + 1 /\ Len(outbox) \in Nat
          /\ outbox'[Len(outbox) + 1] = Row("events", <<"event", Len(outbox) + 1>>, event)
      BY <1>1, EventAppended DEF event
    <2>2. Len(outbox) + 1 \in DOMAIN outbox'
      BY <2>1
    <2>3. QED BY <2>1, <2>2
  <1>3. Announced(w, n)'
    <2>1. /\ outbox'[n].kind = "events" /\ outbox'[n].payload = event
          /\ outbox'[n].status = "queued"
      BY <1>2 DEF Row
    <2>2. QED BY <1>1, <2>1 DEF Announced, Event
  <1>4. BeforeSearch(w) /\ pc'[w] # "ensure" /\ pc'[w] # "search"
    BY <1>1 DEF BeforeSearch
  <1>5. /\ sourceRuns[job[w].task] < job[w].attempt
        /\ job[w].attempt <= taskRow[job[w].task].attempts
        /\ job[w].attempt <= MaxAttempts
    BY <1>4 DEF RunsCounted
  <1>6. \E i \in DOMAIN outbox' : Announced(w, i)'
    BY <1>2, <1>3
  <1>7. QED BY <1>1, <1>4, <1>5, <1>6 DEF RunsCounted, Announced, Event

\* The search is reached once the CRM has the attempt.
LEMMA FetchCounted ==
    ASSUME IInv, EventsCounted, NEW w \in Workers, RunsCounted(w), Fetch(w), CountsAround(w)
    PROVE  RunsCounted(w)'
  <1> USE DEF Goto, Leave, At
  <1>1. /\ UNCHANGED <<sourceRuns, taskRow, crmTask, outbox>> /\ pc[w] = "fetch"
        /\ pc \in [Workers -> Labels] /\ DOMAIN after = Workers /\ DOMAIN job = Workers
        /\ \A t \in Tasks : taskRow[t].attempts \in Nat
    BY TaskTyped DEF Fetch, Quiet, crmVars, storeVars, IInv, WorkerTypeOK
  <1>2. /\ pc'[w] \in {"send", "idle", "executed", "search", "loop"}
        /\ pc'[w] \in {"send", "search"} => after'[w] = after[w] /\ job'[w] = job[w]
        /\ pc'[w] = "search" => after[w] = "started" /\ ~HasPending
    BY <1>1 DEF Fetch, GaveUp, Returned
  <1>3. CASE pc'[w] # "search"
    <2>1. Announcing(w)' => Announcing(w)
      BY <1>1, <1>2, <1>3 DEF Announcing, DeliveryLabels
    <2>2. BeforeSearch(w)' => BeforeSearch(w) /\ job'[w] = job[w]
      BY <1>1, <1>2, <1>3, <2>1 DEF BeforeSearch, Announcing, DeliveryLabels
    <2>3. \A i \in DOMAIN outbox : Announced(w, i) => outbox'[i].status \in {"queued", "delivered"}
      BY <1>1 DEF Announced
    <2>4. \A t \in Tasks : taskRow'[t].attempts >= taskRow[t].attempts
      BY <1>1
    <2>5. QED BY <1>1, <1>2, <1>3, <2>1, <2>2, <2>3, <2>4, RunsStay DEF CountsAround
  <1>4. CASE pc'[w] = "search"
    <2>1. Announcing(w) /\ job'[w] = job[w] /\ ~HasPending
      BY <1>1, <1>2, <1>4 DEF Announcing, DeliveryLabels
    <2>2. PICK i \in DOMAIN outbox : Announced(w, i)
      BY <2>1 DEF RunsCounted, Announced
    <2>3. outbox[i].status = "delivered"
      BY <2>1, <2>2 DEF Announced, HasPending, MessageIds
    <2>4. Known(outbox[i].key)
      BY <2>3 DEF IInv, StoreOK, DeliveredIsCommitted, MessageIds
    <2>5. PICK j \in DOMAIN outbox : /\ outbox[j].key = outbox[i].key
                                     /\ outbox[j].payload = ledger[outbox[i].key].payload
      BY <2>4 DEF Known, IInv, StoreOK, LedgerFromOutbox
    <2>6. j = i
      BY <2>5 DEF IInv, StoreOK, KeysUnique
    <2>7. outbox[i].key \in EventKeys /\ job[w].task \in Tasks
      BY <2>1, <2>2, RowsAreArray, RowsOfStore, RowFields
         DEF IInv, RowsOK, Announced, Announcing, WorkerOK
    <2>8. job[w].attempt <= crmTask[job[w].task].attempts
      BY <2>2, <2>4, <2>5, <2>6, <2>7 DEF EventsCounted, Known, Announced, Event
    <2>9. ~Announcing(w)'
      BY <1>4 DEF Announcing, DeliveryLabels
    <2>10. QED BY <1>1, <1>4, <2>1, <2>8, <2>9 DEF RunsCounted, BeforeSearch
  <1>5. QED BY <1>3, <1>4

\* The source is called once more, and no more often than the task was leased.
LEMMA SearchCounted ==
    ASSUME IInv, NEW w \in Workers, RunsCounted(w), Search(w)
    PROVE  RunsCounted(w)'
  <1>1. /\ pc[w] = "search" /\ pc'[w] = "searching" /\ UNCHANGED <<taskRow, crmTask>>
        /\ sourceRuns' = [sourceRuns EXCEPT ![job[w].task] = @ + 1]
    BY DEF Search, Proceed, Goto, At, crmVars, storeVars, IInv, WorkerTypeOK
  <1>2. ~BeforeSearch(w)' /\ ~Announcing(w)' /\ BeforeSearch(w)
    BY <1>1 DEF BeforeSearch, Announcing, DeliveryLabels
  <1> DEFINE t == job[w].task
  <1>3. /\ t \in Tasks /\ job[w].attempt \in Nat /\ MaxAttempts \in Nat
        /\ sourceRuns \in [Tasks -> Nat]
    BY <1>1, StoreAssumption DEF IInv, WorkerOK, WorkerTypeOK, JobLabels
  <1>4. \A u \in Tasks : taskRow[u].attempts \in Nat /\ crmTask[u].attempts \in Nat
    BY TaskTyped DEF IInv, CrmOK, CrmTypeOK, RemoteTask
  <1>5. /\ sourceRuns[t] < job[w].attempt
        /\ job[w].attempt <= taskRow[t].attempts
        /\ job[w].attempt <= MaxAttempts
        /\ job[w].attempt <= crmTask[t].attempts
    BY <1>1, <1>2 DEF RunsCounted
  <1>6. ASSUME NEW u \in Tasks
        PROVE  /\ sourceRuns'[u] <= MaxAttempts
               /\ sourceRuns'[u] <= taskRow[u].attempts
               /\ sourceRuns'[u] <= crmTask[u].attempts
    <2>1. CASE u = t
      <3>1. sourceRuns'[u] = sourceRuns[t] + 1 /\ sourceRuns[t] \in Nat
        BY <1>1, <1>3, <2>1
      <3> HIDE DEF t
      <3>2. QED BY <1>3, <1>4, <1>5, <2>1, <3>1
    <2>2. CASE u # t
      <3>1. sourceRuns'[u] = sourceRuns[u]
        BY <1>1, <1>3, <2>2
      <3>2. QED BY <3>1 DEF RunsCounted
    <2>3. QED BY <2>1, <2>2
  <1>7. QED BY <1>1, <1>2, <1>6 DEF RunsCounted

\* One worker keeps the count, whatever is lost, refused, stalled or crashes.
LEMMA StepRuns ==
    ASSUME IInv, RunsInv, [Next]_vars, \A v, w \in Workers : v = w
    PROVE  RunsInv'
  <1>1. EventPositions' /\ AttemptsGrow /\ EventsCounted' /\ IInv' /\ RowsKept
    BY StepPositions, StepCounts, NextInv, NextKeepsRows DEF RunsInv, SoloRuns
  <1>2. \A t \in Tasks : taskRow'[t].attempts \in Nat /\ crmTask'[t].attempts \in Nat
    BY <1>1 DEF IInv, StoreOK, StoreTypeOK, CrmOK, CrmTypeOK, LocalTask, RemoteTask
  <1>3. ASSUME NEW w \in Workers
        PROVE  RunsCounted(w)'
    <2>1. RunsCounted(w) /\ CountsAround(w)
      BY <1>1, <1>2 DEF RunsInv, SoloRuns, CountsAround
    <2>2. ASSUME ~Ensure(w), sourceRuns' = sourceRuns
          PROVE  \A t \in Tasks : taskRow'[t].attempts >= taskRow[t].attempts
      BY <2>2, AttemptsStay
    <2>3. CASE FarFromSearch(w) /\ ~Ensure(w)
      <3>1. sourceRuns' = sourceRuns
        BY <2>3 DEF FarFromSearch, Poll, NothingToClaim, ClaimLost, Replay, Replayed, Sending,
           LeaseLost, Undelivered, Loop, Check, Drain, Searched, Save, FinishJob, Announce,
           AnnounceFails, Fail, AnnounceFailure, Executed, Crash, StopTasks, AnnounceCancel,
           Report, Conclude, Quiet
      <3>2. ~BeforeSearch(w)' /\ pc'[w] # "ensure"
        BY <2>3, FarMoves
      <3>3. ~Announcing(w)' /\ pc'[w] # "search"
        BY <3>2 DEF BeforeSearch
      <3>4. QED BY <1>1, <1>2, <2>1, <2>2, <2>3, <3>1, <3>2, <3>3, RunsStay
    <2>4. ASSUME ~Ensure(w), ~Undelivered(w), sourceRuns' = sourceRuns,
                 pc'[w] = "ensure" => pc[w] = "ensure" /\ claim'[w] = claim[w],
                 BeforeSearch(w)' => BeforeSearch(w) /\ job'[w] = job[w],
                 Announcing(w)' => Announcing(w),
                 pc'[w] = "search" => pc[w] = "search"
          PROVE  RunsCounted(w)'
      <3>1. \A v \in Workers : ~Undelivered(v)
        BY <2>4
      <3>2. \A i \in DOMAIN outbox :
               Announced(w, i) => outbox'[i].status \in {"queued", "delivered"}
        BY <3>1, EventRowMoves DEF Announced
      <3>3. QED BY <1>1, <1>2, <2>1, <2>2, <2>4, <3>2, RunsStay
    <2>5. CASE OnTheWay(w) /\ ~FarFromSearch(w) /\ ~Ensure(w)
      <3>1. sourceRuns' = sourceRuns /\ ~Undelivered(w)
        BY <2>5 DEF OnTheWay, FarFromSearch, Send, Sending, Refuse, Delivered, Settle, Isolate,
           Renew, Recheck, RunHeartbeat, TaskHeartbeat, Quiet
      <3>2. QED BY <2>4, <2>5, <3>1, WayMoves
    <2>6. CASE UNCHANGED <<workerVars, sourceRuns>>
      <3>1. ~Ensure(w)
        BY <2>6 DEF Ensure, Goto, At, workerVars, IInv, WorkerTypeOK
      <3>2. ~Undelivered(w)
        BY <2>6 DEF Undelivered, GaveUp, Leave, Goto, At, workerVars, IInv, WorkerTypeOK
      <3>3. QED BY <2>4, <2>6, <3>1, <3>2 DEF workerVars, BeforeSearch, Announcing
    <2>7. CASE ClaimRun(w) \/ Ensure(w)
      BY <2>1, <2>7, ClaimCounted, EnsureCounted
    <2>8. CASE TakeTask(w) /\ ~Ensure(w)
      <3>1. sourceRuns' = sourceRuns
        BY <2>8 DEF TakeTask, Quiet
      <3>2. QED BY <2>1, <2>2, <2>8, <3>1, TakeCounted
    <2>9. CASE Start(w) \/ Fetch(w) \/ Search(w)
      BY <2>1, <2>9, StartCounted, FetchCounted, SearchCounted DEF RunsInv, SoloRuns
    <2>10. ASSUME NEW v \in Workers, Step(v) \/ ClaimLost(v) \/ Refuse(v) \/ AnnounceFails(v)
                    \/ RunHeartbeat(v) \/ TaskHeartbeat(v) \/ Crash(v)
           PROVE  RunsCounted(w)'
      <3>1. v = w
        OBVIOUS
      <3>2. \/ FarFromSearch(w) \/ OnTheWay(w) \/ ClaimRun(w) \/ Ensure(w) \/ TakeTask(w)
            \/ Start(w) \/ Fetch(w) \/ Search(w)
        BY <2>10, <3>1 DEF Step, FarFromSearch, OnTheWay
      <3>3. QED BY <2>3, <2>5, <2>7, <2>8, <2>9, <3>2
    <2>11. QED BY <2>6, <2>10 DEF Next, vars, RunLeaseExpires, TaskLeaseEnds, Retry, Cancel
  <1>4. QED BY <1>1, <1>3 DEF RunsInv, SoloRuns

\* At the start nothing was called, counted or queued.
LEMMA InitRuns == Init => RunsInv
  <1> SUFFICES ASSUME Init PROVE RunsInv
    OBVIOUS
  <1>1. /\ DOMAIN outbox = {} /\ DOMAIN ledger = {}
        /\ \A w \in Workers : pc[w] = "idle"
        /\ \A t \in Tasks : /\ sourceRuns[t] = 0 /\ taskRow[t].attempts = 0
                            /\ crmTask[t].attempts = 0
    BY DEF Init, StoreInit, CrmInit
  <1>2. EventPositions /\ EventsCounted
    BY <1>1 DEF EventPositions, EventsCounted
  <1>3. ASSUME NEW w \in Workers PROVE RunsCounted(w)
    <2>1. ~BeforeSearch(w) /\ pc[w] # "ensure" /\ pc[w] # "search" /\ ~Announcing(w)
      BY <1>1 DEF BeforeSearch, Announcing, DeliveryLabels
    <2>2. MaxAttempts \in Nat
      BY StoreAssumption
    <2>3. QED BY <1>1, <2>1, <2>2 DEF RunsCounted
  <1>4. QED BY <1>2, <1>3 DEF RunsInv, SoloRuns

\* With one worker no task calls its source more than max_attempts times, although
\* a claim resets the local counters to those of the CRM and answers are lost:
\* _execute_task delivers the event of the attempt before it searches.
THEOREM OneWorkerRunsBounded ==
    ASSUME NEW worker, Workers = {worker}
    PROVE  Spec => []SourceRunsBounded
  <1>1. Init => RunsInv
    BY InitRuns
  <1>2. IInv /\ RunsInv /\ [Next]_vars => RunsInv'
    <2>1. \A v, w \in Workers : v = w
      OBVIOUS
    <2>2. QED BY <2>1, StepRuns
  <1>3. RunsInv => SourceRunsBounded
    BY DEF RunsInv, SoloRuns, RunsCounted, SourceRunsBounded
  <1>4. QED BY <1>1, <1>2, <1>3, Invariance, PTL DEF Spec

=============================================================================
