----------------------------- MODULE SourcesProofs -----------------------------
(***************************************************************************)
(* What is bought from Google Places, what is kept of what it says, and    *)
(* for how long.                                                           *)
(*                                                                         *)
(* GoogleSearch: the budgets hold for any number of searches and runs,     *)
(* any prices and any passage of time.  Whoever decides holds the lock, so *)
(* what it added up is still what the log adds up to.  That alone would    *)
(* not do: the day it asked for may be over when its row is dated.  Sums   *)
(* since a day have no upper bound, and the row is dated no earlier than   *)
(* the day asked for, so every sum that the row enters is at most the one  *)
(* that was compared with the budget.                                      *)
(*                                                                         *)
(* QualityGate: the verdicts on a company agree, whatever the sources say  *)
(* of it.  A category is read as text when the company is judged again;    *)
(* but the words of a category never come before those that gave it, in    *)
(* the order in which roles are looked for, and none of them excludes a    *)
(* company or makes it one of the trade.  What is taken away for lack of   *)
(* an observation is nothing that the judgement read.                      *)
(*                                                                         *)
(* Retention: the purge and the delivery keep their promises whatever they *)
(* interleave, for any batches, any evidence that expires and any number   *)
(* of lost requests and crashes.                                           *)
(*                                                                         *)
(* Candidates: the companies that are found, in whatever order and however *)
(* often.  A merge never contradicts what a row showed before, so a row    *)
(* goes on being an exact match of what its key was made of; whoever gets  *)
(* that key finds the row.  That holds of the rows of one run only: the    *)
(* row of another run may be told by what this run never saw.              *)
(***************************************************************************)
EXTENDS GoogleSearch, QualityGate, Retention, Candidates, Integers, FiniteSetTheorems,
        WellFoundedInduction, SequenceTheorems, TLAPS

Labels == {"ask", "begin", "wait", "decide", "request", "done"}

Amounts == [run : Nat, daily : Nat, monthly : Nat]

GoogleTypeOK ==
    /\ day \in Days
    /\ log \in [run : [Runs -> Nat], since : [Days -> Nat]]
    /\ lock \in Searches \cup {NoSearch}
    /\ pc \in [Searches -> Labels]
    /\ kind \in [Searches -> Kinds]
    /\ asked \in [Searches -> Days]
    /\ stamp \in [Searches -> Days]
    /\ spend \in [Searches -> Amounts]

\* The clock does not go back between the reading, the transaction and now.
DatedLater ==
    \A s \in Searches :
        /\ asked[s] <= day /\ stamp[s] <= day
        /\ pc[s] \in {"wait", "decide"} => asked[s] <= stamp[s]

\* What was added up under the lock is what the log adds up to.
CountsUnderLock ==
    \A s \in Searches :
        pc[s] = "decide" => lock = s /\ spend[s] = Totals(RunOf[s], asked[s])

\* Later sums count fewer rows.
SumsShrink == \A d, e \in Days : d <= e => log.since[e] <= log.since[d]

GoogleInv ==
    /\ GoogleTypeOK
    /\ DatedLater
    /\ CountsUnderLock
    /\ SumsShrink
    /\ WithinBudgets

-----------------------------------------------------------------------------
(* Months.                                                                 *)

\* A day is in the month that its first day and the length of months give.
LEMMA MonthOfDay ==
    ASSUME NEW d \in Nat, NEW m \in Nat \ {0}
    PROVE  /\ d \div m \in Nat
           /\ (d \div m) * m <= d
           /\ d < (d \div m) * m + m
  OBVIOUS

\* Months of different days are the same or do not overlap.
LEMMA MonthsApart ==
    ASSUME NEW p \in Nat, NEW q \in Nat, NEW m \in Nat \ {0}, p < q
    PROVE  p * m + m <= q * m
<1>1. q = (p + 1) + (q - p - 1) /\ q - p - 1 \in Nat
  OBVIOUS
<1>2. q * m = (p + 1) * m + (q - p - 1) * m
  BY <1>1
<1>3. (q - p - 1) * m \in Nat
  BY <1>1
<1>4. (p + 1) * m = p * m + m
  OBVIOUS
<1>5. p * m \in Nat
  OBVIOUS
<1> QED
  BY <1>2, <1>3, <1>4, <1>5

\* The first day of the month of a day is a day, not after it.
LEMMA FirstIsADay ==
    ASSUME NEW d \in Days
    PROVE  /\ FirstOfMonth(d) \in Days
           /\ FirstOfMonth(d) <= d
           /\ d < FirstOfMonth(d) + DaysPerMonth
<1>1. d \in Nat /\ DaysPerMonth \in Nat \ {0} /\ LastDay \in Nat
  BY GoogleAssumption DEF Days
<1>2. /\ d \div DaysPerMonth \in Nat
      /\ (d \div DaysPerMonth) * DaysPerMonth <= d
      /\ d < (d \div DaysPerMonth) * DaysPerMonth + DaysPerMonth
  BY <1>1, MonthOfDay
<1>3. (d \div DaysPerMonth) * DaysPerMonth \in Nat
  BY <1>1, <1>2
<1> QED
  BY <1>1, <1>2, <1>3 DEF Days, FirstOfMonth, Month

\* A month begins before, with or after the month of another day.
LEMMA MonthsOfDays ==
    ASSUME NEW d \in Days, NEW e \in Days
    PROVE  \/ FirstOfMonth(d) = FirstOfMonth(e)
           \/ FirstOfMonth(d) + DaysPerMonth <= FirstOfMonth(e)
           \/ FirstOfMonth(e) + DaysPerMonth <= FirstOfMonth(d)
<1>1. Month(d) \in Nat /\ Month(e) \in Nat /\ DaysPerMonth \in Nat \ {0}
  BY GoogleAssumption, MonthOfDay DEF Days, Month
<1>2. CASE Month(d) = Month(e)
  BY <1>2 DEF FirstOfMonth
<1>3. CASE Month(d) < Month(e)
  BY <1>1, <1>3, MonthsApart DEF FirstOfMonth
<1>4. CASE Month(e) < Month(d)
  BY <1>1, <1>4, MonthsApart DEF FirstOfMonth
<1> QED
  BY <1>1, <1>2, <1>3, <1>4

-----------------------------------------------------------------------------
(* What one row does to the sums.                                          *)

\* A row dated no earlier than the day asked for, and allowed by the sums of
\* that day, breaks no budget.
LEMMA RowWithinBudgets ==
    ASSUME GoogleTypeOK, SumsShrink, WithinBudgets,
           NEW run \in Runs, NEW now \in Days, NEW date \in Days, NEW cost \in Nat,
           now <= date,
           Allowed(Totals(run, now), cost),
           Insert(run, date, cost)
    PROVE  /\ log' \in [run : [Runs -> Nat], since : [Days -> Nat]]
           /\ SumsShrink'
           /\ WithinBudgets'
<1> DEFINE more(d) == IF d <= date THEN cost ELSE 0
<1>1. /\ log.run \in [Runs -> Nat] /\ log.since \in [Days -> Nat]
      /\ LastDay \in Nat /\ DaysPerMonth \in Nat \ {0}
      /\ RunBudget \in Nat /\ DailyBudget \in Nat /\ MonthlyBudget \in Nat
  BY GoogleAssumption DEF GoogleTypeOK
<1>2. /\ log'.run = [log.run EXCEPT ![run] = @ + cost]
      /\ log'.since = [d \in Days |-> log.since[d] + more(d)]
  BY DEF Insert
<1>3. \A d \in Days : d \in Nat /\ log.since[d] \in Nat /\ more(d) \in Nat
  BY <1>1 DEF Days
<1>4. log' \in [run : [Runs -> Nat], since : [Days -> Nat]]
  <2>1. log'.run \in [Runs -> Nat]
    BY <1>1, <1>2
  <2>2. log'.since \in [Days -> Nat]
    BY <1>2, <1>3
  <2> QED
    BY <2>1, <2>2 DEF Insert
<1>5. \A d \in Days : log'.since[d] = log.since[d] + more(d)
  BY <1>2
<1>6. SumsShrink'
  BY <1>3, <1>5 DEF SumsShrink
<1>7. ASSUME NEW r \in Runs PROVE log'.run[r] <= RunBudget
  <2>1. log.run[r] <= RunBudget /\ log.run[r] \in Nat
    BY <1>1 DEF WithinBudgets
  <2>2. CASE r = run
    BY <1>1, <1>2, <2>2 DEF Allowed, Totals
  <2>3. CASE r # run
    BY <1>2, <2>1, <2>3
  <2> QED
    BY <2>2, <2>3
<1>8. ASSUME NEW first \in Days, NEW next \in Nat, NEW budget \in Nat, first < next,
             Charged(first, next) <= budget,
             first <= date => log.since[first] + cost <= budget \/ next <= date
      PROVE  Charged(first, next)' <= budget
  <2>1. Charged(first, next)' = log'.since[first] - (IF next \in Days THEN log'.since[next] ELSE 0)
    BY DEF Charged
  <2>2. CASE first <= date /\ next <= date
    <3>1. date \in Nat /\ date <= LastDay
      BY <1>1 DEF Days
    <3>2. next \in Days
      BY <1>1, <2>2, <3>1 DEF Days
    <3>3. log.since[first] - log.since[next] <= budget
      BY <1>8, <3>2 DEF Charged
    <3>4. /\ log'.since[first] = log.since[first] + cost
          /\ log'.since[next] = log.since[next] + cost
      BY <1>5, <2>2, <3>2
    <3> QED
      BY <1>3, <2>1, <3>2, <3>3, <3>4
  <2>3. CASE first <= date /\ ~(next <= date)
    BY <1>3, <1>5, <1>8, <2>1, <2>3
  <2>4. CASE ~(first <= date)
    <3>1. more(first) = 0 /\ (next \in Days => more(next) = 0)
      BY <1>3, <1>8, <2>4 DEF Days
    <3> QED
      BY <1>3, <1>5, <1>8, <2>1, <3>1 DEF Charged
  <2> QED
    BY <2>2, <2>3, <2>4
<1>9. ASSUME NEW d \in Days PROVE Charged(d, d + 1)' <= DailyBudget
  <2>1. Charged(d, d + 1) <= DailyBudget
    BY DEF WithinBudgets
  <2>2. d <= date => log.since[d] + cost <= DailyBudget \/ d + 1 <= date
    <3>1. log.since[date] <= log.since[now]
      BY DEF SumsShrink
    <3>2. log.since[now] + cost <= DailyBudget
      BY DEF Allowed, Totals
    <3>3. /\ d \in Nat /\ date \in Nat
          /\ log.since[date] \in Nat /\ log.since[now] \in Nat
      BY <1>3
    <3>4. d = date => log.since[d] + cost <= DailyBudget
      BY <1>1, <3>1, <3>2, <3>3
    <3> QED
      BY <3>3, <3>4
  <2> QED
    BY <1>1, <1>3, <1>8, <2>1, <2>2
<1>10. ASSUME NEW d \in Days
       PROVE  Charged(FirstOfMonth(d), FirstOfMonth(d) + DaysPerMonth)' <= MonthlyBudget
  <2> DEFINE first == FirstOfMonth(d)
  <2>1. first \in Days /\ FirstOfMonth(date) \in Days /\ FirstOfMonth(now) \in Days
    BY FirstIsADay
  <2>2. Charged(first, first + DaysPerMonth) <= MonthlyBudget
    BY DEF WithinBudgets
  <2>3. first <= date => log.since[first] + cost <= MonthlyBudget \/ first + DaysPerMonth <= date
    <3>1. SUFFICES ASSUME first <= date, date < first + DaysPerMonth
                   PROVE  log.since[first] + cost <= MonthlyBudget
      BY <1>1, <1>3, <2>1
    <3>2. first = FirstOfMonth(date)
      BY <1>1, <1>3, <2>1, <3>1, FirstIsADay, MonthsOfDays
    <3>3. FirstOfMonth(now) <= first
      BY <1>1, <1>3, <2>1, <3>2, FirstIsADay, MonthsOfDays
    <3>4. log.since[first] <= log.since[FirstOfMonth(now)]
      BY <2>1, <3>3 DEF SumsShrink
    <3>5. log.since[FirstOfMonth(now)] + cost <= MonthlyBudget
      BY DEF Allowed, Totals
    <3> QED
      BY <1>1, <1>3, <2>1, <3>4, <3>5
  <2>4. Charged(first, first + DaysPerMonth)' <= MonthlyBudget
    BY <1>1, <1>3, <1>8, <2>1, <2>2, <2>3
  <2> QED
    BY <2>4 DEF FirstOfMonth, Month
<1> QED
  BY <1>4, <1>6, <1>7, <1>9, <1>10 DEF WithinBudgets

-----------------------------------------------------------------------------
(* The invariant.                                                          *)

\* Nothing is charged at first.
LEMMA InitGoogle == GoogleInit => GoogleInv
<1> SUFFICES ASSUME GoogleInit PROVE GoogleInv
  OBVIOUS
<1>1. GoogleTypeOK /\ DatedLater /\ CountsUnderLock
  BY GoogleAssumption
  DEF GoogleInit, GoogleTypeOK, DatedLater, CountsUnderLock, Days, Labels, Kinds, NoSpend, Amounts
<1>2. \A d \in Days : log.since[d] = 0
  BY DEF GoogleInit
<1>3. SumsShrink
  BY <1>2 DEF SumsShrink
<1>4. \A first, next : first \in Days => Charged(first, next) = 0
  BY <1>2 DEF Charged
<1>5. WithinBudgets
  BY <1>4, FirstIsADay, GoogleAssumption DEF WithinBudgets, GoogleInit
<1> QED
  BY <1>1, <1>3, <1>5 DEF GoogleInv

\* A step that writes no row, and lets nobody decide anew, keeps what the log
\* is part of.
LEMMA LogUnchanged ==
    ASSUME GoogleInv, log' = log,
           \A t \in Searches :
               pc'[t] = "decide" =>
                   pc[t] = "decide" /\ spend'[t] = spend[t] /\ asked'[t] = asked[t] /\ lock' = lock
    PROVE  CountsUnderLock' /\ SumsShrink' /\ WithinBudgets'
<1>1. SumsShrink' /\ WithinBudgets'
  BY DEF GoogleInv, SumsShrink, WithinBudgets, Charged, FirstOfMonth, Month
<1>2. ASSUME NEW t \in Searches, pc'[t] = "decide"
      PROVE  lock' = t /\ spend'[t] = Totals(RunOf[t], asked[t])'
  <2>1. lock = t /\ spend[t] = Totals(RunOf[t], asked[t])
    BY <1>2 DEF GoogleInv, CountsUnderLock
  <2> QED
    BY <1>2, <2>1 DEF Totals, FirstOfMonth, Month
<1> QED
  BY <1>1, <1>2 DEF CountsUnderLock

\* Every step of a search, of the clock, and every stop keeps the invariant.
LEMMA NextGoogle ==
    ASSUME GoogleInv, [GoogleNext]_googleVars
    PROVE  GoogleInv'
<1>0. LastDay \in Nat /\ 0 \in Days /\ NoSpend \in Amounts /\ \A d \in Days : d \in Nat
  BY GoogleAssumption DEF Days, NoSpend, Amounts
<1> USE GoogleAssumption
<1> USE DEF GoogleInv, GoogleTypeOK, DatedLater, Labels, Kinds, Amounts
<1> USE DEF Goto, progress, reserving
<1>1. CASE UNCHANGED googleVars
  BY <1>1, LogUnchanged DEF googleVars
<1>2. CASE Midnight
  <2>1. CountsUnderLock' /\ SumsShrink' /\ WithinBudgets'
    BY <1>2, LogUnchanged DEF Midnight
  <2>2. day \in Nat /\ day' = day + 1 /\ day' \in Days
    BY <1>0, <1>2 DEF Midnight, Days
  <2>3. UNCHANGED <<log, lock, pc, kind, asked, stamp, spend>>
    BY <1>2 DEF Midnight
  <2>4. GoogleTypeOK'
    BY <2>2, <2>3
  <2>5. DatedLater'
    <3>1. \A s \in Searches : asked[s] \in Nat /\ stamp[s] \in Nat
      BY <1>0
    <3>2. \A s \in Searches : asked[s] <= day' /\ stamp[s] <= day'
      BY <2>2, <3>1
    <3> QED
      BY <2>3, <3>2
  <2> QED
    BY <2>1, <2>4, <2>5
<1>3. ASSUME NEW s \in Searches, Ask(s) PROVE GoogleInv'
  <2>1. CountsUnderLock' /\ SumsShrink' /\ WithinBudgets'
    BY <1>3, LogUnchanged DEF Ask
  <2>2. GoogleTypeOK'
    BY <1>3 DEF Ask, Days
  <2>3. DatedLater'
    BY <1>3 DEF Ask, Days
  <2> QED
    BY <2>1, <2>2, <2>3
<1>4. ASSUME NEW s \in Searches, Begin(s) PROVE GoogleInv'
  <2>1. CountsUnderLock' /\ SumsShrink' /\ WithinBudgets'
    BY <1>4, LogUnchanged DEF Begin
  <2>2. GoogleTypeOK'
    BY <1>4 DEF Begin, Days
  <2>3. DatedLater'
    BY <1>4 DEF Begin, Days
  <2> QED
    BY <2>1, <2>2, <2>3
<1>5. ASSUME NEW s \in Searches, Lock(s) PROVE GoogleInv'
  <2>1. Totals(RunOf[s], asked[s]) \in Amounts
    BY FirstIsADay DEF Totals
  <2>2. SumsShrink' /\ WithinBudgets'
    BY <1>5 DEF Lock, SumsShrink, WithinBudgets, Charged, FirstOfMonth, Month
  <2>3. ASSUME NEW t \in Searches, pc'[t] = "decide"
        PROVE  lock' = t /\ spend'[t] = Totals(RunOf[t], asked[t])'
    <3>1. t = s
      BY <1>5, <2>3 DEF Lock, CountsUnderLock
    <3>2. lock' = s /\ spend'[s] = Totals(RunOf[s], asked[s]) /\ log' = log /\ asked' = asked
      BY <1>5 DEF Lock
    <3> QED
      BY <3>1, <3>2 DEF Totals, FirstOfMonth, Month
  <2>4. GoogleTypeOK'
    BY <1>5, <2>1 DEF Lock
  <2>5. DatedLater'
    BY <1>5 DEF Lock
  <2> QED
    BY <2>2, <2>3, <2>4, <2>5 DEF CountsUnderLock
<1>6. ASSUME NEW s \in Searches, Reserve(s) PROVE GoogleInv'
  <2>1. Cost[kind[s]] \in Nat
    OBVIOUS
  <2>2. spend[s] = Totals(RunOf[s], asked[s]) /\ asked[s] <= stamp[s]
    BY <1>6 DEF Reserve, CountsUnderLock
  <2>3. log' \in [run : [Runs -> Nat], since : [Days -> Nat]] /\ SumsShrink' /\ WithinBudgets'
    BY <1>6, <2>1, <2>2, RowWithinBudgets DEF Reserve
  <2>4. \A t \in Searches : pc'[t] # "decide"
    BY <1>6 DEF Reserve, CountsUnderLock
  <2>5. GoogleTypeOK'
    BY <1>0, <1>6, <2>3 DEF Reserve, Return, Unlock
  <2>6. DatedLater'
    BY <1>0, <1>6 DEF Reserve, Return
  <2> QED
    BY <2>3, <2>4, <2>5, <2>6 DEF CountsUnderLock
<1>7. ASSUME NEW s \in Searches, Refuse(s) PROVE GoogleInv'
  <2>1. \A t \in Searches : pc'[t] # "decide"
    BY <1>7 DEF Refuse, AskDetails, CountsUnderLock
  <2>2. CountsUnderLock' /\ SumsShrink' /\ WithinBudgets'
    BY <1>7, <2>1, LogUnchanged DEF Refuse
  <2>3. GoogleTypeOK'
    BY <1>0, <1>7 DEF Refuse, AskDetails, Return, Unlock
  <2>4. DatedLater'
    BY <1>0, <1>7 DEF Refuse, AskDetails, Return, Unlock
  <2> QED
    BY <2>2, <2>3, <2>4
<1>8. ASSUME NEW s \in Searches, NextPage(s) \/ NextQuery(s) \/ NextDetails(s) PROVE GoogleInv'
  <2>1. CountsUnderLock' /\ SumsShrink' /\ WithinBudgets'
    BY <1>8, LogUnchanged DEF NextPage, NextQuery, NextDetails, AskDetails
  <2>2. GoogleTypeOK'
    BY <1>8 DEF NextPage, NextQuery, NextDetails, AskDetails
  <2>3. DatedLater'
    BY <1>8 DEF NextPage, NextQuery, NextDetails, AskDetails
  <2> QED
    BY <2>1, <2>2, <2>3
<1>9. ASSUME NEW s \in Searches, Stop(s) PROVE GoogleInv'
  <2>1. CountsUnderLock' /\ SumsShrink' /\ WithinBudgets'
    BY <1>9, LogUnchanged DEF Stop, Return, CountsUnderLock
  <2>2. GoogleTypeOK'
    BY <1>0, <1>9 DEF Stop, Return
  <2>3. DatedLater'
    BY <1>0, <1>9 DEF Stop, Return
  <2> QED
    BY <2>1, <2>2, <2>3
<1> QED
  BY <1>1, <1>2, <1>3, <1>4, <1>5, <1>6, <1>7, <1>8, <1>9 DEF GoogleNext, Step

\* Whatever searches run at once and however long a reservation waits for the
\* lock of PersistentGooglePlacesBudget, past midnight or the end of a month, no
\* run, no day and no month is charged more than its budget.
THEOREM BudgetsHold == GoogleSpec => []WithinBudgets
<1>1. GoogleInv /\ [GoogleNext]_googleVars => GoogleInv'
  BY NextGoogle
<1>2. GoogleInv => WithinBudgets
  BY DEF GoogleInv
<1> QED
  BY <1>1, <1>2, InitGoogle, PTL DEF GoogleSpec
-----------------------------------------------------------------------------
ProfileFields ==
    {"name", "description", "specialties", "category", "comunas", "contacts", "evidence"}

CategoryOf(role) == IF role = Unset THEN "otro" ELSE role

Category(c) == CategoryOf(InferredRole(c))

\* What the sources say that a company does is observed; once it has a category, that
\* is the one it would be given, and it was judged as it would be now.
GateInv ==
    /\ step \in {"found", "classified", "sanitized", "accepted", "rejected"}
    /\ DOMAIN profile = ProfileFields
    /\ profile.description # {} => Observed(profile, "description", profile.description)
    /\ step # "found" => /\ profile.category = Category(profile)
                         /\ marketed = scored
                         /\ scored = Eligible(profile)
    /\ step = "accepted" => profile.category # "otro"

\* The role of a text, for the campaign.
RoleOf(text) == InferTargetType(text, "competencia" \in targets)

\* The role that a text gives, by the first of the kinds of words that it holds.
LEMMA RoleOfText ==
  ASSUME NEW text, NEW role, role = RoleOf(text)
  PROVE  /\ "distributor" \in text => role = "distribuidor"
         /\ "distributor" \notin text /\ "installer" \in text => role = "instalador grande"
         /\ text \cap {"distributor", "installer"} = {} /\ "technician" \in text => role = "tecnico"
         /\ text \cap {"distributor", "installer", "technician"} = {} /\ "store" \in text
              => role = "tienda comercial"
         /\ text \cap {"distributor", "installer", "technician", "store"} = {}
              => role \in {"competencia", Unset}
  <1>1. ASSUME "distributor" \in text PROVE role = "distribuidor"
    <2>1. /\ text \cap {"distributor", "installer"} # {"installer"}
          /\ text \cap {"distributor", "installer", "technician"} # {"technician"}
          /\ text \cap {"distributor", "installer", "technician", "store"} \notin {{}, {"store"}}
      BY <1>1
    <2>2. QED BY <1>1, <2>1 DEF RoleOf, InferTargetType
  <1>2. ASSUME "distributor" \notin text, "installer" \in text PROVE role = "instalador grande"
    <2>1. /\ text \cap {"distributor", "installer"} = {"installer"}
          /\ text \cap {"distributor", "installer", "technician"} # {"technician"}
          /\ text \cap {"distributor", "installer", "technician", "store"} \notin {{}, {"store"}}
      BY <1>2
    <2>2. QED BY <1>2, <2>1 DEF RoleOf, InferTargetType
  <1>3. ASSUME text \cap {"distributor", "installer"} = {}, "technician" \in text
        PROVE  role = "tecnico"
    <2>1. /\ "distributor" \notin text
          /\ text \cap {"distributor", "installer"} # {"installer"}
          /\ text \cap {"distributor", "installer", "technician"} = {"technician"}
          /\ text \cap {"distributor", "installer", "technician", "store"} \notin {{}, {"store"}}
      BY <1>3
    <2>2. QED BY <2>1 DEF RoleOf, InferTargetType
  <1>4. ASSUME text \cap {"distributor", "installer", "technician"} = {}, "store" \in text
        PROVE  role = "tienda comercial"
    <2>1. /\ "distributor" \notin text
          /\ text \cap {"distributor", "installer"} # {"installer"}
          /\ text \cap {"distributor", "installer", "technician"} # {"technician"}
          /\ text \cap {"distributor", "installer", "technician", "store"} = {"store"}
      BY <1>4
    <2>2. QED BY <2>1 DEF RoleOf, InferTargetType
  <1>5. ASSUME text \cap {"distributor", "installer", "technician", "store"} = {}
        PROVE  role \in {"competencia", Unset}
    <2>1. /\ "distributor" \notin text
          /\ text \cap {"distributor", "installer"} # {"installer"}
          /\ text \cap {"distributor", "installer", "technician"} # {"technician"}
          /\ text \cap {"distributor", "installer", "technician", "store"} # {"store"}
      BY <1>5
    <2>2. CASE "competencia" \in targets /\ "hvac" \in text
      BY <1>5, <2>1, <2>2 DEF RoleOf, InferTargetType
    <2>3. CASE ~("competencia" \in targets /\ "hvac" \in text)
      BY <1>5, <2>1, <2>3 DEF RoleOf, InferTargetType
    <2>4. QED BY <2>2, <2>3
  <1>6. QED BY <1>1, <1>2, <1>3, <1>4, <1>5

\* The words of the category that a text gives a company leave its category as it is.
LEMMA CategoryTellsNothing ==
  ASSUME NEW base, NEW old,
         NEW role, role = RoleOf(base \cup WordsOf(old)),
         NEW new, new = CategoryOf(role)
  PROVE  RoleOf(base \cup WordsOf(new)) = role
  <1> PICK text : text = base \cup WordsOf(old)
    OBVIOUS
  <1> PICK after : after = base \cup WordsOf(new)
    OBVIOUS
  <1> PICK again : again = RoleOf(after)
    OBVIOUS
  <1>1. WordsOf(old) \in {{}, {"distributor"}, {"technician"}, {"store"}}
    BY DEF WordsOf
  <1>2. Unset \notin Roles /\ role = RoleOf(text)
    BY GateAssumption
  <1>3. CASE "distributor" \in text
    <2>1. role = "distribuidor"
      BY <1>2, <1>3, RoleOfText
    <2>2. new = "distribuidor"
      BY <1>2, <2>1 DEF Roles, CategoryOf
    <2>3. "distributor" \in after
      BY <2>2 DEF WordsOf
    <2>4. QED BY <2>1, <2>3, RoleOfText
  <1>4. CASE "distributor" \notin text /\ "installer" \in text
    <2>1. role = "instalador grande"
      BY <1>2, <1>4, RoleOfText
    <2>2. new = "instalador grande"
      BY <1>2, <2>1 DEF Roles, CategoryOf
    <2>3. WordsOf(new) = {"technician"}
      BY <2>2 DEF WordsOf
    <2>4. "distributor" \notin after /\ "installer" \in after
      BY <1>1, <1>4, <2>3
    <2>5. QED BY <2>1, <2>4, RoleOfText
  <1>5. CASE text \cap {"distributor", "installer"} = {} /\ "technician" \in text
    <2>1. role = "tecnico"
      BY <1>2, <1>5, RoleOfText
    <2>2. new = "tecnico"
      BY <1>2, <2>1 DEF Roles, CategoryOf
    <2>3. WordsOf(new) = {"technician"}
      BY <2>2 DEF WordsOf
    <2>4. after \cap {"distributor", "installer"} = {} /\ "technician" \in after
      BY <1>5, <2>3
    <2>5. QED BY <2>1, <2>4, RoleOfText
  <1>6. CASE text \cap {"distributor", "installer", "technician"} = {} /\ "store" \in text
    <2>1. role = "tienda comercial"
      BY <1>2, <1>6, RoleOfText
    <2>2. new = "tienda comercial"
      BY <1>2, <2>1 DEF Roles, CategoryOf
    <2>3. WordsOf(new) = {"store"}
      BY <2>2 DEF WordsOf
    <2>4. after \cap {"distributor", "installer", "technician"} = {} /\ "store" \in after
      BY <1>6, <2>3
    <2>5. QED BY <2>1, <2>4, RoleOfText
  <1>7. CASE text \cap {"distributor", "installer", "technician", "store"} = {}
    <2>1. WordsOf(old) = {} /\ text = base
      BY <1>1, <1>7
    <2>2. role \in {"competencia", Unset}
      BY <1>2, <1>7, RoleOfText
    <2>3. new \in {"competencia", "otro"}
      BY <2>2 DEF CategoryOf
    <2>4. WordsOf(new) = {}
      BY <2>3 DEF WordsOf
    <2>5. after = text
      BY <2>1, <2>4
    <2>6. QED BY <1>2, <2>5
  <1>8. "technician" \in text \/ "store" \in text \/ "distributor" \in text \/ "installer" \in text
        \/ text \cap {"distributor", "installer", "technician", "store"} = {}
    OBVIOUS
  <1>9. QED BY <1>3, <1>4, <1>5, <1>6, <1>7, <1>8

\* A category adds no word that excludes a company or makes it one of the trade.
LEMMA CategoryExcludesNothing ==
  ASSUME NEW category
  PROVE  WordsOf(category) \cap {"excluded", "end_user", "general_trade", "hvac"} = {}
  BY DEF WordsOf

\* Two companies that differ in their category, or in what quality.py does not read.
SameButCategory(c, d) ==
    /\ c.name = d.name /\ c.description = d.description
    /\ c.specialties = d.specialties /\ c.evidence = d.evidence

\* A company that is given its category is judged as before.
LEMMA JudgedAlike ==
  ASSUME NEW c, NEW d, SameButCategory(c, d), d.category = Category(c)
  PROVE  InferredRole(d) = InferredRole(c) /\ Eligible(d) = Eligible(c)
  <1> PICK base : base = c.name \cup c.description \cup c.specialties
    OBVIOUS
  <1>1. Confirmed(d) <=> Confirmed(c)
    BY DEF SameButCategory, Confirmed, GoogleConfirmed, ProviderText
  <1>2. CandidateText(c) = base \cup WordsOf(c.category) /\ CandidateText(d) = base \cup WordsOf(d.category)
    BY DEF CandidateText, SameButCategory
  <1>3. InferredRole(d) = InferredRole(c)
    <2>1. CASE ~Confirmed(c)
      BY <1>1, <2>1 DEF InferredRole
    <2>2. CASE Confirmed(c)
      <3> PICK role : role = RoleOf(base \cup WordsOf(c.category))
        OBVIOUS
      <3>1. /\ InferredRole(c) = role
            /\ InferredRole(d) = RoleOf(base \cup WordsOf(d.category))
        BY <1>1, <1>2, <2>2 DEF InferredRole, RoleOf
      <3> PICK new : new = d.category
        OBVIOUS
      <3>2. new = CategoryOf(role)
        BY <3>1 DEF Category
      <3>3. RoleOf(base \cup WordsOf(new)) = role
        BY <3>2, CategoryTellsNothing
      <3>4. QED BY <3>1, <3>3
    <2>3. QED BY <2>1, <2>2
  <1>4. CriticalExclusion(d) <=> CriticalExclusion(c)
    BY <1>2, CategoryExcludesNothing DEF CriticalExclusion, NameTypeText, SameButCategory
  <1>5. "hvac" \in CandidateText(d) <=> "hvac" \in CandidateText(c)
    BY <1>2, CategoryExcludesNothing
  <1>6. ExclusionReasons(d) = ExclusionReasons(c)
    BY <1>1, <1>3, <1>4, <1>5 DEF ExclusionReasons
  <1>7. QED BY <1>3, <1>6 DEF Eligible

\* So is one of which something else changed.
LEMMA SameJudged ==
  ASSUME NEW c, NEW d, SameButCategory(c, d), d.category = c.category
  PROVE  InferredRole(d) = InferredRole(c) /\ Eligible(d) = Eligible(c)
  <1>1. Confirmed(d) <=> Confirmed(c)
    BY DEF SameButCategory, Confirmed, GoogleConfirmed, ProviderText
  <1>2. CandidateText(d) = CandidateText(c) /\ NameTypeText(d) = NameTypeText(c)
    BY DEF CandidateText, NameTypeText, SameButCategory
  <1>3. InferredRole(d) = InferredRole(c)
    BY <1>1, <1>2 DEF InferredRole
  <1>4. CriticalExclusion(d) <=> CriticalExclusion(c)
    BY <1>2 DEF CriticalExclusion
  <1>5. ExclusionReasons(d) = ExclusionReasons(c)
    BY <1>1, <1>2, <1>3, <1>4 DEF ExclusionReasons
  <1>6. QED BY <1>3, <1>5 DEF Eligible

LEMMA InitGate == GateInit => GateInv
  BY GateAssumption DEF GateInit, GateInv, ProfileFields

LEMMA ClassifyInv == ASSUME GateInv, Classify PROVE GateInv'
  <1> PICK d : d = profile'
    OBVIOUS
  <1>1. /\ d = [profile EXCEPT !.category = Category(profile)]
        /\ marketed' = Eligible(profile) /\ scored' = Eligible(d)
        /\ step' = "classified" /\ targets' = targets
    BY DEF Classify, Category, CategoryOf
  <1>2. DOMAIN d = ProfileFields /\ SameButCategory(profile, d) /\ d.category = Category(profile)
    BY <1>1 DEF GateInv, ProfileFields, SameButCategory
  <1>3. InferredRole(d) = InferredRole(profile) /\ Eligible(d) = Eligible(profile)
    BY <1>2, JudgedAlike
  <1>4. d.category = Category(d)
    BY <1>2, <1>3 DEF Category, CategoryOf
  <1>5. d.description # {} => Observed(d, "description", d.description)
    BY <1>2 DEF GateInv, SameButCategory, Observed
  <1>6. InferredRole(profile)' = InferredRole(d)
    BY <1>1 DEF InferredRole
  <1>7. Eligible(profile)' = Eligible(d)
    BY <1>1, <1>6 DEF Eligible, ExclusionReasons
  <1>8. scored' = Eligible(profile)' /\ marketed' = scored'
    BY <1>1, <1>3, <1>7
  <1>9. profile'.category = Category(profile)'
    BY <1>4, <1>6 DEF Category, CategoryOf
  <1>10. (profile.description # {} => Observed(profile, "description", profile.description))'
    BY <1>5 DEF Observed
  <1>11. QED BY <1>1, <1>2, <1>8, <1>9, <1>10 DEF GateInv

\* Whatever observes a description is still there.
SanitizedOf(c) ==
    [c EXCEPT !.description = IF Observed(c, "description", @) THEN @ ELSE {},
              !.contacts = {f \in @ : \E e \in c.evidence : e.field = f}]

LEMMA SanitizeInv == ASSUME GateInv, Sanitize PROVE GateInv'
  <1> PICK d : d = profile'
    OBVIOUS
  <1>1. /\ d = SanitizedOf(profile) /\ step = "classified" /\ step' = "sanitized"
        /\ targets' = targets /\ marketed' = marketed /\ scored' = scored
    BY DEF Sanitize, SanitizedOf
  <1>2. /\ DOMAIN d = ProfileFields /\ d.category = profile.category
        /\ d.name = profile.name /\ d.specialties = profile.specialties /\ d.evidence = profile.evidence
        /\ d.description = IF Observed(profile, "description", profile.description)
                           THEN profile.description ELSE {}
    BY <1>1 DEF SanitizedOf, GateInv, ProfileFields
  <1>3. d.description = profile.description
    BY <1>2 DEF GateInv
  <1>4. SameButCategory(profile, d)
    BY <1>2, <1>3 DEF SameButCategory
  <1>5. InferredRole(d) = InferredRole(profile) /\ Eligible(d) = Eligible(profile)
    BY <1>2, <1>4, SameJudged
  <1>6. InferredRole(profile)' = InferredRole(d)
    BY <1>1 DEF InferredRole
  <1>7. Eligible(profile)' = Eligible(d)
    BY <1>1, <1>6 DEF Eligible, ExclusionReasons
  <1>8. scored' = Eligible(profile)' /\ marketed' = scored'
    BY <1>1, <1>5, <1>7 DEF GateInv
  <1>9. profile'.category = Category(profile)'
    BY <1>1, <1>2, <1>5, <1>6 DEF Category, GateInv
  <1>10. (profile.description # {} => Observed(profile, "description", profile.description))'
    BY <1>2, <1>3 DEF Observed, GateInv
  <1>11. QED BY <1>1, <1>2, <1>8, <1>9, <1>10 DEF GateInv

\* What changes neither the company nor its scores, once it has its category.
LEMMA VerdictInv ==
  ASSUME GateInv, UNCHANGED <<profile, targets, marketed, scored>>,
         step' \in {"found", "classified", "sanitized", "accepted", "rejected"},
         step' # "found" => step # "found",
         step' = "accepted" => profile.category # "otro"
  PROVE  GateInv'
  <1>1. InferredRole(profile)' = InferredRole(profile)
    BY DEF InferredRole
  <1>2. Eligible(profile)' = Eligible(profile)
    BY <1>1 DEF Eligible, ExclusionReasons
  <1>3. Category(profile)' = Category(profile)
    BY <1>1 DEF Category, CategoryOf
  <1>4. (profile.description # {} => Observed(profile, "description", profile.description))'
    BY DEF Observed, GateInv
  <1>5. step' # "found" => /\ profile'.category = Category(profile)'
                           /\ marketed' = scored' /\ scored' = Eligible(profile)'
    BY <1>2, <1>3 DEF GateInv
  <1>6. DOMAIN profile' = ProfileFields /\ step' = "accepted" => profile'.category # "otro"
    BY DEF GateInv
  <1>7. QED BY <1>4, <1>5, <1>6 DEF GateInv

LEMMA ValidateInv == ASSUME GateInv, Validate PROVE GateInv'
  <1>1. /\ step = "sanitized" /\ UNCHANGED <<profile, targets, marketed, scored>>
        /\ step' = IF RejectionReasons(profile) = {} THEN "accepted" ELSE "rejected"
    BY DEF Validate
  <1>2. RejectionReasons(profile) = {} => profile.category # "otro"
    BY DEF RejectionReasons
  <1>3. QED BY <1>1, <1>2, VerdictInv

\* What Brave says is observed as it is merged.
LEMMA FoundAgainInv == ASSUME GateInv, FoundAgain PROVE GateInv'
  <1>1. /\ step' = "found" /\ DOMAIN profile' = ProfileFields
    BY DEF FoundAgain, GateInv, ProfileFields
  <1>2. PICK s \in Snippets :
          profile' = [profile EXCEPT
             !.description = IF @ = {} THEN s.description ELSE @,
             !.contacts = @ \cup {"website"},
             !.evidence = @ \cup
                 {[provider |-> "brave_search", field |-> "name", text |-> s.name],
                  [provider |-> "brave_search", field |-> "description", text |-> s.description],
                  [provider |-> "brave_search", field |-> "website", text |-> {}]}]
    BY DEF FoundAgain
  <1> PICK seen : seen = [provider |-> "brave_search", field |-> "description", text |-> s.description]
    OBVIOUS
  <1>3. /\ profile'.description = IF profile.description = {} THEN s.description ELSE profile.description
        /\ profile.evidence \subseteq profile'.evidence /\ seen \in profile'.evidence
    BY <1>2 DEF GateInv, ProfileFields
  <1>4. seen.field = "description" /\ seen.text = s.description
    OBVIOUS
  <1>5. (profile.description # {} => Observed(profile, "description", profile.description))'
    <2>1. CASE profile.description = {}
      BY <1>3, <1>4, <2>1 DEF Observed
    <2>2. CASE profile.description # {}
      BY <1>3, <2>2 DEF Observed, GateInv
    <2>3. QED BY <2>1, <2>2
  <1>6. QED BY <1>1, <1>5 DEF GateInv

LEMMA NextGate == GateInv /\ [GateNext]_gateVars => GateInv'
  <1> SUFFICES ASSUME GateInv, [GateNext]_gateVars PROVE GateInv'
    OBVIOUS
  <1>1. CASE UNCHANGED gateVars
    <2>1. UNCHANGED <<profile, targets, marketed, scored>> /\ step' = step
      BY <1>1 DEF gateVars
    <2>2. QED BY <2>1, VerdictInv DEF GateInv
  <1>2. QED
    BY <1>1, ClassifyInv, SanitizeInv, ValidateInv, FoundAgainInv DEF GateNext

LEMMA InvAgrees == GateInv => VerdictsAgree
  BY DEF GateInv, VerdictsAgree, Category, CategoryOf

\* A company is judged before it has its category, with it, and after what is not
\* supported was taken away, and once more each time that it is found again
\* (quality.py, scoring.py and validation.py): whatever the sources say of it, the
\* judgements agree, and what is kept has the category that its text still gives it.
THEOREM VerdictsAlwaysAgree == GateSpec => []VerdictsAgree
  <1>1. GateSpec => []GateInv
    BY InitGate, NextGate, PTL DEF GateSpec
  <1>2. QED BY <1>1, InvAgrees, PTL

-----------------------------------------------------------------------------
(* Induction without an induction schema: a set of naturals has a least    *)
(* element, because the intervals from 0 to its elements are well-founded  *)
(* under inclusion.                                                        *)

\* A set of naturals that is not empty and bounded has a least element.
LEMMA LeastElement ==
    ASSUME NEW T, T \subseteq Nat, T # {}
    PROVE  \E x \in T : \A y \in T : x <= y
<1>1. PICK z \in T : TRUE
  OBVIOUS
<1> DEFINE Upto(x) == 0 .. x
           S == Upto(z)
           U == {Upto(x) : x \in {y \in T : y <= z}}
<1>2. \A x \in Nat : IsFiniteSet(Upto(x))
  BY FS_Interval
<1>3. IsWellFoundedOn(StrictSubsetOrdering(S), FiniteSubsetsOf(S))
  BY FS_StrictSubsetOrderingWellFounded
<1>4. U \subseteq FiniteSubsetsOf(S) /\ U # {}
  BY <1>1, <1>2 DEF FiniteSubsetsOf
<1>5. PICK u \in U : \A v \in U : <<v, u>> \notin StrictSubsetOrdering(S)
  <2> HIDE DEF U, S
  <2> QED
    BY <1>3, <1>4, WFMin
<1>6. PICK x \in T : x <= z /\ u = Upto(x)
  BY <1>5
<1>7. ASSUME NEW y \in T, y < x PROVE FALSE
  <2>1. y \in Nat /\ x \in Nat /\ z \in Nat /\ y <= z
    BY <1>6, <1>7
  <2>2. Upto(y) \in U
    BY <2>1
  <2>3. <<Upto(y), u>> \in StrictSubsetOrdering(S)
    <3>1. Upto(y) \subseteq Upto(x) /\ x \in Upto(x) /\ x \notin Upto(y) /\ Upto(x) \subseteq S
      BY <1>6, <1>7, <2>1
    <3> QED
      BY <1>6, <3>1 DEF StrictSubsetOrdering
  <2> QED
    BY <1>5, <2>2, <2>3
<1> QED
  BY <1>6, <1>7

-----------------------------------------------------------------------------
(* What Among selects.                                                     *)

Selection(seq, set, f, n) ==
    IF n = 0 THEN <<>>
    ELSE IF seq[n] \in set THEN Append(f[n - 1], seq[n]) ELSE f[n - 1]

\* The recursive function that Among is made of exists.
LEMMA SelectionExists ==
    ASSUME NEW seq, NEW set, NEW N \in Nat
    PROVE  \E f : f = [n \in 0 .. N |-> Selection(seq, set, f, n)]
<1> DEFINE Exists(n) == \E f : f = [i \in 0 .. n |-> Selection(seq, set, f, i)]
           T == {n \in Nat : ~Exists(n)}
<1>1. ASSUME NEW n \in Nat, \A m \in Nat : m < n => Exists(m)
      PROVE  Exists(n)
  <2>1. CASE n = 0
    <3> DEFINE f == [i \in 0 .. 0 |-> <<>>]
    <3>1. f = [i \in 0 .. 0 |-> Selection(seq, set, f, i)]
      BY DEF Selection
    <3> QED
      BY <2>1, <3>1
  <2>2. CASE n # 0
    <3>1. n - 1 \in Nat
      BY <2>2
    <3>2. PICK h : h = [i \in 0 .. n - 1 |-> Selection(seq, set, h, i)]
      BY <1>1, <3>1
    <3> DEFINE f == [i \in 0 .. n |-> IF i = n THEN Selection(seq, set, h, n) ELSE h[i]]
    <3>3. ASSUME NEW i \in 0 .. n PROVE f[i] = Selection(seq, set, f, i)
      <4>1. i # 0 => i - 1 \in 0 .. n - 1 /\ f[i - 1] = h[i - 1]
        BY <2>2
      <4>2. Selection(seq, set, f, i) = Selection(seq, set, h, i)
        BY <4>1 DEF Selection
      <4>3. i # n => i \in 0 .. n - 1 /\ h[i] = Selection(seq, set, h, i)
        BY <3>2
      <4> QED
        BY <4>2, <4>3
    <3>4. f = [i \in 0 .. n |-> Selection(seq, set, f, i)]
      <4> HIDE DEF f
      <4>1. f = [i \in 0 .. n |-> f[i]]
        BY DEF f
      <4> QED
        BY <3>3, <4>1
    <3> QED
      BY <3>4
  <2> QED
    BY <2>1, <2>2
<1>2. T = {}
  <2> SUFFICES ASSUME T # {} PROVE FALSE
    OBVIOUS
  <2>1. PICK n \in T : \A m \in T : n <= m
    <3> HIDE DEF Exists
    <3> QED
      BY LeastElement
  <2>2. \A m \in Nat : m < n => Exists(m)
    <3> HIDE DEF Exists
    <3> QED
      BY <2>1
  <2> HIDE DEF Exists
  <2> QED
    BY <1>1, <2>1, <2>2
<1> HIDE DEF Exists
<1>3. Exists(N)
  BY <1>2
<1> QED
  BY <1>3 DEF Exists

\* Among as the last of a series of selections.
LEMMA AmongUnfolds ==
    ASSUME NEW S, NEW seq \in Seq(S), NEW set
    PROVE  \E f : /\ \A n \in 0 .. Len(seq) : f[n] = Selection(seq, set, f, n)
                  /\ Among(seq, set) = f[Len(seq)]
<1> DEFINE g == CHOOSE f : f = [n \in 0 .. Len(seq) |-> Selection(seq, set, f, n)]
<1>1. Len(seq) \in Nat
  OBVIOUS
<1>2. \E f : f = [n \in 0 .. Len(seq) |-> Selection(seq, set, f, n)]
  BY <1>1, SelectionExists
<1>3. g = [n \in 0 .. Len(seq) |-> Selection(seq, set, g, n)]
  BY <1>2
<1>4. Among(seq, set) = g[Len(seq)]
  BY DEF Among, Selection
<1> HIDE DEF g
<1>5. \A n \in 0 .. Len(seq) : g[n] = Selection(seq, set, g, n)
  BY <1>3
<1> QED
  BY <1>4, <1>5

\* The elements of seq that are in the set, all of them and no others.
Selected(part, seq, S, set) ==
    /\ part \in Seq(S \cap set)
    /\ \A k \in 1 .. Len(part) : \E n \in 1 .. Len(seq) : part[k] = seq[n]
    /\ \A n \in 1 .. Len(seq) :
          seq[n] \in set => \E k \in 1 .. Len(part) : part[k] = seq[n]

\* Among keeps the elements that are in the set.
LEMMA AmongSelects ==
    ASSUME NEW S, NEW seq \in Seq(S), NEW set
    PROVE  Selected(Among(seq, set), seq, S, set)
<1>1. PICK f : /\ \A n \in 0 .. Len(seq) : f[n] = Selection(seq, set, f, n)
               /\ Among(seq, set) = f[Len(seq)]
  BY AmongUnfolds
<1> DEFINE Selects(n) ==
        /\ f[n] \in Seq(S \cap set)
        /\ \A k \in 1 .. Len(f[n]) : \E m \in 1 .. n : f[n][k] = seq[m]
        /\ \A m \in 1 .. n : seq[m] \in set => \E k \in 1 .. Len(f[n]) : f[n][k] = seq[m]
           T == {n \in 0 .. Len(seq) : ~Selects(n)}
<1>2. ASSUME NEW n \in 0 .. Len(seq), \A m \in 0 .. Len(seq) : m < n => Selects(m)
      PROVE  Selects(n)
  <2>1. CASE n = 0
    <3>1. f[n] = <<>>
      BY <1>1, <2>1 DEF Selection
    <3>2. f[n] \in Seq(S \cap set) /\ Len(f[n]) = 0
      BY <3>1
    <3> QED
      BY <2>1, <3>2
  <2>2. CASE n # 0
    <3>1. n - 1 \in 0 .. Len(seq) /\ n - 1 < n /\ n \in 1 .. Len(seq)
      BY <2>2
    <3>2. Selects(n - 1)
      BY <1>2, <3>1
    <3>3. CASE seq[n] \notin set
      <4>1. f[n] = f[n - 1]
        BY <1>1, <2>2, <3>3 DEF Selection
      <4>2. \A m \in 1 .. n : m # n => m \in 1 .. n - 1
        BY <3>1
      <4>3. \A m \in 1 .. n - 1 : m \in 1 .. n
        BY <3>1
      <4> QED
        BY <3>2, <3>3, <4>1, <4>2, <4>3
    <3>4. CASE seq[n] \in set
      <4>1. f[n] = Append(f[n - 1], seq[n])
        BY <1>1, <2>2, <3>4 DEF Selection
      <4>2. seq[n] \in S \cap set
        BY <3>1, <3>4
      <4>3. /\ f[n] \in Seq(S \cap set)
            /\ Len(f[n]) = Len(f[n - 1]) + 1
            /\ \A k \in 1 .. Len(f[n - 1]) : f[n][k] = f[n - 1][k]
            /\ f[n][Len(f[n])] = seq[n]
        BY <3>2, <4>1, <4>2, AppendProperties
      <4>4. \A m \in 1 .. n : m # n => m \in 1 .. n - 1
        BY <3>1
      <4>5. \A m \in 1 .. n - 1 : m \in 1 .. n
        BY <3>1
      <4>6. Len(f[n - 1]) \in Nat
        BY <3>2
      <4>7. \A k \in 1 .. Len(f[n]) : k # Len(f[n]) => k \in 1 .. Len(f[n - 1])
        BY <4>3, <4>6
      <4>8. \A k \in 1 .. Len(f[n - 1]) : k \in 1 .. Len(f[n])
        BY <4>3, <4>6
      <4>9. n \in 1 .. n /\ Len(f[n]) \in 1 .. Len(f[n])
        BY <3>1, <4>3, <4>6
      <4>10. \A k \in 1 .. Len(f[n]) : \E m \in 1 .. n : f[n][k] = seq[m]
        BY <3>2, <4>3, <4>5, <4>7, <4>9
      <4>11. \A m \in 1 .. n : seq[m] \in set => \E k \in 1 .. Len(f[n]) : f[n][k] = seq[m]
        BY <3>2, <4>3, <4>4, <4>8, <4>9
      <4> QED
        BY <4>3, <4>10, <4>11
    <3> QED
      BY <3>3, <3>4
  <2> QED
    BY <2>1, <2>2
<1>3. T = {}
  <2> HIDE DEF Selects
  <2> SUFFICES ASSUME T # {} PROVE FALSE
    OBVIOUS
  <2>1. T \subseteq Nat
    OBVIOUS
  <2>2. PICK n \in T : \A m \in T : n <= m
    BY <2>1, LeastElement
  <2>3. \A m \in 0 .. Len(seq) : m < n => Selects(m)
    BY <2>2
  <2> QED
    BY <1>2, <2>2, <2>3
<1>4. Len(seq) \in 0 .. Len(seq)
  OBVIOUS
<1> HIDE DEF Selects
<1>5. Selects(Len(seq))
  BY <1>3, <1>4
<1> QED
  BY <1>1, <1>5 DEF Selects, Selected

-----------------------------------------------------------------------------
(* The invariant.                                                          *)

Statuses == {"queued", "delivered", "dead", "split", "discarded", "deleted"}

OutboxRow == [body : Seq(Candidate), status : Statuses, failures : Nat, old : BOOLEAN,
              names : SUBSET Identities]

RetentionTypeOK ==
    /\ rows \in Seq(OutboxRow)
    /\ expired \subseteq Licensed
    /\ swept \subseteq expired
    /\ DOMAIN ledger \subseteq DOMAIN rows
    /\ ledger \in [DOMAIN ledger -> Seq(Candidate)]
    /\ DOMAIN fetched \subseteq DOMAIN rows
    /\ fetched \in [DOMAIN fetched -> Seq(Candidate)]

\* A row keeps the names it was created with.
NamesKept == \A i \in DOMAIN rows : Ids(rows[i].body) \subseteq rows[i].names

\* While a batch is delivered only the purge writes its rows: it empties and
\* dead-letters a row, or leaves it queued with some of what was read.
InFlight ==
    \A i \in DOMAIN fetched :
        /\ \/ rows[i].status = "queued"
           \/ rows[i].status = "dead" /\ rows[i].body = <<>>
        /\ Ids(rows[i].body) \subseteq Ids(fetched[i])

\* What the outcome of a delivery tells of the row that was sent.
OutcomeTold ==
    /\ sent # "none" => phase = "mark"
    /\ \A i \in DOMAIN fetched :
          First(i) =>
              /\ sent = "ok" => i \in DOMAIN ledger /\ ledger[i] = fetched[i]
              /\ sent = "perm" => Ids(fetched[i]) \cap Invalid # {}

\* Where a candidate of a batch may be.
InTheCrm(id) == \E k \in DOMAIN ledger : id \in Ids(ledger[k])

Waiting(c) ==
    \E i \in DOMAIN rows :
        /\ rows[i].status \in {"queued", "dead"}
        /\ \E n \in DOMAIN rows[i].body :
              rows[i].body[n].id = c.id /\ c.items \ expired \subseteq rows[i].body[n].items

Emptied(id) ==
    \E i \in DOMAIN rows :
        id \in rows[i].names /\ rows[i].body = <<>> /\ rows[i].failures > 0

\* Nothing that can be rebuilt gets lost without a trace.
Traced(c) ==
    c.id \notin Invalid /\ c.items \ expired \in Sufficient =>
        InTheCrm(c.id) \/ Waiting(c) \/ Emptied(c.id)

AllTraced == \A b \in DOMAIN Batches : \A n \in DOMAIN Batches[b] : Traced(Batches[b][n])

RetentionInv ==
    /\ RetentionTypeOK
    /\ NamesKept
    /\ InFlight
    /\ OutcomeTold
    /\ DeletedIsCommitted
    /\ SweptStaysOut
    /\ AllTraced

-----------------------------------------------------------------------------
(* Bodies.                                                                 *)

\* A body made of candidates of another has no other names or evidence.
LEMMA PartOfBody ==
    ASSUME NEW part, NEW body,
           \A k \in DOMAIN part : \E n \in DOMAIN body : part[k] = body[n]
    PROVE  Ids(part) \subseteq Ids(body) /\ EvidenceIn(part) \subseteq EvidenceIn(body)
  BY DEF Ids, EvidenceIn

\* Names are identities.
LEMMA NamesAreIdentities ==
    ASSUME NEW body \in Seq(Candidate)
    PROVE  Ids(body) \subseteq Identities
<1>1. \A n \in DOMAIN body : body[n] \in Candidate
  OBVIOUS
<1> QED
  BY <1>1 DEF Ids, Candidate

\* The halves of a batch are parts of it, and nothing is lost between them.
LEMMA HalvesCover ==
    ASSUME NEW body \in Seq(Candidate), NEW mid \in 0 .. Len(body)
    PROVE  LET first == SubSeq(body, 1, mid)
               last  == SubSeq(body, mid + 1, Len(body))
           IN  /\ first \in Seq(Candidate) /\ last \in Seq(Candidate)
               /\ \A k \in DOMAIN first : \E n \in DOMAIN body : first[k] = body[n]
               /\ \A k \in DOMAIN last : \E n \in DOMAIN body : last[k] = body[n]
               /\ \A n \in DOMAIN body :
                     \/ \E k \in DOMAIN first : first[k] = body[n]
                     \/ \E k \in DOMAIN last : last[k] = body[n]
<1> DEFINE first == SubSeq(body, 1, mid)
           last  == SubSeq(body, mid + 1, Len(body))
<1>1. Len(body) \in Nat /\ mid \in Nat /\ mid <= Len(body) /\ DOMAIN body = 1 .. Len(body)
  OBVIOUS
<1>2. /\ first \in Seq(Candidate) /\ Len(first) = mid
      /\ \A k \in 1 .. mid : first[k] = body[k]
  BY <1>1, SubSeqProperties
<1>3. /\ last \in Seq(Candidate) /\ Len(last) = Len(body) - mid
      /\ \A k \in 1 .. Len(body) - mid : last[k] = body[mid + k]
  <2>1. \A n \in mid + 1 .. Len(body) : body[n] \in Candidate
    BY <1>1
  <2>2. /\ last \in Seq(Candidate)
        /\ Len(last) = IF mid + 1 <= Len(body) THEN Len(body) - (mid + 1) + 1 ELSE 0
        /\ \A k \in 1 .. Len(body) - (mid + 1) + 1 : last[k] = body[(mid + 1) + k - 1]
    BY <1>1, <2>1, SubSeqProperties
  <2> HIDE DEF last
  <2>3. Len(body) - (mid + 1) + 1 = Len(body) - mid
    BY <1>1
  <2>4. ASSUME NEW k \in 1 .. Len(body) - mid PROVE last[k] = body[mid + k]
    <3>1. (mid + 1) + k - 1 = mid + k
      BY <1>1
    <3>2. k \in 1 .. Len(body) - (mid + 1) + 1
      BY ONLY <2>3, <2>4
    <3>3. last[k] = body[(mid + 1) + k - 1]
      BY ONLY <2>2, <3>2
    <3> QED
      BY ONLY <3>1, <3>3
  <2>5. Len(last) = Len(body) - mid
    <3>1. \A n, m \in Nat : m <= n => (IF m + 1 <= n THEN n - (m + 1) + 1 ELSE 0) = n - m
      BY ONLY TRUE
    <3> QED
      BY ONLY <1>1, <2>2, <3>1
  <2> QED
    BY <2>2, <2>4, <2>5
<1>4. DOMAIN first = 1 .. mid /\ DOMAIN last = 1 .. Len(body) - mid
  BY <1>2, <1>3
<1> HIDE DEF first, last
<1>5. \A k \in DOMAIN first : k \in DOMAIN body /\ first[k] = body[k]
  BY <1>1, <1>2, <1>4
<1>6. \A k \in DOMAIN last : mid + k \in DOMAIN body /\ last[k] = body[mid + k]
  BY <1>1, <1>3, <1>4
<1>7. ASSUME NEW n \in DOMAIN body, n > mid PROVE n - mid \in DOMAIN last /\ last[n - mid] = body[n]
  BY <1>1, <1>3, <1>4, <1>7
<1>8. ASSUME NEW n \in DOMAIN body, ~(n > mid) PROVE n \in DOMAIN first /\ first[n] = body[n]
  BY <1>1, <1>2, <1>4, <1>8
<1> QED
  BY <1>2, <1>3, <1>5, <1>6, <1>7, <1>8 DEF first, last

\* A rebuilt batch: every candidate of it is one that was in the batch without
\* the expired evidence, and every candidate that can be rebuilt is in it.
LEMMA RehydratedIsRebuilt ==
    ASSUME NEW body \in Seq(Candidate)
    PROVE  /\ Rehydrated(body) \in Seq(Candidate)
           /\ \A k \in DOMAIN Rehydrated(body) : \E n \in DOMAIN body :
                 /\ Rehydrated(body)[k].id = body[n].id
                 /\ Rehydrated(body)[k].items = body[n].items \ expired
           /\ \A n \in DOMAIN body :
                 body[n].items \ expired \in Sufficient =>
                     \E k \in DOMAIN Rehydrated(body) :
                         /\ Rehydrated(body)[k].id = body[n].id
                         /\ Rehydrated(body)[k].items = body[n].items \ expired
<1> DEFINE Kept  == [id : Identities, items : SUBSET Items]
           bare == [n \in DOMAIN body |-> [body[n] EXCEPT !.items = @ \ expired]]
<1>1. Len(body) \in Nat /\ DOMAIN body = 1 .. Len(body)
  OBVIOUS
<1>2. \A n \in DOMAIN body : body[n] \in Candidate
  OBVIOUS
<1>3. \A n \in DOMAIN body :
         /\ bare[n] \in Kept
         /\ bare[n].id = body[n].id /\ bare[n].items = body[n].items \ expired
         /\ bare[n] \in Candidate <=> body[n].items \ expired \in Sufficient
  BY <1>2, RetentionAssumption DEF Candidate
<1>4. bare \in Seq(Kept) /\ Len(bare) = Len(body)
  <2>1. bare \in [1 .. Len(body) -> Kept]
    BY <1>1, <1>3
  <2> HIDE DEF bare, Kept
  <2> QED
    BY <1>1, <2>1, SeqDef
<1>5. Rehydrated(body) = Among(bare, Candidate)
  BY DEF Rehydrated
<1> HIDE DEF bare, Kept
<1>6. Selected(Rehydrated(body), bare, Kept, Candidate)
  BY <1>4, <1>5, AmongSelects
<1>7. Rehydrated(body) \in Seq(Candidate)
  BY <1>6, SeqMonotonic DEF Selected
<1>8. DOMAIN Rehydrated(body) = 1 .. Len(Rehydrated(body))
  BY <1>7
<1>9. ASSUME NEW k \in DOMAIN Rehydrated(body)
       PROVE  \E n \in DOMAIN body : /\ Rehydrated(body)[k].id = body[n].id
                                     /\ Rehydrated(body)[k].items = body[n].items \ expired
  <2>1. PICK n \in 1 .. Len(body) : Rehydrated(body)[k] = bare[n]
    BY <1>4, <1>6, <1>8 DEF Selected
  <2> QED
    BY <1>1, <1>3, <2>1
<1>10. ASSUME NEW n \in DOMAIN body, body[n].items \ expired \in Sufficient
       PROVE  \E k \in DOMAIN Rehydrated(body) : /\ Rehydrated(body)[k].id = body[n].id
                                                  /\ Rehydrated(body)[k].items = body[n].items \ expired
  <2>1. PICK k \in 1 .. Len(Rehydrated(body)) : Rehydrated(body)[k] = bare[n]
    BY <1>1, <1>3, <1>4, <1>6, <1>10 DEF Selected
  <2> QED
    BY <1>3, <1>8, <2>1
<1> QED
  BY <1>7, <1>9, <1>10

-----------------------------------------------------------------------------
(* The steps.                                                              *)

\* Rewriting every row of a sequence gives a sequence.
LEMMA RowsRewritten ==
    ASSUME NEW S, NEW seq \in Seq(S), NEW T, NEW f \in [DOMAIN seq -> T]
    PROVE  f \in Seq(T) /\ DOMAIN f = DOMAIN seq
<1>1. Len(seq) \in Nat /\ DOMAIN seq = 1 .. Len(seq)
  OBVIOUS
<1> QED
  BY <1>1, SeqDef

\* The fields of a row.
LEMMA RowsTyped ==
    ASSUME RetentionTypeOK
    PROVE  /\ Len(rows) \in Nat /\ DOMAIN rows = 1 .. Len(rows)
           /\ \A i \in DOMAIN rows :
                 /\ rows[i] \in OutboxRow
                 /\ rows[i].body \in Seq(Candidate)
                 /\ rows[i].status \in Statuses
                 /\ rows[i].failures \in Nat
                 /\ rows[i].old \in BOOLEAN
                 /\ rows[i].names \subseteq Identities
<1>1. Len(rows) \in Nat /\ DOMAIN rows = 1 .. Len(rows)
  BY DEF RetentionTypeOK
<1>2. \A i \in DOMAIN rows : rows[i] \in OutboxRow
  BY DEF RetentionTypeOK
<1> QED
  BY <1>1, <1>2 DEF OutboxRow

\* The rows that save_candidates queues.
LEMMA InitRetention == RetentionInit => RetentionInv
<1> SUFFICES ASSUME RetentionInit PROVE RetentionInv
  OBVIOUS
<1>1. \A b \in DOMAIN Batches :
         /\ Batches[b] \in Seq(Candidate)
         /\ Row(Batches[b]) \in OutboxRow
         /\ Row(Batches[b]).body = Batches[b]
         /\ Row(Batches[b]).names = Ids(Batches[b])
         /\ Row(Batches[b]).status = "queued"
  <2> TAKE b \in DOMAIN Batches
  <2>1. Batches[b] \in Seq(Candidate)
    BY RetentionAssumption
  <2>2. Ids(Batches[b]) \subseteq Identities
    BY <2>1, NamesAreIdentities
  <2> QED
    BY <2>1, <2>2 DEF Row, OutboxRow, Statuses
<1>2. rows \in [DOMAIN Batches -> OutboxRow] /\ \A b \in DOMAIN Batches : rows[b] = Row(Batches[b])
  BY <1>1 DEF RetentionInit
<1>3. rows \in Seq(OutboxRow) /\ DOMAIN rows = DOMAIN Batches
  BY <1>2, RowsRewritten, RetentionAssumption
<1>4. DOMAIN ledger = {} /\ DOMAIN fetched = {} /\ sent = "none" /\ expired = {} /\ swept = {}
  BY DEF RetentionInit
<1>5. RetentionTypeOK
  BY <1>3, <1>4 DEF RetentionTypeOK
<1>6. NamesKept /\ InFlight /\ OutcomeTold /\ DeletedIsCommitted /\ SweptStaysOut
  BY <1>1, <1>2, <1>3, <1>4
  DEF NamesKept, InFlight, OutcomeTold, DeletedIsCommitted, SweptStaysOut
<1>7. ASSUME NEW b \in DOMAIN Batches, NEW n \in DOMAIN Batches[b] PROVE Traced(Batches[b][n])
  BY <1>1, <1>2, <1>3 DEF Traced, Waiting
<1> QED
  BY <1>5, <1>6, <1>7 DEF RetentionInv, AllTraced

\* What a step keeps that writes neither rows nor the clock of the evidence.
LEMMA RowsUnchanged ==
    ASSUME RetentionInv, rows' = rows, expired' = expired, swept' = swept,
           DOMAIN ledger' \subseteq DOMAIN rows, ledger' \in [DOMAIN ledger' -> Seq(Candidate)],
           DOMAIN ledger \subseteq DOMAIN ledger',
           \A k \in DOMAIN ledger : ledger'[k] = ledger[k]
    PROVE  NamesKept' /\ DeletedIsCommitted' /\ SweptStaysOut' /\ AllTraced'
<1> USE DEF RetentionInv
<1>1. NamesKept' /\ DeletedIsCommitted' /\ SweptStaysOut'
  BY DEF NamesKept, DeletedIsCommitted, SweptStaysOut, Queued
<1>2. ASSUME NEW c, Traced(c) PROVE Traced(c)'
  <2>1. InTheCrm(c.id) => InTheCrm(c.id)'
    BY DEF InTheCrm
  <2>2. Waiting(c) => Waiting(c)'
    BY DEF Waiting
  <2>3. Emptied(c.id) => Emptied(c.id)'
    BY DEF Emptied
  <2> QED
    BY <1>2, <2>1, <2>2, <2>3 DEF Traced
<1> QED
  BY <1>1, <1>2 DEF AllTraced

\* Reading the outbox.
LEMMA FetchKeeps ==
    ASSUME RetentionInv, Fetch
    PROVE  RetentionInv'
<1> USE DEF RetentionInv
<1>1. rows' = rows /\ expired' = expired /\ swept' = swept /\ ledger' = ledger /\ sent' = sent
  BY DEF Fetch
<1>2. fetched' = [i \in Queued |-> rows[i].body] /\ DOMAIN fetched' = Queued
  BY DEF Fetch
<1>3. \A i \in Queued : i \in DOMAIN rows /\ rows[i].status = "queued" /\ rows[i].body \in Seq(Candidate)
  BY RowsTyped DEF Queued
<1>4. sent = "none"
  BY DEF Fetch, OutcomeTold
<1>5. RetentionTypeOK'
  BY <1>1, <1>2, <1>3 DEF RetentionTypeOK
<1>6. ASSUME NEW i \in DOMAIN fetched'
      PROVE  rows'[i].status = "queued" /\ Ids(rows'[i].body) \subseteq Ids(fetched'[i])
  BY <1>1, <1>2, <1>3
<1>7. InFlight'
  BY <1>6 DEF InFlight
<1>8. OutcomeTold'
  BY <1>1, <1>4 DEF OutcomeTold
<1> QED
  BY <1>1, <1>5, <1>7, <1>8, RowsUnchanged DEF RetentionTypeOK

\* The row that is delivered is the first.
LEMMA OneIsFirst ==
    ASSUME NEW i \in DOMAIN fetched, NEW j \in DOMAIN fetched, First(i), First(j),
           DOMAIN fetched \subseteq Int
    PROVE  i = j
  BY DEF First

\* A delivery: the CRM commits it or not, and tells or not.
LEMMA SendKeeps ==
    ASSUME RetentionInv, Send
    PROVE  RetentionInv'
<1> USE DEF RetentionInv
<1>1. PICK i \in DOMAIN fetched :
         /\ First(i)
         /\ \/ Answer(i) = "ok" /\ Commit(i) /\ sent' = "ok"
            \/ Answer(i) = "ok" /\ Commit(i) /\ sent' = "retry"
            \/ UNCHANGED ledger /\ sent' = "retry"
            \/ Answer(i) # "ok" /\ sent' = Answer(i) /\ UNCHANGED ledger
  BY DEF Send
<1>2. rows' = rows /\ expired' = expired /\ swept' = swept /\ fetched' = fetched /\ phase' = "mark"
  BY DEF Send
<1>3. DOMAIN fetched \subseteq Int
  BY DEF RetentionTypeOK
<1>4. \A j \in DOMAIN fetched : First(j) => j = i
  BY <1>1, <1>3, OneIsFirst
<1>5. ASSUME Answer(i) = "ok", Commit(i)
      PROVE  /\ DOMAIN ledger' = DOMAIN ledger \cup {i}
             /\ ledger'[i] = fetched[i]
             /\ \A k \in DOMAIN ledger : ledger'[k] = ledger[k]
  BY <1>5 DEF Answer, Commit
<1>6. /\ DOMAIN ledger' \subseteq DOMAIN rows
      /\ ledger' \in [DOMAIN ledger' -> Seq(Candidate)]
      /\ DOMAIN ledger \subseteq DOMAIN ledger'
      /\ \A k \in DOMAIN ledger : ledger'[k] = ledger[k]
  <2>1. CASE UNCHANGED ledger
    BY <2>1 DEF RetentionTypeOK
  <2>2. CASE Answer(i) = "ok" /\ Commit(i)
    BY <1>5, <2>2 DEF RetentionTypeOK, Commit
  <2> QED
    BY <1>1, <2>1, <2>2
<1>7. RetentionTypeOK' /\ InFlight'
  BY <1>2, <1>6 DEF RetentionTypeOK, InFlight
<1>8. OutcomeTold'
  <2>1. \A j \in DOMAIN fetched' : First(j)' => j = i
    BY <1>2, <1>4 DEF First
  <2>2. sent' = "ok" => i \in DOMAIN ledger' /\ ledger'[i] = fetched'[i]
    BY <1>1, <1>2, <1>5
  <2>3. sent' = "perm" => Ids(fetched'[i]) \cap Invalid # {}
    BY <1>1, <1>2 DEF Answer
  <2> QED
    BY <1>2, <2>1, <2>2, <2>3 DEF OutcomeTold
<1> QED
  BY <1>2, <1>6, <1>7, <1>8, RowsUnchanged

\* A crash forgets what was read and sent.
LEMMA CrashKeeps ==
    ASSUME RetentionInv, CrashDelivery
    PROVE  RetentionInv'
<1> USE DEF RetentionInv
<1>1. /\ rows' = rows /\ expired' = expired /\ swept' = swept /\ ledger' = ledger
      /\ sent' = "none" /\ DOMAIN fetched' = {} /\ fetched' = <<>>
  BY DEF CrashDelivery, GiveUp
<1>2. RetentionTypeOK' /\ InFlight' /\ OutcomeTold'
  BY <1>1 DEF RetentionTypeOK, InFlight, OutcomeTold
<1> QED
  BY <1>1, <1>2, RowsUnchanged DEF RetentionTypeOK

\* Time passes for the rows.
LEMMA AgeKeeps ==
    ASSUME RetentionInv, Age
    PROVE  RetentionInv'
<1> USE DEF RetentionInv
<1>1. /\ rows' = [i \in DOMAIN rows |-> [rows[i] EXCEPT !.old = TRUE]]
      /\ expired' = expired /\ swept' = swept /\ ledger' = ledger /\ fetched' = fetched
      /\ sent' = sent /\ phase' = phase
  BY DEF Age
<1>2. \A i \in DOMAIN rows :
         /\ rows'[i] \in OutboxRow
         /\ rows'[i].body = rows[i].body /\ rows'[i].status = rows[i].status
         /\ rows'[i].names = rows[i].names /\ rows'[i].failures = rows[i].failures
  BY <1>1, RowsTyped DEF OutboxRow
<1>3. rows' \in Seq(OutboxRow) /\ DOMAIN rows' = DOMAIN rows
  <2>1. rows' \in [DOMAIN rows -> OutboxRow]
    BY <1>1, <1>2
  <2> QED
    BY <2>1, RowsRewritten DEF RetentionTypeOK
<1>4. RetentionTypeOK'
  BY <1>1, <1>3 DEF RetentionTypeOK
<1>5. NamesKept' /\ DeletedIsCommitted' /\ SweptStaysOut'
  BY <1>1, <1>2, <1>3 DEF NamesKept, DeletedIsCommitted, SweptStaysOut, Queued
<1>6. InFlight' /\ OutcomeTold'
  BY <1>1, <1>2, <1>3 DEF InFlight, OutcomeTold, First, RetentionTypeOK
<1>7. ASSUME NEW c, Traced(c) PROVE Traced(c)'
  BY <1>1, <1>2, <1>3, <1>7 DEF Traced, InTheCrm, Waiting, Emptied
<1> QED
  BY <1>4, <1>5, <1>6, <1>7 DEF AllTraced

\* The candidates of the batches.
LEMMA BatchesTyped ==
    ASSUME NEW b \in DOMAIN Batches, NEW n \in DOMAIN Batches[b]
    PROVE  Batches[b][n] \in Candidate
  BY RetentionAssumption

\* Evidence expires: there is less to trace.
LEMMA ExpireKeeps ==
    ASSUME RetentionInv, NEW item \in Items, Expire(item)
    PROVE  RetentionInv'
<1> USE DEF RetentionInv
<1>1. /\ rows' = rows /\ swept' = swept /\ ledger' = ledger /\ fetched' = fetched
      /\ sent' = sent /\ phase' = phase
      /\ expired' = expired \cup {item} /\ item \in Licensed
  BY DEF Expire
<1>2. RetentionTypeOK' /\ NamesKept' /\ DeletedIsCommitted' /\ SweptStaysOut'
  BY <1>1 DEF RetentionTypeOK, NamesKept, DeletedIsCommitted, SweptStaysOut, Queued
<1>3. InFlight' /\ OutcomeTold'
  BY <1>1 DEF InFlight, OutcomeTold, First
<1>4. ASSUME NEW c \in Candidate, Traced(c) PROVE Traced(c)'
  <2>1. SUFFICES ASSUME c.id \notin Invalid, c.items \ expired' \in Sufficient
                 PROVE  InTheCrm(c.id)' \/ Waiting(c)' \/ Emptied(c.id)'
    BY DEF Traced
  <2>2. c.items \in SUBSET Items
    BY RetentionAssumption DEF Candidate
  <2>3. c.items \ expired \in Sufficient
    BY <1>1, <2>1, <2>2, RetentionAssumption
  <2>4. InTheCrm(c.id) \/ Waiting(c) \/ Emptied(c.id)
    BY <1>4, <2>1, <2>3 DEF Traced
  <2>5. InTheCrm(c.id) => InTheCrm(c.id)'
    BY <1>1 DEF InTheCrm
  <2>6. Waiting(c) => Waiting(c)'
    BY <1>1 DEF Waiting
  <2>7. Emptied(c.id) => Emptied(c.id)'
    BY <1>1 DEF Emptied
  <2> QED
    BY <2>4, <2>5, <2>6, <2>7
<1> QED
  BY <1>2, <1>3, <1>4, BatchesTyped DEF AllTraced

\* What the purge does to a row.
LEMMA PurgedRow ==
    ASSUME NEW row \in OutboxRow
    PROVE  /\ Purged(row) \in OutboxRow
           /\ Purged(row).names = row.names /\ Purged(row).failures = row.failures
           /\ Ids(Purged(row).body) \subseteq Ids(row.body)
           /\ \/ Purged(row).status = row.status
              \/ row.status = "queued" /\ Purged(row).status = "dead" /\ Purged(row).body = <<>>
              \/ row.status = "delivered" /\ Purged(row).status = "deleted"
           /\ row.status \notin {"queued", "delivered"} => Purged(row) = row
           /\ Purged(row).status = "queued" => EvidenceIn(Purged(row).body) \cap expired = {}
<1>1. row.body \in Seq(Candidate) /\ row.status \in Statuses
  BY DEF OutboxRow
<1>2. /\ <<>> \in Seq(Candidate) /\ Ids(<<>>) = {} /\ EvidenceIn(<<>>) = {}
      /\ {"dead", "deleted"} \subseteq Statuses
  BY DEF Ids, EvidenceIn, Statuses
<1>3. CASE row.status = "queued" /\ EvidenceIn(row.body) \cap expired # {}
  <2> DEFINE safe == IF row.failures > 0 THEN <<>> ELSE Rehydrated(row.body)
  <2>1. Purged(row) = [row EXCEPT !.body = safe, !.status = IF safe = <<>> THEN "dead" ELSE @]
    BY <1>3 DEF Purged, Cleaned
  <2>2. /\ safe \in Seq(Candidate)
        /\ \A k \in DOMAIN safe : \E n \in DOMAIN row.body :
              safe[k].id = row.body[n].id /\ safe[k].items = row.body[n].items \ expired
    BY <1>1, <1>2, RehydratedIsRebuilt
  <2> HIDE DEF safe
  <2>3. Ids(safe) \subseteq Ids(row.body) /\ EvidenceIn(safe) \cap expired = {}
    BY <2>2 DEF Ids, EvidenceIn
  <2>4. /\ Purged(row) \in OutboxRow
        /\ Purged(row).body = safe
        /\ Purged(row).names = row.names /\ Purged(row).failures = row.failures
        /\ Purged(row).status = IF safe = <<>> THEN "dead" ELSE row.status
    BY <1>1, <1>2, <2>1, <2>2 DEF OutboxRow
  <2> QED
    BY <1>3, <2>3, <2>4
<1>4. CASE row.status = "delivered" /\ row.old
  <2>1. Purged(row) = [row EXCEPT !.status = "deleted", !.body = <<>>]
    BY <1>4 DEF Purged
  <2> QED
    BY <1>2, <1>4, <2>1 DEF OutboxRow
<1>5. CASE ~(row.status = "queued" /\ EvidenceIn(row.body) \cap expired # {}) /\ ~(row.status = "delivered" /\ row.old)
  BY <1>5 DEF Purged
<1> QED
  BY <1>3, <1>4, <1>5

\* A candidate that can be rebuilt is rebuilt, or its row is emptied because it
\* had failed before.
LEMMA PurgeRebuilds ==
    ASSUME NEW row \in OutboxRow, row.status \in {"queued", "dead"},
           NEW c \in Candidate, c.items \ expired \in Sufficient,
           NEW n \in DOMAIN row.body, row.body[n].id = c.id,
           c.items \ expired \subseteq row.body[n].items
    PROVE  \/ /\ Purged(row).status \in {"queued", "dead"}
              /\ \E k \in DOMAIN Purged(row).body :
                    /\ Purged(row).body[k].id = c.id
                    /\ c.items \ expired \subseteq Purged(row).body[k].items
           \/ Purged(row).body = <<>> /\ row.failures > 0
<1>1. row.body \in Seq(Candidate) /\ row.body[n] \in Candidate
  BY DEF OutboxRow
<1>2. CASE ~(row.status = "queued" /\ EvidenceIn(row.body) \cap expired # {})
  <2>1. Purged(row) = row
    BY <1>2 DEF Purged
  <2> QED
    BY <2>1
<1>3. CASE row.status = "queued" /\ EvidenceIn(row.body) \cap expired # {} /\ row.failures > 0
  <2>1. Purged(row) = [row EXCEPT !.body = <<>>, !.status = "dead"]
    BY <1>3 DEF Purged, Cleaned
  <2> QED
    BY <1>3, <2>1 DEF OutboxRow
<1>4. CASE row.status = "queued" /\ EvidenceIn(row.body) \cap expired # {} /\ ~(row.failures > 0)
  <2> DEFINE safe == Rehydrated(row.body)
  <2>1. Purged(row) = [row EXCEPT !.body = safe, !.status = IF safe = <<>> THEN "dead" ELSE @]
    BY <1>4 DEF Purged, Cleaned
  <2>2. row.body[n].items \ expired \in Sufficient
    BY <1>1, RetentionAssumption DEF Candidate
  <2>3. PICK k \in DOMAIN safe : safe[k].id = row.body[n].id /\ safe[k].items = row.body[n].items \ expired
    BY <1>1, <2>2, RehydratedIsRebuilt
  <2> HIDE DEF safe
  <2>4. Purged(row).body = safe /\ Purged(row).status \in {"queued", "dead"}
    BY <1>4, <2>1 DEF OutboxRow
  <2>5. c.items \ expired \subseteq safe[k].items
    BY <2>3
  <2> QED
    BY <2>3, <2>4, <2>5
<1> QED
  BY <1>2, <1>3, <1>4

\* The purge, between any two steps of a delivery.
LEMMA PurgeKeeps ==
    ASSUME RetentionInv, Purge
    PROVE  RetentionInv'
<1> USE DEF RetentionInv
<1>1. /\ rows' = [i \in DOMAIN rows |-> Purged(rows[i])]
      /\ swept' = expired /\ expired' = expired /\ ledger' = ledger /\ fetched' = fetched
      /\ sent' = sent /\ phase' = phase
  BY DEF Purge
<1>2. \A i \in DOMAIN rows : rows[i] \in OutboxRow /\ rows'[i] = Purged(rows[i])
  BY <1>1, RowsTyped
<1>3. \A i \in DOMAIN rows :
         /\ rows'[i] \in OutboxRow
         /\ rows'[i].names = rows[i].names /\ rows'[i].failures = rows[i].failures
         /\ Ids(rows'[i].body) \subseteq Ids(rows[i].body)
         /\ \/ rows'[i].status = rows[i].status
            \/ rows[i].status = "queued" /\ rows'[i].status = "dead" /\ rows'[i].body = <<>>
            \/ rows[i].status = "delivered" /\ rows'[i].status = "deleted"
         /\ rows[i].status \notin {"queued", "delivered"} => rows'[i] = rows[i]
         /\ rows'[i].status = "queued" => EvidenceIn(rows'[i].body) \cap expired = {}
  BY <1>2, PurgedRow
<1>4. rows' \in Seq(OutboxRow) /\ DOMAIN rows' = DOMAIN rows
  <2>1. rows' \in [DOMAIN rows -> OutboxRow]
    BY <1>1, <1>3
  <2> QED
    BY <2>1, RowsRewritten DEF RetentionTypeOK
<1>5. RetentionTypeOK'
  BY <1>1, <1>4 DEF RetentionTypeOK
<1>6. NamesKept' /\ DeletedIsCommitted'
  BY <1>1, <1>3, <1>4 DEF NamesKept, DeletedIsCommitted
<1>7. SweptStaysOut'
  BY <1>1, <1>3, <1>4 DEF SweptStaysOut, Queued
<1>8. InFlight'
  <2> SUFFICES ASSUME NEW i \in DOMAIN fetched
               PROVE  /\ \/ rows'[i].status = "queued"
                         \/ rows'[i].status = "dead" /\ rows'[i].body = <<>>
                      /\ Ids(rows'[i].body) \subseteq Ids(fetched[i])
    BY <1>1 DEF InFlight
  <2>1. i \in DOMAIN rows
    BY DEF RetentionTypeOK
  <2>2. /\ rows[i].status = "queued" \/ (rows[i].status = "dead" /\ rows[i].body = <<>>)
        /\ Ids(rows[i].body) \subseteq Ids(fetched[i])
    BY DEF InFlight
  <2> QED
    BY <1>3, <2>1, <2>2
<1>9. OutcomeTold'
  BY <1>1 DEF OutcomeTold, First
<1>10. ASSUME NEW c \in Candidate, Traced(c) PROVE Traced(c)'
  <2>1. SUFFICES ASSUME c.id \notin Invalid, c.items \ expired \in Sufficient
                 PROVE  InTheCrm(c.id)' \/ Waiting(c)' \/ Emptied(c.id)'
    BY <1>1 DEF Traced
  <2>2. InTheCrm(c.id) => InTheCrm(c.id)'
    BY <1>1 DEF InTheCrm
  <2>3. ASSUME Waiting(c) PROVE Waiting(c)' \/ Emptied(c.id)'
    <3>1. PICK i \in DOMAIN rows :
             /\ rows[i].status \in {"queued", "dead"}
             /\ \E n \in DOMAIN rows[i].body :
                   rows[i].body[n].id = c.id /\ c.items \ expired \subseteq rows[i].body[n].items
      BY <2>3 DEF Waiting
    <3>2. PICK n \in DOMAIN rows[i].body :
             rows[i].body[n].id = c.id /\ c.items \ expired \subseteq rows[i].body[n].items
      BY <3>1
    <3>3. \/ /\ rows'[i].status \in {"queued", "dead"}
             /\ \E k \in DOMAIN rows'[i].body :
                   rows'[i].body[k].id = c.id /\ c.items \ expired \subseteq rows'[i].body[k].items
          \/ rows'[i].body = <<>> /\ rows[i].failures > 0
      BY <1>2, <2>1, <3>1, <3>2, PurgeRebuilds
    <3>4. c.id \in rows[i].names
      BY <3>2 DEF NamesKept, Ids
    <3> QED
      BY <1>1, <1>3, <1>4, <3>3, <3>4 DEF Waiting, Emptied
  <2>4. ASSUME Emptied(c.id) PROVE Emptied(c.id)'
    <3>1. PICK i \in DOMAIN rows : c.id \in rows[i].names /\ rows[i].body = <<>> /\ rows[i].failures > 0
      BY <2>4 DEF Emptied
    <3>2. rows'[i].body = <<>>
      <4>1. EvidenceIn(rows[i].body) = {}
        BY <3>1 DEF EvidenceIn
      <4> QED
        BY <1>2, <3>1, <4>1, RowsTyped DEF Purged, OutboxRow
    <3> QED
      BY <1>3, <1>4, <3>1, <3>2 DEF Emptied
  <2> QED
    BY <1>10, <2>1, <2>2, <2>3, <2>4 DEF Traced
<1> QED
  BY <1>5, <1>6, <1>7, <1>8, <1>9, <1>10, BatchesTyped DEF AllTraced

\* What the marking of row i has in common, whatever the outcome was: it keeps
\* body and names of the row, and adds at most rows that are parts of it.
MarkedRows(i) ==
    /\ rows' \in Seq(OutboxRow)
    /\ DOMAIN rows \subseteq DOMAIN rows'
    /\ \A j \in DOMAIN rows : j # i => rows'[j] = rows[j]
    /\ rows'[i].body = rows[i].body /\ rows'[i].names = rows[i].names
    /\ rows'[i].failures >= rows[i].failures
    /\ rows'[i].status = "delivered" => sent = "ok"
    /\ rows'[i].status # "deleted"
    /\ \A j \in DOMAIN rows' \ DOMAIN rows :
          /\ rows'[j].status = "queued"
          /\ rows[i].status = "queued"
          /\ EvidenceIn(rows'[j].body) \subseteq EvidenceIn(rows[i].body)
          /\ Ids(rows'[j].body) \subseteq rows'[j].names

\* The outcome of a delivery is recorded.
LEMMA MarkedKeeps ==
    ASSUME RetentionInv, NEW i \in DOMAIN fetched, First(i), MarkedRows(i),
           expired' = expired, swept' = swept, ledger' = ledger, sent' = "none",
           DOMAIN fetched' \subseteq DOMAIN fetched \ {i},
           \A j \in DOMAIN fetched' : fetched'[j] = fetched[j],
           fetched' \in [DOMAIN fetched' -> Seq(Candidate)],
           \A c \in Candidate :
               /\ c.id \notin Invalid
               /\ rows[i].status = "queued"
               /\ \E n \in DOMAIN rows[i].body :
                     rows[i].body[n].id = c.id /\ c.items \ expired \subseteq rows[i].body[n].items
               => InTheCrm(c.id) \/ Waiting(c)'
    PROVE  RetentionInv'
<1> USE DEF RetentionInv, MarkedRows
<1>1. i \in DOMAIN rows /\ \A j \in DOMAIN fetched' : j \in DOMAIN rows /\ j # i /\ rows'[j] = rows[j]
  BY DEF RetentionTypeOK
<1>2. /\ rows[i].status = "queued" \/ (rows[i].status = "dead" /\ rows[i].body = <<>>)
      /\ Ids(rows[i].body) \subseteq Ids(fetched[i])
  BY DEF InFlight
<1>3. RetentionTypeOK'
  BY <1>1 DEF RetentionTypeOK
<1>4. NamesKept'
  BY <1>1 DEF NamesKept
<1>5. InFlight'
  <2>1. \A j \in DOMAIN fetched' : j \in DOMAIN fetched /\ rows'[j] = rows[j] /\ fetched'[j] = fetched[j]
    BY <1>1
  <2> QED
    BY <2>1 DEF InFlight
<1>6. OutcomeTold'
  BY DEF OutcomeTold
<1>7. DeletedIsCommitted'
  <2>1. sent = "ok" => i \in DOMAIN ledger
    BY DEF OutcomeTold
  <2>2. ASSUME NEW j \in DOMAIN rows', rows'[j].status \in {"delivered", "deleted"}
        PROVE  j \in DOMAIN ledger
    <3>1. CASE j = i
      BY <2>1, <2>2, <3>1
    <3>2. CASE j # i
      <4>1. j \in DOMAIN rows /\ rows'[j] = rows[j]
        BY <2>2, <3>2
      <4> QED
        BY <2>2, <4>1 DEF DeletedIsCommitted
    <3> QED
      BY <3>1, <3>2
  <2> QED
    BY <2>2 DEF DeletedIsCommitted
<1>8. EvidenceIn(rows[i].body) \cap swept = {}
  <2>1. CASE rows[i].status = "queued"
    BY <1>1, <2>1 DEF SweptStaysOut, Queued
  <2>2. CASE rows[i].body = <<>>
    BY <2>2 DEF EvidenceIn
  <2> QED
    BY <1>2, <2>1, <2>2
<1>9. SweptStaysOut'
  <2> SUFFICES ASSUME NEW j \in DOMAIN rows', rows'[j].status = "queued"
               PROVE  EvidenceIn(rows'[j].body) \cap swept = {}
    BY DEF SweptStaysOut, Queued
  <2>1. CASE j = i
    BY <1>8, <2>1
  <2>2. CASE j \in DOMAIN rows /\ j # i
    BY <2>2 DEF SweptStaysOut, Queued
  <2>3. CASE j \notin DOMAIN rows
    BY <1>8, <2>3
  <2> QED
    BY <2>1, <2>2, <2>3
<1>10. ASSUME NEW c \in Candidate, Traced(c) PROVE Traced(c)'
  <2>1. SUFFICES ASSUME c.id \notin Invalid, c.items \ expired \in Sufficient
                 PROVE  InTheCrm(c.id)' \/ Waiting(c)' \/ Emptied(c.id)'
    BY DEF Traced
  <2>2. InTheCrm(c.id) => InTheCrm(c.id)'
    BY DEF InTheCrm
  <2>3. ASSUME Waiting(c) PROVE InTheCrm(c.id) \/ Waiting(c)'
    <3>1. PICK j \in DOMAIN rows :
             /\ rows[j].status \in {"queued", "dead"}
             /\ \E n \in DOMAIN rows[j].body :
                   rows[j].body[n].id = c.id /\ c.items \ expired \subseteq rows[j].body[n].items
      BY <2>3 DEF Waiting
    <3>2. CASE j = i
      <4>1. rows[i].status = "queued"
        BY <1>2, <3>1, <3>2
      <4> QED
        BY <2>1, <3>1, <3>2, <4>1
    <3>3. CASE j # i
      <4>1. j \in DOMAIN rows' /\ rows'[j] = rows[j]
        BY <3>3
      <4> QED
        BY <3>1, <4>1 DEF Waiting
    <3> QED
      BY <3>2, <3>3
  <2>4. ASSUME Emptied(c.id) PROVE Emptied(c.id)'
    <3>1. PICK j \in DOMAIN rows : c.id \in rows[j].names /\ rows[j].body = <<>> /\ rows[j].failures > 0
      BY <2>4 DEF Emptied
    <3>2. j \in DOMAIN rows' /\ rows'[j].names = rows[j].names /\ rows'[j].body = rows[j].body
      BY <1>1
    <3>3. rows'[j].failures > 0
      <4>1. rows[j].failures \in Nat
        BY RowsTyped
      <4>2. rows'[j] \in OutboxRow
        BY <3>2
      <4>3. rows'[j].failures \in Nat
        BY <4>2 DEF OutboxRow
      <4> QED
        BY <3>1, <4>1, <4>3
    <3> QED
      BY <3>1, <3>2, <3>3 DEF Emptied
  <2> QED
    BY <1>10, <2>1, <2>2, <2>3, <2>4 DEF Traced
<1> QED
  BY <1>3, <1>4, <1>5, <1>6, <1>7, <1>9, <1>10, BatchesTyped DEF AllTraced

\* Writing one row.
LEMMA OneRowWritten ==
    ASSUME RetentionTypeOK, NEW i \in DOMAIN rows, NEW written,
           DOMAIN written = DOMAIN rows,
           \A j \in DOMAIN rows : j # i => written[j] = rows[j],
           written[i] \in OutboxRow,
           written = [j \in DOMAIN rows |-> written[j]]
    PROVE  written \in Seq(OutboxRow)
<1>1. written \in [DOMAIN rows -> OutboxRow]
  BY RowsTyped
<1> QED
  BY <1>1, RowsRewritten DEF RetentionTypeOK

\* The row that is left in a batch, or none.
LEMMA BatchGoesOn ==
    ASSUME RetentionTypeOK, NEW i, Continue(i) \/ GiveUp
    PROVE  /\ DOMAIN fetched' \subseteq DOMAIN fetched
           /\ \A j \in DOMAIN fetched' : fetched'[j] = fetched[j]
           /\ fetched' \in [DOMAIN fetched' -> Seq(Candidate)]
           /\ i \notin DOMAIN fetched'
<1>1. CASE Continue(i)
  <2>1. fetched' = [j \in DOMAIN fetched \ {i} |-> fetched[j]]
    BY <1>1 DEF Continue
  <2> QED
    BY <2>1 DEF RetentionTypeOK
<1>2. CASE GiveUp
  <2>1. fetched' = <<>> /\ DOMAIN fetched' = {}
    BY <1>2 DEF GiveUp
  <2> QED
    BY <2>1
<1> QED
  BY <1>1, <1>2

\* Success, or a failure that leaves the row queued or dead.
LEMMA StatusMarked ==
    ASSUME RetentionInv, NEW i \in DOMAIN fetched, First(i), Continue(i) \/ GiveUp,
           expired' = expired, swept' = swept, ledger' = ledger, sent' = "none",
           \/ sent = "ok" /\ rows' = Acknowledged(i)
           \/ rows' = Failed(i, TRUE)
           \/ rows' = Failed(i, FALSE)
    PROVE  RetentionInv'
<1> USE DEF RetentionInv
<1>1. i \in DOMAIN rows /\ rows[i] \in OutboxRow /\ rows[i].failures \in Nat
  BY RowsTyped DEF RetentionTypeOK
<1>2. /\ DOMAIN rows' = DOMAIN rows
      /\ \A j \in DOMAIN rows : j # i => rows'[j] = rows[j]
      /\ rows' = [j \in DOMAIN rows |-> rows'[j]]
  BY DEF Acknowledged, Failed
<1>3. \/ sent = "ok" /\ rows'[i] = [rows[i] EXCEPT !.status = "delivered"]
      \/ \E s \in {"queued", "dead"} : rows'[i] = [rows[i] EXCEPT !.status = s, !.failures = @ + 1]
  BY <1>1 DEF Acknowledged, Failed
<1>4. /\ rows'[i] \in OutboxRow
      /\ rows'[i].body = rows[i].body /\ rows'[i].names = rows[i].names
      /\ rows'[i].failures >= rows[i].failures
      /\ \/ sent = "ok" /\ rows'[i].status = "delivered"
         \/ rows'[i].status \in {"queued", "dead"}
  <2>1. CASE sent = "ok" /\ rows'[i] = [rows[i] EXCEPT !.status = "delivered"]
    BY <1>1, <2>1 DEF OutboxRow, Statuses
  <2>2. ASSUME NEW s \in {"queued", "dead"},
               rows'[i] = [rows[i] EXCEPT !.status = s, !.failures = @ + 1]
        PROVE  /\ rows'[i] \in OutboxRow
               /\ rows'[i].body = rows[i].body /\ rows'[i].names = rows[i].names
               /\ rows'[i].failures >= rows[i].failures
               /\ rows'[i].status \in {"queued", "dead"}
    <3>1. rows'[i] = [body |-> rows[i].body, status |-> s, failures |-> rows[i].failures + 1,
                      old |-> rows[i].old, names |-> rows[i].names]
      BY <1>1, <2>2 DEF OutboxRow
    <3>2. s \in Statuses /\ rows[i].failures + 1 \in Nat
      BY <1>1 DEF Statuses
    <3> QED
      BY <1>1, <3>1, <3>2 DEF OutboxRow
  <2> QED
    BY <1>3, <2>1, <2>2
<1>5. rows' \in Seq(OutboxRow)
  BY <1>1, <1>2, <1>4, OneRowWritten
<1>6. MarkedRows(i)
  BY <1>2, <1>4, <1>5 DEF MarkedRows
<1>7. ASSUME NEW c \in Candidate, NEW n \in DOMAIN rows[i].body,
             rows[i].body[n].id = c.id, c.items \ expired \subseteq rows[i].body[n].items
      PROVE  InTheCrm(c.id) \/ Waiting(c)'
  <2>1. CASE sent = "ok"
    <3>1. i \in DOMAIN ledger /\ ledger[i] = fetched[i]
      BY <2>1 DEF OutcomeTold
    <3>2. c.id \in Ids(rows[i].body) /\ Ids(rows[i].body) \subseteq Ids(fetched[i])
      BY <1>7 DEF InFlight, Ids
    <3> QED
      BY <3>1, <3>2 DEF InTheCrm
  <2>2. CASE rows'[i].status \in {"queued", "dead"}
    BY <1>1, <1>2, <1>4, <1>7, <2>2 DEF Waiting
  <2> QED
    BY <1>4, <2>1, <2>2
<1> QED
  BY <1>6, <1>7, BatchGoesOn, MarkedKeeps

\* The CRM refuses a batch: it is split, or the one candidate is discarded.
LEMMA IsolatedMarked ==
    ASSUME RetentionInv, NEW i \in DOMAIN fetched, First(i), Continue(i),
           expired' = expired, swept' = swept, ledger' = ledger, sent' = "none",
           sent = "perm", Isolable(i, Len(fetched[i])), rows' = Isolated(i)
    PROVE  RetentionInv'
<1> USE DEF RetentionInv
<1>1. /\ i \in DOMAIN rows /\ rows[i] \in OutboxRow /\ rows[i].failures \in Nat
      /\ rows[i].body \in Seq(Candidate)
  BY RowsTyped DEF RetentionTypeOK
<1> DEFINE body == rows[i].body
           mid  == Len(body) \div 2
<1>2. Len(body) \in Nat /\ body # <<>> /\ rows[i].status = "queued"
  <2>1. Len(body) \in Nat /\ Len(body) # 0
    <3>1. Len(body) \in Nat
      BY <1>1
    <3>2. Len(body) >= 2 \/ Len(body) = 1
      <4>1. Len(fetched[i]) \in Nat
        BY DEF RetentionTypeOK
      <4>2. CASE Len(fetched[i]) > 1
        BY <4>2 DEF Isolable
      <4>3. CASE ~(Len(fetched[i]) > 1)
        BY <4>3 DEF Isolable
      <4> QED
        BY <4>1, <4>2, <4>3
    <3> HIDE DEF body
    <3> QED
      BY <3>1, <3>2
  <2>2. body # <<>>
    BY <2>1
  <2> QED
    BY <2>1, <2>2 DEF InFlight
<1>3. CASE Len(body) = 1
  <2>1. rows' = [rows EXCEPT ![i].status = "discarded"]
    BY <1>3 DEF Isolated
  <2>2. /\ DOMAIN rows' = DOMAIN rows
        /\ \A j \in DOMAIN rows : j # i => rows'[j] = rows[j]
        /\ rows' = [j \in DOMAIN rows |-> rows'[j]]
        /\ rows'[i] = [rows[i] EXCEPT !.status = "discarded"]
    BY <1>1, <2>1
  <2>3. /\ rows'[i] \in OutboxRow
        /\ rows'[i].body = rows[i].body /\ rows'[i].names = rows[i].names
        /\ rows'[i].failures >= rows[i].failures /\ rows'[i].status = "discarded"
    BY <1>1, <2>2 DEF OutboxRow, Statuses
  <2>4. MarkedRows(i)
    BY <1>1, <2>2, <2>3, OneRowWritten DEF MarkedRows
  <2>5. ASSUME NEW n \in DOMAIN body PROVE body[n].id \in Invalid
    <3>1. Len(fetched[i]) = 1 /\ fetched[i] \in Seq(Candidate)
      BY <1>3 DEF Isolable, RetentionTypeOK
    <3>2. Ids(fetched[i]) = {fetched[i][1].id}
      BY <3>1 DEF Ids
    <3>3. Ids(fetched[i]) \cap Invalid # {}
      BY DEF OutcomeTold
    <3>4. body[n].id \in Ids(fetched[i])
      BY DEF InFlight, Ids
    <3> QED
      BY <3>2, <3>3, <3>4
  <2> QED
    BY <2>4, <2>5, BatchGoesOn, MarkedKeeps
<1>4. CASE Len(body) # 1
  <2> DEFINE first == SubSeq(body, 1, mid)
             last  == SubSeq(body, mid + 1, Len(body))
             old   == [rows EXCEPT ![i].status = "split"]
             new   == <<Row(first), Row(last)>>
  <2>1. rows' = old \o new
    BY <1>4 DEF Isolated
  <2>2. mid \in 0 .. Len(body)
    <3>1. \A n \in Nat : n \div 2 \in 0 .. n
      OBVIOUS
    <3> QED
      BY <1>2, <3>1
  <2>3. /\ first \in Seq(Candidate) /\ last \in Seq(Candidate)
        /\ \A k \in DOMAIN first : \E n \in DOMAIN body : first[k] = body[n]
        /\ \A k \in DOMAIN last : \E n \in DOMAIN body : last[k] = body[n]
        /\ \A n \in DOMAIN body :
              \/ \E k \in DOMAIN first : first[k] = body[n]
              \/ \E k \in DOMAIN last : last[k] = body[n]
    BY <1>1, <2>2, HalvesCover
  <2> HIDE DEF first, last
  <2>4. /\ EvidenceIn(first) \subseteq EvidenceIn(body)
        /\ EvidenceIn(last) \subseteq EvidenceIn(body)
    BY <2>3, PartOfBody
  <2>5. /\ Row(first) \in OutboxRow /\ Row(last) \in OutboxRow
        /\ Row(first).body = first /\ Row(last).body = last
        /\ Row(first).names = Ids(first) /\ Row(last).names = Ids(last)
        /\ Row(first).status = "queued" /\ Row(last).status = "queued"
    BY <2>3, NamesAreIdentities DEF Row, OutboxRow, Statuses
  <2>6. /\ DOMAIN old = DOMAIN rows
        /\ \A j \in DOMAIN rows : j # i => old[j] = rows[j]
        /\ old = [j \in DOMAIN rows |-> old[j]]
        /\ old[i] = [rows[i] EXCEPT !.status = "split"]
    BY <1>1
  <2>7. /\ old[i] \in OutboxRow
        /\ old[i].body = rows[i].body /\ old[i].names = rows[i].names
        /\ old[i].failures >= rows[i].failures /\ old[i].status = "split"
    BY <1>1, <2>6 DEF OutboxRow, Statuses
  <2> HIDE DEF old
  <2>8. old \in Seq(OutboxRow) /\ new \in Seq(OutboxRow) /\ Len(new) = 2
    BY <1>1, <2>5, <2>6, <2>7, OneRowWritten
  <2>9. DOMAIN old = 1 .. Len(old) /\ Len(old) \in Nat
    BY <2>8
  <2>10. /\ rows' \in Seq(OutboxRow) /\ Len(rows') = Len(old) + 2
         /\ \A j \in DOMAIN old : rows'[j] = old[j]
         /\ rows'[Len(old) + 1] = Row(first) /\ rows'[Len(old) + 2] = Row(last)
    <3> HIDE DEF new
    <3>1. /\ rows' \in Seq(OutboxRow) /\ Len(rows') = Len(old) + 2
          /\ \A j \in 1 .. Len(old) + 2 : rows'[j] = IF j <= Len(old) THEN old[j] ELSE new[j - Len(old)]
      <4>1. /\ old \o new \in Seq(OutboxRow) /\ Len(old \o new) = Len(old) + Len(new)
            /\ \A j \in 1 .. Len(old) + Len(new) :
                  (old \o new)[j] = IF j <= Len(old) THEN old[j] ELSE new[j - Len(old)]
        BY <2>8, ConcatProperties
      <4> QED
        BY <2>1, <2>8, <4>1
    <3>2. new[1] = Row(first) /\ new[2] = Row(last)
      BY DEF new
    <3>3. /\ Len(old) + 1 \in 1 .. Len(old) + 2 /\ Len(old) + 2 \in 1 .. Len(old) + 2
          /\ Len(old) + 1 - Len(old) = 1 /\ Len(old) + 2 - Len(old) = 2
      BY <2>9
    <3> QED
      BY <2>9, <3>1, <3>2, <3>3
  <2>11. DOMAIN rows' = DOMAIN rows \cup {Len(old) + 1, Len(old) + 2}
    BY <2>6, <2>9, <2>10
  <2>12. MarkedRows(i)
    <3>1. rows'[i] = old[i] /\ \A j \in DOMAIN rows : j # i => rows'[j] = rows[j]
      BY <1>1, <2>6, <2>10
    <3>2. \A j \in DOMAIN rows' \ DOMAIN rows : rows'[j] = Row(first) \/ rows'[j] = Row(last)
      BY <2>10, <2>11
    <3> QED
      BY <1>2, <2>4, <2>5, <2>7, <2>10, <2>11, <3>1, <3>2 DEF MarkedRows
  <2>13. ASSUME NEW c \in Candidate, NEW n \in DOMAIN body,
                body[n].id = c.id, c.items \ expired \subseteq body[n].items
         PROVE  Waiting(c)'
    <3>1. CASE \E k \in DOMAIN first : first[k] = body[n]
      <4>1. Len(old) + 1 \in DOMAIN rows'
        BY <2>11
      <4> QED
        BY <2>5, <2>10, <2>13, <3>1, <4>1 DEF Waiting
    <3>2. CASE \E k \in DOMAIN last : last[k] = body[n]
      <4>1. Len(old) + 2 \in DOMAIN rows'
        BY <2>11
      <4> QED
        BY <2>5, <2>10, <2>13, <3>2, <4>1 DEF Waiting
    <3> QED
      BY <2>3, <3>1, <3>2
  <2> QED
    BY <2>12, <2>13, BatchGoesOn, MarkedKeeps
<1> QED
  BY <1>3, <1>4

\* Every outcome of a delivery.
LEMMA MarkKeeps ==
    ASSUME RetentionInv, Mark
    PROVE  RetentionInv'
<1>1. /\ expired' = expired /\ swept' = swept /\ ledger' = ledger /\ sent' = "none"
  BY DEF Mark
<1>2. PICK i \in DOMAIN fetched :
         /\ First(i)
         /\ \/ sent = "ok" /\ rows' = Acknowledged(i) /\ Continue(i)
            \/ sent = "retry" /\ rows' = Failed(i, TRUE) /\ GiveUp
            \/ sent = "conflict" /\ rows' = Failed(i, FALSE) /\ GiveUp
            \/ /\ sent = "perm" /\ Isolable(i, Len(fetched[i]))
               /\ rows' = Isolated(i) /\ Continue(i)
            \/ /\ sent = "perm" /\ ~Isolable(i, Len(fetched[i]))
               /\ rows' = Failed(i, FALSE) /\ GiveUp
  BY DEF Mark
<1>3. CASE sent = "perm" /\ Isolable(i, Len(fetched[i])) /\ rows' = Isolated(i) /\ Continue(i)
  BY <1>1, <1>2, <1>3, IsolatedMarked
<1>4. CASE /\ Continue(i) \/ GiveUp
           /\ \/ sent = "ok" /\ rows' = Acknowledged(i)
              \/ rows' = Failed(i, TRUE)
              \/ rows' = Failed(i, FALSE)
  BY <1>1, <1>2, <1>4, StatusMarked
<1> QED
  BY <1>2, <1>3, <1>4

\* Every step of the delivery, of the purge and of time keeps the invariant.
LEMMA NextRetention ==
    ASSUME RetentionInv, [RetentionNext]_retentionVars
    PROVE  RetentionInv'
<1>1. CASE UNCHANGED retentionVars
  <2>1. /\ rows' = rows /\ expired' = expired /\ swept' = swept /\ ledger' = ledger
        /\ phase' = phase /\ fetched' = fetched /\ sent' = sent
    BY <1>1 DEF retentionVars
  <2>2. RetentionTypeOK' /\ InFlight' /\ OutcomeTold'
    BY <2>1 DEF RetentionInv, RetentionTypeOK, InFlight, OutcomeTold, First
  <2> QED
    BY <2>1, <2>2, RowsUnchanged DEF RetentionInv, RetentionTypeOK
<1> QED
  BY <1>1, FetchKeeps, SendKeeps, MarkKeeps, CrashKeeps, PurgeKeeps, AgeKeeps, ExpireKeeps
  DEF RetentionNext

-----------------------------------------------------------------------------
(* The theorems.                                                           *)

\* The invariant that ties the rows in flight, the rows that the purge rewrites
\* meanwhile, and what the CRM committed.
THEOREM RetentionInvariance == RetentionSpec => []RetentionInv
  BY InitRetention, NextRetention, PTL DEF RetentionSpec

\* A row that is marked delivered, and may be deleted 30 days later with its
\* body, was committed by the CRM.
THEOREM DeliveredBeforeDeleted == RetentionSpec => []DeletedIsCommitted
<1>1. RetentionInv => DeletedIsCommitted
  BY DEF RetentionInv
<1> QED
  BY <1>1, RetentionInvariance, PTL

\* What purge_expired_source_data found expired is not queued again, by no
\* delivery that was in flight and by no half of a batch that is split later.
THEOREM PurgedStaysOut == RetentionSpec => []SweptStaysOut
<1>1. RetentionInv => SweptStaysOut
  BY DEF RetentionInv
<1> QED
  BY <1>1, RetentionInvariance, PTL

\* A valid candidate that can be rebuilt is in the CRM, in a row that waits or is
\* dead-lettered, or in a row that was emptied because a delivery had failed.
THEOREM NothingLostSilently == RetentionSpec => []LostOnlyWhenAmbiguous
<1>1. RetentionInv => LostOnlyWhenAmbiguous
  <2> SUFFICES ASSUME RetentionInv, NEW b \in DOMAIN Batches, NEW n \in DOMAIN Batches[b],
                      Batches[b][n].id \notin Invalid, Batches[b][n].items \ expired \in Sufficient
               PROVE  \/ \E k \in DOMAIN ledger : Batches[b][n].id \in Ids(ledger[k])
                      \/ \E i \in DOMAIN rows :
                            /\ rows[i].status \in {"queued", "dead"}
                            /\ Batches[b][n].id \in Ids(rows[i].body)
                      \/ \E i \in DOMAIN rows :
                            /\ Batches[b][n].id \in rows[i].names
                            /\ rows[i].body = <<>> /\ rows[i].failures > 0
    BY DEF LostOnlyWhenAmbiguous
  <2> DEFINE c == Batches[b][n]
  <2>1. InTheCrm(c.id) \/ Waiting(c) \/ Emptied(c.id)
    BY DEF RetentionInv, AllTraced, Traced
  <2>2. Waiting(c) => \E i \in DOMAIN rows : rows[i].status \in {"queued", "dead"} /\ c.id \in Ids(rows[i].body)
    BY DEF Waiting, Ids
  <2> QED
    BY <2>1, <2>2 DEF InTheCrm, Emptied
<1> QED
  BY <1>1, RetentionInvariance, PTL

-----------------------------------------------------------------------------
(* Companies that are the same one.                                        *)

\* A company that has all that identified another one, and its place.
Extends(a, b) ==
    /\ a.name = b.name /\ a.comuna = b.comuna /\ a.address = b.address
    /\ \A k \in {"domain", "phone"} : b[k] # Absent => a[k] = b[k]
    /\ \A p \in Range(SourceNames) : b.ids[p] # Absent => a.ids[p] = b.ids[p]

IsRow(r) ==
    /\ DOMAIN r = {"run", "key", "disposition", "company"}
    /\ IsCompany(r.company) /\ Contactable(r.company)

IsList(s) == s \in Seq(Range(s))

Flagged(a, b) == a.id = b.id \/ "review" \in {a.id[1], b.id[1]}

\* A table whose twins are flagged, with one row of a run for each id.
TableOK(t) ==
    /\ IsList(t)
    /\ \A n \in DOMAIN t : IsRow(t[n])
    /\ \A m, n \in DOMAIN t : Agreeing(t[m].company, t[n].company) # {} =>
                                 Flagged(t[m].company, t[n].company)
    /\ \A m, n \in DOMAIN t :
          t[m].run = t[n].run /\ t[m].company.id = t[n].company.id => m = n

\* A table that another one has become.
Follows(u, t) ==
    /\ TableOK(u) /\ Len(u) >= Len(t)
    /\ \A n \in DOMAIN t : /\ u[n].run = t[n].run
                           /\ u[n].company.id = t[n].company.id
                           /\ Extends(u[n].company, t[n].company)
    /\ \A n \in DOMAIN u : n \notin DOMAIN t => u[n].run = task.run
    /\ \E n \in DOMAIN u : u[n].run = task.run

\* A company shows what a key that is no review's was made of.
Shows(c, key) ==
    /\ key[2] # Absent
    /\ \/ key[1] \in Range(SourceNames) /\ c.ids[key[1]] = key[2]
       \/ key[1] \in {"domain", "phone"} /\ c[key[1]] = key[2]

\* The company of a row still shows what its key was made of.
KeyKept(r) ==
    /\ r.company.id = r.key
    /\ (r.key[1] = "review" /\ Extends(r.company, r.key[2])) \/ Shows(r.company, r.key)

\* The rows of one run alone.
Alone(t, run) == \A n \in DOMAIN t : t[n].run = run

KeysKept(t) == \A n \in DOMAIN t : KeyKept(t[n])

\* A company with an id is what a row of that id was.
Known(c, run) ==
    c.id # Absent => \E n \in DOMAIN records :
        /\ records[n].run = run /\ records[n].company.id = c.id
        /\ Extends(c, records[n].company)

FoundOK ==
    /\ IsList(task.found)
    /\ \A n \in DOMAIN task.found :
          LET c == task.found[n]
          IN  /\ IsCompany(c)
              /\ task.phase = "partition" => c.id = Absent
              /\ Known(c, task.run)
              /\ task.phase = "save" => Contactable(c)

CandidatesInv ==
    /\ DOMAIN task = {"phase", "run", "found"}
    /\ TableOK(records)
    /\ \A run \in Campaigns : Alone(records, run) => KeysKept(records)
    /\ FoundOK
    /\ task.phase # "idle" => raised # "save" /\ task.run \in Campaigns
    /\ SavesOfOneRunSucceed

-----------------------------------------------------------------------------
\* Induction, for a property given as the set of the numbers that have it.
LEMMA Induction ==
  ASSUME NEW P, 0 \in P, \A n \in Nat : n \in P => n + 1 \in P
  PROVE  Nat \subseteq P
  <1> SUFFICES ASSUME Nat \ P # {} PROVE FALSE
    OBVIOUS
  <1>1. PICK n \in Nat \ P : \A m \in Nat \ P : n <= m
    BY LeastElement
  <1>2. n # 0 /\ n - 1 \in Nat
    BY <1>1
  <1>3. n - 1 \in P
    BY <1>1, <1>2
  <1>4. n - 1 + 1 = n
    BY <1>1
  <1>5. QED BY <1>1, <1>2, <1>3, <1>4


LEMMA NamesOfSources == Range(SourceNames) = {"brave_search", "google_places", "official_website"}
  BY DEF Range, SourceNames

\* What a company is looked for by.
LEMMA KeysAre == /\ Len(Keys) = 5 /\ DOMAIN Keys = 1 .. 5
                 /\ Keys[1] = "rut" /\ Keys[2] = "provider_id" /\ Keys[3] = "domain"
                 /\ Keys[4] = "phone" /\ Keys[5] = "name_comuna"
  BY DEF Keys

LEMMA LeastOfKeys ==
  ASSUME NEW I, I \subseteq 1 .. 5, I # {}
  PROVE  Min(I) \in I /\ \A i \in I : Min(I) <= i
  <1>1. \E x \in I : \A y \in I : x <= y
    <2>1. I \subseteq Nat
      OBVIOUS
    <2>2. QED BY ONLY <2>1, I # {}, LeastElement
  <1>2. QED BY <1>1 DEF Min

\* The key by which two companies are the same is the first of those that agree.
LEMMA ExactKeyIs ==
  ASSUME NEW c, NEW e
  PROVE  LET I == {i \in 1 .. 5 : Keys[i] \in Agreeing(c, e)}
         IN  /\ ExactKey(c, e) = IF I # {} THEN Min(I) ELSE 0
             /\ I # {} <=> Agreeing(c, e) # {}
  <1>1. ExactKey(c, e) = LET I == {i \in 1 .. Len(Keys) : Keys[i] \in Agreeing(c, e)}
                         IN  IF I # {} THEN Min(I) ELSE 0
    BY DEF ExactKey, SelectInSeq
  <1>2. Agreeing(c, e) \subseteq {"rut", "domain", "phone", "provider_id", "name_comuna"}
    BY DEF Agreeing
  <1>3. \A k \in Agreeing(c, e) : \E i \in 1 .. 5 : Keys[i] = k
    BY <1>2, KeysAre
  <1>4. QED BY <1>1, <1>3, KeysAre

LEMMA ExactKeyTells ==
  ASSUME NEW c, NEW e
  PROVE  /\ ExactKey(c, e) \in 0 .. 5
         /\ ExactKey(c, e) # 0 <=> Agreeing(c, e) # {}
         /\ ExactKey(c, e) # 0 => Keys[ExactKey(c, e)] \in Agreeing(c, e)
  <1> DEFINE I == {i \in 1 .. 5 : Keys[i] \in Agreeing(c, e)}
  <1>1. ExactKey(c, e) = (IF I # {} THEN Min(I) ELSE 0) /\ (I # {} <=> Agreeing(c, e) # {})
    BY ExactKeyIs
  <1>2. I # {} => Min(I) \in I
    BY LeastOfKeys
  <1> HIDE DEF I
  <1>3. QED BY <1>1, <1>2 DEF I

LEMMA AgreeBothWays ==
  ASSUME NEW c, NEW e, IsCompany(c), IsCompany(e)
  PROVE  /\ Agreeing(c, e) = Agreeing(e, c)
         /\ Contradicting(c, e) = Contradicting(e, c)
         /\ Exact(c, e) <=> Exact(e, c)
         /\ "rut" \notin Agreeing(c, e)
  <1>1. Agreeing(c, e) = Agreeing(e, c) /\ "rut" \notin Agreeing(c, e)
    BY DEF Agreeing, Agree, IsCompany
  <1>2. Contradicting(c, e) = Contradicting(e, c)
    BY DEF Contradicting, Differ, IsCompany
  <1>3. ExactKey(c, e) = ExactKey(e, c)
    <2>1. PICK a : a = Agreeing(c, e)
      OBVIOUS
    <2>2. /\ ExactKey(c, e) = LET I == {i \in 1 .. 5 : Keys[i] \in a} IN IF I # {} THEN Min(I) ELSE 0
          /\ ExactKey(e, c) = LET I == {i \in 1 .. 5 : Keys[i] \in a} IN IF I # {} THEN Min(I) ELSE 0
      BY <1>1, <2>1, ExactKeyIs
    <2>3. QED BY <2>2
  <1>4. QED BY <1>1, <1>2, <1>3 DEF Exact, Blocked

\* What agrees and contradicts nothing is an exact match.
LEMMA NothingContradicts ==
  ASSUME NEW c, NEW e, Agreeing(c, e) # {}, Contradicting(c, e) = {}
  PROVE  Exact(c, e)
  BY ExactKeyTells DEF Exact, Blocked

\* The ids that providers gave to exact matches never contradict one another.
LEMMA ExactMeans ==
  ASSUME NEW c, NEW e, IsCompany(c), IsCompany(e), Exact(c, e)
  PROVE  /\ Agreeing(c, e) # {}
         /\ \A p \in Range(SourceNames) : ~Differ(c.ids[p], e.ids[p])
  <1>1. ExactKey(c, e) \in 1 .. 5 /\ Agreeing(c, e) # {} /\ Keys[ExactKey(c, e)] \in Agreeing(c, e)
    BY ExactKeyTells DEF Exact
  <1>2. ExactKey(c, e) # 1
    BY <1>1, AgreeBothWays, KeysAre
  <1>3. 2 \in 1 .. ExactKey(c, e)
    BY <1>1, <1>2
  <1>4. "provider_id" \notin Contradicting(c, e)
    BY <1>3, KeysAre DEF Exact, Blocked
  <1>5. QED BY <1>1, <1>4 DEF Contradicting, IsCompany

LEMMA ExtendsChain ==
  ASSUME NEW a, NEW b, NEW c, Extends(a, b), Extends(b, c)
  PROVE  Extends(a, c)
  BY DEF Extends

\* Whoever extends a company that can be contacted agrees with everybody else who does.
LEMMA ExtensionsAgree ==
  ASSUME NEW a, NEW b, NEW c, IsCompany(a), IsCompany(b), Contactable(c),
         Extends(a, c), Extends(b, c)
  PROVE  Agreeing(a, b) # {}
  <1>1. PICK k \in {"domain", "phone"} : c[k] # Absent
    BY DEF Contactable
  <1>2. a[k] = c[k] /\ b[k] = c[k]
    BY <1>1 DEF Extends
  <1>3. k \in Agreeing(a, b)
    BY <1>1, <1>2 DEF Agreeing, Agree
  <1>4. QED BY <1>3

\* What extends a company is an exact match of it.
LEMMA ExtensionIsExact ==
  ASSUME NEW a, NEW c, IsCompany(a), IsCompany(c), Contactable(c), Extends(a, c)
  PROVE  Exact(a, c)
  <1>1. Agreeing(a, c) # {}
    BY ExtensionsAgree DEF Extends
  <1>2. Contradicting(a, c) = {}
    BY DEF Contradicting, Differ, Extends, IsCompany
  <1>3. QED BY <1>1, <1>2, NothingContradicts

\* A merge adds what the other company has to what this one had.
LEMMA Merged ==
  ASSUME NEW e, NEW c, IsCompany(e), IsCompany(c), Exact(e, c), NEW m, m = MergeExact(e, c)
  PROVE  /\ IsCompany(m) /\ m.id = e.id /\ Extends(m, e)
         /\ Contactable(e) => Contactable(m)
         /\ \A x : IsCompany(x) => Agreeing(m, x) \subseteq Agreeing(e, x) \cup Agreeing(c, x)
  <1>1. /\ DOMAIN m = Fields /\ DOMAIN m.ids = Range(SourceNames)
        /\ m.id = e.id /\ m.name = e.name /\ m.comuna = e.comuna /\ m.address = e.address
        /\ m.rut = Filled(e.rut, c.rut) /\ m.phone = Filled(e.phone, c.phone)
        /\ m.domain = Filled(e.domain, c.domain)
        /\ \A p \in Range(SourceNames) : m.ids[p] = Filled(c.ids[p], e.ids[p])
    BY DEF MergeExact, IsCompany, Fields
  <1>2. IsCompany(m)
    BY <1>1 DEF IsCompany, Filled
  <1>3. Extends(m, e)
    BY <1>1, ExactMeans DEF Extends, Filled, Differ
  <1>4. Contactable(e) => Contactable(m)
    BY <1>1 DEF Contactable, Filled
  <1>5. ASSUME NEW x, IsCompany(x)
        PROVE  Agreeing(m, x) \subseteq Agreeing(e, x) \cup Agreeing(c, x)
    <2>1. "provider_id" \in Agreeing(m, x) => "provider_id" \in Agreeing(e, x) \cup Agreeing(c, x)
      BY <1>1, <1>5 DEF Agreeing, Agree, Filled, IsCompany
    <2>2. ASSUME NEW k \in Agreeing(m, x), k # "provider_id"
          PROVE  k \in Agreeing(e, x) \cup Agreeing(c, x)
      BY <1>1, <2>2 DEF Agreeing, Agree, Filled
    <2>3. QED BY <2>1, <2>2
  <1>6. QED BY <1>1, <1>2, <1>3, <1>4, <1>5

\* What a company is to those that are known.
LEMMA DispositionTells ==
  ASSUME NEW c, NEW known, IsFiniteSet(known), NEW d, d = Disposition(c, known)
  PROVE  /\ d \in {"possible_duplicate", "exact_match", "unique"}
         /\ d = "unique" => \A e \in known : Agreeing(c, e) = {}
         /\ d = "exact_match" =>
              /\ \A e \in known : Agreeing(c, e) # {} => e.id = MatchedId(c, known)
              /\ \E e \in known : Exact(c, e) /\ e.id = MatchedId(c, known)
  <1> DEFINE found == {k \in known : Exact(c, k)}
             entities == {e.id : e \in found}
             blocked == \E e \in known : ExactKey(c, e) # 0 /\ Blocked(c, e)
  <1>1. d = (IF blocked \/ Cardinality(entities) > 1 THEN "possible_duplicate"
             ELSE IF entities # {} THEN "exact_match"
             ELSE IF \E e \in known : Fuzzy(c, e) THEN "possible_duplicate" ELSE "unique")
    BY DEF Disposition
  <1>2. ~blocked => \A e \in known : Agreeing(c, e) # {} => Exact(c, e)
    BY ExactKeyTells DEF Exact
  <1>3. CASE d = "unique"
    BY <1>1, <1>2, <1>3
  <1>4. CASE d = "exact_match"
    <2>1. ~blocked /\ ~(Cardinality(entities) > 1) /\ entities # {}
      BY <1>1, <1>4
    <2>2. IsFiniteSet(entities)
      <3>1. IsFiniteSet(found)
        BY FS_Subset
      <3> DEFINE f == [e \in found |-> e.id]
      <3>2. f \in Surjection(found, entities)
        BY DEF Surjection
      <3> HIDE DEF f, found, entities
      <3>3. QED BY <3>1, <3>2, FS_Surjection
    <2>3. Cardinality(entities) = 1
      <3> HIDE DEF entities
      <3>1. Cardinality(entities) \in Nat /\ Cardinality(entities) # 0
        BY <2>1, <2>2, FS_CardinalityType, FS_EmptySet
      <3>2. QED BY <2>1, <3>1
    <2>4. PICK x : entities = {x}
      <3> HIDE DEF entities
      <3>1. QED BY <2>2, <2>3, FS_Singleton
    <2>5. \A e \in found : e.id = x
      BY <2>4
    <2>6. MatchedId(c, known) = x /\ \E e \in known : Exact(c, e)
      BY <2>4, <2>5 DEF MatchedId
    <2>7. QED BY <1>2, <1>4, <2>1, <2>5, <2>6
  <1>5. QED BY <1>1, <1>3, <1>4

-----------------------------------------------------------------------------
LEMMA ListIs ==
  ASSUME NEW s, IsList(s)
  PROVE  /\ Len(s) \in Nat /\ DOMAIN s = 1 .. Len(s) /\ IsFiniteSet(DOMAIN s)
         /\ s = [n \in 1 .. Len(s) |-> s[n]]
  <1>1. Len(s) \in Nat /\ DOMAIN s = 1 .. Len(s) /\ s = [n \in 1 .. Len(s) |-> s[n]]
    BY DEF IsList
  <1>2. QED BY <1>1, FS_Interval

LEMMA ListMade ==
  ASSUME NEW n \in Nat, NEW s, s = [k \in 1 .. n |-> s[k]]
  PROVE  IsList(s) /\ Len(s) = n
  <1> PICK S : S = Range(s)
    OBVIOUS
  <1>1. \A k \in 1 .. n : s[k] \in S
    BY DEF Range
  <1>2. s \in [1 .. n -> S]
    BY <1>1
  <1>3. s \in Seq(S) /\ Len(s) = n
    BY <1>2
  <1>4. QED BY <1>3 DEF IsList

LEMMA SequenceIsList ==
  ASSUME NEW S, NEW s, s \in Seq(S)
  PROVE  IsList(s)
  <1>1. s = [n \in 1 .. Len(s) |-> s[n]] /\ Len(s) \in Nat
    OBVIOUS
  <1>2. QED BY <1>1, ListMade

\* A list and one more element.
Longer(t, s, x) ==
    /\ IsList(t) /\ Len(t) = Len(s) + 1 /\ DOMAIN t = 1 .. Len(s) + 1
    /\ \A n \in DOMAIN s : t[n] = s[n]
    /\ t[Len(s) + 1] = x

LEMMA OneMore ==
  ASSUME NEW s, IsList(s), NEW x, NEW t, t = Append(s, x)
  PROVE  Longer(t, s, x)
  <1> DEFINE S == Range(s) \cup {x}
  <1>1. s \in Seq(S) /\ x \in S
    <2>1. s \in [1 .. Len(s) -> S] /\ Len(s) \in Nat
      BY ListIs DEF Range
    <2>2. QED BY <2>1
  <1> HIDE DEF S
  <1>2. t \in Seq(S) /\ Len(t) = Len(s) + 1 /\ DOMAIN t = 1 .. Len(s) + 1
        /\ \A n \in DOMAIN s : t[n] = s[n]
        /\ t[Len(s) + 1] = x
    BY <1>1
  <1>3. IsList(t)
    BY ONLY <1>2, SequenceIsList
  <1>4. QED BY <1>2, <1>3 DEF Longer

-----------------------------------------------------------------------------
\* The two ways in which a company is saved.
Taken(t, c, u, n) ==
    LET known == {t[i].company : i \in DOMAIN t}
        d == Disposition(c, known)
    IN  /\ n \in DOMAIN t /\ t[n].run = task.run
        /\ t[n].company.id = IF d = "exact_match" THEN MatchedId(c, known) ELSE CandidateId(c, d)
        /\ Exact(t[n].company, c)
        /\ u = [t EXCEPT ![n].company = MergeExact(@, c), ![n].disposition = d]

RowAdded(t, c) ==
    LET known == {t[i].company : i \in DOMAIN t}
        d == Disposition(c, known)
        id == IF d = "exact_match" THEN MatchedId(c, known) ELSE CandidateId(c, d)
    IN  [run |-> task.run, disposition |-> d, company |-> [c EXCEPT !.id = id],
         key |-> IF d = "possible_duplicate" THEN ReviewFingerprint(c) ELSE Fingerprint(c)]

\* No row of the run has the id that the company is given.
NotHeld(t, c) ==
    LET known == {t[i].company : i \in DOMAIN t}
        d == Disposition(c, known)
        id == IF d = "exact_match" THEN MatchedId(c, known) ELSE CandidateId(c, d)
    IN  \A n \in DOMAIN t : t[n].run = task.run => t[n].company.id # id

LEMMA SavedIs ==
  ASSUME NEW t, NEW c, NEW u \in Saved(t, c)
  PROVE  (\E n : Taken(t, c, u, n)) \/ (u = Append(t, RowAdded(t, c)) /\ NotHeld(t, c))
  BY DEF Saved, Taken, RowAdded, NotHeld

\* A row that took a company in.
LEMMA TakenRow ==
  ASSUME NEW t, TableOK(t), NEW c, IsCompany(c), NEW u, NEW n, Taken(t, c, u, n),
         NEW m, m = MergeExact(t[n].company, c)
  PROVE  /\ IsList(u) /\ DOMAIN u = DOMAIN t
         /\ \A i \in DOMAIN t : i # n => u[i] = t[i]
         /\ DOMAIN u[n] = DOMAIN t[n] /\ u[n].run = t[n].run /\ u[n].key = t[n].key
         /\ u[n].company = m
  <1>1. IsRow(t[n]) /\ n \in DOMAIN t /\ IsList(t)
    BY DEF TableOK, Taken
  <1>2. /\ DOMAIN u = DOMAIN t
        /\ \A i \in DOMAIN t : i # n => u[i] = t[i]
        /\ DOMAIN u[n] = DOMAIN t[n] /\ u[n].run = t[n].run /\ u[n].key = t[n].key
        /\ u[n].company = m
        /\ u = [i \in DOMAIN t |-> u[i]]
    BY <1>1 DEF Taken, IsRow
  <1>3. IsList(u)
    BY <1>1, <1>2, ListIs, ListMade
  <1>4. QED BY <1>2, <1>3

\* The companies of a table are finitely many.
LEMMA FinitelyKnown ==
  ASSUME NEW t, IsList(t)
  PROVE  IsFiniteSet({t[i].company : i \in DOMAIN t})
  <1> DEFINE K == {t[i].company : i \in DOMAIN t}
             f == [i \in DOMAIN t |-> t[i].company]
  <1>1. f \in Surjection(DOMAIN t, K)
    BY DEF Surjection
  <1> HIDE DEF f, K
  <1>2. IsFiniteSet(K)
    BY <1>1, ListIs, FS_Surjection
  <1>3. QED BY <1>2 DEF K

\* A company that is saved is what the others know it as, or it is flagged.
LEMMA SaveFlags ==
  ASSUME NEW t, TableOK(t), NEW c, IsCompany(c), Contactable(c), NEW u \in Saved(t, c)
  PROVE  Follows(u, t)
  <1> DEFINE known == {t[i].company : i \in DOMAIN t}
  <1> PICK d : d = Disposition(c, known)
    OBVIOUS
  <1> PICK id : id = IF d = "exact_match" THEN MatchedId(c, known) ELSE CandidateId(c, d)
    OBVIOUS
  <1>1. IsList(t) /\ Len(t) \in Nat /\ DOMAIN t = 1 .. Len(t)
        /\ \A n \in DOMAIN t : IsRow(t[n])
    BY ListIs DEF TableOK
  \* Whoever agrees with the company is flagged beside the id it is given.
  <1>2. ASSUME NEW n \in DOMAIN t, Agreeing(c, t[n].company) # {}
        PROVE  t[n].company.id = id \/ id[1] = "review"
    <2>1. IsFiniteSet(known)
      BY <1>1, FinitelyKnown
    <2>2. t[n].company \in known
      OBVIOUS
    <2>3. /\ d \in {"possible_duplicate", "exact_match", "unique"}
          /\ d # "unique"
          /\ d = "exact_match" => t[n].company.id = MatchedId(c, known)
      <3> HIDE DEF known
      <3>1. QED BY <1>2, <2>1, <2>2, DispositionTells
    <2> HIDE DEF known
    <2>4. CASE d = "exact_match"
      BY <2>3, <2>4
    <2>5. CASE d = "possible_duplicate"
      BY <2>5 DEF CandidateId, ReviewFingerprint
    <2>6. QED BY <2>3, <2>4, <2>5
  <1>3. ASSUME u = Append(t, RowAdded(t, c)), NotHeld(t, c) PROVE Follows(u, t)
    <2> PICK r : r = RowAdded(t, c)
      OBVIOUS
    <2>1. DOMAIN r = {"run", "key", "disposition", "company"} /\ r.run = task.run
          /\ r.company = [c EXCEPT !.id = id]
      BY DEF RowAdded
    <2>2. r.company.id = id /\ IsRow(r) /\ \A x : Agreeing(r.company, x) = Agreeing(c, x)
      BY <2>1 DEF IsRow, IsCompany, Contactable, Fields, Agreeing, Agree
    <2>3. /\ IsList(u) /\ Len(u) = Len(t) + 1 /\ DOMAIN u = 1 .. Len(t) + 1
          /\ \A n \in DOMAIN t : u[n] = t[n]
          /\ u[Len(t) + 1] = r
      <3>1. u = Append(t, r)
        BY <1>3
      <3>2. Longer(u, t, r)
        BY ONLY <1>1, <3>1, OneMore
      <3>3. QED BY <3>2 DEF Longer
    <2>4. \A n \in DOMAIN u : IsRow(u[n])
      BY <1>1, <2>2, <2>3
    <2>5. ASSUME NEW m \in DOMAIN u, NEW n \in DOMAIN u,
                 Agreeing(u[m].company, u[n].company) # {}
          PROVE  Flagged(u[m].company, u[n].company)
      <3>1. CASE m \in DOMAIN t /\ n \in DOMAIN t
        BY <2>3, <2>5, <3>1 DEF TableOK
      <3>2. CASE m \in DOMAIN t /\ n = Len(t) + 1
        <4>1. Agreeing(c, t[m].company) # {}
          BY <1>1, <2>2, <2>3, <2>5, <3>2, AgreeBothWays DEF IsRow
        <4>2. QED BY <1>2, <2>2, <2>3, <3>2, <4>1 DEF Flagged
      <3>3. CASE m = Len(t) + 1 /\ n \in DOMAIN t
        <4>1. Agreeing(c, t[n].company) # {}
          BY <2>2, <2>3, <2>5, <3>3
        <4>2. QED BY <1>2, <2>2, <2>3, <3>3, <4>1 DEF Flagged
      <3>4. CASE m = Len(t) + 1 /\ n = Len(t) + 1
        BY <3>4 DEF Flagged
      <3>5. QED BY <1>1, <2>3, <3>1, <3>2, <3>3, <3>4
    <2>6. \A n \in DOMAIN u : n \notin DOMAIN t => u[n].run = task.run
      BY <1>1, <2>1, <2>3
    <2>7. \A n \in DOMAIN t : /\ u[n].run = t[n].run
                             /\ u[n].company.id = t[n].company.id
                             /\ Extends(u[n].company, t[n].company)
      BY <2>3 DEF Extends
    <2>8. Len(u) >= Len(t) /\ Len(t) + 1 \in DOMAIN u
      BY <1>1, <2>3
    <2>9. ASSUME NEW m \in DOMAIN u, NEW n \in DOMAIN u,
                 u[m].run = u[n].run, u[m].company.id = u[n].company.id
          PROVE  m = n
      <3>1. \A i \in DOMAIN t : t[i].run = task.run => t[i].company.id # id
        BY <1>3 DEF NotHeld
      <3>2. CASE m \in DOMAIN t /\ n \in DOMAIN t
        BY <2>3, <2>9, <3>2 DEF TableOK
      <3>3. CASE m \in DOMAIN t /\ n = Len(t) + 1
        BY <2>1, <2>2, <2>3, <2>9, <3>1, <3>3
      <3>4. CASE m = Len(t) + 1 /\ n \in DOMAIN t
        <4>1. u[m] = r /\ u[n] = t[n]
          BY <2>3, <3>4
        <4>2. t[n].run = task.run /\ t[n].company.id = id
          BY <2>1, <2>2, <2>9, <4>1
        <4>3. QED BY <3>1, <3>4, <4>2
      <3>5. QED BY <1>1, <2>3, <3>2, <3>3, <3>4
    <2>10. TableOK(u)
      BY <2>3, <2>4, <2>5, <2>9 DEF TableOK
    <2>11. QED BY <2>1, <2>3, <2>6, <2>7, <2>8, <2>10 DEF Follows
  <1>4. ASSUME NEW k, Taken(t, c, u, k) PROVE Follows(u, t)
    <2> PICK e : e = t[k].company
      OBVIOUS
    <2> PICK m : m = MergeExact(e, c)
      OBVIOUS
    <2>1. /\ k \in DOMAIN t /\ t[k].run = task.run /\ e.id = id /\ Exact(e, c)
          /\ IsCompany(e) /\ Contactable(e)
      BY <1>1, <1>4 DEF Taken, IsRow
    <2>2. /\ IsList(u) /\ DOMAIN u = DOMAIN t
          /\ \A i \in DOMAIN t : i # k => u[i] = t[i]
          /\ DOMAIN u[k] = DOMAIN t[k] /\ u[k].run = t[k].run
          /\ u[k].company = m
      BY <1>4, TakenRow
    <2>3. /\ IsCompany(m) /\ m.id = id /\ Extends(m, e) /\ Contactable(m)
          /\ \A x : IsCompany(x) => Agreeing(m, x) \subseteq Agreeing(e, x) \cup Agreeing(c, x)
      BY <2>1, Merged
    <2>4. \A n \in DOMAIN u : IsRow(u[n])
      BY <1>1, <2>2, <2>3 DEF IsRow
    <2>5. ASSUME NEW n \in DOMAIN t, n # k, Agreeing(m, t[n].company) # {}
          PROVE  Flagged(m, t[n].company)
      <3>1. Agreeing(e, t[n].company) # {} \/ Agreeing(c, t[n].company) # {}
        BY <1>1, <2>3, <2>5 DEF IsRow
      <3>2. CASE Agreeing(e, t[n].company) # {}
        BY <2>1, <2>3, <3>2 DEF TableOK, Flagged
      <3>3. CASE Agreeing(c, t[n].company) # {}
        BY <1>2, <2>3, <3>3 DEF Flagged
      <3>4. QED BY <3>1, <3>2, <3>3
    <2>6. ASSUME NEW i \in DOMAIN u, NEW j \in DOMAIN u,
                 Agreeing(u[i].company, u[j].company) # {}
          PROVE  Flagged(u[i].company, u[j].company)
      <3>1. CASE i # k /\ j # k
        BY <2>2, <2>6, <3>1 DEF TableOK
      <3>2. CASE i = k /\ j # k
        BY <2>2, <2>5, <2>6, <3>2
      <3>3. CASE i # k /\ j = k
        <4>1. Agreeing(m, t[i].company) # {}
          BY <2>2, <2>3, <2>4, <2>6, <3>3, AgreeBothWays DEF IsRow
        <4>2. Flagged(m, t[i].company)
          BY <2>2, <2>5, <3>3, <4>1
        <4>3. QED BY <2>2, <3>3, <4>2 DEF Flagged
      <3>4. CASE i = k /\ j = k
        BY <3>4 DEF Flagged
      <3>5. QED BY <3>1, <3>2, <3>3, <3>4
    <2>7. \A n \in DOMAIN t : /\ u[n].run = t[n].run
                             /\ u[n].company.id = t[n].company.id
                             /\ Extends(u[n].company, t[n].company)
      BY <2>1, <2>2, <2>3 DEF Extends
    <2>8. Len(u) = Len(t)
      BY <1>1, <2>2, ListIs
    <2>9. \A i, j \in DOMAIN u :
             u[i].run = u[j].run /\ u[i].company.id = u[j].company.id => i = j
      BY <2>2, <2>7 DEF TableOK
    <2>10. TableOK(u)
      BY <2>2, <2>4, <2>6, <2>9 DEF TableOK
    <2>11. Len(u) >= Len(t)
      BY <1>1, <2>8
    <2>12. QED BY <2>1, <2>2, <2>7, <2>10, <2>11 DEF Follows
  <1>5. QED BY <1>3, <1>4, SavedIs

\* What a fingerprint is made of is shown, and known by whoever shows it too.
LEMMA FingerprintIsShown ==
  ASSUME NEW c, IsCompany(c), Contactable(c)
  PROVE  Shows(c, Fingerprint(c))
  <1> DEFINE I == {i \in 1 .. 3 : c.ids[SourceNames[i]] # Absent}
  <1> PICK p : p = SelectInSeq(SourceNames, LAMBDA s : c.ids[s] # Absent)
    OBVIOUS
  <1>1. p = IF I # {} THEN Min(I) ELSE 0
    <2>1. Len(SourceNames) = 3
      BY DEF SourceNames
    <2>2. p = LET J == {i \in 1 .. Len(SourceNames) : c.ids[SourceNames[i]] # Absent}
              IN  IF J # {} THEN Min(J) ELSE 0
      BY DEF SelectInSeq
    <2>3. QED BY <2>1, <2>2
  <1>2. p = 0 \/ (p \in 1 .. 3 /\ c.ids[SourceNames[p]] # Absent)
    <2>1. I # {} => Min(I) \in I
      <3>1. I \subseteq 1 .. 5
        OBVIOUS
      <3> HIDE DEF I
      <3>2. QED BY <3>1, LeastOfKeys
    <2> HIDE DEF I
    <2>2. I # {} => p \in I
      BY <1>1, <2>1
    <2>3. I = {} => p = 0
      BY <1>1
    <2>4. QED BY <2>2, <2>3 DEF I
  <1>3. Fingerprint(c) =
          IF p # 0 THEN <<SourceNames[p], c.ids[SourceNames[p]]>>
          ELSE IF c.domain # Absent THEN <<"domain", c.domain>> ELSE <<"phone", c.phone>>
    BY DEF Fingerprint, IsCompany, Contactable
  <1>4. CASE p # 0
    <2>1. SourceNames[p] \in Range(SourceNames)
      BY <1>2, <1>4 DEF Range, SourceNames
    <2>2. QED BY <1>2, <1>3, <1>4, <2>1 DEF Shows
  <1>5. CASE p = 0 /\ c.domain # Absent
    BY <1>3, <1>5 DEF Shows
  <1>6. CASE p = 0 /\ c.domain = Absent
    BY <1>3, <1>6 DEF Shows, Contactable
  <1>7. QED BY <1>4, <1>5, <1>6

LEMMA ShownByBoth ==
  ASSUME NEW a, NEW b, NEW key, IsCompany(a), IsCompany(b), Shows(a, key), Shows(b, key)
  PROVE  Agreeing(a, b) # {}
  <1>1. CASE key[1] \in {"domain", "phone"}
    <2>1. a[key[1]] = key[2] /\ b[key[1]] = key[2] /\ key[2] # Absent
      BY <1>1, NamesOfSources DEF Shows
    <2>2. key[1] \in Agreeing(a, b)
      BY <1>1, <2>1 DEF Agreeing, Agree
    <2>3. QED BY <2>2
  <1>2. CASE key[1] \in Range(SourceNames)
    <2>1. a.ids[key[1]] = key[2] /\ b.ids[key[1]] = key[2] /\ key[2] # Absent
      BY <1>2, NamesOfSources DEF Shows
    <2>2. "provider_id" \in Agreeing(a, b)
      BY <1>2, <2>1 DEF Agreeing, Agree, IsCompany
    <2>3. QED BY <2>2
  <1>3. QED BY <1>1, <1>2 DEF Shows

LEMMA ShownOn ==
  ASSUME NEW a, NEW b, NEW key, Extends(a, b), Shows(b, key)
  PROVE  Shows(a, key)
  BY DEF Extends, Shows

\* Whoever takes the key of a row has the id of that row, and is the same company.
LEMMA HolderOfReview ==
  ASSUME NEW r, IsRow(r), KeyKept(r), NEW c, IsCompany(c), Contactable(c),
         r.company.id = ReviewFingerprint(c)
  PROVE  Exact(r.company, c)
  <1>1. r.key = <<"review", [c EXCEPT !.id = Absent]>>
    BY DEF KeyKept, ReviewFingerprint
  <1>2. r.key[1] = "review" /\ r.key[2] = [c EXCEPT !.id = Absent]
    BY <1>1
  <1>3. ~Shows(r.company, r.key)
    BY <1>2, NamesOfSources DEF Shows
  <1>4. Extends(r.company, [c EXCEPT !.id = Absent])
    BY <1>2, <1>3 DEF KeyKept
  <1>5. Extends(r.company, c)
    BY <1>4 DEF Extends, IsCompany, Fields
  <1>6. QED BY <1>5, ExtensionIsExact DEF IsRow

LEMMA HolderOfFingerprint ==
  ASSUME NEW r, IsRow(r), KeyKept(r), NEW c, IsCompany(c), Contactable(c),
         r.company.id = Fingerprint(c)
  PROVE  Agreeing(c, r.company) # {}
  <1> PICK key : key = Fingerprint(c)
    OBVIOUS
  <1>1. Shows(c, key) /\ r.key = key
    BY FingerprintIsShown DEF KeyKept
  <1>2. key[1] # "review"
    BY <1>1, NamesOfSources DEF Shows
  <1>3. Shows(r.company, key)
    BY <1>1, <1>2 DEF KeyKept
  <1>4. QED BY <1>1, <1>3, ShownByBoth DEF IsRow

\* A company with an id is the same one as a row of that id.
Expected(c, t) ==
    c.id # Absent => \E n \in DOMAIN t : t[n].company.id = c.id /\ Agreeing(c, t[n].company) # {}

\* A company of the only run there is is an exact match of the row of its id, or
\* nobody has its id or its key.
FindsItsRow(t, c) ==
    LET known == {t[i].company : i \in DOMAIN t}
        d == Disposition(c, known)
        id == IF d = "exact_match" THEN MatchedId(c, known) ELSE CandidateId(c, d)
        key == IF d = "possible_duplicate" THEN ReviewFingerprint(c) ELSE Fingerprint(c)
    IN  \/ \E n \in DOMAIN t : t[n].company.id = id /\ Exact(t[n].company, c)
        \/ /\ \A n \in DOMAIN t : t[n].company.id # id /\ t[n].key # key
           /\ id = key
           /\ d \in {"possible_duplicate", "unique"}

LEMMA SaveFindsItsRow ==
  ASSUME NEW t, TableOK(t), KeysKept(t), NEW c, IsCompany(c), Contactable(c), Expected(c, t)
  PROVE  FindsItsRow(t, c)
  <1> PICK known : known = {t[i].company : i \in DOMAIN t}
    OBVIOUS
  <1> PICK d : d = Disposition(c, known)
    OBVIOUS
  <1> PICK id : id = IF d = "exact_match" THEN MatchedId(c, known) ELSE CandidateId(c, d)
    OBVIOUS
  <1> PICK key : key = IF d = "possible_duplicate" THEN ReviewFingerprint(c) ELSE Fingerprint(c)
    OBVIOUS
  <1> SUFFICES \/ \E n \in DOMAIN t : t[n].company.id = id /\ Exact(t[n].company, c)
               \/ /\ \A n \in DOMAIN t : t[n].company.id # id /\ t[n].key # key
                  /\ id = key
                  /\ d \in {"possible_duplicate", "unique"}
    BY DEF FindsItsRow
  <1>1. /\ d \in {"possible_duplicate", "exact_match", "unique"}
        /\ d = "unique" => \A e \in known : Agreeing(c, e) = {}
        /\ d = "exact_match" => \E e \in known : Exact(c, e) /\ e.id = MatchedId(c, known)
    <2>1. IsFiniteSet(known)
      BY FinitelyKnown DEF TableOK
    <2>2. d = Disposition(c, known)
      OBVIOUS
    <2>3. QED BY ONLY <2>1, <2>2, DispositionTells
  <1>2. \A n \in DOMAIN t : IsRow(t[n]) /\ KeyKept(t[n]) /\ t[n].company.id = t[n].key
    BY DEF TableOK, KeysKept, KeyKept
  <1>3. CASE d = "exact_match"
    <2>1. PICK n \in DOMAIN t : Exact(c, t[n].company) /\ t[n].company.id = MatchedId(c, known)
      BY <1>1, <1>3
    <2>2. Exact(t[n].company, c)
      BY <1>2, <2>1, AgreeBothWays DEF IsRow
    <2>3. QED BY <1>3, <2>1, <2>2
  <1>4. CASE d = "possible_duplicate"
    <2>1. id = ReviewFingerprint(c) /\ key = id
      BY <1>4 DEF CandidateId
    <2>2. \A n \in DOMAIN t : t[n].company.id = id => Exact(t[n].company, c)
      BY <1>2, <2>1, HolderOfReview
    <2>3. QED BY <1>2, <1>4, <2>1, <2>2
  <1>5. CASE d = "unique"
    <2>1. \A n \in DOMAIN t : Agreeing(c, t[n].company) = {}
      BY <1>1, <1>5
    <2>2. c.id = Absent
      BY <2>1 DEF Expected
    <2>3. id = Fingerprint(c) /\ key = id
      BY <1>5, <2>2 DEF CandidateId, Filled
    <2>4. \A n \in DOMAIN t : t[n].company.id # id
      BY <1>2, <2>1, <2>3, HolderOfFingerprint
    <2>5. QED BY <1>2, <1>5, <2>3, <2>4
  <1>6. QED BY <1>1, <1>3, <1>4, <1>5

\* Of the only run there is, no company makes a save raise.
LEMMA SaveSucceeds ==
  ASSUME NEW t, TableOK(t), KeysKept(t), Alone(t, task.run),
         NEW c, IsCompany(c), Contactable(c), Expected(c, t)
  PROVE  Saved(t, c) # {}
  <1> PICK known : known = {t[i].company : i \in DOMAIN t}
    OBVIOUS
  <1> PICK d : d = Disposition(c, known)
    OBVIOUS
  <1> PICK id : id = IF d = "exact_match" THEN MatchedId(c, known) ELSE CandidateId(c, d)
    OBVIOUS
  <1> PICK key : key = IF d = "possible_duplicate" THEN ReviewFingerprint(c) ELSE Fingerprint(c)
    OBVIOUS
  <1> DEFINE mine == {n \in DOMAIN t : t[n].run = task.run}
             held == {n \in mine : t[n].company.id = id}
             Taking == {[t EXCEPT ![n].company = MergeExact(@, c), ![n].disposition = d] :
                            n \in {m \in held : Exact(t[m].company, c)}}
             Adding == {Append(t, [run |-> task.run, key |-> key, disposition |-> d,
                                   company |-> [c EXCEPT !.id = id]]) :
                            k \in {k \in {key} : held = {} /\ \A n \in mine : t[n].key # k}}
  <1>1. Saved(t, c) = Taking \cup Adding
    BY DEF Saved
  <1>2. \/ \E n \in DOMAIN t : t[n].company.id = id /\ Exact(t[n].company, c)
        \/ \A n \in DOMAIN t : t[n].company.id # id /\ t[n].key # key
    <2>1. FindsItsRow(t, c)
      BY SaveFindsItsRow
    <2>2. QED BY <2>1 DEF FindsItsRow
  <1>3. mine = DOMAIN t
    BY DEF Alone
  <1>4. CASE \E n \in DOMAIN t : t[n].company.id = id /\ Exact(t[n].company, c)
    <2>1. {m \in held : Exact(t[m].company, c)} # {}
      BY <1>3, <1>4
    <2>2. Taking # {}
      BY <2>1
    <2>3. QED BY <1>1, <2>2
  <1>5. CASE \A n \in DOMAIN t : t[n].company.id # id /\ t[n].key # key
    <2>1. {k \in {key} : held = {} /\ \A n \in mine : t[n].key # k} = {key}
      BY <1>3, <1>5
    <2>2. Adding # {}
      BY <2>1
    <2>3. QED BY <1>1, <2>2
  <1>6. QED BY <1>2, <1>4, <1>5

\* The rows of the only run there is keep what their keys were made of.
LEMMA SaveKeepsKeys ==
  ASSUME NEW t, TableOK(t), KeysKept(t), Alone(t, task.run),
         NEW c, IsCompany(c), Contactable(c), Expected(c, t), NEW u \in Saved(t, c)
  PROVE  KeysKept(u) /\ Alone(u, task.run)
  <1> PICK known : known = {t[i].company : i \in DOMAIN t}
    OBVIOUS
  <1> PICK d : d = Disposition(c, known)
    OBVIOUS
  <1> PICK id : id = IF d = "exact_match" THEN MatchedId(c, known) ELSE CandidateId(c, d)
    OBVIOUS
  <1> PICK key : key = IF d = "possible_duplicate" THEN ReviewFingerprint(c) ELSE Fingerprint(c)
    OBVIOUS
  <1>1. IsList(t) /\ Len(t) \in Nat /\ DOMAIN t = 1 .. Len(t)
        /\ \A n \in DOMAIN t : IsRow(t[n]) /\ KeyKept(t[n])
    BY ListIs DEF TableOK, KeysKept
  <1>2. ASSUME NEW k, Taken(t, c, u, k) PROVE KeysKept(u) /\ Alone(u, task.run)
    <2> PICK e : e = t[k].company
      OBVIOUS
    <2> PICK m : m = MergeExact(e, c)
      OBVIOUS
    <2>1. k \in DOMAIN t /\ Exact(e, c) /\ IsCompany(e)
      BY <1>1, <1>2 DEF Taken, IsRow
    <2>2. /\ DOMAIN u = DOMAIN t
          /\ \A i \in DOMAIN t : i # k => u[i] = t[i]
          /\ u[k].run = t[k].run /\ u[k].key = t[k].key
          /\ u[k].company = m
      BY <1>2, TakenRow
    <2>3. m.id = e.id /\ Extends(m, e)
      BY <2>1, Merged
    <2>4. e.id = t[k].key /\ ((t[k].key[1] = "review" /\ Extends(e, t[k].key[2])) \/ Shows(e, t[k].key))
      BY <1>1, <2>1 DEF KeyKept
    <2>5. (t[k].key[1] = "review" /\ Extends(m, t[k].key[2])) \/ Shows(m, t[k].key)
      BY <2>3, <2>4, ExtendsChain, ShownOn
    <2>6. KeyKept(u[k])
      BY <2>2, <2>3, <2>4, <2>5 DEF KeyKept
    <2>7. KeysKept(u)
      BY <1>1, <2>2, <2>6 DEF KeysKept
    <2>8. Alone(u, task.run)
      BY <2>1, <2>2 DEF Alone
    <2>9. QED BY <2>7, <2>8
  <1>3. ASSUME u = Append(t, RowAdded(t, c)), NotHeld(t, c)
        PROVE  KeysKept(u) /\ Alone(u, task.run)
    <2> PICK r : r = RowAdded(t, c)
      OBVIOUS
    <2>1. r.run = task.run /\ r.company = [c EXCEPT !.id = id] /\ r.key = key
      BY DEF RowAdded
    <2>2. /\ DOMAIN u = 1 .. Len(t) + 1
          /\ \A n \in DOMAIN t : u[n] = t[n]
          /\ u[Len(t) + 1] = r
      <3>1. u = Append(t, r)
        BY <1>3
      <3>2. Longer(u, t, r)
        BY ONLY <1>1, <3>1, OneMore
      <3>3. QED BY <3>2 DEF Longer
    <2>3. id = key /\ d \in {"possible_duplicate", "unique"}
      <3>1. \A n \in DOMAIN t : t[n].company.id # id
        BY <1>3 DEF NotHeld, Alone
      <3>2. \/ \E n \in DOMAIN t : t[n].company.id = id /\ Exact(t[n].company, c)
            \/ id = key /\ d \in {"possible_duplicate", "unique"}
        <4>1. FindsItsRow(t, c)
          BY SaveFindsItsRow
        <4>2. QED BY <4>1 DEF FindsItsRow
      <3>3. QED BY <3>1, <3>2
    <2>4. r.company.id = r.key
      BY <2>1, <2>3 DEF IsCompany, Fields
    <2>5. ASSUME d = "possible_duplicate" PROVE KeyKept(r)
      <3>1. r.key[1] = "review" /\ r.key[2] = [c EXCEPT !.id = Absent]
        BY <2>1, <2>5 DEF ReviewFingerprint
      <3>2. Extends(r.company, r.key[2])
        BY <2>1, <3>1 DEF Extends, IsCompany, Fields
      <3>3. QED BY <2>4, <3>1, <3>2 DEF KeyKept
    <2>6. ASSUME d = "unique" PROVE KeyKept(r)
      <3>1. r.key = Fingerprint(c) /\ Shows(c, r.key)
        BY <2>1, <2>6, FingerprintIsShown
      <3>2. Extends(r.company, c)
        BY <2>1 DEF Extends, IsCompany, Fields
      <3>3. Shows(r.company, r.key)
        BY <3>1, <3>2, ShownOn
      <3>4. QED BY <2>4, <3>3 DEF KeyKept
    <2>7. KeyKept(r)
      BY <2>3, <2>5, <2>6
    <2>8. KeysKept(u)
      BY <1>1, <2>2, <2>7 DEF KeysKept
    <2>9. Alone(u, task.run)
      BY <1>1, <2>1, <2>2 DEF Alone
    <2>10. QED BY <2>8, <2>9
  <1>4. QED BY <1>2, <1>3, SavedIs

-----------------------------------------------------------------------------
\* The greatest place of a list that has something.
LEMMA GreatestElement ==
  ASSUME NEW n \in Nat, NEW S, S \subseteq 1 .. n, S # {}
  PROVE  Max(S) \in S /\ \A y \in S : Max(S) >= y
  <1> DEFINE T == {n - x : x \in S}
  <1>1. \A x \in S : x \in 1 .. n /\ n - x \in Nat
    OBVIOUS
  <1>2. PICK m \in T : \A k \in T : m <= k
    <2>1. T \subseteq Nat /\ T # {}
      BY <1>1
    <2> HIDE DEF T
    <2>2. QED BY <2>1, LeastElement
  <1>3. PICK x \in S : m = n - x
    BY <1>2
  <1>4. ASSUME NEW y \in S PROVE x >= y
    <2>1. n - y \in T
      OBVIOUS
    <2>2. n - x <= n - y
      BY <1>2, <1>3, <2>1
    <2>3. x \in Int /\ y \in Int
      BY <1>1
    <2>4. QED BY <2>2, <2>3
  <1> HIDE DEF T
  <1>5. QED BY <1>3, <1>4 DEF Max

\* What the folds of the model do with one company: of all the tables that a save may
\* give, or of the results of a search.
OneMerged(merged, c) ==
    LET n == SelectInSeq(merged, LAMBDA e : e.domain = c.domain)
    IN  IF n = 0 THEN Append(merged, c) ELSE [merged EXCEPT ![n] = MergeExact(@, c)]

FoldOne(what, c, x) ==
    IF what = "save" THEN UNION {Saved(t, c) : t \in x} ELSE OneMerged(x, c)

FoldAt(what, base, seq, g, s) ==
    IF s = {} THEN base ELSE FoldOne(what, seq[Max(s)], g[s \ {Max(s)}])

Folding(what, base, seq, g) ==
    \A s \in SUBSET (DOMAIN seq) : g[s] = FoldAt(what, base, seq, g, s)

HasFold(what, base, seq) ==
    \E g : Folding(what, base, seq, g) /\ g = [s \in SUBSET (DOMAIN seq) |-> g[s]]

LEMMA OneLess ==
  ASSUME NEW seq, IsList(seq), NEW s \in SUBSET (DOMAIN seq)
  PROVE  /\ IsFiniteSet(s) /\ Cardinality(s) \in Nat
         /\ Cardinality(s) = 0 <=> s = {}
         /\ Cardinality(s) <= Cardinality(DOMAIN seq)
         /\ s # {} => /\ s \ {Max(s)} \in SUBSET (DOMAIN seq)
                      /\ Cardinality(s \ {Max(s)}) = Cardinality(s) - 1
  <1>1. IsFiniteSet(DOMAIN seq) /\ DOMAIN seq = 1 .. Len(seq) /\ Len(seq) \in Nat
    BY ListIs
  <1>2. IsFiniteSet(s)
    BY <1>1, FS_Subset
  <1>3. s # {} => Max(s) \in s
    BY <1>1, GreatestElement
  <1>4. Cardinality(s) <= Cardinality(DOMAIN seq)
    BY <1>1, FS_Subset
  <1>5. QED BY <1>2, <1>3, <1>4, FS_CardinalityType, FS_EmptySet, FS_RemoveElement

LEMMA FoldExists ==
  ASSUME NEW what, NEW base, NEW seq, IsList(seq)
  PROVE  HasFold(what, base, seq)
  <1> PICK D : D = DOMAIN seq
    OBVIOUS
  <1> DEFINE Given(g, n) ==
                 \A s \in SUBSET D : Cardinality(s) <= n => g[s] = FoldAt(what, base, seq, g, s)
             P == {n \in Nat : \E g : Given(g, n)}
  <1>1. 0 \in P
    <2>1. Given([s \in SUBSET D |-> base], 0)
      <3>1. ASSUME NEW s \in SUBSET D, Cardinality(s) <= 0 PROVE s = {}
        <4>1. Cardinality(s) \in Nat /\ (Cardinality(s) = 0 <=> s = {})
          BY OneLess
        <4>2. QED BY <3>1, <4>1
      <3>2. QED BY <3>1 DEF FoldAt
    <2>2. QED BY <2>1
  <1>2. ASSUME NEW n \in Nat, n \in P PROVE n + 1 \in P
    <2>1. PICK g : Given(g, n)
      BY <1>2
    <2> DEFINE h == [s \in SUBSET D |->
                        IF Cardinality(s) <= n THEN g[s] ELSE FoldAt(what, base, seq, g, s)]
    <2>2. ASSUME NEW s \in SUBSET D, Cardinality(s) <= n + 1
          PROVE  h[s] = FoldAt(what, base, seq, h, s)
      <3>1. h[s] = FoldAt(what, base, seq, g, s)
        BY <2>1
      <3>2. CASE s = {}
        BY <3>1, <3>2 DEF FoldAt
      <3>3. CASE s # {}
        <4>1. s \ {Max(s)} \in SUBSET D /\ Cardinality(s \ {Max(s)}) <= n
          BY <3>3, <2>2, OneLess
        <4>2. h[s \ {Max(s)}] = g[s \ {Max(s)}]
          BY <4>1
        <4>3. QED BY <3>1, <3>3, <4>2 DEF FoldAt
      <3>4. QED BY <3>2, <3>3
    <2>3. Given(h, n + 1)
      BY <2>2
    <2> HIDE DEF h, Given
    <2>4. QED BY <2>3
  <1>3. Cardinality(D) \in P
    <2>1. Cardinality(D) \in Nat
      BY OneLess
    <2> HIDE DEF P
    <2>2. QED BY <1>1, <1>2, <2>1, Induction
  <1>4. PICK g : Given(g, Cardinality(D))
    BY <1>3
  <1>5. \A s \in SUBSET D : g[s] = FoldAt(what, base, seq, g, s)
    <2>1. ASSUME NEW s \in SUBSET D PROVE Cardinality(s) <= Cardinality(D)
      BY OneLess
    <2>2. QED BY <1>4, <2>1
  <1> DEFINE h == [s \in SUBSET D |-> g[s]]
  <1>6. ASSUME NEW s \in SUBSET D PROVE h[s] = FoldAt(what, base, seq, h, s)
    <2>1. CASE s = {}
      BY <1>5, <2>1 DEF FoldAt
    <2>2. CASE s # {}
      <3>1. s \ {Max(s)} \in SUBSET D
        OBVIOUS
      <3>2. QED BY <1>5, <2>2, <3>1 DEF FoldAt
    <2>3. QED BY <2>1, <2>2
  <1>7. h = [s \in SUBSET D |-> h[s]]
    OBVIOUS
  <1> HIDE DEF h
  <1>8. QED BY <1>6, <1>7 DEF Folding, HasFold

\* A fold goes from one company to the next one.
LEMMA FoldSteps ==
  ASSUME NEW what, NEW base, NEW seq, IsList(seq), NEW g, Folding(what, base, seq, g)
  PROVE  /\ g[1 .. 0] = base
         /\ \A n \in DOMAIN seq : g[1 .. n] = FoldOne(what, seq[n], g[1 .. n - 1])
         /\ g[DOMAIN seq] = g[1 .. Len(seq)]
  <1>1. DOMAIN seq = 1 .. Len(seq) /\ Len(seq) \in Nat
    BY ListIs
  <1>2. 1 .. 0 = {}
    OBVIOUS
  <1>3. g[1 .. 0] = base
    BY <1>2 DEF Folding, FoldAt
  <1>4. ASSUME NEW n \in DOMAIN seq
        PROVE  g[1 .. n] = FoldOne(what, seq[n], g[1 .. n - 1])
    <2>1. n \in 1 .. n /\ 1 .. n \in SUBSET (DOMAIN seq) /\ (1 .. n) \ {n} = 1 .. n - 1 /\ n \in Nat
      BY <1>1
    <2>2. Max(1 .. n) = n
      <3>1. Max(1 .. n) \in 1 .. n /\ \A y \in 1 .. n : Max(1 .. n) >= y
        BY <2>1, GreatestElement
      <3>2. QED BY <2>1, <3>1
    <2>3. 1 .. n # {}
      BY <2>1
    <2>4. g[1 .. n] = FoldAt(what, base, seq, g, 1 .. n)
      BY <2>1 DEF Folding
    <2>5. QED BY <2>1, <2>2, <2>3, <2>4 DEF FoldAt
  <1>5. QED BY <1>1, <1>3, <1>4

LEMMA SavesFold ==
  ASSUME NEW base, NEW seq, IsList(seq)
  PROVE  \E g : /\ Folding("save", base, seq, g)
                /\ FoldLeft(LAMBDA ts, c : UNION {Saved(t, c) : t \in ts}, base, seq) = g[DOMAIN seq]
  <1> DEFINE SaveAt(g, s) == IF s = {} THEN base
                             ELSE UNION {Saved(t, seq[Max(s)]) : t \in g[s \ {Max(s)}]}
             F == CHOOSE g : g = [s \in SUBSET (DOMAIN seq) |-> SaveAt(g, s)]
  <1>1. FoldLeft(LAMBDA ts, c : UNION {Saved(t, c) : t \in ts}, base, seq) = F[DOMAIN seq]
    BY DEF FoldLeft, MapThenFoldSet
  <1>2. \A g, s : SaveAt(g, s) = FoldAt("save", base, seq, g, s)
    BY DEF FoldAt, FoldOne
  <1> HIDE DEF SaveAt
  <1>3. \E g : Folding("save", base, seq, g) /\ g = [s \in SUBSET (DOMAIN seq) |-> g[s]]
    <2>1. HasFold("save", base, seq)
      BY ONLY IsList(seq), FoldExists
    <2>2. QED BY <2>1 DEF HasFold
  <1>4. \E g : g = [s \in SUBSET (DOMAIN seq) |-> SaveAt(g, s)]
    BY <1>2, <1>3 DEF Folding
  <1>5. F = [s \in SUBSET (DOMAIN seq) |-> SaveAt(F, s)]
    BY <1>4
  <1> HIDE DEF F
  <1>6. Folding("save", base, seq, F)
    BY <1>2, <1>5 DEF Folding
  <1>7. QED BY <1>1, <1>6

LEMMA DomainsFold ==
  ASSUME NEW seq, IsList(seq)
  PROVE  \E g : Folding("domain", <<>>, seq, g) /\ ByDomain(seq) = g[DOMAIN seq]
  <1> DEFINE MergeAt(g, s) == IF s = {} THEN <<>> ELSE OneMerged(g[s \ {Max(s)}], seq[Max(s)])
             F == CHOOSE g : g = [s \in SUBSET (DOMAIN seq) |-> MergeAt(g, s)]
  <1>1. ByDomain(seq) = F[DOMAIN seq]
    BY DEF ByDomain, FoldLeft, MapThenFoldSet, OneMerged
  <1>2. \A g, s : MergeAt(g, s) = FoldAt("domain", <<>>, seq, g, s)
    BY DEF FoldAt, FoldOne
  <1> HIDE DEF MergeAt
  <1>3. \E g : Folding("domain", <<>>, seq, g) /\ g = [s \in SUBSET (DOMAIN seq) |-> g[s]]
    <2>1. HasFold("domain", <<>>, seq)
      BY ONLY IsList(seq), FoldExists
    <2>2. QED BY <2>1 DEF HasFold
  <1>4. \E g : g = [s \in SUBSET (DOMAIN seq) |-> MergeAt(g, s)]
    BY <1>2, <1>3 DEF Folding
  <1>5. F = [s \in SUBSET (DOMAIN seq) |-> MergeAt(F, s)]
    BY <1>4
  <1> HIDE DEF F
  <1>6. Folding("domain", <<>>, seq, F)
    BY <1>2, <1>5 DEF Folding
  <1>7. QED BY <1>1, <1>6

-----------------------------------------------------------------------------
\* What the table may become while a task is saved.
LEMMA FollowsChain ==
  ASSUME NEW u, NEW t, NEW s, TableOK(s), TableOK(t), Follows(u, t), Follows(t, s)
  PROVE  Follows(u, s)
  <1>1. /\ DOMAIN t = 1 .. Len(t) /\ Len(t) \in Nat
        /\ DOMAIN s = 1 .. Len(s) /\ Len(s) \in Nat
        /\ DOMAIN u = 1 .. Len(u) /\ Len(u) \in Nat
    BY ListIs DEF TableOK, Follows
  <1>2. Len(u) >= Len(t) /\ Len(t) >= Len(s)
    BY DEF Follows
  <1>3. Len(u) >= Len(s) /\ DOMAIN s \subseteq DOMAIN t /\ DOMAIN t \subseteq DOMAIN u
    BY <1>1, <1>2
  <1>4. ASSUME NEW n \in DOMAIN s
        PROVE  /\ u[n].run = s[n].run /\ u[n].company.id = s[n].company.id
               /\ Extends(u[n].company, s[n].company)
    <2>1. /\ u[n].run = t[n].run /\ u[n].company.id = t[n].company.id
          /\ Extends(u[n].company, t[n].company)
      BY <1>3 DEF Follows
    <2>2. /\ t[n].run = s[n].run /\ t[n].company.id = s[n].company.id
          /\ Extends(t[n].company, s[n].company)
      BY DEF Follows
    <2>3. QED BY <2>1, <2>2, ExtendsChain
  <1>5. ASSUME NEW n \in DOMAIN u, n \notin DOMAIN s PROVE u[n].run = task.run
    <2>1. CASE n \in DOMAIN t
      <3>1. u[n].run = t[n].run /\ t[n].run = task.run
        BY <1>5, <2>1 DEF Follows
      <3>2. QED BY <3>1
    <2>2. CASE n \notin DOMAIN t
      BY <2>2 DEF Follows
    <2>3. QED BY <2>1, <2>2
  <1>6. TableOK(u) /\ \E n \in DOMAIN u : u[n].run = task.run
    BY DEF Follows
  <1>7. QED BY <1>3, <1>4, <1>5, <1>6 DEF Follows

After(u) == u = records \/ Follows(u, records)

LEMMA AfterOneMore ==
  ASSUME TableOK(records), NEW t, After(t), NEW c, IsCompany(c), Contactable(c),
         NEW u \in Saved(t, c)
  PROVE  After(u)
  <1>1. TableOK(t)
    BY DEF After, Follows
  <1>2. Follows(u, t)
    BY <1>1, SaveFlags
  <1>3. QED BY <1>1, <1>2, FollowsChain DEF After

LEMMA AfterExpects ==
  ASSUME TableOK(records), NEW t, After(t), NEW c, IsCompany(c), Known(c, task.run)
  PROVE  Expected(c, t)
  <1> SUFFICES ASSUME c.id # Absent
               PROVE  \E n \in DOMAIN t : /\ t[n].company.id = c.id
                                          /\ Agreeing(c, t[n].company) # {}
    BY DEF Expected
  <1>1. PICK n \in DOMAIN records :
           records[n].company.id = c.id /\ Extends(c, records[n].company)
    BY DEF Known
  <1>2. IsCompany(records[n].company) /\ Contactable(records[n].company)
    BY DEF TableOK, IsRow
  <1>3. n \in DOMAIN t /\ t[n].company.id = c.id /\ Extends(t[n].company, records[n].company)
        /\ IsCompany(t[n].company)
    <2>1. CASE t = records
      BY <1>1, <1>2, <2>1 DEF Extends
    <2>2. CASE Follows(t, records)
      <3>1. DOMAIN records = 1 .. Len(records) /\ Len(records) \in Nat
            /\ DOMAIN t = 1 .. Len(t) /\ Len(t) \in Nat
        BY <2>2, ListIs DEF Follows, TableOK
      <3>2. n \in DOMAIN t
        BY <2>2, <3>1 DEF Follows
      <3>3. QED BY <1>1, <2>2, <3>2 DEF Follows, TableOK, IsRow
    <2>3. QED BY <2>1, <2>2 DEF After
  <1>4. Agreeing(c, t[n].company) # {}
    BY <1>1, <1>2, <1>3, ExtensionsAgree
  <1>5. QED BY <1>3, <1>4

\* What a task has to save.
ToSave(c) == IsCompany(c) /\ Contactable(c) /\ Known(c, task.run)

\* All the tables that a save may give.
Tables == FoldLeft(LAMBDA ts, c : UNION {Saved(t, c) : t \in ts}, {records}, task.found)

LEMMA TablesFollow ==
  ASSUME TableOK(records), IsList(task.found), \A n \in DOMAIN task.found : ToSave(task.found[n])
  PROVE  /\ \A u \in Tables : After(u)
         /\ Alone(records, task.run) /\ KeysKept(records) =>
              Tables # {} /\ \A u \in Tables : Alone(u, task.run) /\ KeysKept(u)
  <1> PICK seq : seq = task.found
    OBVIOUS
  <1>1. PICK g : Folding("save", {records}, seq, g) /\ Tables = g[DOMAIN seq]
    BY SavesFold DEF Tables
  <1>2. /\ g[1 .. 0] = {records}
        /\ \A n \in DOMAIN seq : g[1 .. n] = FoldOne("save", seq[n], g[1 .. n - 1])
        /\ g[DOMAIN seq] = g[1 .. Len(seq)]
        /\ DOMAIN seq = 1 .. Len(seq) /\ Len(seq) \in Nat
    BY <1>1, FoldSteps, ListIs
  <1> DEFINE Fine(n) ==
                 /\ \A u \in g[1 .. n] : After(u)
                 /\ Alone(records, task.run) /\ KeysKept(records) =>
                      g[1 .. n] # {} /\ \A u \in g[1 .. n] : Alone(u, task.run) /\ KeysKept(u)
             P == {n \in Nat : n <= Len(seq) => Fine(n)}
  <1>3. 0 \in P
    BY <1>2 DEF After
  <1>4. ASSUME NEW n \in Nat, n \in P PROVE n + 1 \in P
    <2> SUFFICES ASSUME n + 1 <= Len(seq) PROVE Fine(n + 1)
      OBVIOUS
    <2>1. Fine(n) /\ n + 1 \in DOMAIN seq /\ n + 1 - 1 = n
      BY <1>2, <1>4
    <2> PICK c : c = seq[n + 1]
      OBVIOUS
    <2>2. g[1 .. n + 1] = UNION {Saved(t, c) : t \in g[1 .. n]}
      <3>1. g[1 .. n + 1] = FoldOne("save", c, g[1 .. n])
        BY <1>2, <2>1
      <3>2. QED BY <3>1 DEF FoldOne
    <2>3. IsCompany(c) /\ Contactable(c) /\ Known(c, task.run)
      BY <2>1 DEF ToSave
    <2>4. \A u \in g[1 .. n + 1] : After(u)
      BY <2>1, <2>2, <2>3, AfterOneMore
    <2>5. ASSUME Alone(records, task.run), KeysKept(records)
          PROVE  /\ g[1 .. n + 1] # {}
                 /\ \A u \in g[1 .. n + 1] : Alone(u, task.run) /\ KeysKept(u)
      <3>1. ASSUME NEW t \in g[1 .. n]
            PROVE  /\ Saved(t, c) # {}
                   /\ \A u \in Saved(t, c) : Alone(u, task.run) /\ KeysKept(u)
        <4>1. After(t) /\ Alone(t, task.run) /\ KeysKept(t)
          BY <2>1, <2>5
        <4>2. TableOK(t) /\ Expected(c, t)
          BY <2>3, <4>1, AfterExpects DEF After, Follows
        <4>3. QED BY <2>3, <4>1, <4>2, SaveSucceeds, SaveKeepsKeys
      <3>2. g[1 .. n] # {}
        BY <2>1, <2>5
      <3>3. QED BY <2>2, <3>1, <3>2
    <2>6. QED BY <2>4, <2>5
  <1>5. Len(seq) \in P
    <2> HIDE DEF P
    <2>1. QED BY <1>2, <1>3, <1>4, Induction
  <1>6. Fine(Len(seq))
    BY <1>2, <1>5
  <1>7. QED BY <1>1, <1>2, <1>6
-----------------------------------------------------------------------------
\* What a search gives: companies that nobody has saved.
Fresh(s) == IsList(s) /\ \A n \in DOMAIN s : IsCompany(s[n]) /\ s[n].id = Absent

LEMMA MergeIsCompany ==
  ASSUME NEW e, NEW c, IsCompany(e), IsCompany(c), NEW m, m = MergeExact(e, c)
  PROVE  IsCompany(m) /\ m.id = e.id
  <1>1. /\ DOMAIN m = Fields /\ DOMAIN m.ids = Range(SourceNames)
        /\ m.id = e.id /\ m.rut = Filled(e.rut, c.rut)
    BY DEF MergeExact, IsCompany, Fields
  <1>2. QED BY <1>1 DEF IsCompany, Filled

\* The elements of a list that are in a set, and those of two lists.
IsPart(part, seq, set) ==
    /\ IsList(part)
    /\ \A k \in DOMAIN part : part[k] \in set /\ \E n \in DOMAIN seq : part[k] = seq[n]

IsJoin(u, s, t) ==
    /\ IsList(u)
    /\ \A n \in DOMAIN u : \/ \E i \in DOMAIN s : u[n] = s[i]
                           \/ \E i \in DOMAIN t : u[n] = t[i]

LEMMA PartIsList ==
  ASSUME NEW seq, IsList(seq), NEW set, NEW part, part = Among(seq, set)
  PROVE  IsPart(part, seq, set)
  <1> PICK S : S = Range(seq)
    OBVIOUS
  <1>1. seq \in Seq(S) /\ DOMAIN seq = 1 .. Len(seq)
    BY ListIs DEF IsList
  <1>2. Selected(part, seq, S, set)
    BY <1>1, AmongSelects
  <1>3. part \in Seq(S \cap set)
    BY <1>2 DEF Selected
  <1>4. IsList(part) /\ DOMAIN part = 1 .. Len(part)
    BY <1>3, SequenceIsList, ListIs
  <1>5. \A k \in DOMAIN part : part[k] \in set
    BY <1>3, <1>4
  <1>6. \A k \in DOMAIN part : \E n \in DOMAIN seq : part[k] = seq[n]
    BY <1>1, <1>2, <1>4 DEF Selected
  <1>7. QED BY <1>4, <1>5, <1>6 DEF IsPart

LEMMA JoinedLists ==
  ASSUME NEW s, NEW t, IsList(s), IsList(t), NEW u, u = s \o t
  PROVE  IsJoin(u, s, t)
  <1> PICK S : S = Range(s) \cup Range(t)
    OBVIOUS
  <1>1. /\ Len(s) \in Nat /\ DOMAIN s = 1 .. Len(s) /\ s = [n \in 1 .. Len(s) |-> s[n]]
        /\ Len(t) \in Nat /\ DOMAIN t = 1 .. Len(t) /\ t = [n \in 1 .. Len(t) |-> t[n]]
    BY ListIs
  <1>2. s \in Seq(S) /\ t \in Seq(S)
    <2>1. s \in [1 .. Len(s) -> S] /\ t \in [1 .. Len(t) -> S]
      BY <1>1 DEF Range
    <2>2. \A n \in Nat : [1 .. n -> S] \subseteq Seq(S)
      OBVIOUS
    <2>3. QED BY <1>1, <2>1, <2>2
  <1>3. /\ u \in Seq(S) /\ Len(u) = Len(s) + Len(t)
        /\ \A n \in 1 .. Len(s) + Len(t) :
              u[n] = IF n <= Len(s) THEN s[n] ELSE t[n - Len(s)]
    BY <1>2, ConcatProperties
  <1>4. IsList(u) /\ DOMAIN u = 1 .. Len(s) + Len(t)
    BY <1>3, SequenceIsList, ListIs
  <1>5. ASSUME NEW n \in DOMAIN u
        PROVE  \/ \E i \in DOMAIN s : u[n] = s[i]
               \/ \E i \in DOMAIN t : u[n] = t[i]
    <2>1. \/ n \in DOMAIN s /\ n <= Len(s)
          \/ n - Len(s) \in DOMAIN t /\ ~(n <= Len(s))
      BY <1>1, <1>4
    <2>2. QED BY <1>3, <1>4, <2>1
  <1>6. QED BY <1>4, <1>5 DEF IsJoin

\* Research tells no RUT, and gives no id.
LEMMA ResearchIs ==
  ASSUME NEW found, IsList(found), \A n \in DOMAIN found : IsCompany(found[n]),
         NEW s \in AllResearched(found)
  PROVE  /\ IsList(s) /\ DOMAIN s = DOMAIN found
         /\ \A n \in DOMAIN s : IsCompany(s[n]) /\ s[n].id = found[n].id
  <1>1. /\ DOMAIN s = DOMAIN found /\ s = [n \in DOMAIN found |-> s[n]]
        /\ \A n \in DOMAIN found : s[n] \in Researched(found[n])
    BY DEF AllResearched
  <1>2. IsList(s)
    BY <1>1, ListIs, ListMade
  <1>3. ASSUME NEW c, IsCompany(c), NEW r \in Researched(c)
        PROVE  IsCompany(r) /\ r.id = c.id
    <2>1. CASE r = c
      BY <1>3, <2>1
    <2>2. CASE r # c
      <3>1. PICK site : r = [c EXCEPT !.ids["official_website"] = c.domain,
                                      !.phone = Filled(site.phone, @),
                                      !.comuna = Filled(site.comuna, @),
                                      !.address = IF site.comuna = Absent THEN @ ELSE site.address]
        BY <1>3, <2>2 DEF Researched
      <3>2. DOMAIN r = Fields /\ r.id = c.id /\ r.rut = c.rut
            /\ r.ids = [c.ids EXCEPT !["official_website"] = c.domain]
        BY <1>3, <3>1 DEF IsCompany, Fields
      <3>3. DOMAIN r.ids = DOMAIN c.ids
        BY <3>2
      <3>4. QED BY <1>3, <3>2, <3>3 DEF IsCompany
    <2>3. QED BY <2>1, <2>2
  <1>4. QED BY <1>1, <1>2, <1>3

LEMMA OneMergedIs ==
  ASSUME NEW merged, Fresh(merged), NEW c, IsCompany(c), c.id = Absent
  PROVE  Fresh(OneMerged(merged, c))
  <1> PICK n : n = SelectInSeq(merged, LAMBDA e : e.domain = c.domain)
    OBVIOUS
  <1> PICK u : u = OneMerged(merged, c)
    OBVIOUS
  <1>1. u = IF n = 0 THEN Append(merged, c) ELSE [merged EXCEPT ![n] = MergeExact(@, c)]
    BY DEF OneMerged
  <1>2. IsList(merged) /\ DOMAIN merged = 1 .. Len(merged) /\ Len(merged) \in Nat
    BY ListIs DEF Fresh
  <1>3. CASE n = 0
    <2>1. u = Append(merged, c)
      BY <1>1, <1>3
    <2>2. Longer(u, merged, c)
      BY ONLY <1>2, <2>1, OneMore
    <2>3. QED BY <1>2, <2>2 DEF Longer, Fresh
  <1>4. CASE n # 0
    <2>1. u = [i \in DOMAIN merged |->
                  IF i = n THEN MergeExact(merged[n], c) ELSE merged[i]]
      BY <1>1, <1>4
    <2>2. DOMAIN u = DOMAIN merged /\ u = [i \in 1 .. Len(merged) |-> u[i]]
      BY <1>2, <2>1
    <2>3. IsList(u)
      BY <1>2, <2>2, ListMade
    <2>4. ASSUME NEW i \in DOMAIN u PROVE IsCompany(u[i]) /\ u[i].id = Absent
      <3>1. CASE i = n
        BY <2>1, <2>2, <3>1, MergeIsCompany DEF Fresh
      <3>2. CASE i # n
        BY <2>1, <2>2, <3>2 DEF Fresh
      <3>3. QED BY <3>1, <3>2
    <2>5. QED BY <2>3, <2>4 DEF Fresh
  <1>5. QED BY <1>3, <1>4

LEMMA ByDomainIs ==
  ASSUME NEW results, Fresh(results)
  PROVE  Fresh(ByDomain(results))
  <1>1. IsList(results)
    BY DEF Fresh
  <1>2. PICK g : Folding("domain", <<>>, results, g) /\ ByDomain(results) = g[DOMAIN results]
    BY <1>1, DomainsFold
  <1>3. /\ g[1 .. 0] = <<>>
        /\ \A n \in DOMAIN results : g[1 .. n] = FoldOne("domain", results[n], g[1 .. n - 1])
        /\ g[DOMAIN results] = g[1 .. Len(results)]
        /\ DOMAIN results = 1 .. Len(results) /\ Len(results) \in Nat
    BY <1>1, <1>2, FoldSteps, ListIs
  <1> DEFINE P == {n \in Nat : n <= Len(results) => Fresh(g[1 .. n])}
  <1>4. 0 \in P
    <2>1. Fresh(<<>>)
      BY DEF Fresh, IsList
    <2>2. QED BY <1>3, <2>1
  <1>5. ASSUME NEW n \in Nat, n \in P PROVE n + 1 \in P
    <2> SUFFICES ASSUME n + 1 <= Len(results) PROVE Fresh(g[1 .. n + 1])
      OBVIOUS
    <2>1. Fresh(g[1 .. n]) /\ n + 1 \in DOMAIN results /\ n + 1 - 1 = n
      BY <1>3, <1>5
    <2>2. g[1 .. n + 1] = OneMerged(g[1 .. n], results[n + 1])
      BY <1>3, <2>1 DEF FoldOne
    <2>3. IsCompany(results[n + 1]) /\ results[n + 1].id = Absent
      BY <2>1 DEF Fresh
    <2>4. QED BY <2>1, <2>2, <2>3, OneMergedIs
  <1>6. Len(results) \in P
    <2> HIDE DEF P
    <2>1. QED BY <1>3, <1>4, <1>5, Induction
  <1>7. QED BY <1>2, <1>3, <1>6

-----------------------------------------------------------------------------
\* The steps of a task.
LEMMA InitCandidates == CandidatesInit => CandidatesInv
  <1> SUFFICES ASSUME CandidatesInit PROVE CandidatesInv
    OBVIOUS
  <1>1. /\ records = <<>> /\ raised = Absent /\ Absent # "save"
        /\ task = [phase |-> "idle", run |-> Absent, found |-> <<>>]
    BY CandidatesAssumption DEF CandidatesInit, NothingHeld
  <1>2. IsList(<<>>) /\ DOMAIN <<>> = {}
    BY DEF IsList
  <1>3. TableOK(records) /\ KeysKept(records)
    BY <1>1, <1>2 DEF TableOK, KeysKept
  <1>4. FoundOK
    BY <1>1, <1>2 DEF FoundOK
  <1>5. QED BY <1>1, <1>3, <1>4 DEF CandidatesInv, SavesOfOneRunSucceed

\* A worker that is given what a search found.
LEMMA TaskBegins ==
  ASSUME CandidatesInv, NEW run \in Campaigns, NEW stage \in {"gate", "partition"},
         NEW found, Fresh(found),
         task' = [phase |-> stage, run |-> run, found |-> found],
         raised' = Absent, records' = records
  PROVE  CandidatesInv'
  <1>1. /\ DOMAIN task' = {"phase", "run", "found"}
        /\ task'.phase = stage /\ task'.run = run /\ task'.found = found
        /\ raised' # "save"
    BY CandidatesAssumption
  <1>2. FoundOK'
    BY <1>1 DEF FoundOK, Fresh, Known
  <1>3. TableOK(records)' /\ \A r \in Campaigns : Alone(records, r)' => KeysKept(records)'
    BY DEF CandidatesInv
  <1>4. QED BY <1>1, <1>2, <1>3 DEF CandidatesInv, SavesOfOneRunSucceed

LEMMA FoundIsFresh ==
  ASSUME NEW found \in GoogleFinds \cup BraveFinds
  PROVE  Fresh(found)
  BY CandidatesAssumption DEF Fresh, IsList

LEMMA GoogleKeeps ==
  ASSUME CandidatesInv, NEW run \in Campaigns, SearchGoogle(run)
  PROVE  CandidatesInv'
  <1> PICK found \in GoogleFinds :
         \E companies \in AllResearched(found) :
            task' = [phase |-> "gate", run |-> run, found |-> companies]
    BY DEF SearchGoogle
  <1>1. PICK companies \in AllResearched(found) :
           task' = [phase |-> "gate", run |-> run, found |-> companies]
    OBVIOUS
  <1>2. Fresh(found)
    BY FoundIsFresh
  <1>3. Fresh(companies)
    BY <1>2, ResearchIs DEF Fresh
  <1>4. raised' = Absent /\ records' = records
    BY DEF SearchGoogle
  <1>5. QED BY <1>1, <1>3, <1>4, TaskBegins

\* A task that ends.
LEMMA TaskEnds ==
  ASSUME CandidatesInv, task' = [phase |-> "idle", run |-> task'.run, found |-> <<>>],
         TableOK(records)',
         \A run \in Campaigns : Alone(records, run)' => KeysKept(records)',
         SavesOfOneRunSucceed'
  PROVE  CandidatesInv'
  <1>1. /\ DOMAIN task' = {"phase", "run", "found"}
        /\ task'.phase = "idle" /\ task'.found = <<>>
    <2> PICK r : r = task'.run
      OBVIOUS
    <2>1. task' = [phase |-> "idle", run |-> r, found |-> <<>>]
      OBVIOUS
    <2>2. QED BY <2>1
  <1>2. FoundOK'
    BY <1>1 DEF FoundOK, IsList
  <1>3. QED BY <1>1, <1>2 DEF CandidatesInv

LEMMA Aborted ==
  ASSUME NEW where, Abort(where)
  PROVE  /\ task' = [phase |-> "idle", run |-> task.run, found |-> <<>>] /\ task'.run = task.run
         /\ raised' = where /\ records' = records
  BY DEF Abort, NothingHeld

LEMMA BraveKeeps ==
  ASSUME CandidatesInv, NEW run \in Campaigns, SearchBrave(run)
  PROVE  CandidatesInv'
  <1>1. PICK results \in BraveFinds :
           IF Refused(results)
           THEN Abort("search")
           ELSE /\ task' = [phase |-> "partition", run |-> run, found |-> ByDomain(results)]
                /\ raised' = Absent /\ UNCHANGED <<records, tasksDone>>
    BY DEF SearchBrave
  <1>2. CASE Refused(results)
    <2>1. /\ task' = [phase |-> "idle", run |-> task'.run, found |-> <<>>]
          /\ raised' = "search" /\ records' = records
      BY <1>1, <1>2, Aborted
    <2>2. TableOK(records)' /\ \A r \in Campaigns : Alone(records, r)' => KeysKept(records)'
      BY <2>1 DEF CandidatesInv
    <2>3. SavesOfOneRunSucceed'
      BY <2>1 DEF SavesOfOneRunSucceed
    <2>4. QED BY <2>1, <2>2, <2>3, TaskEnds
  <1>3. CASE ~Refused(results)
    <2>1. Fresh(ByDomain(results))
      BY FoundIsFresh, ByDomainIs
    <2>2. QED BY <1>1, <1>3, <2>1, TaskBegins
  <1>4. QED BY <1>2, <1>3

\* A task that goes on, with companies that it has to save.
LEMMA TaskGoesOn ==
  ASSUME CandidatesInv, task.phase # "idle", NEW stage \in {"gate", "save"},
         NEW found, IsList(found),
         \A n \in DOMAIN found : /\ IsCompany(found[n]) /\ Known(found[n], task.run)
                                 /\ stage = "save" => Contactable(found[n]),
         task' = [task EXCEPT !.phase = stage, !.found = found],
         raised' = raised, records' = records
  PROVE  CandidatesInv'
  <1>1. /\ DOMAIN task' = {"phase", "run", "found"}
        /\ task'.phase = stage /\ task'.run = task.run /\ task'.found = found
    BY DEF CandidatesInv
  <1>2. FoundOK'
    BY <1>1 DEF FoundOK, Known
  <1>3. TableOK(records)' /\ \A r \in Campaigns : Alone(records, r)' => KeysKept(records)'
    BY DEF CandidatesInv
  <1>4. raised' # "save" /\ task'.run \in Campaigns
    BY <1>1 DEF CandidatesInv
  <1>5. QED BY <1>1, <1>2, <1>3, <1>4 DEF CandidatesInv, SavesOfOneRunSucceed

LEMMA GateKeeps == ASSUME CandidatesInv, Gate PROVE CandidatesInv'
  <1> PICK set : set = {c \in Range(task.found) : Contactable(c)}
    OBVIOUS
  <1> PICK found : found = Among(task.found, set)
    OBVIOUS
  <1>1. /\ task.phase = "gate"
        /\ task' = [task EXCEPT !.phase = "save", !.found = found]
        /\ raised' = raised /\ records' = records
    BY DEF Gate, CandidatesInv
  <1>2. /\ IsList(found)
        /\ \A k \in DOMAIN found : /\ found[k] \in set
                                   /\ \E n \in DOMAIN task.found : found[k] = task.found[n]
    <2>1. IsList(task.found)
      BY DEF CandidatesInv, FoundOK
    <2>2. IsPart(found, task.found, set)
      BY <2>1, PartIsList
    <2>3. QED BY <2>2 DEF IsPart
  <1>3. \A n \in DOMAIN task.found : IsCompany(task.found[n]) /\ Known(task.found[n], task.run)
    BY DEF CandidatesInv, FoundOK
  <1>4. \A k \in DOMAIN found : /\ IsCompany(found[k]) /\ Known(found[k], task.run)
                                /\ Contactable(found[k])
    BY <1>2, <1>3
  <1>5. QED BY <1>1, <1>2, <1>4, TaskGoesOn

\* What a company joins of what the run knows.
LEMMA JoinedIsKnown ==
  ASSUME CandidatesInv, NEW run, NEW c, IsCompany(c), Disposition(c, RowsOf(run)) = "exact_match",
         NEW j, j = MergeExact(CHOOSE e \in RowsOf(run) : e.id = MatchedId(c, RowsOf(run)), c)
  PROVE  IsCompany(j) /\ Known(j, run)
  <1> PICK known : known = RowsOf(run)
    OBVIOUS
  <1> PICK id : id = MatchedId(c, known)
    OBVIOUS
  <1> DEFINE mine == {m \in DOMAIN records : records[m].run = run}
  <1>1. IsFiniteSet(known) /\ known = {records[n].company : n \in mine}
    <2>1. IsFiniteSet({records[n].company : n \in DOMAIN records})
      BY FinitelyKnown DEF CandidatesInv, TableOK
    <2>2. known = {records[n].company : n \in mine}
      BY DEF RowsOf
    <2>3. known \subseteq {records[n].company : n \in DOMAIN records}
      BY <2>2
    <2>4. QED BY <2>1, <2>2, <2>3, FS_Subset
  <1>2. PICK d \in known : Exact(c, d) /\ d.id = id
    <2>1. "exact_match" = Disposition(c, known)
      OBVIOUS
    <2>2. QED BY ONLY <1>1, <2>1, id = MatchedId(c, known), DispositionTells
  <1>3. \A e \in known : e.id = id => e = d
    <2>1. \A m, n \in mine : records[m].company.id = records[n].company.id => m = n
      BY DEF CandidatesInv, TableOK
    <2>2. QED BY <1>1, <1>2, <2>1
  <1>4. j = MergeExact(d, c)
    BY <1>2, <1>3
  <1>5. PICK n \in mine : records[n].company = d
    BY <1>1, <1>2
  <1>6. IsCompany(d) /\ Exact(d, c)
    BY <1>2, <1>5, AgreeBothWays DEF CandidatesInv, TableOK, IsRow
  <1>7. IsCompany(j) /\ j.id = d.id /\ Extends(j, d)
    BY <1>4, <1>6, Merged
  <1>8. QED BY <1>5, <1>7 DEF Known

LEMMA PartitionKeeps == ASSUME CandidatesInv, Partition PROVE CandidatesInv'
  <1> DEFINE known == RowsOf(task.run)
             merging == {c \in Range(task.found) : Disposition(c, known) = "exact_match"}
             Joined(c) == MergeExact(CHOOSE e \in known : e.id = MatchedId(c, known), c)
             novel == Among(task.found, Range(task.found) \ merging)
             merged == Among(task.found, merging)
             joined == [n \in DOMAIN merged |-> Joined(merged[n])]
  <1>1. /\ task.phase = "partition"
        /\ \E companies \in AllResearched(novel) :
             task' = [task EXCEPT !.phase = "gate", !.found = joined \o companies]
        /\ UNCHANGED <<records, raised, tasksDone>>
    BY DEF Partition
  <1> HIDE DEF known, merging, Joined, novel, merged, joined
  <1> PICK companies \in AllResearched(novel) :
         task' = [task EXCEPT !.phase = "gate", !.found = joined \o companies]
    BY <1>1
  <1> PICK found : found = joined \o companies
    OBVIOUS
  <1>2. /\ task.phase = "partition" /\ raised' = raised /\ records' = records
        /\ task' = [task EXCEPT !.phase = "gate", !.found = found]
    BY <1>1
  <1>3. /\ IsList(task.found)
        /\ \A n \in DOMAIN task.found : IsCompany(task.found[n]) /\ task.found[n].id = Absent
    BY <1>2 DEF CandidatesInv, FoundOK
  <1>4. /\ IsList(merged)
        /\ \A k \in DOMAIN merged : /\ merged[k] \in merging
                                    /\ \E n \in DOMAIN task.found : merged[k] = task.found[n]
    <2>1. merged = Among(task.found, merging)
      BY DEF merged
    <2>2. IsPart(merged, task.found, merging)
      BY ONLY <1>3, <2>1, PartIsList
    <2>3. QED BY <2>2 DEF IsPart
  <1>5. /\ IsList(novel)
        /\ \A k \in DOMAIN novel : \E n \in DOMAIN task.found : novel[k] = task.found[n]
    <2> PICK others : others = Range(task.found) \ merging
      OBVIOUS
    <2>1. novel = Among(task.found, others)
      BY DEF novel
    <2>2. IsPart(novel, task.found, others)
      BY ONLY <1>3, <2>1, PartIsList
    <2>3. QED BY <2>2 DEF IsPart
  <1>6. /\ IsList(joined)
        /\ \A k \in DOMAIN joined : IsCompany(joined[k]) /\ Known(joined[k], task.run)
    <2>1. joined = [n \in 1 .. Len(merged) |-> joined[n]] /\ Len(merged) \in Nat
          /\ DOMAIN joined = DOMAIN merged
      BY <1>4, ListIs DEF joined
    <2>2. IsList(joined)
      BY <2>1, ListMade
    <2>3. ASSUME NEW k \in DOMAIN joined
          PROVE  IsCompany(joined[k]) /\ Known(joined[k], task.run)
      <3> PICK c : c = merged[k]
        OBVIOUS
      <3>1. IsCompany(c) /\ Disposition(c, RowsOf(task.run)) = "exact_match"
        BY <1>3, <1>4, <2>1 DEF merging, known
      <3>2. joined[k] = MergeExact(CHOOSE e \in RowsOf(task.run) :
                                       e.id = MatchedId(c, RowsOf(task.run)), c)
        BY <2>1 DEF joined, Joined, known
      <3>3. QED BY <3>1, <3>2, JoinedIsKnown
    <2>4. QED BY <2>2, <2>3
  <1>7. /\ IsList(companies)
        /\ \A k \in DOMAIN companies : IsCompany(companies[k]) /\ Known(companies[k], task.run)
    <2>1. \A k \in DOMAIN novel : IsCompany(novel[k]) /\ novel[k].id = Absent
      BY <1>3, <1>5
    <2>2. /\ IsList(companies) /\ DOMAIN companies = DOMAIN novel
          /\ \A k \in DOMAIN companies : /\ IsCompany(companies[k])
                                         /\ companies[k].id = novel[k].id
      BY <1>5, <2>1, ResearchIs
    <2>3. \A k \in DOMAIN companies : companies[k].id = Absent
      BY <2>1, <2>2
    <2>4. QED BY <2>2, <2>3 DEF Known
  <1>8. /\ IsList(found)
        /\ \A n \in DOMAIN found : \/ \E i \in DOMAIN joined : found[n] = joined[i]
                                   \/ \E i \in DOMAIN companies : found[n] = companies[i]
    <2>1. IsJoin(found, joined, companies)
      BY <1>6, <1>7, JoinedLists
    <2>2. QED BY <2>1 DEF IsJoin
  <1>9. ASSUME NEW n \in DOMAIN found
        PROVE  IsCompany(found[n]) /\ Known(found[n], task.run)
    <2>1. CASE \E i \in DOMAIN joined : found[n] = joined[i]
      BY <1>6, <2>1
    <2>2. CASE \E i \in DOMAIN companies : found[n] = companies[i]
      BY <1>7, <2>2
    <2>3. QED BY <1>8, <2>1, <2>2
  <1>10. QED BY <1>2, <1>8, <1>9, TaskGoesOn

LEMMA SaveKeeps == ASSUME CandidatesInv, Save PROVE CandidatesInv'
  <1>1. /\ task.phase = "save" /\ task.run \in Campaigns
        /\ TableOK(records)
        /\ \A run \in Campaigns : Alone(records, run) => KeysKept(records)
        /\ IsList(task.found) /\ \A n \in DOMAIN task.found : ToSave(task.found[n])
        /\ raised # "save"
    BY DEF Save, CandidatesInv, FoundOK, ToSave
  <1>2. /\ \A u \in Tables : After(u)
        /\ Alone(records, task.run) /\ KeysKept(records) =>
             Tables # {} /\ \A u \in Tables : Alone(u, task.run) /\ KeysKept(u)
    BY <1>1, TablesFollow
  <1>3. IF Tables = {} THEN Abort("save")
        ELSE /\ records' \in Tables /\ task' = NothingHeld
             /\ tasksDone' = tasksDone + 1 /\ UNCHANGED raised
    BY DEF Save, Tables
  <1>4. CASE Tables = {}
    <2>1. /\ task' = [phase |-> "idle", run |-> task'.run, found |-> <<>>]
          /\ task'.run = task.run /\ records' = records
      BY <1>3, <1>4, Aborted
    <2>2. ~Alone(records, task.run)
      BY <1>1, <1>2, <1>4
    <2>3. SavesOfOneRunSucceed'
      BY <2>1, <2>2 DEF SavesOfOneRunSucceed, Alone
    <2>4. TableOK(records)' /\ \A r \in Campaigns : Alone(records, r)' => KeysKept(records)'
      BY <1>1, <2>1
    <2>5. QED BY <2>1, <2>3, <2>4, TaskEnds
  <1>5. CASE Tables # {}
    <2> PICK u : u = records'
      OBVIOUS
    <2>1. /\ u \in Tables /\ raised' = raised
          /\ task' = [phase |-> "idle", run |-> task'.run, found |-> <<>>]
      BY <1>3, <1>5 DEF NothingHeld
    <2>2. After(u)
      BY <1>2, <2>1
    <2>3. TableOK(u)
      BY <1>1, <2>2 DEF After, Follows
    <2>4. ASSUME NEW run \in Campaigns, Alone(u, run) PROVE KeysKept(u)
      <3>1. CASE u = records
        BY <1>1, <2>4, <3>1
      <3>2. CASE Follows(u, records)
        <4>1. run = task.run
          BY <2>4, <3>2 DEF Follows, Alone
        <4>2. DOMAIN records \subseteq DOMAIN u
          <5>1. /\ DOMAIN u = 1 .. Len(u) /\ DOMAIN records = 1 .. Len(records)
                /\ Len(u) \in Nat /\ Len(records) \in Nat /\ Len(u) >= Len(records)
            BY <1>1, <2>3, <3>2, ListIs DEF Follows, TableOK
          <5>2. QED BY <5>1
        <4>3. Alone(records, task.run)
          BY <2>4, <3>2, <4>1, <4>2 DEF Follows, Alone
        <4>4. QED BY <1>1, <1>2, <2>1, <4>3
      <3>3. QED BY <2>2, <3>1, <3>2 DEF After
    <2>5. TableOK(records)' /\ \A r \in Campaigns : Alone(records, r)' => KeysKept(records)'
      BY <2>3, <2>4
    <2>6. SavesOfOneRunSucceed'
      BY <1>1, <2>1 DEF SavesOfOneRunSucceed
    <2>7. QED BY <2>1, <2>5, <2>6, TaskEnds
  <1>6. QED BY <1>4, <1>5

LEMMA NextCandidates == CandidatesInv /\ [CandidatesNext]_candidateVars => CandidatesInv'
  <1> SUFFICES ASSUME CandidatesInv, [CandidatesNext]_candidateVars PROVE CandidatesInv'
    OBVIOUS
  <1>1. ASSUME NEW run \in Campaigns, SearchGoogle(run) PROVE CandidatesInv'
    BY <1>1, GoogleKeeps
  <1>2. ASSUME NEW run \in Campaigns, SearchBrave(run) PROVE CandidatesInv'
    BY <1>2, BraveKeeps
  <1>3. CASE Partition
    BY <1>3, PartitionKeeps
  <1>4. CASE Gate
    BY <1>4, GateKeeps
  <1>5. CASE Save
    BY <1>5, SaveKeeps
  <1>6. CASE UNCHANGED candidateVars
    <2>1. records' = records /\ task' = task /\ raised' = raised
      BY <1>6 DEF candidateVars
    <2>2. QED BY <2>1 DEF CandidatesInv, FoundOK, Known, SavesOfOneRunSucceed
  <1>7. QED BY <1>1, <1>2, <1>3, <1>4, <1>5, <1>6 DEF CandidatesNext

-----------------------------------------------------------------------------
\* Two records that share an identifier are one entity, or the id of one of them
\* tells for good that it was put up for a review (dedup.py:155-225, store.py:811-905).
THEOREM TwinsAlwaysFlagged == CandidatesSpec => []TwinsAreFlagged
  <1>1. CandidatesInv => TwinsAreFlagged
    BY DEF CandidatesInv, TableOK, Flagged, TwinsAreFlagged
  <1>2. QED BY <1>1, InitCandidates, NextCandidates, PTL DEF CandidatesSpec

\* As long as only one run has found companies, save_candidates raises for none of
\* them, however often each is found (store.py:795-933).
THEOREM OneRunAlwaysSaves == CandidatesSpec => []SavesOfOneRunSucceed
  <1>1. CandidatesInv => SavesOfOneRunSucceed
    BY DEF CandidatesInv
  <1>2. QED BY <1>1, InitCandidates, NextCandidates, PTL DEF CandidatesSpec
=============================================================================
