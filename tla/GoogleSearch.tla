---------------------------- MODULE GoogleSearch ----------------------------
(***************************************************************************)
(* Searches of Google Places (AuthorizedSourceExecutor._google) and the    *)
(* budget that every paid request is reserved from first                   *)
(* (PersistentGooglePlacesBudget).                                         *)
(*                                                                         *)
(* A reservation reads the clock, begins a transaction, waits for the      *)
(* advisory lock, adds up the query log and inserts its row.  Days may     *)
(* pass in between.  The row is dated by the database when the transaction *)
(* begins.  Processes that stop lose their transaction and its lock.       *)
(***************************************************************************)
EXTENDS Integers

CONSTANTS Searches,      \* searches of tasks, by any process
          NoSearch,      \* nobody holds the lock
          Runs,
          RunOf,         \* the run each search belongs to
          Queries,       \* google_places_queries_per_task
          PageLimit,     \* google_places_pages_per_query
          DetailLimit,   \* max_results * google_places_detail_multiplier
          Cost,          \* COST_ESTIMATE_USD, by kind of request
          RunBudget, DailyBudget, MonthlyBudget,
          DaysPerMonth,
          LastDay        \* bound on the passage of time

Kinds == {"text", "details"}

ASSUME GoogleAssumption ==
    /\ NoSearch \notin Searches
    /\ RunOf \in [Searches -> Runs]
    /\ {Queries, PageLimit, DaysPerMonth} \subseteq Nat \ {0}
    /\ {DetailLimit, LastDay, RunBudget, DailyBudget, MonthlyBudget} \subseteq Nat
    /\ Cost \in [Kinds -> Nat \ {0}]

VARIABLES day,    \* the clock, in days
          log,    \* google_maps_query_log, by the sums that are asked of it:
                  \* cost of the rows of a run, cost of the rows since a day
          lock,   \* holder of the advisory lock
          pc,
          kind,   \* requests for pages, then for details
          query,  \* queries left, the one in hand included
          page,   \* pages asked for of the query in hand
          left,   \* details left
          asked,  \* day read by reserve
          stamp,  \* day its transaction began
          spend   \* what it added up

progress == <<kind, query, page, left>>
reserving == <<asked, stamp, spend>>
googleVars == <<day, log, lock, pc, progress, reserving>>

Days == 0 .. LastDay
Month(d) == d \div DaysPerMonth
NoSpend == [run |-> 0, daily |-> 0, monthly |-> 0]

GoogleInit ==
    /\ day = 0
    /\ log = [run |-> [r \in Runs |-> 0], since |-> [d \in Days |-> 0]]
    /\ lock = NoSearch
    /\ pc = [s \in Searches |-> "ask"]
    /\ kind = [s \in Searches |-> "text"]
    /\ query = [s \in Searches |-> Queries]
    /\ page = [s \in Searches |-> 0]
    /\ left = [s \in Searches |-> 0]
    /\ asked = [s \in Searches |-> 0]
    /\ stamp = [s \in Searches |-> 0]
    /\ spend = [s \in Searches |-> NoSpend]

Goto(s, label) == pc' = [pc EXCEPT ![s] = label]

-----------------------------------------------------------------------------
(* reserve.                                                                *)

Ask(s) ==
    /\ pc[s] = "ask"
    /\ asked' = [asked EXCEPT ![s] = day]
    /\ Goto(s, "begin")
    /\ UNCHANGED <<day, log, lock, progress, stamp, spend>>

Begin(s) ==
    /\ pc[s] = "begin"
    /\ stamp' = [stamp EXCEPT ![s] = day]
    /\ Goto(s, "wait")
    /\ UNCHANGED <<day, log, lock, progress, asked, spend>>

FirstOfMonth(d) == Month(d) * DaysPerMonth

\* _spend has no upper bound of time: a row dated after day now counts too.
Totals(run, now) ==
    [run |-> log.run[run], daily |-> log.since[now],
     monthly |-> log.since[FirstOfMonth(now)]]

\* Mutant: nobody waits for the lock.
LockAtOnce(s) ==
    /\ pc[s] = "wait"
    /\ lock' = s
    /\ spend' = [spend EXCEPT ![s] = Totals(RunOf[s], asked[s])]
    /\ Goto(s, "decide")
    /\ UNCHANGED <<day, log, progress, asked, stamp>>

Lock(s) ==
    /\ pc[s] = "wait"
    /\ lock = NoSearch
    /\ lock' = s
    /\ spend' = [spend EXCEPT ![s] = Totals(RunOf[s], asked[s])]
    /\ Goto(s, "decide")
    /\ UNCHANGED <<day, log, progress, asked, stamp>>

\* _decision.
Allowed(total, cost) ==
    /\ total.run + cost <= RunBudget
    /\ total.daily + cost <= DailyBudget
    /\ total.monthly + cost <= MonthlyBudget

\* The search goes on to the details of some of the places it found.
AskDetails(s) ==
    /\ kind' = [kind EXCEPT ![s] = "details"]
    /\ \E n \in 0 .. DetailLimit :
         /\ left' = [left EXCEPT ![s] = n]
         /\ Goto(s, IF n = 0 THEN "done" ELSE "ask")
    /\ UNCHANGED <<query, page>>

\* Mutant: a refusal leaves the transaction open.
KeepLock == UNCHANGED lock

\* The advisory lock is the transaction's, however it ends.
Unlock == lock' = NoSearch

\* reserve returns: what it read is gone.
Return(s) ==
    /\ asked' = [asked EXCEPT ![s] = 0]
    /\ stamp' = [stamp EXCEPT ![s] = 0]
    /\ spend' = [spend EXCEPT ![s] = NoSpend]

\* A row for a run, dated on a day.
Insert(run, date, cost) ==
    log' = [run   |-> [log.run EXCEPT ![run] = @ + cost],
            since |-> [d \in Days |-> log.since[d] + IF d <= date THEN cost ELSE 0]]

Reserve(s) ==
    /\ pc[s] = "decide"
    /\ Allowed(spend[s], Cost[kind[s]])
    /\ Insert(RunOf[s], stamp[s], Cost[kind[s]])
    /\ Unlock
    /\ Goto(s, "request")
    /\ Return(s)
    /\ UNCHANGED <<day, progress>>

\* A refusal ends the pages of every query, but the places found so far still
\* get their details as long as the budget allows these.
Refuse(s) ==
    /\ pc[s] = "decide"
    /\ ~Allowed(spend[s], Cost[kind[s]])
    /\ Unlock
    /\ IF kind[s] = "text" THEN AskDetails(s) ELSE Goto(s, "done") /\ UNCHANGED progress
    /\ Return(s)
    /\ UNCHANGED <<day, log>>

-----------------------------------------------------------------------------
(* The requests.                                                           *)

\* A page came with a token for the next one.
NextPage(s) ==
    /\ pc[s] = "request" /\ kind[s] = "text"
    /\ page[s] + 1 < PageLimit
    /\ page' = [page EXCEPT ![s] = @ + 1]
    /\ Goto(s, "ask")
    /\ UNCHANGED <<day, log, lock, kind, query, left, reserving>>

\* The last page of a query.
NextQuery(s) ==
    /\ pc[s] = "request" /\ kind[s] = "text"
    /\ IF query[s] = 1
       THEN AskDetails(s)
       ELSE /\ query' = [query EXCEPT ![s] = @ - 1]
            /\ page' = [page EXCEPT ![s] = 0]
            /\ Goto(s, "ask")
            /\ UNCHANGED <<kind, left>>
    /\ UNCHANGED <<day, log, lock, reserving>>

NextDetails(s) ==
    /\ pc[s] = "request" /\ kind[s] = "details"
    /\ left' = [left EXCEPT ![s] = @ - 1]
    /\ Goto(s, IF left[s] = 1 THEN "done" ELSE "ask")
    /\ UNCHANGED <<day, log, lock, kind, query, page, reserving>>

\* Google answers with an error, or the process stops; what was reserved
\* remains reserved.
Stop(s) ==
    /\ pc[s] # "done"
    /\ Goto(s, "done")
    /\ lock' = IF lock = s THEN NoSearch ELSE lock
    /\ Return(s)
    /\ UNCHANGED <<day, log, progress>>

Midnight ==
    /\ day < LastDay
    /\ day' = day + 1
    /\ UNCHANGED <<log, lock, pc, progress, reserving>>

Step(s) ==
    \/ Ask(s) \/ Begin(s) \/ Lock(s) \/ Reserve(s) \/ Refuse(s)
    \/ NextPage(s) \/ NextQuery(s) \/ NextDetails(s)

GoogleNext == Midnight \/ \E s \in Searches : Step(s) \/ Stop(s)

\* An advisory lock is granted to whoever waits for it: searches are finite, so
\* a holder cannot come back for ever.
GoogleSpec == GoogleInit /\ [][GoogleNext]_googleVars /\ \A s \in Searches : WF_googleVars(Step(s))

-----------------------------------------------------------------------------
(* Properties.                                                             *)

\* Cost of the rows of the days from first up to, and without, next.
Charged(first, next) ==
    log.since[first] - IF next \in Days THEN log.since[next] ELSE 0

\* Whatever searches run at once and however long a reservation waits, past
\* midnight or the end of a month, no run, no day and no month is charged more
\* than its budget.
WithinBudgets ==
    /\ \A r \in Runs : log.run[r] <= RunBudget
    /\ \A d \in Days : Charged(d, d + 1) <= DailyBudget
    /\ \A d \in Days :
         Charged(FirstOfMonth(d), FirstOfMonth(d) + DaysPerMonth) <= MonthlyBudget

\* Every search ends: a refused, failed or interrupted reservation does not
\* leave the others waiting for its lock.
SearchesEnd == \A s \in Searches : <>(pc[s] = "done")
=============================================================================
