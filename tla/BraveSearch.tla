----------------------------- MODULE BraveSearch -----------------------------
(***************************************************************************)
(* Searches of Brave (AuthorizedSourceExecutor._brave), the connectivity   *)
(* check of the integration monitor, and the budget they share             *)
(* (PersistentBraveSearchBudget), within one month.                        *)
(*                                                                         *)
(* The usage of the month is what the provider last said in the headers of *)
(* an answer, plus the rows of the query log dated after that was stored.  *)
(* A row is dated when the transaction of its reservation begins.  Dates   *)
(* matter only by their order, so time is the number of reservations begun *)
(* so far.  A query costs one unit.                                        *)
(***************************************************************************)
EXTENDS Naturals, FiniteSets, Sequences

CONSTANTS Searches,    \* processes that search, one task after the other
          Monitor,     \* the process of the connectivity checks
          Nobody,
          Plan,        \* kinds of the queries of a search, in order
          Limit,       \* monthly limit, in queries
          SocialLimit, \* max_social_queries_per_campaign
          MaxRuns,     \* bound on the searches a process begins
          MaxChecks,   \* bound on the checks
          MaxFaults    \* bound on the requests that tell no usage, and on stops

Processes == Searches \cup {Monitor}

ASSUME BraveAssumption ==
    /\ Monitor \notin Searches
    /\ Nobody \notin Searches
    /\ IsFiniteSet(Searches) /\ Searches # {}
    /\ Plan \in Seq({"discovery", "social"})
    /\ {Limit, SocialLimit, MaxRuns, MaxChecks, MaxFaults} \subseteq Nat

VARIABLES log,      \* brave_search_query_log: rows [at, kind] of one campaign run
          synced,   \* brave_usage_reconciliation of the month
          begun,    \* reservations begun
          lock,     \* holder of the advisory lock
          pc,
          next,     \* index of the query in hand
          stamp,    \* date of the reservation in hand
          seen,     \* usage and social queries it added up
          header,   \* usage in the headers of the last answer
          loaded,   \* what reconcile_provider_usage read
          observed, \* and when it began
          charged,  \* queries the provider charged (external)
          lost,     \* and those whose answer was not stored (history)
          runs,     \* searches begun by each process
          checks,   \* checks begun
          faults    \* and faults

store == <<log, synced, begun, lock>>
reserving == <<stamp, seen>>
syncing == <<header, loaded, observed>>
counters == <<charged, lost, runs, checks, faults>>
vars == <<store, pc, next, reserving, syncing, counters>>

NeverSynced == [known |-> FALSE, queries |-> 0, at |-> 0]
NothingSeen == [usage |-> 0, social |-> 0]

Init ==
    /\ log = {}
    /\ synced = NeverSynced
    /\ begun = 0
    /\ lock = Nobody
    /\ pc = [p \in Processes |-> "idle"]
    /\ next = [s \in Searches |-> 1]
    /\ stamp = [s \in Searches |-> 0]
    /\ seen = [s \in Searches |-> NothingSeen]
    /\ header = [p \in Processes |-> 0]
    /\ loaded = [p \in Processes |-> NeverSynced]
    /\ observed = [p \in Processes |-> 0]
    /\ charged = 0
    /\ lost = 0
    /\ runs = [s \in Searches |-> 0]
    /\ checks = 0
    /\ faults = 0

Goto(p, label) == pc' = [pc EXCEPT ![p] = label]

-----------------------------------------------------------------------------
(* reserve.                                                                *)

\* A task, or a new attempt of one that failed.
Search(s) ==
    /\ pc[s] = "idle"
    /\ runs[s] < MaxRuns /\ Plan # <<>>
    /\ runs' = [runs EXCEPT ![s] = @ + 1]
    /\ next' = [next EXCEPT ![s] = 1]
    /\ Goto(s, "begin")
    /\ UNCHANGED <<store, reserving, syncing, charged, lost, checks, faults>>

Begin(s) ==
    /\ pc[s] = "begin"
    /\ begun' = begun + 1
    /\ stamp' = [stamp EXCEPT ![s] = begun + 1]
    /\ Goto(s, "wait")
    /\ UNCHANGED <<log, synced, lock, next, seen, syncing, counters>>

\* _effective_usage.
Usage == synced.queries + Cardinality({r \in log : r.at > synced.at})

SocialQueries == Cardinality({r \in log : r.kind = "social"})

\* Mutant: nobody waits for the lock.
LockAtOnce(s) ==
    /\ pc[s] = "wait"
    /\ lock' = s
    /\ seen' = [seen EXCEPT ![s] = [usage |-> Usage, social |-> SocialQueries]]
    /\ Goto(s, "decide")
    /\ UNCHANGED <<log, synced, begun, next, stamp, syncing, counters>>

Lock(s) ==
    /\ pc[s] = "wait"
    /\ lock = Nobody
    /\ lock' = s
    /\ seen' = [seen EXCEPT ![s] = [usage |-> Usage, social |-> SocialQueries]]
    /\ Goto(s, "decide")
    /\ UNCHANGED <<log, synced, begun, next, stamp, syncing, counters>>

SocialExhausted(s) == Plan[next[s]] = "social" /\ seen[s].social >= SocialLimit

\* Mutant: the query in hand is not counted.
ExhaustedLate(s) == seen[s].usage > Limit

Exhausted(s) == seen[s].usage + 1 > Limit

\* The next query of the plan, or the end of the search.
Continue(s) ==
    IF next[s] = Len(Plan)
    THEN Goto(s, "idle") /\ UNCHANGED next
    ELSE Goto(s, "begin") /\ next' = [next EXCEPT ![s] = @ + 1]

Return(s) ==
    /\ stamp' = [stamp EXCEPT ![s] = 0]
    /\ seen' = [seen EXCEPT ![s] = NothingSeen]

\* A social query over its limit is skipped; a query over the monthly limit
\* ends the search.
Reserve(s) ==
    /\ pc[s] = "decide"
    /\ lock' = Nobody
    /\ \/ /\ SocialExhausted(s)
          /\ Continue(s)
          /\ UNCHANGED log
       \/ /\ ~SocialExhausted(s) /\ Exhausted(s)
          /\ Goto(s, "idle")
          /\ UNCHANGED <<log, next>>
       \/ /\ ~SocialExhausted(s) /\ ~Exhausted(s)
          /\ log' = log \cup {[at |-> stamp[s], kind |-> Plan[next[s]]]}
          /\ Goto(s, "request")
          /\ UNCHANGED next
    /\ Return(s)
    /\ UNCHANGED <<synced, begun, syncing, counters>>

-----------------------------------------------------------------------------
(* The request, and the connectivity check, which reserves nothing.        *)

Check ==
    /\ pc[Monitor] = "idle"
    /\ checks < MaxChecks
    /\ checks' = checks + 1
    /\ Goto(Monitor, "request")
    /\ UNCHANGED <<store, next, reserving, syncing, charged, lost, runs, faults>>

\* The provider charges the query and says so in the headers.
Answered(p) ==
    /\ pc[p] = "request"
    /\ charged' = charged + 1
    /\ header' = [header EXCEPT ![p] = charged + 1]
    /\ Goto(p, "observe")
    /\ UNCHANGED <<store, next, reserving, loaded, observed, lost, runs, checks, faults>>

\* A request that tells no usage, or a process that stops.
Fault == faults < MaxFaults /\ faults' = faults + 1

\* No answer with status 200: the search fails and is tried again, the check
\* reports an error.  The provider may have charged the query or not.
Unanswered(p) ==
    /\ pc[p] = "request"
    /\ Fault
    /\ \E n \in {0, 1} : charged' = charged + n /\ lost' = lost + n
    /\ Goto(p, "idle")
    /\ UNCHANGED <<store, next, reserving, syncing, runs, checks>>

Done(p) ==
    IF p = Monitor THEN Goto(p, "idle") /\ UNCHANGED next ELSE Continue(p)

\* An answer without headers of usage.
Silent(p) ==
    /\ pc[p] = "request"
    /\ Fault
    /\ charged' = charged + 1
    /\ lost' = lost + 1
    /\ Done(p)
    /\ UNCHANGED <<store, reserving, syncing, runs, checks>>

-----------------------------------------------------------------------------
(* reconcile_provider_usage, which takes no lock.                          *)

Observe(p) ==
    /\ pc[p] = "observe"
    /\ observed' = [observed EXCEPT ![p] = begun]
    /\ Goto(p, "load")
    /\ UNCHANGED <<store, next, reserving, header, loaded, counters>>

Load(p) ==
    /\ pc[p] = "load"
    /\ loaded' = [loaded EXCEPT ![p] = synced]
    /\ Goto(p, "store")
    /\ UNCHANGED <<store, next, reserving, header, observed, counters>>

Forget(p) ==
    /\ header' = [header EXCEPT ![p] = 0]
    /\ loaded' = [loaded EXCEPT ![p] = NeverSynced]
    /\ observed' = [observed EXCEPT ![p] = 0]

\* Mutant: the remaining queries are taken for the used ones.
SyncedRemaining(p) == [known |-> TRUE, queries |-> Limit - header[p], at |-> observed[p]]

Synced(p) == [known |-> TRUE, queries |-> header[p], at |-> observed[p]]

\* Two first reconciliations insert the same key, which fails the second one;
\* usage that went down is ignored, by the row as it was read.
Store(p) ==
    /\ pc[p] = "store"
    /\ \/ /\ ~loaded[p].known /\ synced.known
          /\ Goto(p, "idle")
          /\ lost' = lost + 1
          /\ UNCHANGED <<synced, next>>
       \/ /\ loaded[p].known \/ ~synced.known
          /\ synced' = IF header[p] >= loaded[p].queries THEN Synced(p) ELSE synced
          /\ Done(p)
          /\ UNCHANGED lost
    /\ Forget(p)
    /\ UNCHANGED <<log, begun, lock, reserving, charged, runs, checks, faults>>

\* The process stops; its transaction goes with it.
Stop(p) ==
    /\ pc[p] # "idle"
    /\ Fault
    /\ Goto(p, "idle")
    /\ lock' = IF lock = p THEN Nobody ELSE lock
    /\ lost' = IF pc[p] \in {"observe", "load", "store"} THEN lost + 1 ELSE lost
    /\ Forget(p)
    /\ IF p = Monitor THEN UNCHANGED reserving ELSE Return(p)
    /\ UNCHANGED <<log, synced, begun, next, charged, runs, checks>>

Next ==
    \/ Check
    \/ \E s \in Searches : Search(s) \/ Begin(s) \/ Lock(s) \/ Reserve(s)
    \/ \E p \in Processes :
         Answered(p) \/ Unanswered(p) \/ Silent(p) \/ Observe(p) \/ Load(p) \/ Store(p) \/ Stop(p)

Spec == Init /\ [][Next]_vars

-----------------------------------------------------------------------------
(* Properties.                                                             *)

\* A campaign never reserves more social queries than its policy allows,
\* whichever searches of it run at once.
WithinSocialLimit == SocialQueries <= SocialLimit

\* Until the provider tells its usage, all the searches together reserve no
\* more queries than the monthly limit.
HardWithoutHeaders == ~synced.known => Cardinality(log) <= Limit

\* An answer that is stored after a later one takes the usage back, and lets
\* each search that has none of its own to store spend one query more before an
\* answer corrects it.  All searches but one can do so in turn, with 2, 3, ...
\* of them free to spend, and a connectivity check once more, with all of them.
LateAnswers ==
    LET n == Cardinality(Searches)
    IN (n * (n + 1)) \div 2 - 1 + IF checks = 0 THEN 0 ELSE n - 1

\* What the provider charges exceeds the monthly limit by no more than that, one
\* query for each connectivity check (charged without a reservation), and one
\* for each charge whose answer was lost.
OverspendBounded == charged <= Limit + checks + lost + LateAnswers
=============================================================================
