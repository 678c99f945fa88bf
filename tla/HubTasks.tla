------------------------------ MODULE HubTasks ------------------------------
(***************************************************************************)
(* The queue consumer of the agent hub: run_forever and _heartbeat of       *)
(* app/hub/worker.py, with claim, heartbeat, complete and fail of           *)
(* app/hub/crm.py.  The task queue of the CRM is external: it leases a task *)
(* under a fresh lease token and refuses a request that carries another.    *)
(*                                                                          *)
(* Time passes in ticks of half a heartbeat interval.  The executions of    *)
(* the agents await nothing, so while one runs no heartbeat is sent: the    *)
(* heartbeat task first runs when the worker awaits the CRM.                *)
(***************************************************************************)
EXTENDS Naturals, FiniteSets

CONSTANTS HubWorkers,    \* processes that run run_forever, all under one worker id
          Tasks,
          NoTask,
          LeaseTicks,    \* hub_lease_seconds
          BeatTicks,     \* hub_heartbeat_seconds
          MaxFaults      \* bound: lost requests and answers, crashes, slow executions

ASSUME HubTasksAssumption ==
    /\ NoTask \notin Tasks
    /\ LeaseTicks \in Nat /\ BeatTicks \in Nat \ {0}
    /\ BeatTicks < LeaseTicks          \* validated in app/config.py:160
    /\ MaxFaults \in Nat

VARIABLES queue,    \* agent tasks of the CRM: [status, token, lease]
          hub,      \* [at, task, token, heart, next] of a worker
          blocked,  \* ticks the running execution has held the event loop
          results,  \* tokens of the executions that produced a result, per task
          faults

tasksVars == <<queue, hub, blocked, results, faults>>

Idle == [at |-> "poll", task |-> NoTask, token |-> 0, heart |-> "none", next |-> 0]

TasksInit ==
    /\ queue = [t \in Tasks |-> [status |-> "pending", token |-> 0, lease |-> 0]]
    /\ hub = [w \in HubWorkers |-> Idle]
    /\ blocked = [w \in HubWorkers |-> 0]
    /\ results = [t \in Tasks |-> {}]
    /\ faults = 0

Fault == faults < MaxFaults /\ faults' = faults + 1

\* The longest execution after which the first heartbeat is still in time.
SafeTicks == LeaseTicks - BeatTicks - 1

Holds(w) == LET row == queue[hub[w].task]
            IN row.status = "in_progress" /\ row.token = hub[w].token

Claimable(t) ==
    \/ queue[t].status = "pending"
    \/ queue[t].status = "in_progress" /\ queue[t].lease = 0

\* The CRM leases the task; the worker learns of it unless the answer is lost.
Lease(t) ==
    queue' = [queue EXCEPT ![t] = [status |-> "in_progress", token |-> @.token + 1,
                                   lease |-> LeaseTicks]]

Claim(w) ==
    /\ hub[w].at = "poll"
    /\ \E t \in Tasks :
          /\ Claimable(t)
          /\ Lease(t)
          /\ \/ /\ hub' = [hub EXCEPT ![w] = [at |-> "execute", task |-> t,
                                              token |-> queue[t].token + 1,
                                              heart |-> "created", next |-> 0]]
                /\ UNCHANGED faults
             \/ Fault /\ UNCHANGED hub
    /\ blocked' = [blocked EXCEPT ![w] = 0]
    /\ UNCHANGED results

\* Mutant: the heartbeat sleeps for the whole lease before its first request.
AwaitingLate(w, at) ==
    [hub[w] EXCEPT !.at = at,
                   !.heart = IF @ = "created" THEN "sleeping" ELSE @,
                   !.next = IF hub[w].heart = "created" THEN LeaseTicks ELSE @]

\* The worker awaits a request: the heartbeat task starts with a sleep.
Awaiting(w, at) ==
    [hub[w] EXCEPT !.at = at,
                   !.heart = IF @ = "created" THEN "sleeping" ELSE @,
                   !.next = IF hub[w].heart = "created" THEN BeatTicks ELSE @]

\* Mutant: an execution that raises is reported as completed.
RaisedAnyway(w) == Awaiting(w, "complete")

\* The handler of an exception reports the task as failed.
Raised(w) == Awaiting(w, "fail")

Execute(w) ==
    /\ hub[w].at = "execute"
    /\ \/ /\ hub' = [hub EXCEPT ![w] = Awaiting(w, "complete")]
          /\ results' = [results EXCEPT ![hub[w].task] = @ \cup {hub[w].token}]
       \/ hub' = [hub EXCEPT ![w] = Raised(w)] /\ UNCHANGED results
    /\ UNCHANGED <<queue, blocked, faults>>

Ends(w, status) == queue' = [queue EXCEPT ![hub[w].task].status = status]

\* A request that is refused or lost, or whose answer is lost, raises.
CompleteTask(w) ==
    /\ hub[w].at = "complete"
    /\ \/ /\ Holds(w)
          /\ Ends(w, "completed")
          /\ \/ hub' = [hub EXCEPT ![w] = Idle] /\ UNCHANGED faults
             \/ hub' = [hub EXCEPT ![w] = Raised(w)] /\ Fault
       \/ /\ ~Holds(w)
          /\ hub' = [hub EXCEPT ![w] = Raised(w)]
          /\ UNCHANGED <<queue, faults>>
       \/ /\ hub' = [hub EXCEPT ![w] = Raised(w)]
          /\ Fault
          /\ UNCHANGED queue
    /\ UNCHANGED <<blocked, results>>

\* Mutant: an error of the report ends the consumer.
ResumedNever == [Idle EXCEPT !.at = "stopped"]

\* Whatever becomes of the report, the heartbeat is cancelled and polling goes on.
Resumed == Idle

FailTask(w) ==
    /\ hub[w].at = "fail"
    /\ \/ /\ Holds(w)
          /\ Ends(w, "failed")
          /\ \/ hub' = [hub EXCEPT ![w] = Idle] /\ UNCHANGED faults
             \/ hub' = [hub EXCEPT ![w] = Resumed] /\ Fault
       \/ /\ ~Holds(w)
          /\ hub' = [hub EXCEPT ![w] = Resumed]
          /\ UNCHANGED <<queue, faults>>
       \/ hub' = [hub EXCEPT ![w] = Resumed] /\ Fault /\ UNCHANGED queue
    /\ UNCHANGED <<blocked, results>>

\* The heartbeat task ends with its first error, and nobody looks at it.
Heartbeat(w) ==
    /\ hub[w].heart = "sleeping" /\ hub[w].next = 0
    /\ \/ /\ Holds(w)
          /\ queue' = [queue EXCEPT ![hub[w].task].lease = LeaseTicks]
          /\ \/ hub' = [hub EXCEPT ![w].next = BeatTicks] /\ UNCHANGED faults
             \/ hub' = [hub EXCEPT ![w].heart = "dead"] /\ Fault
       \/ /\ ~Holds(w)
          /\ hub' = [hub EXCEPT ![w].heart = "dead"]
          /\ UNCHANGED <<queue, faults>>
       \/ hub' = [hub EXCEPT ![w].heart = "dead"] /\ Fault /\ UNCHANGED queue
    /\ UNCHANGED <<blocked, results>>

Crash(w) ==
    /\ hub[w].at # "poll"
    /\ Fault
    /\ hub' = [hub EXCEPT ![w] = Idle]
    /\ UNCHANGED <<queue, blocked, results>>

Minus1(n) == IF n = 0 THEN 0 ELSE n - 1

Executing == {w \in HubWorkers : hub[w].at = "execute"}

\* A heartbeat that is due goes first; an execution that outlasts the safe
\* ticks is a fault.
Tick ==
    /\ \A w \in HubWorkers : ~(hub[w].heart = "sleeping" /\ hub[w].next = 0)
    /\ \E t \in Tasks : queue[t].status = "in_progress" /\ queue[t].lease > 0
    /\ IF \E w \in Executing : blocked[w] = SafeTicks THEN Fault ELSE UNCHANGED faults
    /\ blocked' = [w \in HubWorkers |->
                     IF w \in Executing /\ blocked[w] <= SafeTicks
                     THEN blocked[w] + 1 ELSE blocked[w]]
    /\ queue' = [t \in Tasks |-> [queue[t] EXCEPT !.lease = Minus1(@)]]
    /\ hub' = [w \in HubWorkers |->
                 IF hub[w].heart = "sleeping"
                 THEN [hub[w] EXCEPT !.next = @ - 1] ELSE hub[w]]
    /\ UNCHANGED results

\* The consumer of a worker; its heartbeat runs beside it.
Work(w) == Claim(w) \/ Execute(w) \/ CompleteTask(w) \/ FailTask(w)

TasksNext ==
    Tick \/ \E w \in HubWorkers : Work(w) \/ Heartbeat(w) \/ Crash(w)

TasksSpec == TasksInit /\ [][TasksNext]_tasksVars

\* Requests have a timeout and executions end, time passes, and the event loop
\* runs both of its tasks.
TasksFairness ==
    /\ WF_tasksVars(Tick)
    /\ \A w \in HubWorkers : WF_tasksVars(Work(w)) /\ WF_tasksVars(Heartbeat(w))

-----------------------------------------------------------------------------
Open(status) == IF status \in {"completed", "failed"} THEN status ELSE "open"

Promise == INSTANCE HubQueue
    WITH outcome <- [t \in Tasks |-> Open(queue[t].status)],
         given <- [t \in Tasks |-> queue[t].token]

\* The consumer, with every lost answer, crash and takeover, gives each task
\* one outcome, and completes none but with the result of an execution.
KeepsPromise == Promise!QueueSpec

\* Two workers work on one task only after an execution held the event loop
\* past the lease or the heartbeat of one of them died: with heartbeats that
\* reach the CRM a lease outlives any wait for it.
OverlapOnlyUnkept ==
    \A v, w \in HubWorkers :
        v # w /\ hub[v].task = hub[w].task /\ hub[v].task # NoTask =>
            \E u \in {v, w} : blocked[u] > SafeTicks \/ hub[u].heart = "dead"

\* Every task ends although requests and answers get lost and workers crash.
TasksEnd == \A t \in Tasks : <>(queue[t].status \in {"completed", "failed"})
=============================================================================
