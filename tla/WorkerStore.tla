---------------------------- MODULE WorkerStore ----------------------------
(***************************************************************************)
(* The worker's durable state for one run, as SQLWorkerStore of            *)
(* app/prospecting/store.py keeps it in PostgreSQL: the run row, the task  *)
(* rows with their leases, and the outbox.  Every operation is one         *)
(* transaction, hence one action; rows survive a crash of the worker.      *)
(*                                                                         *)
(* outbox is the table crm_outbox_messages in order of created_at; the     *)
(* position of a row stands for its id.  The back-off instant available_at *)
(* is abstracted to avail.  Task ids are numbers in the order in which     *)
(* claim_task prefers them (source, creation, id).                         *)
(***************************************************************************)
EXTENDS Naturals, Sequences, FiniteSets, CrmPort

CONSTANTS Workers,      \* worker processes (their worker_id is lease_owner)
          NoWorker,     \* lease_owner IS NULL
          MaxAttempts   \* max_attempts of every task

ASSUME StoreAssumption ==
    /\ NoWorker \notin Workers
    /\ MaxAttempts \in Nat \ {0}

VARIABLES runStatus,    \* status of the run row, "none" before ensure_run
          runToken,     \* crm_lease_token
          runBaseline,  \* remote_candidates_baseline
          runAccepted,  \* stats.crm_accepted
          runInvalid,   \* stats.rejected_invalid
          taskRow,      \* task rows
          outbox        \* outbox rows

storeVars == <<runStatus, runToken, runBaseline, runAccepted, runInvalid,
               taskRow, outbox>>
runVars == <<runStatus, runToken, runBaseline, runAccepted, runInvalid>>

StoreInit ==
    /\ runStatus = "none"
    /\ runToken = 0
    /\ runBaseline = 0
    /\ runAccepted = 0
    /\ runInvalid = 0
    /\ taskRow = [t \in Tasks |-> [status |-> "pending", attempts |-> 0,
                                   owner |-> NoWorker, live |-> FALSE]]
    /\ outbox = <<>>

Larger(a, b) == IF a > b THEN a ELSE b

-----------------------------------------------------------------------------
(* Outbox rows.                                                            *)

MessageIds == DOMAIN outbox

Row(kind, key, payload) ==
    [kind |-> kind, key |-> key, payload |-> payload, status |-> "queued", avail |-> TRUE]

\* Mutant: the payload of a key queued again replaces the first one.
InsertLatest(table, row) ==
    IF \E i \in DOMAIN table : table[i].key = row.key
    THEN [i \in DOMAIN table |-> IF table[i].key = row.key THEN row ELSE table[i]]
    ELSE Append(table, row)

\* _queue_outbox: a key is inserted once; later payloads under it are ignored.
Insert(table, row) ==
    IF \E i \in DOMAIN table : table[i].key = row.key THEN table ELSE Append(table, row)

Queue(kind, key, payload) == Insert(outbox, Row(kind, key, payload))

WithStatus(i, status) == [outbox EXCEPT ![i].status = status]

\* get_outbox, at most 50 rows: the queued rows whose back-off has elapsed.
Deliverable == {i \in MessageIds : outbox[i].status = "queued" /\ outbox[i].avail}

\* pending_terminal_replays: queued terminal rows, whatever their back-off.
TerminalReplays == {i \in MessageIds : outbox[i].status = "queued"
                                         /\ outbox[i].kind = "complete"}

HasPending == \E i \in MessageIds : outbox[i].status = "queued"

MarkDelivered(i) ==
    /\ outbox' = WithStatus(i, "delivered")
    /\ UNCHANGED <<runVars, taskRow>>

\* Mutant: a failed row takes a status that no query looks for.
MarkFailedUnknown(i, retryable) ==
    /\ outbox' = WithStatus(i, "failed")
    /\ UNCHANGED <<runVars, taskRow>>

\* mark_outbox_failed tests no status: a retryable failure puts the row back
\* in the queue behind a back-off, any other one dead-letters it.
MarkFailed(i, retryable) ==
    /\ outbox' = [outbox EXCEPT ![i].status = IF retryable THEN "queued" ELSE "dead",
                                ![i].avail = ~retryable]
    /\ UNCHANGED <<runVars, taskRow>>

BackoffElapses(i) ==
    /\ ~outbox[i].avail
    /\ outbox' = [outbox EXCEPT ![i].avail = TRUE]
    /\ UNCHANGED <<runVars, taskRow>>

\* finalize_terminal_outbox: the row and the run change in one transaction.
FinalizeTerminal(i) ==
    /\ outbox' = WithStatus(i, "delivered")
    /\ runStatus' = outbox[i].payload.status
    /\ runAccepted' = outbox[i].payload.accepted
    /\ runInvalid' = outbox[i].payload.invalid
    /\ UNCHANGED <<runToken, runBaseline, taskRow>>

\* record_candidate_ack: the counters and the row change in one transaction,
\* which a row already delivered leaves alone.
RecordAck(i, ack) ==
    IF outbox[i].status = "delivered"
    THEN UNCHANGED storeVars
    ELSE /\ outbox' = WithStatus(i, "delivered")
         /\ runBaseline' = Larger(runBaseline, ack.found)
         /\ runAccepted' = runAccepted + ack.accepted
         /\ UNCHANGED <<runStatus, runToken, runInvalid, taskRow>>

CanSplit(i) == outbox[i].status \in {"queued", "dead"} /\ Len(outbox[i].payload) >= 2

CanDiscard(i) == outbox[i].status \in {"queued", "dead"} /\ Len(outbox[i].payload) = 1

SplitKey(i, half) == <<"split", i, half>>

\* Mutant: the second half starts one position late.
HalfShort(i, half) ==
    LET payload  == outbox[i].payload
        midpoint == Len(payload) \div 2
    IN  Row("candidates", SplitKey(i, half),
            SubSeq(payload, IF half = 0 THEN 1 ELSE midpoint + 2,
                            IF half = 0 THEN midpoint ELSE Len(payload)))

\* split_candidate_outbox: two rows with the halves replace the rejected one.
Half(i, half) ==
    LET payload  == outbox[i].payload
        midpoint == Len(payload) \div 2
    IN  Row("candidates", SplitKey(i, half),
            IF half = 0 THEN SubSeq(payload, 1, midpoint)
                        ELSE SubSeq(payload, midpoint + 1, Len(payload)))

Split(i) ==
    /\ CanSplit(i)
    /\ outbox' = Insert(Insert(WithStatus(i, "split"), Half(i, 0)), Half(i, 1))
    /\ UNCHANGED <<runVars, taskRow>>

\* discard_candidate_outbox.
Discard(i) ==
    /\ CanDiscard(i)
    /\ outbox' = WithStatus(i, "discarded")
    /\ runInvalid' = runInvalid + 1
    /\ UNCHANGED <<runStatus, runToken, runBaseline, runAccepted, taskRow>>

-----------------------------------------------------------------------------
(* Run and task rows.                                                      *)

\* The tasks whose completion event still waits in the outbox.
CompletionQueued(t) ==
    \E i \in MessageIds :
        /\ outbox[i].kind = "events"
        /\ outbox[i].status = "queued"
        /\ outbox[i].payload.task = t
        /\ outbox[i].payload.status = "completed"

\* Mutant: the snapshot always wins.
PreserveNothing(t, remote) == FALSE

\* A local completion that the CRM has not heard of survives the snapshot.
PreserveCompletion(t, remote) ==
    /\ taskRow[t].status = "completed"
    /\ remote.status \in {"pending", "running"}
    /\ CompletionQueued(t)

\* ensure_run: the snapshot of the claim overwrites the local rows.
EnsureRun(token, tasks, found) ==
    /\ runStatus' = "running"
    /\ runToken' = token
    /\ runBaseline' = Larger(runBaseline, found)
    /\ taskRow' = [t \in Tasks |->
                     LET kept == PreserveCompletion(t, tasks[t])
                     IN  [status   |-> IF kept THEN taskRow[t].status ELSE tasks[t].status,
                          attempts |-> IF kept THEN taskRow[t].attempts ELSE tasks[t].attempts,
                          owner    |-> NoWorker,
                          live     |-> FALSE]]
    /\ UNCHANGED <<runAccepted, runInvalid, outbox>>

LeaseExpired(t) == taskRow[t].status = "running" /\ ~taskRow[t].live

Exhausted(t) == LeaseExpired(t) /\ taskRow[t].attempts >= MaxAttempts

CanClaim(t) ==
    /\ taskRow[t].attempts < MaxAttempts
    /\ taskRow[t].status = "pending" \/ LeaseExpired(t)

Claimed == {t \in Tasks : CanClaim(t) /\ \A u \in Tasks : CanClaim(u) => t <= u}

\* claim_task: exhausted tasks fail, then the first claimable one is leased.
ClaimTask(w) ==
    /\ taskRow' = [t \in Tasks |->
                     IF t \in Claimed
                     THEN [status |-> "running", attempts |-> taskRow[t].attempts + 1,
                           owner |-> w, live |-> TRUE]
                     ELSE IF Exhausted(t)
                     THEN [taskRow[t] EXCEPT !.status = "failed", !.owner = NoWorker]
                     ELSE taskRow[t]]
    /\ UNCHANGED <<runVars, outbox>>

Owns(w, t) == taskRow[t].owner = w /\ taskRow[t].status = "running"

\* heartbeat_task refuses a lease that already expired.
TaskHeartbeatValid(w, t) == Owns(w, t) /\ taskRow[t].live

Release(t, status) ==
    taskRow' = [taskRow EXCEPT ![t].status = status, ![t].owner = NoWorker,
                               ![t].live = FALSE]

\* Mutant: any worker completes a task that is running.
FinishTaskUnfenced(w, t) ==
    /\ Release(t, "completed")
    /\ UNCHANGED <<runVars, outbox>>

FinishTask(w, t) ==
    /\ Owns(w, t)
    /\ Release(t, "completed")
    /\ UNCHANGED <<runVars, outbox>>

FailTask(w, t) ==
    /\ IF Owns(w, t)
       THEN Release(t, IF taskRow[t].attempts >= MaxAttempts THEN "failed" ELSE "pending")
       ELSE UNCHANGED taskRow
    /\ UNCHANGED <<runVars, outbox>>

CancelTasks ==
    /\ taskRow' = [t \in Tasks |->
                     IF taskRow[t].status \in {"pending", "running"}
                     THEN [taskRow[t] EXCEPT !.status = "cancelled", !.owner = NoWorker,
                                             !.live = FALSE]
                     ELSE taskRow[t]]
    /\ UNCHANGED <<runVars, outbox>>

TaskLeaseExpires(t) ==
    /\ taskRow[t].status = "running" /\ taskRow[t].live
    /\ taskRow' = [taskRow EXCEPT ![t].live = FALSE]
    /\ UNCHANGED <<runVars, outbox>>

CandidatesKey(t, attempt) == <<"candidates", t, attempt>>

\* save_candidates queues nothing when no candidate was selected.
SaveCandidates(t, attempt, batch) ==
    /\ outbox' = IF batch = <<>> THEN outbox
                 ELSE Queue("candidates", CandidatesKey(t, attempt), batch)
    /\ UNCHANGED <<runVars, taskRow>>

Event(t, status, attempt) == [task |-> t, status |-> status, attempt |-> attempt]

\* save_event: the key is a fresh UUID, here the position the row will take.
SaveEvent(event) ==
    /\ outbox' = Queue("events", <<"event", Len(outbox) + 1>>, event)
    /\ UNCHANGED <<runVars, taskRow>>

TerminalKey(status) == <<"terminal", status>>

\* Mutant: the run ends locally when its terminal message is queued.
QueueTerminalEagerly(report) ==
    /\ outbox' = Queue("complete", TerminalKey(report.status), report)
    /\ runStatus' = report.status
    /\ UNCHANGED <<runToken, runBaseline, runAccepted, runInvalid, taskRow>>

QueueTerminal(report) ==
    /\ outbox' = Queue("complete", TerminalKey(report.status), report)
    /\ UNCHANGED <<runVars, taskRow>>

-----------------------------------------------------------------------------
(* summary.                                                                *)

DeadLetters == \E i \in MessageIds : outbox[i].status = "dead"
AnyTask(statuses) == \E t \in Tasks : taskRow[t].status \in statuses
WorkRemaining == AnyTask({"pending", "running"})
=============================================================================
