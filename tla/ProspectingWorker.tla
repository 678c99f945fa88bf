------------------------- MODULE ProspectingWorker -------------------------
(***************************************************************************)
(* The prospecting worker of app/prospecting/worker.py on one run: the     *)
(* loop that claims the run from the CRM (CrmPort), executes its tasks     *)
(* from the durable store (WorkerStore) and delivers the outbox.           *)
(*                                                                         *)
(* A worker is a process whose state is volatile.  Between two awaits it   *)
(* does one thing: a call to the CRM or one transaction of the store; pc   *)
(* names the one it will do next.  Every call to the CRM may be lost,      *)
(* committed without its answer coming back, or refused; a process may     *)
(* stop anywhere and start again.  Each such fault uses one of MaxFaults.  *)
(***************************************************************************)
EXTENDS WorkerStore

CONSTANTS Yield,         \* batches of qualified candidates a task's search may return
          BudgetLimited, \* tasks whose search reports budget_limited
          FaultKinds,    \* the kinds of fault explored
          MaxFaults,     \* bound on the number of faults explored
          MayCancel      \* whether the user of the CRM may cancel the run

ASSUME WorkerAssumption ==
    /\ Yield \in [Tasks -> SUBSET Seq(Candidates)]
    /\ BudgetLimited \subseteq Tasks
    /\ FaultKinds \subseteq {"network", "refusal", "crash", "stall", "store"}
    /\ MaxFaults \in Nat
    /\ MayCancel \in BOOLEAN

VARIABLES pc,        \* the next step of each worker
          tok,       \* lease_token of the claim (or replay) in hand
          claim,     \* tasks and candidates_found of the claim, until stored
          job,       \* task being executed and its attempt number
          queue,     \* ids of the outbox rows read by get_outbox, not yet sent
          sent,      \* outcome of the delivery in flight
          after,     \* where _deliver_outbox returns to
          stop,      \* the events lease_lost, cancel_requested, task_lease_lost
          final,     \* the terminal report being prepared
          faults,    \* faults so far
          sourceRuns \* how often the source of each task was called (history)

workerVars == <<pc, tok, claim, job, queue, sent, after, stop, final>>
vars == <<crmVars, storeVars, workerVars, faults, sourceRuns>>

NoClaim == [tasks |-> [t \in Tasks |-> [status |-> "pending", attempts |-> 0]], found |-> 0]
NoJob   == [task |-> NoTask, attempt |-> 0]
NoFinal == [status |-> "none", accepted |-> 0, invalid |-> 0]

Init ==
    /\ CrmInit
    /\ StoreInit
    /\ pc = [w \in Workers |-> "idle"]
    /\ tok = [w \in Workers |-> 0]
    /\ claim = [w \in Workers |-> NoClaim]
    /\ job = [w \in Workers |-> NoJob]
    /\ queue = [w \in Workers |-> {}]
    /\ sent = [w \in Workers |-> "none"]
    /\ after = [w \in Workers |-> "none"]
    /\ stop = [w \in Workers |-> {}]
    /\ final = [w \in Workers |-> NoFinal]
    /\ faults = 0
    /\ sourceRuns = [t \in Tasks |-> 0]

-----------------------------------------------------------------------------
(* Control.                                                                *)

At(w, label) == pc[w] = label
Goto(w, label) == pc' = [pc EXCEPT ![w] = label]

Fault(kind) == kind \in FaultKinds /\ faults < MaxFaults /\ faults' = faults + 1

\* poll_once returns or raises: whatever the process held in memory is gone.
Leave(w) ==
    /\ Goto(w, "idle")
    /\ tok' = [tok EXCEPT ![w] = 0]
    /\ claim' = [claim EXCEPT ![w] = NoClaim]
    /\ job' = [job EXCEPT ![w] = NoJob]
    /\ queue' = [queue EXCEPT ![w] = {}]
    /\ sent' = [sent EXCEPT ![w] = "none"]
    /\ after' = [after EXCEPT ![w] = "none"]
    /\ stop' = [stop EXCEPT ![w] = {}]
    /\ final' = [final EXCEPT ![w] = NoFinal]

\* A step that changes nothing of the worker but its pc.
Proceed(w, label) ==
    /\ Goto(w, label)
    /\ UNCHANGED <<tok, claim, job, queue, sent, after, stop, final>>

\* A step of the store or of the worker's memory, without a call to the CRM.
Quiet == UNCHANGED <<crmVars, faults, sourceRuns>>

\* Calling _deliver_outbox, to continue at `label` when it returns.
Deliver(w, label) ==
    /\ Goto(w, "fetch")
    /\ after' = [after EXCEPT ![w] = label]
    /\ UNCHANGED <<tok, claim, job, queue, sent, stop, final>>

Finish(w, status) ==
    /\ final' = [final EXCEPT ![w] = [NoFinal EXCEPT !.status = status]]
    /\ UNCHANGED <<tok, claim, job, queue, sent, after, stop>>

-----------------------------------------------------------------------------
(* poll_once: replay of terminal messages, then the claim.                 *)

\* pending_terminal_replays also reads the token of the run row.
Poll(w) ==
    /\ At(w, "idle")
    /\ IF TerminalReplays # {}
       THEN /\ Goto(w, "replay")
            /\ queue' = [queue EXCEPT ![w] = TerminalReplays]
            /\ tok' = [tok EXCEPT ![w] = runToken]
       ELSE /\ Goto(w, "claim")
            /\ UNCHANGED <<queue, tok>>
    /\ UNCHANGED <<claim, job, sent, after, stop, final, storeVars>>
    /\ Quiet

\* The claim, whose answer carries the snapshot of the tasks.
ClaimRun(w) ==
    /\ At(w, "claim")
    /\ CrmClaimRun
    /\ Goto(w, "ensure")
    /\ tok' = [tok EXCEPT ![w] = crmIssued + 1]
    /\ claim' = [claim EXCEPT ![w] = [tasks |-> crmTask, found |-> Cardinality(crmCands)]]
    /\ UNCHANGED <<job, queue, sent, after, stop, final, storeVars, faults, sourceRuns>>

\* The CRM grants the claim and the answer is lost: the poll is over.
ClaimLost(w) ==
    /\ At(w, "claim")
    /\ CrmClaimRun
    /\ Fault("network")
    /\ Leave(w)
    /\ UNCHANGED <<storeVars, sourceRuns>>

NothingToClaim(w) ==
    /\ At(w, "claim")
    /\ ~Claimable \/ crmIssued = MaxClaims
    /\ Leave(w)
    /\ UNCHANGED storeVars
    /\ Quiet

Ensure(w) ==
    /\ At(w, "ensure")
    /\ EnsureRun(tok[w], claim[w].tasks, claim[w].found)
    /\ Goto(w, "fetch")
    /\ after' = [after EXCEPT ![w] = "loop"]
    /\ claim' = [claim EXCEPT ![w] = NoClaim]
    /\ UNCHANGED <<tok, job, queue, sent, stop, final>>
    /\ Quiet

-----------------------------------------------------------------------------
(* Delivery of one message to the CRM, by _deliver_message and by          *)
(* _deliver_terminal_replay.                                               *)

\* The rows read are delivered in order of creation.
First(w, i) == i \in queue[w] /\ \A j \in queue[w] : i <= j

Sending(w, next) ==
    \E i \in queue[w] :
        /\ First(w, i)
        /\ LET m       == outbox[i]
               outcome == Outcome(tok[w], m.kind, m.key, m.payload)
           IN  \/ /\ outcome = "ok"
                  /\ Commit(m.kind, m.key, m.payload)
                  /\ sent' = [sent EXCEPT ![w] = "ok"]
                  /\ UNCHANGED faults
               \/ /\ outcome # "ok"
                  /\ sent' = [sent EXCEPT ![w] = outcome]
                  /\ UNCHANGED <<crmVars, faults>>
               \/ /\ outcome = "ok"            \* the answer is lost
                  /\ Commit(m.kind, m.key, m.payload)
                  /\ sent' = [sent EXCEPT ![w] = "retry"]
                  /\ Fault("network")
               \/ /\ sent' = [sent EXCEPT ![w] = "retry"]   \* the request is lost
                  /\ UNCHANGED crmVars
                  /\ Fault("network")
    /\ Goto(w, next)
    /\ UNCHANGED <<tok, claim, job, queue, after, stop, final, storeVars, sourceRuns>>

Replay(w) == At(w, "replay") /\ Sending(w, "replayed")

Send(w) == At(w, "send") /\ Sending(w, "mark")

\* The CRM refuses an event or a terminal message with a permanent error.
Refuse(w) ==
    /\ At(w, "send") \/ At(w, "replay")
    /\ \E i \in queue[w] : First(w, i) /\ outbox[i].kind # "candidates"
    /\ sent' = [sent EXCEPT ![w] = "perm"]
    /\ Goto(w, IF At(w, "send") THEN "mark" ELSE "replayed")
    /\ Fault("refusal")
    /\ UNCHANGED <<tok, claim, job, queue, after, stop, final, crmVars, storeVars, sourceRuns>>

\* _reconcile_terminal_outbox: the store learns the outcome of one replay.
\* A lost lease counts as retryable here.
Replayed(w) ==
    /\ At(w, "replayed")
    /\ \E i \in queue[w] :
         /\ First(w, i)
         /\ CASE sent[w] = "ok" -> FinalizeTerminal(i)
              [] sent[w] \in {"lease", "retry"} -> MarkFailed(i, TRUE)
              [] OTHER -> MarkFailed(i, FALSE)
         /\ queue' = [queue EXCEPT ![w] = @ \ {i}]
         /\ Goto(w, IF queue[w] = {i} THEN "claim" ELSE "replay")
         /\ tok' = [tok EXCEPT ![w] = IF queue[w] = {i} THEN 0 ELSE @]
    /\ sent' = [sent EXCEPT ![w] = "none"]
    /\ UNCHANGED <<claim, job, after, stop, final>>
    /\ Quiet

-----------------------------------------------------------------------------
(* _deliver_outbox.                                                        *)

\* It returns True.
Returned(w) ==
    /\ CASE after[w] = "end" -> Leave(w)
         [] after[w] = "started" /\ "cancel" \in stop[w] ->
              Goto(w, "executed") /\ UNCHANGED <<tok, claim, job, queue, sent, after, stop, final>>
         [] after[w] = "started" /\ "cancel" \notin stop[w] ->
              Goto(w, "search") /\ UNCHANGED <<tok, claim, job, queue, sent, after, stop, final>>
         [] OTHER ->
              Goto(w, "loop") /\ UNCHANGED <<tok, claim, job, queue, sent, after, stop, final>>

\* It returns False: inside _execute_task that sets lease_lost; anywhere else
\* the poll is over.
GaveUp(w) ==
    IF after[w] = "started"
    THEN /\ Goto(w, "executed")
         /\ stop' = [stop EXCEPT ![w] = @ \cup {"lease"}]
         /\ queue' = [queue EXCEPT ![w] = {}]
         /\ sent' = [sent EXCEPT ![w] = "none"]
         /\ UNCHANGED <<tok, claim, job, after, final>>
    ELSE Leave(w)

Fetch(w) ==
    /\ At(w, "fetch")
    /\ IF Deliverable # {}
       THEN /\ queue' = [queue EXCEPT ![w] = Deliverable]
            /\ Goto(w, "send")
            /\ UNCHANGED <<tok, claim, job, sent, after, stop, final>>
       ELSE IF HasPending THEN GaveUp(w) ELSE Returned(w)
    /\ UNCHANGED storeVars
    /\ Quiet

\* The next row of the batch, or the next get_outbox.
NextRow(w, i) ==
    /\ queue' = [queue EXCEPT ![w] = @ \ {i}]
    /\ sent' = [sent EXCEPT ![w] = "none"]
    /\ Goto(w, IF queue[w] = {i} THEN "fetch" ELSE "send")
    /\ UNCHANGED <<tok, claim, job, after, stop, final>>

\* The store learns the outcome of a delivery that worked.  The ack of a batch
\* of candidates is one transaction, mark_outbox_delivered another.
Delivered(w) ==
    /\ At(w, "mark") /\ sent[w] = "ok"
    /\ \E i \in queue[w] :
         /\ First(w, i)
         /\ CASE outbox[i].kind = "events" -> MarkDelivered(i) /\ NextRow(w, i)
              [] outbox[i].kind = "complete" -> FinalizeTerminal(i) /\ NextRow(w, i)
              [] OTHER -> RecordAck(i, ledger[outbox[i].key]) /\ Proceed(w, "settle")
    /\ Quiet

Settle(w) ==
    /\ At(w, "settle")
    /\ \E i \in queue[w] : First(w, i) /\ MarkDelivered(i) /\ NextRow(w, i)
    /\ Quiet

\* Mutant: a row refused for its lease is taken for delivered.
LeaseLostDelivered(w) ==
    /\ At(w, "mark") /\ sent[w] = "lease"
    /\ \E i \in queue[w] : First(w, i) /\ MarkDelivered(i)
    /\ GaveUp(w)
    /\ Quiet

\* A lost lease leaves the row as it is.
LeaseLost(w) ==
    /\ At(w, "mark") /\ sent[w] = "lease"
    /\ GaveUp(w)
    /\ UNCHANGED storeVars
    /\ Quiet

\* A refused batch of candidates is split, a refused candidate discarded.
Isolate(w) ==
    /\ At(w, "mark") /\ sent[w] = "perm"
    /\ \E i \in queue[w] :
         /\ First(w, i)
         /\ outbox[i].kind = "candidates"
         /\ Split(i) \/ Discard(i)
         /\ NextRow(w, i)
    /\ Quiet

\* Anything else is retried later or dead-lettered, and delivery stops.
Undelivered(w) ==
    /\ At(w, "mark") /\ sent[w] \in {"retry", "perm", "conflict"}
    /\ \E i \in queue[w] :
         /\ First(w, i)
         /\ ~(sent[w] = "perm" /\ outbox[i].kind = "candidates" /\ (CanSplit(i) \/ CanDiscard(i)))
         /\ MarkFailed(i, sent[w] = "retry")
    /\ GaveUp(w)
    /\ Quiet

-----------------------------------------------------------------------------
(* The loop of _process_claim.                                             *)

\* while not lease_lost; the query of the CRM may raise, which ends the poll.
Loop(w) ==
    /\ At(w, "loop")
    /\ \/ "lease" \in stop[w] /\ Leave(w) /\ UNCHANGED faults
       \/ "lease" \notin stop[w] /\ "cancel" \notin stop[w] /\ Leave(w) /\ Fault("network")
       \/ /\ "lease" \notin stop[w]
          /\ "cancel" \in stop[w] \/ IsCancelRequested(tok[w])
          /\ Goto(w, "cancelTasks") /\ Finish(w, "cancelled") /\ UNCHANGED faults
       \/ /\ stop[w] \cap {"lease", "cancel"} = {}
          /\ ~IsCancelRequested(tok[w])
          /\ Proceed(w, "check") /\ UNCHANGED faults
    /\ UNCHANGED <<crmVars, storeVars, sourceRuns>>

\* Mutant: discarded candidates leave no trace in the report.
VerdictOfTasks(blemish) ==
    IF AnyTask({"failed"}) \/ DeadLetters \/ blemish THEN "partial" ELSE "completed"

\* The status reported when the work is over or the limit is reached.
Verdict(blemish) ==
    IF AnyTask({"failed"}) \/ DeadLetters \/ runInvalid > 0 \/ blemish
    THEN "partial" ELSE "completed"

\* An event row with budget_limited exists.
BudgetWasLimited ==
    \E i \in MessageIds :
        /\ outbox[i].kind = "events"
        /\ outbox[i].payload.status = "completed"
        /\ outbox[i].payload.task \in BudgetLimited

Check(w) ==
    /\ At(w, "check")
    /\ IF DeadLetters
       THEN Goto(w, "cancelTasks") /\ Finish(w, "partial")
       ELSE IF runBaseline >= MaxCandidates
       THEN Goto(w, "cancelTasks") /\ Finish(w, Verdict(FALSE))
       ELSE Proceed(w, "claimTask")
    /\ UNCHANGED storeVars
    /\ Quiet

TakeTask(w) ==
    /\ At(w, "claimTask")
    /\ ClaimTask(w)
    /\ IF Claimed = {}
       THEN Proceed(w, "drain")
       ELSE /\ \E t \in Claimed :
                 job' = [job EXCEPT ![w] = [task |-> t, attempt |-> taskRow[t].attempts + 1]]
            /\ Goto(w, "renew")
            /\ UNCHANGED <<tok, claim, queue, sent, after, stop, final>>
    /\ Quiet

Drain(w) ==
    /\ At(w, "drain")
    /\ IF WorkRemaining
       THEN Proceed(w, "loop")
       ELSE Goto(w, "complete") /\ Finish(w, Verdict(BudgetWasLimited))
    /\ UNCHANGED storeVars
    /\ Quiet

\* The lease is renewed before the task starts; a failure ends the poll.
Renew(w) ==
    /\ At(w, "renew")
    /\ \/ ~HoldsLease(tok[w]) /\ Leave(w) /\ UNCHANGED faults
       \/ Leave(w) /\ Fault("network")
       \/ /\ HoldsLease(tok[w]) /\ crmCancel
          /\ Goto(w, "cancelTasks") /\ Finish(w, "cancelled") /\ UNCHANGED faults
       \/ /\ HoldsLease(tok[w]) /\ ~crmCancel
          /\ Proceed(w, "recheck") /\ UNCHANGED faults
    /\ UNCHANGED <<crmVars, storeVars, sourceRuns>>

Recheck(w) ==
    /\ At(w, "recheck")
    /\ \/ IsCancelRequested(tok[w]) /\ Goto(w, "cancelTasks") /\ Finish(w, "cancelled")
       \/ ~IsCancelRequested(tok[w]) /\ Proceed(w, "start")
    /\ UNCHANGED storeVars
    /\ Quiet

-----------------------------------------------------------------------------
(* _execute_task.                                                          *)

\* Mutant: the search does not wait for the delivery of that event.
StartAtOnce(w) ==
    /\ At(w, "start")
    /\ SaveEvent(Event(job[w].task, "running", job[w].attempt))
    /\ Proceed(w, "search")
    /\ Quiet

\* The event that announces the attempt is delivered before the search.
Start(w) ==
    /\ At(w, "start")
    /\ SaveEvent(Event(job[w].task, "running", job[w].attempt))
    /\ Deliver(w, "started")
    /\ Quiet

\* The source is called.
Search(w) ==
    /\ At(w, "search")
    /\ sourceRuns' = [sourceRuns EXCEPT ![job[w].task] = @ + 1]
    /\ Proceed(w, "searching")
    /\ UNCHANGED <<crmVars, storeVars, faults>>

\* _search_until_stopped: a stop event wins over a result.
Searched(w) ==
    /\ At(w, "searching")
    /\ \/ stop[w] # {} /\ Proceed(w, "executed")
       \/ stop[w] = {} /\ Proceed(w, "save")
       \/ stop[w] = {} /\ Proceed(w, "fail")    \* the source raises
    /\ UNCHANGED storeVars
    /\ Quiet

Save(w) ==
    /\ At(w, "save")
    /\ \E batch \in Yield[job[w].task] :
          SaveCandidates(job[w].task, job[w].attempt, batch)
    /\ Proceed(w, "finish")
    /\ Quiet

\* finish_task raises when the worker lost the task.
FinishJob(w) ==
    /\ At(w, "finish")
    /\ \/ FinishTask(w, job[w].task) /\ Proceed(w, "announce")
       \/ ~Owns(w, job[w].task) /\ UNCHANGED storeVars /\ Proceed(w, "fail")
    /\ Quiet

Announce(w) ==
    /\ At(w, "announce")
    /\ SaveEvent(Event(job[w].task, "completed", 0))
    /\ Proceed(w, "executed")
    /\ Quiet

\* The transaction that announces the completion fails: it is the handler of
\* the exception that runs next, although the task is already completed.
AnnounceFails(w) ==
    /\ At(w, "announce")
    /\ Fault("store")
    /\ Proceed(w, "fail")
    /\ UNCHANGED <<crmVars, storeVars, sourceRuns>>

Fail(w) ==
    /\ At(w, "fail")
    /\ FailTask(w, job[w].task)
    /\ Proceed(w, "announceFailure")
    /\ Quiet

AnnounceFailure(w) ==
    /\ At(w, "announceFailure")
    /\ SaveEvent(Event(job[w].task,
                       IF job[w].attempt >= MaxAttempts THEN "failed" ELSE "pending", 0))
    /\ Proceed(w, "executed")
    /\ Quiet

\* Back in _process_claim.
Executed(w) ==
    /\ At(w, "executed")
    /\ IF "cancel" \in stop[w]
       THEN /\ Goto(w, "cancelTasks")
            /\ final' = [final EXCEPT ![w] = [NoFinal EXCEPT !.status = "cancelled"]]
            /\ UNCHANGED <<tok, claim, queue, sent, after, stop>>
            /\ job' = [job EXCEPT ![w] = NoJob]
       ELSE IF "lease" \in stop[w]
       THEN Leave(w)
       ELSE /\ Goto(w, "fetch")
            /\ job' = [job EXCEPT ![w] = NoJob]
            /\ after' = [after EXCEPT ![w] = "loop"]
            /\ stop' = [stop EXCEPT ![w] = @ \ {"task"}]
            /\ UNCHANGED <<tok, claim, queue, sent, final>>
    /\ UNCHANGED storeVars
    /\ Quiet

-----------------------------------------------------------------------------
(* _cancel and _complete.                                                  *)

StopTasks(w) ==
    /\ At(w, "cancelTasks")
    /\ CancelTasks
    /\ Proceed(w, IF final[w].status = "cancelled" THEN "announceCancel" ELSE "complete")
    /\ Quiet

AnnounceCancel(w) ==
    /\ At(w, "announceCancel")
    /\ SaveEvent(Event(NoTask, "none", 0))
    /\ Proceed(w, "complete")
    /\ Quiet

\* The statistics of the report are read first and queued afterwards.
Report(w) ==
    /\ At(w, "complete")
    /\ final' = [final EXCEPT ![w].accepted = runAccepted, ![w].invalid = runInvalid]
    /\ Goto(w, "queueTerminal")
    /\ UNCHANGED <<tok, claim, job, queue, sent, after, stop, storeVars>>
    /\ Quiet

Conclude(w) ==
    /\ At(w, "queueTerminal")
    /\ QueueTerminal(final[w])
    /\ Deliver(w, "end")
    /\ Quiet

-----------------------------------------------------------------------------
(* Concurrent activities of a worker and of its environment.               *)

InClaim(w) == pc[w] \notin {"idle", "replay", "replayed", "claim", "ensure"}

\* _run_heartbeat ends after it set an event.  Any exception counts as a lost
\* lease.  A renewal of a valid lease changes nothing here.
RunHeartbeat(w) ==
    /\ InClaim(w)
    /\ stop[w] \cap {"lease", "cancel"} = {}
    /\ \/ ~HoldsLease(tok[w]) /\ stop' = [stop EXCEPT ![w] = @ \cup {"lease"}] /\ UNCHANGED faults
       \/ stop' = [stop EXCEPT ![w] = @ \cup {"lease"}] /\ Fault("network")
       \/ /\ HoldsLease(tok[w]) /\ crmCancel
          /\ stop' = [stop EXCEPT ![w] = @ \cup {"cancel"}] /\ UNCHANGED faults
    /\ UNCHANGED <<crmVars, storeVars, pc, tok, claim, job, queue, sent, after, final, sourceRuns>>

\* _task_heartbeat; its event is read by the search only.
TaskHeartbeat(w) ==
    /\ At(w, "searching")
    /\ "task" \notin stop[w]
    /\ ~TaskHeartbeatValid(w, job[w].task)
    /\ stop' = [stop EXCEPT ![w] = @ \cup {"task"}]
    /\ UNCHANGED <<storeVars, pc, tok, claim, job, queue, sent, after, final>>
    /\ Quiet

\* The process stops, and is started again by its supervisor.
Crash(w) ==
    /\ ~At(w, "idle")
    /\ Fault("crash")
    /\ Leave(w)
    /\ UNCHANGED <<crmVars, storeVars, sourceRuns>>

Step(w) ==
    \/ Poll(w) \/ ClaimRun(w) \/ NothingToClaim(w) \/ Ensure(w)
    \/ Replay(w) \/ Replayed(w) \/ Fetch(w) \/ Send(w) \/ Delivered(w) \/ Settle(w)
    \/ LeaseLost(w) \/ Isolate(w) \/ Undelivered(w)
    \/ Loop(w) \/ Check(w) \/ TakeTask(w) \/ Drain(w) \/ Renew(w) \/ Recheck(w)
    \/ Start(w) \/ Search(w) \/ Searched(w) \/ Save(w) \/ FinishJob(w) \/ Announce(w)
    \/ Fail(w) \/ AnnounceFailure(w) \/ Executed(w)
    \/ StopTasks(w) \/ AnnounceCancel(w) \/ Report(w) \/ Conclude(w)

Abandoned == \A w \in Workers : tok[w] = crmToken => ~InClaim(w) /\ ~At(w, "ensure")

\* A back-off after MaxFaults failures lasts seconds, and the daemon polls again
\* after 15 s: when a lease of 120 s expires the rows are due again, and a terminal
\* row that the store knows has been replayed under its token.
Overdue ==
    \/ \E i \in MessageIds : outbox[i].kind # "complete" /\ ~outbox[i].avail
    \/ TerminalReplays # {} /\ runToken = crmToken

\* A lease expires when nobody holds it any more, which is the passage of time, or
\* when its holder or the whole daemon stalls, which is a fault.
RunLeaseExpires ==
    /\ CrmLeaseExpires
    /\ \/ Abandoned /\ ~Overdue /\ UNCHANGED faults
       \/ ~Abandoned /\ Fault("stall")
       \/ Abandoned /\ Overdue /\ Fault("stall")
    /\ UNCHANGED <<storeVars, workerVars, sourceRuns>>

TaskLeaseEnds(t) ==
    /\ TaskLeaseExpires(t)
    /\ Fault("stall")
    /\ UNCHANGED <<crmVars, workerVars, sourceRuns>>

Retry(i) ==
    /\ BackoffElapses(i)
    /\ UNCHANGED <<crmVars, workerVars, faults, sourceRuns>>

Cancel ==
    /\ MayCancel
    /\ RequestCancel
    /\ UNCHANGED <<storeVars, workerVars, faults, sourceRuns>>

Next ==
    \/ \E w \in Workers : Step(w)
    \/ \E w \in Workers : ClaimLost(w) \/ Refuse(w) \/ AnnounceFails(w) \/ RunHeartbeat(w)
                            \/ TaskHeartbeat(w) \/ Crash(w)
    \/ RunLeaseExpires
    \/ \E t \in Tasks : TaskLeaseEnds(t)
    \/ \E i \in MessageIds : Retry(i)
    \/ Cancel

Spec == Init /\ [][Next]_vars

\* The daemon keeps polling (run_forever, which survives every exception), and a
\* back-off and a lease nobody renews run out.
FairSpec ==
    /\ Spec
    /\ \A w \in Workers : WF_vars(Step(w))
    /\ WF_vars(RunLeaseExpires /\ Abandoned /\ ~Overdue)
    /\ WF_vars(\E i \in MessageIds : Retry(i))

-----------------------------------------------------------------------------
(* Types.                                                                  *)

Labels == {"idle", "replay", "replayed", "claim", "ensure", "fetch", "send", "mark",
           "settle", "loop", "check", "claimTask", "drain", "renew", "recheck",
           "start", "search", "searching", "save", "finish", "announce", "fail",
           "announceFailure", "executed", "cancelTasks", "announceCancel",
           "complete", "queueTerminal"}

TaskRef    == Tasks \cup {NoTask}
EventType  == [task : Tasks, status : TaskStatus, attempt : Nat]
                \cup [task : {NoTask}, status : {"none"}, attempt : Nat]
ReportType == [status : Terminal, accepted : Nat, invalid : Nat]
RowStatus  == {"queued", "delivered", "dead", "split", "discarded"}
RemoteTask == [status : TaskStatus, attempts : Nat]
LocalTask  == [status : TaskStatus, attempts : Nat, owner : Workers \cup {NoWorker},
               live : BOOLEAN]

EventKeys     == {"event"} \X Nat
CandidateKeys == ({"candidates"} \X Tasks \X Nat) \cup ({"split"} \X Nat \X {0, 1})
TerminalKeys  == {"terminal"} \X Terminal

RowOf(kind, keys, payloads) ==
    [kind : {kind}, key : keys, payload : payloads, status : RowStatus, avail : BOOLEAN]

RowType == RowOf("events", EventKeys, EventType)
             \cup RowOf("candidates", CandidateKeys, Seq(Candidates))
             \cup RowOf("complete", TerminalKeys, ReportType)

CrmTypeOK ==
    /\ crmStatus \in {"pending", "running", "cancel_requested"} \cup Terminal
    /\ crmToken \in Nat
    /\ crmLive \in BOOLEAN
    /\ crmIssued \in Nat
    /\ crmCancel \in BOOLEAN
    /\ crmTask \in [Tasks -> RemoteTask]
    /\ crmCands \subseteq Candidates
    /\ crmReport \in Nat
    /\ DOMAIN ledger \subseteq EventKeys \cup CandidateKeys \cup TerminalKeys
    /\ \A k \in DOMAIN ledger : ledger[k].accepted \in Nat /\ ledger[k].found \in Nat

StoreTypeOK ==
    /\ runStatus \in {"none", "running"} \cup Terminal
    /\ runToken \in Nat
    /\ runBaseline \in Nat
    /\ runAccepted \in Nat
    /\ runInvalid \in Nat
    /\ taskRow \in [Tasks -> LocalTask]
    /\ outbox \in Seq(RowType)

WorkerTypeOK ==
    /\ pc \in [Workers -> Labels]
    /\ tok \in [Workers -> Nat]
    /\ claim \in [Workers -> [tasks : [Tasks -> RemoteTask], found : Nat]]
    /\ job \in [Workers -> [task : TaskRef, attempt : Nat]]
    /\ queue \in [Workers -> SUBSET Nat]
    /\ sent \in [Workers -> {"none", "ok", "lease", "retry", "perm", "conflict"}]
    /\ after \in [Workers -> {"none", "loop", "started", "end"}]
    /\ stop \in [Workers -> SUBSET {"lease", "cancel", "task"}]
    /\ final \in [Workers -> [status : Terminal \cup {"none"}, accepted : Nat, invalid : Nat]]
    /\ faults \in Nat
    /\ sourceRuns \in [Tasks -> Nat]

\* Every variable of the CRM, of the store and of the workers has its type.
TypeOK == CrmTypeOK /\ StoreTypeOK /\ WorkerTypeOK

-----------------------------------------------------------------------------
(* Safety.                                                                 *)

\* A key is never committed with a body other than the one its outbox row
\* holds: a replay of the row is answered from the ledger and can never be
\* refused as a conflict.  _queue_outbox and the split keys must guarantee it.
ReplaysNeverConflict ==
    \A i \in MessageIds :
        Known(outbox[i].key) => ledger[outbox[i].key].payload = outbox[i].payload

\* A row leaves the outbox as delivered only once the CRM committed its key,
\* whatever was lost, refused, replayed by another process or interrupted.
DeliveredIsCommitted ==
    \A i \in MessageIds : outbox[i].status = "delivered" => Known(outbox[i].key)

\* A run row that says the run ended says it ended the way the CRM recorded,
\* even with several terminal messages queued under different keys.
LocalOutcomeIsRemote == runStatus \in Terminal => crmStatus = runStatus

\* Every candidate ever queued is in the CRM, was turned away by the full run,
\* is invalid and was set apart alone, or is still in a live or dead-lettered
\* row: splitting a batch and replaying its parts never loses one.
NoCandidateLost ==
    \A i \in MessageIds : outbox[i].kind = "candidates" =>
        \A n \in DOMAIN outbox[i].payload :
            LET c == outbox[i].payload[n] IN
            \/ c \in crmCands
            \/ Cardinality(crmCands) = MaxCandidates
            \/ \E j \in MessageIds :
                  /\ outbox[j].kind = "candidates"
                  /\ \E p \in DOMAIN outbox[j].payload : outbox[j].payload[p] = c
                  /\ \/ outbox[j].status \in {"queued", "dead"}
                     \/ outbox[j].status = "discarded" /\ c \in Invalid

\* With one worker, a run the CRM holds as completed lost nothing: no batch is
\* undelivered, dead or discarded, and the report it accepted counts exactly
\* the candidates it has, after any number of replays and re-executions.
CompletedIsExact ==
    crmStatus = "completed" =>
        /\ \A i \in MessageIds : outbox[i].kind = "candidates" => outbox[i].status = "delivered"
        /\ crmReport = Cardinality(crmCands)

\* With one worker, crashes and reclaims that reset the local attempt counters
\* never let a task call its source more often than max_attempts: the attempt
\* is in the CRM before the search starts.
SourceRunsBounded == \A t \in Tasks : sourceRuns[t] <= MaxAttempts

\* crm_accepted counts what the CRM confirmed: never more candidates than it
\* accepted, however often the answer to a batch has to be asked for again.
AcceptedIsConfirmed == runAccepted <= Cardinality(crmCands)

\* A task becomes completed only from running, through the worker that leased
\* it and for the attempt it leased, never through one that stalled meanwhile
\* while the task was failed, cancelled or leased again; or through the
\* snapshot of a new claim.
FencedFinish ==
    [][\A t \in Tasks :
         taskRow[t].status # "completed" /\ taskRow'[t].status = "completed" =>
            \/ /\ taskRow[t].status = "running"
               /\ \E w \in Workers : /\ pc[w] = "finish"
                                     /\ job[w] = [task |-> t, attempt |-> taskRow[t].attempts]
            \/ runToken' # runToken]_vars

\* A completed task whose completion event waits in the outbox is not executed
\* again because a stale snapshot of the CRM still shows it unfinished.
NoRerunWhileCompletionQueued ==
    [][\A t \in Tasks :
         taskRow[t].status = "completed" /\ CompletionQueued(t) =>
            taskRow'[t].status \notin {"pending", "running"}]_vars

-----------------------------------------------------------------------------
(* Liveness.                                                               *)

\* The CRM refused the terminal report of the run for good.
TerminalRefused ==
    \E i \in DOMAIN outbox :
        outbox[i].kind \in {"complete", "fail"} /\ outbox[i].status = "dead"

\* A run that its user does not cancel ends in the CRM, and the worker learns
\* it, once the faults stop; unless the CRM refused its terminal report, which
\* is found dead in the outbox and never queued again (store.py:963).
RunEnds ==
    <>(crmCancel \/ TerminalRefused \/ (crmStatus \in Terminal /\ runStatus = crmStatus))
=============================================================================
