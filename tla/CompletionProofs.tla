-------------------------- MODULE CompletionProofs --------------------------
(***************************************************************************)
(* With one worker, a run that the CRM holds as completed is exact         *)
(* (CompletedIsExact), for any tasks, candidates and bounds.               *)
(*                                                                         *)
(* The worker reports completed when nothing is queued, dead or discarded, *)
(* and no batch is set apart then, for a split leaves one of these behind. *)
(* What remains is that nothing moves until the report is committed, and   *)
(* that runAccepted, a sum of acknowledgements, is the number of           *)
(* candidates of the CRM.  Both need what holds in every state: rows move  *)
(* from queued only, no task is executed under a queued report, and every  *)
(* candidate of the CRM is counted in runAccepted or owned by a committed  *)
(* batch whose acknowledgement is not recorded yet (Owned).                *)
(***************************************************************************)
EXTENDS WorkerSafetyProofs

-----------------------------------------------------------------------------
(* The inductive invariant.                                                *)

QueueLabels == {"send", "mark", "settle", "replay", "replayed"}
CalmLabels  == {"loop", "check", "claimTask", "drain", "renew", "recheck", "start"}

Running == crmStatus \notin Terminal

TerminalQueued == \E i \in DOMAIN outbox : outbox[i].kind = "complete" /\ outbox[i].status = "queued"

BatchesDelivered ==
    \A i \in DOMAIN outbox : outbox[i].kind = "candidates" => outbox[i].status = "delivered"

\* The rows the worker read are still queued, but for the one whose
\* acknowledgement it has just recorded.
QueueHeld(w) ==
    /\ queue[w] # {} => pc[w] \in QueueLabels
    /\ \A i \in queue[w] :
          outbox[i].status = IF pc[w] = "settle" /\ First(w, i) THEN "delivered" ELSE "queued"

\* The worker executes a task, or delivers the event that announces it.
InTask(w) ==
    \/ pc[w] \in JobLabels \cup {"check", "claimTask", "drain", "executed"}
    \/ pc[w] \in DeliveryLabels /\ after[w] = "started"

\* The outbox is delivered before the work of a round of the loop starts.
CalmWhenEmpty(w) == pc[w] \in CalmLabels => ~HasPending

\* No task is executed after the run ended or once its report is queued.
TaskWhileRunning(w) == InTask(w) => Running /\ ~TerminalQueued

TokenInHand(w) == pc[w] \notin {"idle", "replay", "replayed", "claim"} => tok[w] # 0

CancelReported(w) == pc[w] = "announceCancel" => final[w].status = "cancelled"

\* What a worker found that is about to report a completed run.
Closing(w) ==
    pc[w] \in FinalLabels /\ final[w].status = "completed" =>
        /\ ~HasPending /\ ~DeadLetters /\ runInvalid = 0 /\ Running
        /\ pc[w] = "queueTerminal" => final[w].accepted = Cardinality(crmCands)

ControlInv(w) ==
    /\ QueueHeld(w) /\ CalmWhenEmpty(w) /\ TaskWhileRunning(w) /\ TokenInHand(w)
    /\ CancelReported(w) /\ Closing(w)

\* A batch is set apart for the invalid candidate it contains, and a discarded
\* one is counted.
SplitHasInvalid ==
    \A i \in DOMAIN outbox : outbox[i].status = "split" => \E c \in Invalid : Contains(i, c)

DiscardCounted ==
    Running => \A i \in DOMAIN outbox : outbox[i].status = "discarded" => runInvalid > 0

\* A queued report that says completed is exact.
Reported ==
    Running => \A i \in DOMAIN outbox :
        /\ outbox[i].kind = "complete"
        /\ outbox[i].status = "queued"
        /\ outbox[i].payload.status = "completed"
        => BatchesDelivered /\ outbox[i].payload.accepted = Cardinality(crmCands)

\* The batches that the CRM committed and the store does not know of.
Unrecorded ==
    {i \in DOMAIN outbox : /\ outbox[i].kind = "candidates"
                           /\ Known(outbox[i].key)
                           /\ outbox[i].status # "delivered"}

Share(owner, i) == {c \in crmCands : owner[c] = i}

\* owner shares the candidates of the CRM out to runAccepted, which is 0, and
\* to the unrecorded batches.
SharedOut(owner) ==
    /\ runAccepted = Cardinality(Share(owner, 0))
    /\ \A i \in Unrecorded : ledger[outbox[i].key].accepted = Cardinality(Share(owner, i))

Owned == Running => \E owner \in [crmCands -> {0} \cup Unrecorded] : SharedOut(owner)

CompletionInv(w) ==
    /\ ControlInv(w)
    /\ SplitHasInvalid /\ DiscardCounted /\ Reported /\ Owned
    /\ CompletedIsExact

-----------------------------------------------------------------------------
(* How rows move.                                                          *)

\* Steps of a worker, and of its environment.
WorkerMoves(w) ==
    Step(w) \/ ClaimLost(w) \/ Refuse(w) \/ AnnounceFails(w)
      \/ RunHeartbeat(w) \/ TaskHeartbeat(w) \/ Crash(w)

EnvironmentMoves ==
    \/ RunLeaseExpires
    \/ \E t \in Tasks : TaskLeaseEnds(t)
    \/ \E i \in MessageIds : Retry(i)
    \/ Cancel
    \/ UNCHANGED vars

\* With one worker, nobody else moves.
LEMMA AloneMoves ==
    ASSUME NEW w, Workers = {w}, [Next]_vars
    PROVE  WorkerMoves(w) \/ EnvironmentMoves
  BY DEF Next, WorkerMoves, EnvironmentMoves

\* Where the row in hand may go.
Leaves(i) ==
    \/ outbox'[i].status \in {"delivered", "dead"}
    \/ outbox'[i].status = "split" /\ \E c \in Invalid : Contains(i, c)
    \/ outbox'[i].status = "discarded" /\ runInvalid' = runInvalid + 1

\* The only row whose status changes is the one that the worker has in hand.
Left(w, i) ==
    First(w, i) /\ outbox[i].status = "queued" /\ pc[w] \in {"mark", "replayed"} /\ Leaves(i)

\* A row is added by the search, by a split or by the report.
Added(w, i) ==
    /\ outbox'[i].status = "queued"
    /\ ~Known(outbox'[i].key)
    /\ outbox'[i].kind = "candidates" =>
          \/ pc[w] = "save"
          \/ \E j \in queue[w] : outbox[j].kind = "candidates" /\ outbox[j].status = "queued"
    /\ outbox'[i].kind = "complete" => pc[w] = "queueTerminal" /\ outbox'[i].payload = final[w]

StatusesKept == \A i \in DOMAIN outbox : outbox'[i].status = outbox[i].status

RowsMove(w) ==
    /\ RowsKept
    /\ \A i \in DOMAIN outbox : outbox'[i].status = outbox[i].status \/ Left(w, i)
    /\ \A i \in DOMAIN outbox' \ DOMAIN outbox : Added(w, i)

\* Two rows of a queue are not both the first one.
LEMMA FirstIsOne ==
    ASSUME IInv, NEW w \in Workers, NEW i, NEW j, First(w, i), First(w, j)
    PROVE  i = j
  <1>1. queue[w] \subseteq Nat
    BY DEF IInv, WorkerTypeOK
  <1>2. QED BY <1>1 DEF First

\* The status that WithStatus and MarkFailed give.
LEMMA StatusSet ==
    ASSUME RowsOK, NEW i \in DOMAIN outbox, NEW status,
           outbox' = WithStatus(i, status)
    PROVE  /\ DOMAIN outbox' = DOMAIN outbox /\ outbox'[i].status = status
           /\ \A j \in DOMAIN outbox : j # i => outbox'[j] = outbox[j]
  <1>1. outbox[i] \in RowType
    BY RowsAreArray DEF RowsOK
  <1>2. outbox'[i] = [outbox[i] EXCEPT !.status = status]
    BY DEF WithStatus
  <1>3. QED BY <1>1, <1>2 DEF WithStatus, RowType, RowOf

LEMMA FailureSet ==
    ASSUME RowsOK, NEW i \in DOMAIN outbox, NEW retryable \in BOOLEAN, MarkFailed(i, retryable)
    PROVE  /\ DOMAIN outbox' = DOMAIN outbox
           /\ outbox'[i].status = IF retryable THEN "queued" ELSE "dead"
           /\ \A j \in DOMAIN outbox : j # i => outbox'[j] = outbox[j]
  <1> DEFINE status == IF retryable THEN "queued" ELSE "dead"
  <1>1. outbox[i] \in RowType
    BY RowsAreArray DEF RowsOK
  <1>2. /\ outbox'[i] = [outbox[i] EXCEPT !.status = status, !.avail = ~retryable]
        /\ DOMAIN outbox' = DOMAIN outbox
        /\ \A j \in DOMAIN outbox : j # i => outbox'[j] = outbox[j]
    BY DEF MarkFailed
  <1> HIDE DEF status
  <1>3. outbox'[i].status = status
    BY <1>1, <1>2 DEF RowType, RowOf
  <1>4. QED BY <1>2, <1>3 DEF status

\* A row whose back-off elapses keeps its status.
LEMMA BackoffKeepsStatus ==
    ASSUME RowsOK, NEW i \in DOMAIN outbox, BackoffElapses(i)
    PROVE  DOMAIN outbox' = DOMAIN outbox /\ StatusesKept
  <1>1. outbox[i] \in RowType
    BY RowsAreArray DEF RowsOK
  <1>2. /\ outbox'[i] = [outbox[i] EXCEPT !.avail = TRUE]
        /\ DOMAIN outbox' = DOMAIN outbox
        /\ \A j \in DOMAIN outbox : j # i => outbox'[j] = outbox[j]
    BY DEF BackoffElapses
  <1>3. outbox'[i].status = outbox[i].status
    BY <1>1, <1>2 DEF RowType, RowOf
  <1>4. QED BY <1>2, <1>3 DEF StatusesKept

\* The row that is split is set apart.
LEMMA SplitSet ==
    ASSUME RowsOK, NEW i \in DOMAIN outbox, outbox[i].kind = "candidates", Split(i)
    PROVE  outbox'[i].status = "split"
  <1> DEFINE r == [outbox[i] EXCEPT !.status = "split"]
             marked == WithStatus(i, "split")
             one == Insert(marked, Half(i, 0))
             two == Insert(one, Half(i, 1))
  <1>1. outbox[i] \in RowType /\ outbox \in Seq(RowType)
    BY RowsAreArray DEF RowsOK
  <1>2. r \in RowType
    BY <1>1, RowUpdated, TRUE \in BOOLEAN DEF RowStatus
  <1>3. r.status = "split" /\ r.key = outbox[i].key
    BY <1>1 DEF RowType, RowOf
  <1>4. marked = [outbox EXCEPT ![i] = r] /\ outbox' = two
    BY DEF WithStatus, Split
  <1>5. Half(i, 0) \in RowType /\ Half(i, 1) \in RowType
    BY HalfIsRow
  <1> HIDE DEF r, marked
  <1>6. /\ marked \in Seq(RowType) /\ i \in DOMAIN marked /\ marked[i] = r
        /\ \A j \in DOMAIN outbox : marked[j] = IF j = i THEN r ELSE outbox[j]
        /\ DOMAIN marked = DOMAIN outbox
    BY <1>1, <1>2, <1>4, RowReplaced
  <1>7. \A j, k \in DOMAIN marked : marked[j].key = marked[k].key => j = k
    BY <1>3, <1>6 DEF RowsOK, KeysUnique
  <1>8. one \in Seq(RowType) /\ i \in DOMAIN one /\ one[i] = r
    BY <1>5, <1>6, <1>7, InsertProperties
  <1> HIDE DEF one
  <1>9. i \in DOMAIN two /\ two[i] = r
    BY <1>8, Inserted
  <1>10. QED BY <1>3, <1>4, <1>9

\* The CRM knows no key of a row that is added.
LEMMA NewRowUnknown ==
    ASSUME IInv, IInv', RowsKept, NEW i \in DOMAIN outbox' \ DOMAIN outbox
    PROVE  ~Known(outbox'[i].key)
  <1> SUFFICES ASSUME Known(outbox'[i].key) PROVE FALSE
    OBVIOUS
  <1>1. PICK j \in DOMAIN outbox : outbox[j].key = outbox'[i].key
    BY DEF Known, IInv, StoreOK, LedgerFromOutbox
  <1>2. j \in DOMAIN outbox' /\ outbox'[j].key = outbox'[i].key
    BY <1>1 DEF RowsKept
  <1>3. \A k, l \in DOMAIN outbox' : outbox'[k].key = outbox'[l].key => k = l
    BY DEF IInv, StoreOK, KeysUnique
  <1>4. QED BY <1>1, <1>2, <1>3

\* Rows that stay as they are.
LEMMA RowsRest ==
    ASSUME RowsKept, DOMAIN outbox' = DOMAIN outbox, StatusesKept, NEW w
    PROVE  RowsMove(w)
  BY DEF RowsMove, StatusesKept

\* Only the row in hand moves.
LEMMA RowInHandMoves ==
    ASSUME IInv, RowsKept, NEW w \in Workers, NEW i \in DOMAIN outbox, First(w, i),
           DOMAIN outbox' = DOMAIN outbox, \A j \in DOMAIN outbox : j # i => outbox'[j] = outbox[j],
           \/ outbox'[i].status = outbox[i].status
           \/ outbox[i].status = "queued" /\ pc[w] \in {"mark", "replayed"} /\ Leaves(i)
    PROVE  RowsMove(w)
  BY DEF RowsMove, Left

\* A row added is queued, and the CRM has not heard of its key.
LEMMA RowIsAdded ==
    ASSUME IInv, IInv', RowsKept, NEW w \in Workers, NEW r, outbox' = Insert(outbox, r),
           r.status = "queued",
           r.kind = "candidates" => pc[w] = "save",
           r.kind = "complete" => pc[w] = "queueTerminal" /\ r.payload = final[w]
    PROVE  RowsMove(w)
  <1>1. outbox \in Seq(RowType)
    BY RowsOfStore DEF IInv, RowsOK
  <1>2. /\ \A i \in DOMAIN outbox : outbox'[i] = outbox[i]
        /\ \A i \in DOMAIN outbox' \ DOMAIN outbox : outbox'[i] = r
    BY <1>1, Inserted
  <1>3. \A i \in DOMAIN outbox' \ DOMAIN outbox : ~Known(outbox'[i].key)
    BY NewRowUnknown
  <1>4. QED BY <1>2, <1>3 DEF RowsMove, Added

\* The worker's own rows move when it learns what became of a delivery.
LEMMA AnsweredRowMoves ==
    ASSUME IInv, RowsKept, NEW w \in Workers, QueueHeld(w),
           Delivered(w) \/ Settle(w) \/ Replayed(w) \/ Undelivered(w)
    PROVE  RowsMove(w)
  <1>1. RowsOK
    BY RowsOfStore DEF IInv
  <1>2. CASE Settle(w)
    <2>1. PICK i \in queue[w] : First(w, i) /\ outbox' = WithStatus(i, "delivered")
      BY <1>2 DEF Settle, MarkDelivered
    <2>2. i \in DOMAIN outbox
      BY <2>1, FirstOfQueue
    <2>3. outbox[i].status = "delivered"
      BY <1>2, <2>1 DEF Settle, At, QueueHeld
    <2>4. QED BY <1>1, <2>1, <2>2, <2>3, StatusSet, RowInHandMoves
  <1>3. CASE ~Settle(w)
    <2>1. PICK i \in queue[w] :
            /\ First(w, i)
            /\ \/ outbox' = WithStatus(i, "delivered")
               \/ UNCHANGED outbox
               \/ \E retryable \in BOOLEAN : MarkFailed(i, retryable)
      <3>1. (sent[w] = "retry") \in BOOLEAN
        OBVIOUS
      <3>2. QED BY <1>3, <3>1 DEF Delivered, Replayed, Undelivered, MarkDelivered,
                                  FinalizeTerminal, RecordAck, storeVars
    <2>2. i \in DOMAIN outbox
      BY <2>1, FirstOfQueue
    <2>3. pc[w] \in {"mark", "replayed"} /\ outbox[i].status = "queued"
      BY <1>3, <2>1 DEF Delivered, Replayed, Undelivered, At, QueueHeld
    <2>4. CASE outbox' = WithStatus(i, "delivered")
      BY <1>1, <2>1, <2>2, <2>3, <2>4, StatusSet, RowInHandMoves DEF Leaves
    <2>5. CASE UNCHANGED outbox
      BY <2>5, RowsRest DEF StatusesKept
    <2>6. CASE \E retryable \in BOOLEAN : MarkFailed(i, retryable)
      <3>1. PICK retryable \in BOOLEAN : MarkFailed(i, retryable)
        BY <2>6
      <3>2. outbox'[i].status = outbox[i].status \/ Leaves(i)
        BY <1>1, <2>2, <2>3, <3>1, FailureSet DEF Leaves
      <3>3. /\ DOMAIN outbox' = DOMAIN outbox
            /\ \A j \in DOMAIN outbox : j # i => outbox'[j] = outbox[j]
        BY <1>1, <2>2, <3>1, FailureSet
      <3>4. QED BY <2>1, <2>2, <2>3, <3>2, <3>3, RowInHandMoves
    <2>7. QED BY <2>1, <2>4, <2>5, <2>6
  <1>4. QED BY <1>2, <1>3

\* A refused batch is set apart and its halves are added, or it is discarded.
LEMMA IsolatedRowMoves ==
    ASSUME IInv, IInv', CandidatesInv, RowsKept, NEW w \in Workers, QueueHeld(w), Isolate(w)
    PROVE  RowsMove(w)
  <1>1. PICK i \in queue[w] : /\ First(w, i) /\ outbox[i].kind = "candidates"
                              /\ Split(i) \/ Discard(i)
    BY DEF Isolate
  <1>2. i \in DOMAIN outbox /\ RowsOK
    BY <1>1, FirstOfQueue, RowsOfStore DEF IInv
  <1>3. pc[w] = "mark" /\ outbox[i].status = "queued"
    BY <1>1 DEF Isolate, At, QueueHeld
  <1>4. CASE Discard(i)
    <2>1. outbox' = WithStatus(i, "discarded") /\ runInvalid' = runInvalid + 1
      BY <1>4 DEF Discard
    <2>2. QED BY <1>1, <1>2, <1>3, <2>1, StatusSet, RowInHandMoves DEF Leaves
  <1>5. CASE Split(i)
    <2>1. SplitLeaves(i) /\ outbox'[i].status = "split"
      BY <1>1, <1>2, <1>5, SplitRows, SplitSet
    <2>2. \E c \in Invalid : Contains(i, c)
      BY <1>1, <1>3 DEF CandidatesInv, RefusedIsInvalid, Isolate, At
    <2>3. Left(w, i)
      BY <1>1, <1>3, <2>1, <2>2 DEF Left, Leaves
    <2>4. ASSUME NEW j \in DOMAIN outbox' \ DOMAIN outbox PROVE Added(w, j)
      <3>1. ~Known(outbox'[j].key)
        BY NewRowUnknown
      <3>2. PICK half \in {0, 1} : outbox'[j] = Half(i, half)
        BY <2>1 DEF SplitLeaves
      <3>3. outbox'[j].status = "queued" /\ outbox'[j].kind = "candidates"
        BY <3>2 DEF Half, Row
      <3>4. QED BY <1>1, <1>3, <3>1, <3>3 DEF Added
    <2>5. QED BY <2>1, <2>3, <2>4 DEF RowsMove, SplitLeaves
  <1>6. QED BY <1>1, <1>4, <1>5

\* How the rows move in a step of a worker.
LEMMA WorkerMovesRows ==
    ASSUME IInv, CandidatesInv, NEW w \in Workers, QueueHeld(w), WorkerMoves(w)
    PROVE  RowsMove(w)
  <1>1. IInv' /\ RowsKept
    <2>1. [Next]_vars
      BY DEF Next, WorkerMoves
    <2>2. QED BY <2>1, NextInv, NextKeepsRows
  <1>2. CASE UNCHANGED outbox
    BY <1>1, <1>2, RowsRest DEF StatusesKept
  <1>3. CASE Idle(w) \/ ClaimRun(w) \/ ClaimLost(w) \/ Replay(w) \/ Send(w) \/ Ensure(w)
               \/ TakeTask(w) \/ FinishJob(w) \/ Fail(w) \/ StopTasks(w)
    <2>1. CASE Idle(w)
      BY <2>1, <1>2 DEF Idle, Poll, NothingToClaim, Fetch, LeaseLost, Loop, Check, Drain, Renew,
         Recheck, Search, Searched, Executed, Report, Refuse, AnnounceFails, RunHeartbeat,
         TaskHeartbeat, Crash, storeVars
    <2>2. CASE ClaimRun(w) \/ ClaimLost(w) \/ Replay(w) \/ Send(w) \/ Ensure(w)
                 \/ TakeTask(w) \/ FinishJob(w) \/ Fail(w) \/ StopTasks(w)
      BY <2>2, <1>2 DEF ClaimRun, ClaimLost, Replay, Send, Sending, Ensure, EnsureRun, TakeTask,
         ClaimTask, FinishJob, FinishTask, Fail, FailTask, StopTasks, CancelTasks, storeVars
    <2>3. QED BY <1>3, <2>1, <2>2
  <1>4. CASE Start(w) \/ Announce(w) \/ AnnounceFailure(w) \/ AnnounceCancel(w)
    <2>1. PICK event : outbox' = Insert(outbox, Row("events", <<"event", Len(outbox) + 1>>, event))
      BY <1>4 DEF Start, Announce, AnnounceFailure, AnnounceCancel, SaveEvent, Queue
    <2> DEFINE r == Row("events", <<"event", Len(outbox) + 1>>, event)
    <2>2. r.status = "queued" /\ r.kind = "events"
      BY DEF Row
    <2>3. outbox' = Insert(outbox, r)
      BY <2>1
    <2> HIDE DEF r
    <2>4. QED BY <1>1, <2>2, <2>3, RowIsAdded
  <1>5. CASE Save(w)
    <2>1. PICK batch : SaveCandidates(job[w].task, job[w].attempt, batch)
      BY <1>5 DEF Save
    <2> DEFINE r == Row("candidates", CandidatesKey(job[w].task, job[w].attempt), batch)
    <2>2. r.status = "queued" /\ r.kind = "candidates" /\ pc[w] = "save"
      BY <1>5 DEF Row, Save, At
    <2>3. UNCHANGED outbox \/ outbox' = Insert(outbox, r)
      BY <2>1 DEF SaveCandidates, Queue
    <2> HIDE DEF r
    <2>4. QED BY <1>1, <1>2, <2>2, <2>3, RowIsAdded
  <1>6. CASE Conclude(w)
    <2> DEFINE r == Row("complete", TerminalKey(final[w].status), final[w])
    <2>1. r.status = "queued" /\ r.kind = "complete" /\ r.payload = final[w]
      BY DEF Row
    <2>2. outbox' = Insert(outbox, r) /\ pc[w] = "queueTerminal"
      BY <1>6 DEF Conclude, QueueTerminal, Queue, At
    <2> HIDE DEF r
    <2>3. QED BY <1>1, <2>1, <2>2, RowIsAdded
  <1>7. CASE Delivered(w) \/ Settle(w) \/ Replayed(w) \/ Undelivered(w)
    BY <1>1, <1>7, AnsweredRowMoves
  <1>8. CASE Isolate(w)
    BY <1>1, <1>8, IsolatedRowMoves
  <1>9. QED BY <1>3, <1>4, <1>5, <1>6, <1>7, <1>8 DEF WorkerMoves, Step, Idle

\* What the environment leaves alone.
LEMMA EnvironmentRests ==
    ASSUME IInv, EnvironmentMoves
    PROVE  /\ UNCHANGED workerVars
           /\ UNCHANGED <<runAccepted, runInvalid, crmCands, crmReport, ledger>>
           /\ RowsKept /\ DOMAIN outbox' = DOMAIN outbox /\ StatusesKept
           /\ Running' <=> Running
           /\ crmStatus' = "completed" => crmStatus = "completed"
  <1>1. RowsKept
    <2>1. [Next]_vars
      BY DEF Next, EnvironmentMoves
    <2>2. QED BY <2>1, NextKeepsRows
  <1>2. DOMAIN outbox' = DOMAIN outbox /\ StatusesKept
    <2>1. CASE \E i \in MessageIds : Retry(i)
      BY <2>1, BackoffKeepsStatus, RowsOfStore DEF Retry, IInv, MessageIds
    <2>2. CASE UNCHANGED outbox
      BY <2>2 DEF StatusesKept
    <2>3. QED BY <2>1, <2>2 DEF EnvironmentMoves, RunLeaseExpires, TaskLeaseEnds, TaskLeaseExpires,
                                Cancel, vars, storeVars
  <1>3. CASE RunLeaseExpires
    BY <1>1, <1>2, <1>3 DEF RunLeaseExpires, CrmLeaseExpires, storeVars, Running
  <1>4. CASE \E t \in Tasks : TaskLeaseEnds(t)
    BY <1>1, <1>2, <1>4 DEF TaskLeaseEnds, TaskLeaseExpires, runVars, crmVars, Running
  <1>5. CASE \E i \in MessageIds : Retry(i)
    BY <1>1, <1>2, <1>5 DEF Retry, BackoffElapses, runVars, crmVars, Running
  <1>6. CASE Cancel
    BY <1>1, <1>2, <1>6 DEF Cancel, RequestCancel, storeVars, Running, Terminal
  <1>7. CASE UNCHANGED vars
    BY <1>1, <1>2, <1>7 DEF vars, crmVars, storeVars, Running
  <1>8. QED BY <1>3, <1>4, <1>5, <1>6, <1>7 DEF EnvironmentMoves

-----------------------------------------------------------------------------
(* How the run moves in the CRM, and its counters in the store.            *)

\* Nothing that the report is about changes.
CrmRests ==
    /\ UNCHANGED <<crmCands, crmReport>>
    /\ Running' <=> Running
    /\ crmStatus' = "completed" => crmStatus = "completed"
    /\ \A k \in CandidateKeys : k \in DOMAIN ledger' <=> k \in DOMAIN ledger

\* The CRM commits the report, which ends the run.
ReportSent(w) ==
    \E i \in queue[w] :
        /\ First(w, i) /\ pc[w] \in {"send", "replay"}
        /\ outbox[i].kind = "complete"
        /\ Running /\ ~Running'
        /\ crmStatus' = outbox[i].payload.status
        /\ crmReport' = outbox[i].payload.accepted
        /\ UNCHANGED crmCands

\* The CRM commits a batch for the first time.
BatchSent(w) ==
    \E i \in queue[w] :
        /\ First(w, i) /\ pc[w] \in {"send", "replay"}
        /\ outbox[i].kind = "candidates" /\ ~Known(outbox[i].key)
        /\ Running /\ UNCHANGED <<crmStatus, crmReport, storeVars>>
        /\ crmCands' = crmCands \cup Admitted(outbox[i].payload)
        /\ DOMAIN ledger' = DOMAIN ledger \cup {outbox[i].key}
        /\ ledger'[outbox[i].key].accepted = Cardinality(Admitted(outbox[i].payload))

\* A delivery does nothing that the report is about, or one of these two.
LEMMA SendingMovesCrm ==
    ASSUME IInv, NEW w \in Workers, Replay(w) \/ Send(w)
    PROVE  CrmRests \/ ReportSent(w) \/ BatchSent(w)
  <1>1. PICK i \in queue[w] :
           /\ First(w, i)
           /\ \/ UNCHANGED crmVars
              \/ /\ Outcome(tok[w], outbox[i].kind, outbox[i].key, outbox[i].payload) = "ok"
                 /\ Commit(outbox[i].kind, outbox[i].key, outbox[i].payload)
    BY DEF Replay, Send, Sending
  <1>2. i \in DOMAIN outbox /\ outbox[i] \in RowType
    BY <1>1, FirstOfQueue
  <1>3. pc[w] \in {"send", "replay"} /\ UNCHANGED storeVars
    BY DEF Replay, Send, Sending, At
  <1>4. CASE UNCHANGED crmVars
    BY <1>4 DEF crmVars, CrmRests, Running
  <1>5. CASE Known(outbox[i].key) /\ Commit(outbox[i].kind, outbox[i].key, outbox[i].payload)
    BY <1>5 DEF Commit, AppendEvents, UpsertCandidates, CompleteRun, CrmRests, Running
  <1>6. CASE /\ ~Known(outbox[i].key)
             /\ Outcome(tok[w], outbox[i].kind, outbox[i].key, outbox[i].payload) = "ok"
             /\ Commit(outbox[i].kind, outbox[i].key, outbox[i].payload)
    <2>1. Running
      <3>1. HoldsLease(tok[w])
        BY <1>6 DEF Outcome
      <3>2. QED BY <3>1 DEF HoldsLease, IInv, CrmOK, EndedHasNoLease, Running
    <2>2. CASE outbox[i].kind = "events" /\ AppendEvents(outbox[i].key, outbox[i].payload)
      <3>1. outbox[i].key \notin CandidateKeys
        BY <1>2, <2>2, RowFields DEF EventKeys, CandidateKeys
      <3>2. DOMAIN ledger' = DOMAIN ledger \cup {outbox[i].key}
        BY <1>6, <2>2 DEF AppendEvents, Remember
      <3>3. UNCHANGED <<crmStatus, crmCands, crmReport>>
        BY <2>2 DEF AppendEvents
      <3>4. QED BY <3>1, <3>2, <3>3 DEF CrmRests, Running
    <2>3. CASE outbox[i].kind = "complete" /\ CompleteRun(outbox[i].key, outbox[i].payload)
      <3>1. outbox[i].payload.status \in Terminal
        BY <1>2, <2>3, RowFields DEF ReportType
      <3>2. /\ crmStatus' = outbox[i].payload.status
            /\ crmReport' = outbox[i].payload.accepted
            /\ UNCHANGED crmCands
        BY <1>6, <2>3 DEF CompleteRun
      <3>3. QED BY <1>1, <1>3, <2>1, <2>3, <3>1, <3>2 DEF ReportSent, Running
    <2>4. CASE outbox[i].kind = "candidates" /\ UpsertCandidates(outbox[i].key, outbox[i].payload)
      <3>1. /\ UNCHANGED <<crmStatus, crmReport>>
            /\ crmCands' = crmCands \cup Admitted(outbox[i].payload)
            /\ DOMAIN ledger' = DOMAIN ledger \cup {outbox[i].key}
            /\ ledger'[outbox[i].key].accepted = Cardinality(Admitted(outbox[i].payload))
        BY <1>6, <2>4 DEF UpsertCandidates, Remember
      <3>2. QED BY <1>1, <1>3, <1>6, <2>1, <2>4, <3>1 DEF BatchSent
    <2>5. QED BY <1>6, <2>2, <2>3, <2>4 DEF Commit
  <1>7. QED BY <1>1, <1>4, <1>5, <1>6

\* No other step of a worker does any of it.
LEMMA WorkerMovesCrm ==
    ASSUME IInv, NEW w \in Workers, WorkerMoves(w)
    PROVE  CrmRests \/ ReportSent(w) \/ BatchSent(w)
  <1>1. CASE Replay(w) \/ Send(w)
    BY <1>1, SendingMovesCrm
  <1>2. CASE ClaimRun(w) \/ ClaimLost(w)
    BY <1>2 DEF ClaimRun, ClaimLost, CrmClaimRun, Claimable, CrmRests, Running, Terminal
  <1>3. CASE Idle(w)
    <2>1. UNCHANGED crmVars
      BY <1>3 DEF Idle, Poll, NothingToClaim, Fetch, LeaseLost, Loop, Check, Drain, Renew,
             Recheck, Search, Searched, Executed, Report, Refuse, AnnounceFails, RunHeartbeat,
             TaskHeartbeat, Crash, Quiet
    <2>2. QED BY <2>1 DEF crmVars, CrmRests, Running
  <1>4. CASE \/ Ensure(w) \/ TakeTask(w) \/ FinishJob(w) \/ Fail(w) \/ StopTasks(w) \/ Start(w)
             \/ Announce(w) \/ AnnounceFailure(w) \/ AnnounceCancel(w) \/ Save(w) \/ Conclude(w)
             \/ Delivered(w) \/ Settle(w) \/ Replayed(w) \/ Undelivered(w) \/ Isolate(w)
    <2>1. UNCHANGED crmVars
      BY <1>4 DEF Ensure, TakeTask, FinishJob, Fail, StopTasks, Start, Announce, AnnounceFailure,
             AnnounceCancel, Save, Conclude, Delivered, Settle, Replayed, Undelivered, Isolate, Quiet
    <2>2. QED BY <2>1 DEF crmVars, CrmRests, Running
  <1>5. QED BY <1>1, <1>2, <1>3, <1>4 DEF WorkerMoves, Step, Idle

\* The counters of the run row, but for the discarded candidates.
CountersRest ==
    /\ runAccepted' = runAccepted
    /\ runInvalid' \in {runInvalid, runInvalid + 1}
    /\ \A i \in DOMAIN outbox :
          outbox[i].kind = "candidates" /\ outbox'[i].status = "delivered" =>
              outbox[i].status = "delivered"

\* The store records an acknowledgement.
Acked(w) ==
    \E i \in queue[w] :
        /\ First(w, i)
        /\ i \in Unrecorded
        /\ outbox' = WithStatus(i, "delivered")
        /\ runAccepted' = runAccepted + ledger[outbox[i].key].accepted
        /\ UNCHANGED <<runInvalid, crmVars>>

\* The counters rest, record an acknowledgement or belong to a run that ended.
LEMMA WorkerMovesCounters ==
    ASSUME IInv, CandidatesInv, NEW w \in Workers, QueueHeld(w), WorkerMoves(w)
    PROVE  CountersRest \/ Acked(w) \/ ~Running'
  <1>1. RowsMove(w) /\ RowsOK
    BY WorkerMovesRows, RowsOfStore DEF IInv
  <1>2. CASE /\ UNCHANGED <<runAccepted, runInvalid>>
             /\ \A i \in DOMAIN outbox : outbox[i].kind = "candidates" =>
                   \/ outbox'[i].status = outbox[i].status
                   \/ outbox'[i].status # "delivered"
    BY <1>2 DEF CountersRest
  <1>3. CASE UNCHANGED <<runAccepted, runInvalid, outbox>>
    BY <1>3 DEF CountersRest
  <1>4. ASSUME NEW i \in DOMAIN outbox, First(w, i), FinalizeTerminal(i),
               outbox[i].kind = "complete", sent[w] = "ok", UNCHANGED crmVars
        PROVE  ~Running'
    <2>1. Known(outbox[i].key) /\ outbox[i].key \in TerminalKeys
      BY <1>4, FirstOfQueue, RowFields
    <2>2. crmStatus \in Terminal
      BY <2>1 DEF Known, IInv, CrmOK, TerminalCommitted
    <2>3. QED BY <1>4, <2>2 DEF crmVars, Running
  <1>5. CASE Idle(w)
    <2>1. UNCHANGED storeVars
      BY <1>5 DEF Idle, Poll, NothingToClaim, Fetch, LeaseLost, Loop, Check, Drain, Renew, Recheck,
             Search, Searched, Executed, Report, Refuse, AnnounceFails, RunHeartbeat,
             TaskHeartbeat, Crash
    <2>2. QED BY <1>3, <2>1 DEF storeVars
  <1>6. CASE ClaimRun(w) \/ ClaimLost(w) \/ Replay(w) \/ Send(w) \/ Ensure(w) \/ TakeTask(w)
               \/ FinishJob(w) \/ Fail(w) \/ StopTasks(w)
    BY <1>3, <1>6 DEF ClaimRun, ClaimLost, Replay, Send, Sending, Ensure, EnsureRun, TakeTask,
       ClaimTask, FinishJob, FinishTask, Fail, FailTask, StopTasks, CancelTasks, storeVars, runVars
  <1>7. CASE Start(w) \/ Announce(w) \/ AnnounceFailure(w) \/ AnnounceCancel(w) \/ Save(w)
               \/ Conclude(w)
    <2>1. UNCHANGED <<runAccepted, runInvalid>>
      BY <1>7 DEF Start, Announce, AnnounceFailure, AnnounceCancel, Save, Conclude, SaveEvent,
             SaveCandidates, QueueTerminal, runVars
    <2>2. pc[w] \notin {"mark", "replayed"}
      BY <1>7 DEF Start, Announce, AnnounceFailure, AnnounceCancel, Save, Conclude, At
    <2>3. QED BY <1>1, <1>2, <2>1, <2>2 DEF RowsMove, Left
  <1>8. CASE Undelivered(w) \/ (Replayed(w) /\ sent[w] # "ok")
    <2>1. PICK i \in queue[w] : First(w, i) /\ \E retryable \in BOOLEAN : MarkFailed(i, retryable)
      <3>1. (sent[w] = "retry") \in BOOLEAN
        OBVIOUS
      <3>2. QED BY <1>8, <3>1 DEF Undelivered, Replayed
    <2>2. i \in DOMAIN outbox
      BY <2>1, FirstOfQueue
    <2>3. UNCHANGED <<runAccepted, runInvalid>>
      BY <2>1 DEF MarkFailed, runVars
    <2>4. outbox'[i].status # "delivered" /\ \A j \in DOMAIN outbox : j # i => outbox'[j] = outbox[j]
      BY <1>1, <2>1, <2>2, FailureSet
    <2>5. QED BY <1>2, <2>3, <2>4
  <1>9. CASE Settle(w)
    <2>1. PICK i \in queue[w] : First(w, i) /\ MarkDelivered(i)
      BY <1>9 DEF Settle
    <2>2. i \in DOMAIN outbox /\ outbox[i].status = "delivered"
      BY <1>9, <2>1, FirstOfQueue DEF Settle, At, QueueHeld
    <2>3. \A j \in DOMAIN outbox : outbox'[j].status = outbox[j].status
      BY <1>1, <2>1, <2>2, StatusSet DEF MarkDelivered
    <2>4. QED BY <1>2, <2>1, <2>3 DEF MarkDelivered, runVars
  <1>10. CASE Replayed(w) /\ sent[w] = "ok"
    <2>1. PICK i \in queue[w] : First(w, i) /\ FinalizeTerminal(i)
      BY <1>10 DEF Replayed
    <2>2. i \in DOMAIN outbox /\ outbox[i].kind = "complete"
      BY <1>10, <2>1, FirstOfQueue DEF Replayed, At, IInv, WorkerOK
    <2>3. UNCHANGED crmVars
      BY <1>10 DEF Replayed, Quiet
    <2>4. QED BY <1>4, <1>10, <2>1, <2>2, <2>3
  <1>11. CASE Delivered(w)
    <2>1. PICK i \in queue[w] :
           /\ First(w, i)
           /\ CASE outbox[i].kind = "events" -> MarkDelivered(i) /\ NextRow(w, i)
                [] outbox[i].kind = "complete" -> FinalizeTerminal(i) /\ NextRow(w, i)
                [] OTHER -> RecordAck(i, ledger[outbox[i].key]) /\ Proceed(w, "settle")
      BY <1>11 DEF Delivered
    <2>2. i \in DOMAIN outbox /\ outbox[i] \in RowType /\ Known(outbox[i].key) /\ sent[w] = "ok"
      BY <1>11, <2>1, FirstOfQueue DEF Delivered
    <2>3. outbox[i].status = "queued" /\ UNCHANGED crmVars
      BY <1>11, <2>1 DEF Delivered, Quiet, At, QueueHeld
    <2>4. CASE outbox[i].kind = "events"
      <3>1. MarkDelivered(i)
        BY <2>1, <2>4
      <3>2. \A j \in DOMAIN outbox : j # i => outbox'[j] = outbox[j]
        BY <1>1, <2>2, <3>1, StatusSet DEF MarkDelivered
      <3>3. QED BY <1>2, <2>4, <3>1, <3>2 DEF MarkDelivered, runVars
    <2>5. CASE outbox[i].kind = "complete"
      BY <1>4, <2>1, <2>2, <2>3, <2>5
    <2>6. CASE outbox[i].kind = "candidates"
      <3>1. RecordAck(i, ledger[outbox[i].key])
        BY <2>1, <2>6
      <3>2. Acked(w)
        BY <2>1, <2>2, <2>3, <2>6, <3>1 DEF RecordAck, Acked, Unrecorded
      <3>3. QED BY <3>2
    <2>7. QED BY <2>2, <2>4, <2>5, <2>6, RowFields
  <1>12. CASE Isolate(w)
    <2>1. PICK i \in queue[w] : First(w, i) /\ outbox[i].kind = "candidates" /\ (Split(i) \/ Discard(i))
      BY <1>12 DEF Isolate
    <2>2. i \in DOMAIN outbox
      BY <2>1, FirstOfQueue
    <2>3. runAccepted' = runAccepted /\ runInvalid' \in {runInvalid, runInvalid + 1}
      BY <2>1 DEF Split, Discard, runVars
    <2>4. /\ outbox'[i].status # "delivered"
          /\ \A j \in DOMAIN outbox : j # i => outbox'[j] = outbox[j]
      BY <1>1, <2>1, <2>2, StatusSet, SplitSet, SplitRows DEF Discard, SplitLeaves
    <2>5. QED BY <2>3, <2>4 DEF CountersRest
  <1>13. QED BY <1>5, <1>6, <1>7, <1>8, <1>9, <1>10, <1>11, <1>12 DEF WorkerMoves, Step, Idle

-----------------------------------------------------------------------------
(* The rows and the report.                                                *)

\* When nothing is queued, dead or discarded, every batch is delivered, and the
\* candidates of the CRM are the ones that were counted.
LEMMA NothingLeft ==
    ASSUME IInv, CandidatesInv, SplitHasInvalid, DiscardCounted, Running,
           ~HasPending, ~DeadLetters, runInvalid = 0
    PROVE  BatchesDelivered /\ (Owned => runAccepted = Cardinality(crmCands))
  <1>1. \A i \in DOMAIN outbox : outbox[i].status \in {"delivered", "split"}
    <2>1. ASSUME NEW i \in DOMAIN outbox PROVE outbox[i].status \in {"delivered", "split"}
      <3>1. outbox[i].status \in RowStatus
        BY RowsAreArray, RowsOfStore, RowFields DEF IInv, RowsOK
      <3>2. outbox[i].status \notin {"queued", "dead", "discarded"}
        BY DEF HasPending, DeadLetters, MessageIds, DiscardCounted
      <3>3. QED BY <3>1, <3>2 DEF RowStatus
    <2>2. QED BY <2>1
  <1>2. ASSUME NEW i \in DOMAIN outbox, outbox[i].status = "split" PROVE FALSE
    <2>1. PICK c \in Invalid : Contains(i, c)
      BY <1>2 DEF SplitHasInvalid
    <2>2. c \in Candidates /\ ~Taken(c)
      BY CrmAssumption DEF Taken
    <2>3. PICK j \in DOMAIN outbox : Holds(j, c)
      BY <2>1, <2>2 DEF CandidatesInv, RowsAccounted, Accounted
    <2>4. QED BY <1>1, <2>3 DEF Holds
  <1>3. \A i \in DOMAIN outbox : outbox[i].status = "delivered"
    BY <1>1, <1>2
  <1>4. ASSUME Owned PROVE runAccepted = Cardinality(crmCands)
    <2>1. Unrecorded = {}
      BY <1>3 DEF Unrecorded
    <2>2. PICK owner \in [crmCands -> {0} \cup Unrecorded] : SharedOut(owner)
      BY <1>4 DEF Owned
    <2>3. Share(owner, 0) = crmCands
      BY <2>1, <2>2 DEF Share
    <2>4. QED BY <2>2, <2>3 DEF SharedOut
  <1>5. QED BY <1>3, <1>4 DEF BatchesDelivered

\* A row is set apart for an invalid candidate.
LEMMA StepSplit ==
    ASSUME NEW w, SplitHasInvalid, RowsMove(w)
    PROVE  SplitHasInvalid'
  <1>1. ASSUME NEW i \in DOMAIN outbox', outbox'[i].status = "split"
        PROVE  \E c \in Invalid : Contains(i, c)'
    <2>1. i \in DOMAIN outbox
      BY <1>1 DEF RowsMove, Added
    <2>2. \E c \in Invalid : Contains(i, c)
      BY <1>1, <2>1 DEF SplitHasInvalid, RowsMove, Left, Leaves
    <2>3. QED BY <2>1, <2>2, ContentsKept DEF RowsMove
  <1>2. QED BY <1>1 DEF SplitHasInvalid

\* While the run lives the count of discarded candidates only grows.
LEMMA StepDiscard ==
    ASSUME IInv, NEW w, DiscardCounted, RowsMove(w), Running' => Running,
           Running' => runInvalid' \in {runInvalid, runInvalid + 1}
    PROVE  DiscardCounted'
  <1>1. ASSUME Running', NEW i \in DOMAIN outbox', outbox'[i].status = "discarded"
        PROVE  runInvalid' > 0
    <2>1. runInvalid \in Nat
      BY DEF IInv, StoreOK, StoreTypeOK
    <2>2. i \in DOMAIN outbox
      BY <1>1 DEF RowsMove, Added
    <2>3. CASE outbox[i].status = "discarded"
      BY <1>1, <2>1, <2>2, <2>3 DEF DiscardCounted
    <2>4. CASE outbox[i].status # "discarded"
      BY <1>1, <2>1, <2>2, <2>4 DEF RowsMove, Left, Leaves
    <2>5. QED BY <2>3, <2>4
  <1>2. QED BY <1>1 DEF DiscardCounted

\* Batches that are delivered stay so, and no other one is added but by a search.
LEMMA BatchesStay ==
    ASSUME NEW w, BatchesDelivered, queue[w] \subseteq DOMAIN outbox, RowsMove(w), pc[w] # "save"
    PROVE  BatchesDelivered'
  <1>1. ASSUME NEW i \in DOMAIN outbox', outbox'[i].kind = "candidates"
        PROVE  outbox'[i].status = "delivered"
    <2>1. CASE i \in DOMAIN outbox
      BY <1>1, <2>1 DEF RowsMove, RowsKept, Left, BatchesDelivered
    <2>2. CASE i \notin DOMAIN outbox
      <3>1. PICK j \in queue[w] : outbox[j].kind = "candidates" /\ outbox[j].status = "queued"
        BY <1>1, <2>2 DEF RowsMove, Added
      <3>2. QED BY <3>1 DEF BatchesDelivered
    <2>3. QED BY <2>1, <2>2
  <1>2. QED BY <1>1 DEF BatchesDelivered

\* The steps that commit a batch have a batch in hand that is queued.
LEMMA BatchInHand ==
    ASSUME IInv, NEW w \in Workers, QueueHeld(w), BatchSent(w)
    PROVE  ~BatchesDelivered
  <1>1. PICK i \in queue[w] : pc[w] \in {"send", "replay"} /\ outbox[i].kind = "candidates"
    BY DEF BatchSent
  <1>2. i \in DOMAIN outbox /\ outbox[i].status = "queued"
    BY <1>1 DEF QueueHeld, IInv, WorkerOK
  <1>3. QED BY <1>1, <1>2 DEF BatchesDelivered

\* A queued report stays exact until it is committed.
LEMMA StepReported ==
    ASSUME IInv, CandidatesInv, NEW w \in Workers, CompletionInv(w), RowsMove(w),
           CrmRests \/ ReportSent(w) \/ BatchSent(w)
    PROVE  Reported'
  <1> SUFFICES ASSUME Running', NEW i \in DOMAIN outbox', outbox'[i].kind = "complete",
                      outbox'[i].status = "queued", outbox'[i].payload.status = "completed"
               PROVE  BatchesDelivered' /\ outbox'[i].payload.accepted = Cardinality(crmCands')
    BY DEF Reported
  <1>1. Running
    BY DEF CrmRests, ReportSent, BatchSent
  <1>2. queue[w] \subseteq DOMAIN outbox
    BY DEF IInv, WorkerOK
  <1>3. ASSUME BatchesDelivered PROVE crmCands' = crmCands
    BY <1>3, BatchInHand DEF CompletionInv, ControlInv, CrmRests, ReportSent
  <1>4. CASE i \in DOMAIN outbox
    <2>1. /\ outbox[i].kind = "complete" /\ outbox[i].status = "queued"
          /\ outbox[i].payload = outbox'[i].payload
      BY <1>4 DEF RowsMove, RowsKept, Left
    <2>2. BatchesDelivered /\ outbox[i].payload.accepted = Cardinality(crmCands)
      BY <1>1, <1>4, <2>1 DEF CompletionInv, Reported
    <2>3. pc[w] # "save"
      BY <1>4, <2>1 DEF CompletionInv, ControlInv, TaskWhileRunning, InTask, JobLabels,
                        TerminalQueued
    <2>4. QED BY <1>2, <1>3, <2>1, <2>2, <2>3, BatchesStay
  <1>5. CASE i \notin DOMAIN outbox
    <2>1. pc[w] = "queueTerminal" /\ outbox'[i].payload = final[w]
      BY <1>5 DEF RowsMove, Added
    <2>2. /\ ~HasPending /\ ~DeadLetters /\ runInvalid = 0
          /\ final[w].accepted = Cardinality(crmCands)
      BY <2>1 DEF CompletionInv, ControlInv, Closing, FinalLabels
    <2>3. BatchesDelivered
      BY <1>1, <2>2, NothingLeft DEF CompletionInv
    <2>4. QED BY <1>2, <1>3, <2>1, <2>2, <2>3, BatchesStay
  <1>6. QED BY <1>4, <1>5

\* A run becomes completed by an exact report, and nothing moves afterwards.
LEMMA StepExact ==
    ASSUME IInv, NEW w \in Workers, CompletionInv(w), RowsMove(w),
           CrmRests \/ ReportSent(w) \/ BatchSent(w)
    PROVE  CompletedIsExact'
  <1> SUFFICES ASSUME crmStatus' = "completed"
               PROVE  BatchesDelivered' /\ crmReport' = Cardinality(crmCands')
    BY DEF CompletedIsExact, BatchesDelivered, MessageIds
  <1>1. queue[w] \subseteq DOMAIN outbox
    BY DEF IInv, WorkerOK
  <1>2. CASE CrmRests \/ BatchSent(w)
    <2>1. crmStatus = "completed" /\ ~Running
      BY <1>2 DEF CrmRests, BatchSent, Running, Terminal
    <2>2. UNCHANGED <<crmCands, crmReport>>
      BY <1>2, <2>1 DEF CrmRests, BatchSent
    <2>3. BatchesDelivered /\ crmReport = Cardinality(crmCands)
      BY <2>1 DEF CompletionInv, CompletedIsExact, BatchesDelivered, MessageIds
    <2>4. pc[w] # "save"
      BY <2>1 DEF CompletionInv, ControlInv, TaskWhileRunning, InTask, JobLabels
    <2>5. QED BY <1>1, <2>2, <2>3, <2>4, BatchesStay
  <1>3. CASE ReportSent(w)
    <2>1. PICK i \in queue[w] :
            /\ pc[w] \in {"send", "replay"}
            /\ outbox[i].kind = "complete" /\ Running
            /\ crmStatus' = outbox[i].payload.status
            /\ crmReport' = outbox[i].payload.accepted
            /\ UNCHANGED crmCands
      BY <1>3 DEF ReportSent
    <2>2. i \in DOMAIN outbox /\ outbox[i].status = "queued"
      BY <1>1, <2>1 DEF CompletionInv, ControlInv, QueueHeld
    <2>3. BatchesDelivered /\ outbox[i].payload.accepted = Cardinality(crmCands)
      BY <2>1, <2>2 DEF CompletionInv, Reported
    <2>4. pc[w] # "save"
      BY <2>1
    <2>5. QED BY <1>1, <2>1, <2>3, <2>4, BatchesStay
  <1>4. QED BY <1>2, <1>3

-----------------------------------------------------------------------------
(* Who counts the candidates of the CRM.                                   *)

\* The counted candidates are finitely many.
LEMMA CandidatesFinite ==
    ASSUME IInv, NEW owner, NEW i
    PROVE  /\ IsFiniteSet(crmCands) /\ IsFiniteSet(Share(owner, i))
           /\ Cardinality(Share(owner, i)) \in Nat
  <1>1. crmCands \subseteq Candidates /\ Share(owner, i) \subseteq Candidates
    BY DEF IInv, CrmOK, CrmTypeOK, Share
  <1>2. IsFiniteSet(crmCands) /\ IsFiniteSet(Share(owner, i))
    BY <1>1, CrmAssumption, FS_Subset
  <1>3. QED BY <1>2, FS_CardinalityType

\* The unrecorded rows stay the same while no batch is committed or acknowledged.
LEMMA UnrecordedStay ==
    ASSUME IInv, IInv', NEW w, RowsMove(w), CrmRests,
           \A i \in DOMAIN outbox :
              outbox[i].kind = "candidates" /\ outbox'[i].status = "delivered" =>
                  outbox[i].status = "delivered"
    PROVE  Unrecorded' = Unrecorded
  <1>1. \A i \in DOMAIN outbox' : outbox'[i].kind = "candidates" => outbox'[i].key \in CandidateKeys
    <2>1. \A i \in DOMAIN outbox' : outbox'[i] \in RowType
      BY RowsAreArray DEF IInv, StoreOK, StoreTypeOK
    <2>2. QED BY <2>1, RowFields
  <1>2. RowsKept
    BY DEF RowsMove
  <1>3. ASSUME NEW i \in Unrecorded' PROVE i \in Unrecorded
    <2>1. /\ i \in DOMAIN outbox' /\ outbox'[i].kind = "candidates"
          /\ outbox'[i].key \in DOMAIN ledger' /\ outbox'[i].status # "delivered"
      BY DEF Unrecorded, Known
    <2>2. outbox'[i].key \in DOMAIN ledger
      BY <1>1, <2>1 DEF CrmRests
    <2>3. i \in DOMAIN outbox
      BY <2>1, <2>2 DEF RowsMove, Added, Known
    <2>4. outbox[i].status # "delivered"
      BY <2>1, <2>3 DEF RowsMove, Left
    <2>5. QED BY <1>2, <2>1, <2>2, <2>3, <2>4 DEF RowsKept, Unrecorded, Known
  <1>4. ASSUME NEW i \in Unrecorded PROVE i \in Unrecorded'
    <2>1. /\ i \in DOMAIN outbox /\ outbox[i].kind = "candidates"
          /\ outbox[i].key \in DOMAIN ledger /\ outbox[i].status # "delivered"
      BY DEF Unrecorded, Known
    <2>2. /\ i \in DOMAIN outbox' /\ outbox'[i].kind = "candidates"
          /\ outbox'[i].key = outbox[i].key
      BY <1>2, <2>1 DEF RowsKept
    <2>3. outbox'[i].key \in DOMAIN ledger'
      BY <1>1, <2>1, <2>2 DEF CrmRests
    <2>4. outbox'[i].status # "delivered"
      BY <2>1
    <2>5. QED BY <2>2, <2>3, <2>4 DEF Unrecorded, Known
  <1>5. QED BY <1>3, <1>4

\* The same candidates are owned by the same rows.
LEMMA OwnedStays ==
    ASSUME IInv, Owned, RowsKept, LedgerGrows, UNCHANGED <<runAccepted, crmCands>>,
           Running' => Running, Unrecorded' = Unrecorded
    PROVE  Owned'
  <1> SUFFICES ASSUME Running
               PROVE  \E owner \in [crmCands' -> {0} \cup Unrecorded'] : SharedOut(owner)'
    BY DEF Owned
  <1>1. PICK owner \in [crmCands -> {0} \cup Unrecorded] : SharedOut(owner)
    BY DEF Owned
  <1>2. \A i : Share(owner, i)' = Share(owner, i)
    BY DEF Share
  <1>3. \A i \in Unrecorded : ledger'[outbox'[i].key].accepted = ledger[outbox[i].key].accepted
    BY DEF Unrecorded, Known, RowsKept, LedgerGrows
  <1>4. SharedOut(owner)'
    BY <1>1, <1>2, <1>3 DEF SharedOut
  <1>5. QED BY <1>1, <1>4

\* The candidates of a batch that is acknowledged are counted from then on.
LEMMA OwnedWhenAcked ==
    ASSUME IInv, Owned, NEW w \in Workers, Acked(w), RowsKept
    PROVE  Owned'
  <1> SUFFICES ASSUME Running
               PROVE  \E owner \in [crmCands' -> {0} \cup Unrecorded'] : SharedOut(owner)'
    BY DEF Owned, Acked, crmVars, Running
  <1>1. PICK i \in Unrecorded :
          /\ outbox' = WithStatus(i, "delivered")
          /\ runAccepted' = runAccepted + ledger[outbox[i].key].accepted
          /\ UNCHANGED crmVars
    BY DEF Acked
  <1>2. PICK owner \in [crmCands -> {0} \cup Unrecorded] : SharedOut(owner)
    BY DEF Owned
  <1>3. i \in DOMAIN outbox /\ RowsOK /\ 0 \notin DOMAIN outbox
    BY <1>1, RowsOfStore, RowsAreArray DEF IInv, Unrecorded, RowsOK
  <1>4. /\ DOMAIN outbox' = DOMAIN outbox /\ outbox'[i].status = "delivered"
        /\ \A j \in DOMAIN outbox : j # i => outbox'[j] = outbox[j]
    BY <1>1, <1>3, StatusSet
  <1>5. Unrecorded' = Unrecorded \ {i}
    BY <1>1, <1>4 DEF Unrecorded, Known, crmVars
  <1>6. UNCHANGED <<crmCands, ledger>>
    BY <1>1 DEF crmVars
  <1>7. PICK later : later = [c \in crmCands |-> IF owner[c] = i THEN 0 ELSE owner[c]]
    OBVIOUS
  <1>8. later \in [crmCands' -> {0} \cup Unrecorded']
    BY <1>2, <1>5, <1>6, <1>7
  <1>9. \A j \in Unrecorded' : Share(later, j)' = Share(owner, j)
    BY <1>3, <1>5, <1>6, <1>7 DEF Share, Unrecorded
  <1>10. /\ Share(later, 0)' = Share(owner, 0) \cup Share(owner, i)
        /\ Share(owner, 0) \cap Share(owner, i) = {}
    BY <1>1, <1>3, <1>6, <1>7 DEF Share
  <1>11. Cardinality(Share(later, 0)') = runAccepted'
    <2> DEFINE A == Share(owner, 0)
               B == Share(owner, i)
    <2>1. IsFiniteSet(A) /\ IsFiniteSet(B) /\ Cardinality(A) \in Nat /\ Cardinality(B) \in Nat
      BY CandidatesFinite
    <2>2. Cardinality(A) = runAccepted /\ Cardinality(B) = ledger[outbox[i].key].accepted
      BY <1>1, <1>2 DEF SharedOut
    <2>3. A \cap B = {} /\ Share(later, 0)' = A \cup B
      BY <1>10
    <2> HIDE DEF A, B
    <2>4. Cardinality(A \cup B) = Cardinality(A) + Cardinality(B) - Cardinality(A \cap B)
      BY <2>1, FS_Union
    <2>5. Cardinality(A \cap B) = 0
      BY <2>3, FS_EmptySet
    <2>6. Cardinality(Share(later, 0)') = Cardinality(A) + Cardinality(B)
      <3>1. Cardinality(A \cup B) = Cardinality(A) + Cardinality(B)
        BY <2>1, <2>4, <2>5
      <3>2. QED BY <2>3, <3>1
    <2>7. runAccepted' = Cardinality(A) + Cardinality(B)
      BY <1>1, <2>2
    <2>8. QED BY <2>6, <2>7
  <1>12. \A j \in Unrecorded' :
            ledger'[outbox'[j].key].accepted = Cardinality(Share(later, j)')
    <2>1. ASSUME NEW j \in Unrecorded'
          PROVE  ledger'[outbox'[j].key].accepted = Cardinality(Share(later, j)')
      <3>1. j \in Unrecorded /\ j # i /\ j \in DOMAIN outbox
        BY <1>5 DEF Unrecorded
      <3>2. ledger[outbox[j].key].accepted = Cardinality(Share(owner, j))
        BY <1>2, <3>1 DEF SharedOut
      <3>3. QED BY <1>4, <1>6, <1>9, <3>1, <3>2
    <2>2. QED BY <2>1
  <1>13. SharedOut(later)'
    BY <1>11, <1>12 DEF SharedOut
  <1>14. QED BY <1>8, <1>13

\* The candidates that a batch adds are owned by its row.
LEMMA OwnedWhenSent ==
    ASSUME IInv, Owned, NEW w \in Workers, QueueHeld(w), BatchSent(w), LedgerGrows
    PROVE  Owned'
  <1>1. PICK i \in queue[w] :
          /\ pc[w] \in {"send", "replay"}
          /\ outbox[i].kind = "candidates" /\ ~Known(outbox[i].key)
          /\ Running /\ UNCHANGED storeVars
          /\ crmCands' = crmCands \cup Admitted(outbox[i].payload)
          /\ DOMAIN ledger' = DOMAIN ledger \cup {outbox[i].key}
          /\ ledger'[outbox[i].key].accepted = Cardinality(Admitted(outbox[i].payload))
    BY DEF BatchSent
  <1>2. PICK owner \in [crmCands -> {0} \cup Unrecorded] : SharedOut(owner)
    BY <1>1 DEF Owned
  <1>3. i \in DOMAIN outbox /\ RowsOK /\ 0 \notin DOMAIN outbox
    BY RowsOfStore, RowsAreArray DEF IInv, WorkerOK, RowsOK
  <1>4. outbox[i].status = "queued"
    BY <1>1 DEF QueueHeld
  <1>5. outbox' = outbox /\ runAccepted' = runAccepted
    BY <1>1 DEF storeVars
  <1>6. PICK A : A = Admitted(outbox[i].payload)
    OBVIOUS
  <1>7. A \cap crmCands = {} /\ crmCands' = crmCands \cup A
    BY <1>1, <1>6 DEF Admitted, Fresh
  <1>8. PICK later : later = [c \in crmCands \cup A |-> IF c \in crmCands THEN owner[c] ELSE i]
    OBVIOUS
  <1>9. Unrecorded' = Unrecorded \cup {i} /\ i \notin Unrecorded
    <2>1. \A j \in DOMAIN outbox : outbox[j].key = outbox[i].key => j = i
      BY <1>3 DEF RowsOK, KeysUnique
    <2>2. QED BY <1>1, <1>3, <1>4, <1>5, <2>1 DEF Unrecorded, Known
  <1>10. later \in [crmCands' -> {0} \cup Unrecorded']
    BY <1>2, <1>7, <1>9, <1>8
  <1>11. /\ Share(later, i)' = A
        /\ \A j \in {0} \cup Unrecorded : Share(later, j)' = Share(owner, j)
    <2>1. i # 0 /\ i \notin {0} \cup Unrecorded
      BY <1>3, <1>9
    <2>2. \A c \in crmCands : owner[c] \in {0} \cup Unrecorded
      BY <1>2
    <2>3. Share(later, i)' = A
      BY <1>7, <1>8, <2>1, <2>2 DEF Share
    <2>4. ASSUME NEW j \in {0} \cup Unrecorded PROVE Share(later, j)' = Share(owner, j)
      <3>1. j # i
        BY <2>1
      <3>2. QED BY <1>7, <1>8, <3>1 DEF Share
    <2>5. QED BY <2>3, <2>4
  <1>12. Cardinality(Share(later, 0)') = runAccepted'
    BY <1>2, <1>5, <1>11 DEF SharedOut
  <1>13. \A j \in Unrecorded' : ledger'[outbox'[j].key].accepted = Cardinality(Share(later, j)')
    <2>1. ASSUME NEW j \in Unrecorded
          PROVE  ledger'[outbox'[j].key].accepted = Cardinality(Share(later, j)')
      <3>1. ledger'[outbox[j].key] = ledger[outbox[j].key]
        BY DEF Unrecorded, Known, LedgerGrows
      <3>2. QED BY <1>2, <1>5, <1>11, <3>1 DEF SharedOut
    <2>2. ledger'[outbox'[i].key].accepted = Cardinality(Share(later, i)')
      BY <1>1, <1>5, <1>11, <1>6
    <2>3. QED BY <1>9, <2>1, <2>2
  <1>14. SharedOut(later)'
    BY <1>12, <1>13 DEF SharedOut
  <1>15. QED BY <1>10, <1>14 DEF Owned

\* Every candidate of the CRM stays owned.
LEMMA StepOwned ==
    ASSUME IInv, CandidatesInv, NEW w \in Workers, QueueHeld(w), Owned, WorkerMoves(w)
    PROVE  Owned'
  <1>1. IInv' /\ RowsKept /\ LedgerGrows
    <2>1. [Next]_vars
      BY DEF Next, WorkerMoves
    <2>2. QED BY <2>1, NextInv, NextKeepsRows
  <1>2. CASE ~Running'
    BY <1>2 DEF Owned
  <1>3. CASE Acked(w)
    BY <1>1, <1>3, OwnedWhenAcked
  <1>4. CASE BatchSent(w)
    BY <1>1, <1>4, OwnedWhenSent
  <1>5. CASE CrmRests /\ CountersRest
    <2>1. RowsMove(w)
      BY WorkerMovesRows
    <2>2. Unrecorded' = Unrecorded
      BY <1>1, <1>5, <2>1, UnrecordedStay DEF CountersRest
    <2>3. QED BY <1>1, <1>5, <2>2, OwnedStays DEF CrmRests, CountersRest
  <1>6. CASE ReportSent(w)
    BY <1>2, <1>6 DEF ReportSent
  <1>7. QED BY <1>2, <1>3, <1>4, <1>5, <1>6, WorkerMovesCrm, WorkerMovesCounters

-----------------------------------------------------------------------------
(* Where a step leaves the worker.                                         *)

\* A worker past the claim has the token of its claim.
KeepsToken(w) ==
    pc'[w] \notin {"idle", "replay", "replayed", "claim"} =>
        \/ tok'[w] = crmIssued + 1
        \/ tok'[w] = tok[w] /\ pc[w] \notin {"idle", "replay", "replayed", "claim"}

\* The work of a round starts when the outbox is empty, and queues nothing.
KeepsCalm(w) ==
    pc'[w] \in CalmLabels => UNCHANGED outbox /\ (pc[w] \in CalmLabels \/ ~HasPending)

\* A round goes on to a task when the CRM confirmed the lease.
KeepsTask(w) ==
    InTask(w)' =>
        \/ InTask(w)
        \/ pc[w] = "loop" /\ ~IsCancelRequested(tok[w]) /\ UNCHANGED <<crmVars, storeVars>>

\* A report of a completed run starts from a verdict.
KeepsReport(w) ==
    pc'[w] \in FinalLabels /\ final'[w].status = "completed" =>
        /\ UNCHANGED <<crmVars, outbox, runAccepted, runInvalid>>
        /\ \/ /\ pc[w] \in FinalLabels /\ final[w].status = "completed"
              /\ pc'[w] = "queueTerminal" =>
                    \/ pc[w] = "queueTerminal" /\ final'[w] = final[w]
                    \/ final'[w].accepted = runAccepted
           \/ /\ pc[w] \in {"check", "drain"} /\ pc'[w] # "queueTerminal"
              /\ ~DeadLetters /\ runInvalid = 0

KeepsCourse(w) ==
    /\ KeepsToken(w) /\ KeepsCalm(w) /\ KeepsTask(w) /\ KeepsReport(w)
    /\ CancelReported(w)'

\* The verdict is completed only when nothing is dead or discarded.
LEMMA VerdictClean ==
    ASSUME IInv, NEW blemish \in BOOLEAN, Verdict(blemish) = "completed"
    PROVE  ~DeadLetters /\ runInvalid = 0
  <1>1. runInvalid \in Nat
    BY DEF IInv, StoreOK, StoreTypeOK
  <1>2. QED BY <1>1 DEF Verdict

\* Every step of a worker keeps its course.
LEMMA CourseOfWorker ==
    ASSUME IInv, NEW w \in Workers, CancelReported(w), WorkerMoves(w)
    PROVE  KeepsCourse(w)
  <1> USE DEF Goto, Leave, At, InTask, JobLabels, CalmLabels, DeliveryLabels, FinalLabels,
              CancelReported, KeepsCourse, KeepsToken, KeepsCalm, KeepsTask, KeepsReport
  <1>1. /\ pc \in [Workers -> Labels] /\ DOMAIN after = Workers /\ DOMAIN final = Workers
        /\ DOMAIN tok = Workers
    BY DEF IInv, WorkerTypeOK
  <1>2. CASE Poll(w) \/ ClaimRun(w) \/ NothingToClaim(w) \/ ClaimLost(w) \/ Crash(w)
    BY <1>1, <1>2 DEF Poll, ClaimRun, NothingToClaim, ClaimLost, Crash
  <1>3. CASE Ensure(w)
    BY <1>1, <1>3 DEF Ensure
  <1>4. CASE Replay(w) \/ Replayed(w) \/ Send(w) \/ Refuse(w)
    BY <1>1, <1>4 DEF Replay, Replayed, Send, Refuse, Sending
  <1>5. CASE Fetch(w)
    BY <1>1, <1>5 DEF Fetch, GaveUp, Returned, storeVars
  <1>6. CASE Delivered(w) \/ Settle(w) \/ Isolate(w)
    BY <1>1, <1>6 DEF Delivered, Settle, Isolate, NextRow, Proceed
  <1>7. CASE LeaseLost(w) \/ Undelivered(w)
    BY <1>1, <1>7 DEF LeaseLost, Undelivered, GaveUp
  <1>8. CASE Loop(w)
    BY <1>1, <1>8 DEF Loop, Proceed, Finish, NoFinal, storeVars
  <1>9. CASE Check(w) \/ Drain(w)
    <2>1. BudgetWasLimited \in BOOLEAN /\ FALSE \in BOOLEAN
      BY DEF BudgetWasLimited
    <2>2. UNCHANGED <<crmVars, storeVars>>
      BY <1>9 DEF Check, Drain, Quiet
    <2>3. CASE Check(w)
      <3>1. \/ Proceed(w, "claimTask")
            \/ Goto(w, "cancelTasks") /\ Finish(w, "partial")
            \/ Goto(w, "cancelTasks") /\ Finish(w, Verdict(FALSE))
        BY <2>3 DEF Check
      <3>2. QED BY <1>1, <2>1, <2>2, <2>3, <3>1, VerdictClean
                DEF Check, Proceed, Finish, NoFinal, storeVars
    <2>4. CASE Drain(w)
      BY <1>1, <2>1, <2>2, <2>4, VerdictClean DEF Drain, Proceed, Finish, NoFinal, storeVars
    <2>5. QED BY <1>9, <2>3, <2>4
  <1>10. CASE Renew(w) \/ Recheck(w)
    BY <1>1, <1>10 DEF Renew, Recheck, Proceed, Finish, NoFinal, storeVars
  <1>11. CASE TakeTask(w)
    BY <1>1, <1>11 DEF TakeTask, ClaimTask, Proceed
  <1>12. CASE Start(w) \/ Search(w) \/ Searched(w) \/ Save(w) \/ FinishJob(w) \/ Announce(w)
    BY <1>1, <1>12 DEF Start, Search, Searched, Save, FinishJob, Announce, Deliver, Proceed
  <1>13. CASE Fail(w) \/ AnnounceFailure(w) \/ Executed(w) \/ AnnounceFails(w)
    BY <1>1, <1>13 DEF Fail, AnnounceFailure, Executed, AnnounceFails, Proceed, NoFinal
  <1>14. CASE StopTasks(w) \/ AnnounceCancel(w) \/ Report(w) \/ Conclude(w)
    <2>1. final[w] \in [status : Terminal \cup {"none"}, accepted : Nat, invalid : Nat]
      BY DEF IInv, WorkerTypeOK
    <2>2. CASE StopTasks(w)
      BY <1>1, <2>2 DEF StopTasks, CancelTasks, Proceed, Quiet, runVars
    <2>3. CASE AnnounceCancel(w)
      BY <1>1, <2>3 DEF AnnounceCancel, Proceed
    <2>4. CASE Report(w)
      <3>1. /\ pc[w] = "complete" /\ pc'[w] = "queueTerminal" /\ UNCHANGED <<tok, crmVars, storeVars>>
            /\ final'[w] = [final[w] EXCEPT !.accepted = runAccepted, !.invalid = runInvalid]
        BY <1>1, <2>4 DEF Report, Quiet
      <3>2. final'[w].status = final[w].status /\ final'[w].accepted = runAccepted
        BY <2>1, <3>1
      <3>3. QED BY <3>1, <3>2 DEF storeVars
    <2>5. CASE Conclude(w)
      BY <1>1, <2>5 DEF Conclude, Deliver
    <2>6. QED BY <1>14, <2>2, <2>3, <2>4, <2>5
  <1>15. CASE RunHeartbeat(w) \/ TaskHeartbeat(w)
    BY <1>1, <1>15 DEF RunHeartbeat, InClaim, TaskHeartbeat, Quiet, storeVars
  <1>16. QED BY <1>2, <1>3, <1>4, <1>5, <1>6, <1>7, <1>8, <1>9, <1>10, <1>11, <1>12, <1>13, <1>14,
                <1>15 DEF WorkerMoves, Step

-----------------------------------------------------------------------------
(* The rows in the hands of the worker.                                    *)

\* The worker is done with the row in hand.
LEMMA RowDone ==
    ASSUME IInv, NEW w \in Workers, QueueHeld(w), RowsMove(w),
           NEW i \in queue[w], First(w, i), queue'[w] = queue[w] \ {i},
           queue'[w] # {} => pc'[w] \in {"send", "replay"}
    PROVE  QueueHeld(w)'
  <1>1. ASSUME NEW j \in queue'[w] PROVE outbox'[j].status = "queued"
    <2>1. j \in queue[w] /\ j \in DOMAIN outbox /\ ~First(w, j)
      BY FirstIsOne DEF IInv, WorkerOK
    <2>2. outbox[j].status = "queued"
      BY <2>1 DEF QueueHeld
    <2>3. QED BY <2>1, <2>2 DEF RowsMove, Left
  <1>2. QED BY <1>1 DEF QueueHeld, QueueLabels

\* The worker goes from one row to the next.
LEMMA NextRowHeld ==
    ASSUME IInv, NEW w \in Workers, QueueHeld(w), RowsMove(w),
           Delivered(w) \/ Settle(w) \/ Isolate(w) \/ Replayed(w)
    PROVE  QueueHeld(w)'
  <1>1. pc \in [Workers -> Labels] /\ DOMAIN queue = Workers
    BY DEF IInv, WorkerTypeOK
  <1>2. ASSUME NEW i \in queue[w], First(w, i), NextRow(w, i) PROVE QueueHeld(w)'
    <2>1. queue'[w] = queue[w] \ {i} /\ (queue'[w] # {} => pc'[w] \in {"send", "replay"})
      BY <1>1, <1>2 DEF NextRow, Goto
    <2>2. QED BY <1>2, <2>1, RowDone
  <1>3. CASE Settle(w) \/ Isolate(w)
    BY <1>2, <1>3 DEF Settle, Isolate
  <1>4. CASE Replayed(w)
    <2>1. PICK i \in queue[w] : /\ First(w, i) /\ queue' = [queue EXCEPT ![w] = @ \ {i}]
                                /\ Goto(w, IF queue[w] = {i} THEN "claim" ELSE "replay")
      BY <1>4 DEF Replayed
    <2>2. queue'[w] = queue[w] \ {i} /\ (queue'[w] # {} => pc'[w] \in {"send", "replay"})
      BY <1>1, <2>1 DEF Goto
    <2>3. QED BY <2>1, <2>2, RowDone
  <1>5. CASE Delivered(w)
    <2>1. PICK i \in queue[w] :
           /\ First(w, i)
           /\ \/ NextRow(w, i)
              \/ RecordAck(i, ledger[outbox[i].key]) /\ Proceed(w, "settle")
      BY <1>5 DEF Delivered
    <2>2. CASE NextRow(w, i)
      BY <1>2, <2>1, <2>2
    <2>3. CASE RecordAck(i, ledger[outbox[i].key]) /\ Proceed(w, "settle")
      <3>1. pc[w] = "mark" /\ i \in DOMAIN outbox /\ RowsOK
        BY <1>5, <2>1, FirstOfQueue, RowsOfStore DEF Delivered, At, IInv
      <3>2. outbox[i].status = "queued"
        BY <2>1, <3>1 DEF QueueHeld
      <3>3. outbox' = WithStatus(i, "delivered")
        BY <2>3, <3>2 DEF RecordAck
      <3>4. /\ outbox'[i].status = "delivered"
            /\ \A j \in DOMAIN outbox : j # i => outbox'[j] = outbox[j]
        BY <3>1, <3>3, StatusSet
      <3>5. pc'[w] = "settle" /\ UNCHANGED queue
        BY <1>1, <2>3 DEF Proceed, Goto
      <3>6. \A j \in queue[w] : First(w, j)' <=> First(w, j)
        BY <3>5 DEF First
      <3>7. ASSUME NEW j \in queue[w]
            PROVE  outbox'[j].status = IF First(w, j)' THEN "delivered" ELSE "queued"
        <4>1. j \in DOMAIN outbox
          BY DEF IInv, WorkerOK
        <4>2. CASE j = i
          BY <2>1, <3>4, <3>6, <4>2
        <4>3. CASE j # i
          <5>1. ~First(w, j)
            BY <2>1, <4>3, FirstIsOne
          <5>2. outbox[j].status = "queued" /\ outbox'[j] = outbox[j]
            BY <3>1, <3>4, <4>1, <4>3 DEF QueueHeld
          <5>3. QED BY <3>6, <5>1, <5>2
        <4>4. QED BY <4>2, <4>3
      <3>8. QED BY <3>5, <3>7 DEF QueueHeld, QueueLabels
    <2>4. QED BY <2>1, <2>2, <2>3
  <1>6. QED BY <1>3, <1>4, <1>5

\* The rows that the worker holds are queued, whatever it does.
LEMMA StepHeld ==
    ASSUME IInv, NEW w \in Workers, QueueHeld(w), RowsMove(w), WorkerMoves(w)
    PROVE  QueueHeld(w)'
  <1>1. pc \in [Workers -> Labels] /\ DOMAIN queue = Workers
    BY DEF IInv, WorkerTypeOK
  <1>2. CASE queue'[w] = {}
    BY <1>2 DEF QueueHeld
  <1>3. CASE (UNCHANGED queue \/ Leave(w)) /\ pc[w] \notin QueueLabels
    <2>1. queue'[w] = {}
      BY <1>1, <1>3 DEF QueueHeld, Leave
    <2>2. QED BY <1>2, <2>1
  <1>4. CASE Crash(w) \/ LeaseLost(w) \/ Undelivered(w)
    <2>1. queue'[w] = {}
      BY <1>1, <1>4 DEF Crash, LeaseLost, Undelivered, GaveUp, Leave
    <2>2. QED BY <1>2, <2>1
  <1>5. CASE Poll(w)
    <2>1. CASE TerminalReplays = {}
      BY <1>3, <1>5, <2>1 DEF Poll, At, QueueLabels
    <2>2. CASE TerminalReplays # {}
      <3>1. pc'[w] = "replay" /\ queue'[w] = TerminalReplays /\ UNCHANGED outbox
        BY <1>1, <1>5, <2>2 DEF Poll, Goto, storeVars
      <3>2. QED BY <3>1 DEF QueueHeld, QueueLabels, TerminalReplays
    <2>3. QED BY <2>1, <2>2
  <1>6. CASE Fetch(w)
    <2>1. CASE Deliverable = {}
      <3>1. UNCHANGED queue \/ queue'[w] = {}
        BY <1>1, <1>6, <2>1 DEF Fetch, GaveUp, Returned, Leave
      <3>2. QED BY <1>2, <1>3, <1>6, <3>1 DEF Fetch, At, QueueLabels
    <2>2. CASE Deliverable # {}
      <3>1. pc'[w] = "send" /\ queue'[w] = Deliverable /\ UNCHANGED outbox
        BY <1>1, <1>6, <2>2 DEF Fetch, Goto, storeVars
      <3>2. QED BY <3>1 DEF QueueHeld, QueueLabels, Deliverable
    <2>3. QED BY <2>1, <2>2
  <1>7. CASE Replay(w) \/ Send(w) \/ Refuse(w) \/ RunHeartbeat(w)
    <2>1. /\ UNCHANGED <<queue, outbox>>
          /\ \/ pc'[w] = pc[w]
             \/ pc[w] \in {"send", "replay"} /\ pc'[w] \in {"mark", "replayed"}
      BY <1>1, <1>7 DEF Replay, Send, Sending, Refuse, RunHeartbeat, Goto, At, storeVars
    <2>2. \A j \in queue[w] : First(w, j)' <=> First(w, j)
      BY <2>1 DEF First
    <2>3. QED BY <2>1, <2>2 DEF QueueHeld, QueueLabels
  <1>8. CASE Delivered(w) \/ Settle(w) \/ Isolate(w) \/ Replayed(w)
    BY <1>8, NextRowHeld
  <1>9. CASE ClaimRun(w) \/ ClaimLost(w) \/ NothingToClaim(w) \/ Ensure(w) \/ Loop(w) \/ Check(w)
               \/ TakeTask(w) \/ Drain(w) \/ Renew(w) \/ Recheck(w)
    <2>1. pc[w] \notin QueueLabels
      BY <1>9 DEF ClaimRun, ClaimLost, NothingToClaim, Ensure, Loop, Check, TakeTask, Drain, Renew,
         Recheck, At, QueueLabels
    <2>2. UNCHANGED queue \/ Leave(w)
      BY <1>9 DEF ClaimRun, ClaimLost, NothingToClaim, Ensure, Loop, Check, TakeTask, Drain, Renew,
         Recheck, Proceed, Finish
    <2>3. QED BY <1>3, <2>1, <2>2
  <1>10. CASE Start(w) \/ Search(w) \/ Searched(w) \/ Save(w) \/ FinishJob(w) \/ Announce(w)
                \/ Fail(w) \/ AnnounceFailure(w) \/ Executed(w) \/ StopTasks(w) \/ AnnounceCancel(w)
                \/ Report(w) \/ Conclude(w) \/ AnnounceFails(w) \/ TaskHeartbeat(w)
    <2>1. pc[w] \notin QueueLabels
      BY <1>10 DEF Start, Search, Searched, Save, FinishJob, Announce, Fail, AnnounceFailure,
         Executed, StopTasks, AnnounceCancel, Report, Conclude, AnnounceFails, TaskHeartbeat, At,
         QueueLabels
    <2>2. UNCHANGED queue \/ Leave(w)
      BY <1>10 DEF Start, Search, Searched, Save, FinishJob, Announce, Fail, AnnounceFailure,
         Executed, StopTasks, AnnounceCancel, Report, Conclude, AnnounceFails, TaskHeartbeat,
         Proceed, Deliver
    <2>3. QED BY <1>3, <2>1, <2>2
  <1>11. QED BY <1>4, <1>5, <1>6, <1>7, <1>8, <1>9, <1>10 DEF WorkerMoves, Step

-----------------------------------------------------------------------------
(* The invariant.                                                          *)

\* A task goes on while the run lives and no report is queued.
LEMMA StepTask ==
    ASSUME IInv, NEW w \in Workers, ControlInv(w), RowsMove(w), KeepsTask(w),
           CrmRests \/ ReportSent(w) \/ BatchSent(w)
    PROVE  TaskWhileRunning(w)'
  <1> SUFFICES ASSUME InTask(w)' PROVE Running' /\ ~TerminalQueued'
    BY DEF TaskWhileRunning
  <1>1. CASE InTask(w)
    <2>1. Running /\ ~TerminalQueued /\ pc[w] # "queueTerminal"
      BY <1>1 DEF ControlInv, TaskWhileRunning, InTask, JobLabels, DeliveryLabels
    <2>2. ~ReportSent(w)
      <3> SUFFICES ASSUME ReportSent(w) PROVE FALSE
        OBVIOUS
      <3>1. PICK i \in queue[w] : outbox[i].kind = "complete" /\ pc[w] \in {"send", "replay"}
        BY DEF ReportSent
      <3>2. i \in DOMAIN outbox /\ outbox[i].status = "queued"
        BY <3>1 DEF ControlInv, QueueHeld, IInv, WorkerOK
      <3>3. QED BY <2>1, <3>1, <3>2 DEF TerminalQueued
    <2>3. Running'
      BY <2>1, <2>2 DEF CrmRests, BatchSent, Running
    <2>4. ASSUME NEW i \in DOMAIN outbox', outbox'[i].kind = "complete",
                 outbox'[i].status = "queued"
          PROVE  FALSE
      <3>1. CASE i \in DOMAIN outbox
        BY <2>1, <2>4, <3>1 DEF RowsMove, RowsKept, Left, TerminalQueued
      <3>2. CASE i \notin DOMAIN outbox
        BY <2>1, <2>4, <3>2 DEF RowsMove, Added
      <3>3. QED BY <3>1, <3>2
    <2>5. QED BY <2>3, <2>4 DEF TerminalQueued
  <1>2. CASE pc[w] = "loop" /\ ~IsCancelRequested(tok[w]) /\ UNCHANGED <<crmVars, storeVars>>
    <2>1. crmToken # 0
      BY <1>2 DEF ControlInv, TokenInHand, IsCancelRequested
    <2>2. Running /\ ~HasPending
      BY <1>2, <2>1 DEF IInv, CrmOK, EndedHasNoLease, Running, ControlInv, CalmWhenEmpty, CalmLabels
    <2>3. QED BY <1>2, <2>2 DEF HasPending, MessageIds, TerminalQueued, Running, crmVars, storeVars
  <1>3. QED BY <1>1, <1>2 DEF KeepsTask

\* A completed run is reported when nothing is left to do.
LEMMA StepClosing ==
    ASSUME IInv, CandidatesInv, NEW w \in Workers, CompletionInv(w), KeepsReport(w)
    PROVE  Closing(w)'
  <1> SUFFICES ASSUME pc'[w] \in FinalLabels, final'[w].status = "completed"
               PROVE  /\ ~HasPending' /\ ~DeadLetters' /\ runInvalid' = 0 /\ Running'
                      /\ pc'[w] = "queueTerminal" => final'[w].accepted = Cardinality(crmCands')
    BY DEF Closing
  <1>1. UNCHANGED <<crmVars, outbox, runAccepted, runInvalid>>
    BY DEF KeepsReport
  <1>2. ~HasPending /\ ~DeadLetters /\ runInvalid = 0 /\ Running
    <2>1. CASE pc[w] \in FinalLabels /\ final[w].status = "completed"
      BY <2>1 DEF CompletionInv, ControlInv, Closing
    <2>2. CASE pc[w] \in {"check", "drain"} /\ ~DeadLetters /\ runInvalid = 0
      BY <2>2 DEF CompletionInv, ControlInv, CalmWhenEmpty, CalmLabels, TaskWhileRunning, InTask
    <2>3. QED BY <2>1, <2>2 DEF KeepsReport
  <1>3. runAccepted = Cardinality(crmCands)
    BY <1>2, NothingLeft DEF CompletionInv
  <1>4. pc'[w] = "queueTerminal" => final'[w].accepted = Cardinality(crmCands)
    <2>1. SUFFICES ASSUME pc'[w] = "queueTerminal"
                   PROVE  final'[w].accepted = Cardinality(crmCands)
      OBVIOUS
    <2>2. CASE final'[w].accepted = runAccepted
      BY <1>3, <2>2
    <2>3. CASE pc[w] = "queueTerminal" /\ final'[w] = final[w]
      BY <2>3 DEF CompletionInv, ControlInv, Closing, FinalLabels
    <2>4. QED BY <2>1, <2>2, <2>3 DEF KeepsReport
  <1>5. QED BY <1>1, <1>2, <1>4 DEF HasPending, DeadLetters, MessageIds, Running, crmVars

\* A step of the worker.
LEMMA WorkerCompletes ==
    ASSUME IInv, CandidatesInv, NEW w \in Workers, CompletionInv(w), WorkerMoves(w)
    PROVE  CompletionInv(w)'
  <1>1. QueueHeld(w) /\ CancelReported(w) /\ Owned
    BY DEF CompletionInv, ControlInv
  <1>2. RowsMove(w) /\ (CrmRests \/ ReportSent(w) \/ BatchSent(w)) /\ KeepsCourse(w)
    BY <1>1, WorkerMovesRows, WorkerMovesCrm, CourseOfWorker
  <1>3. ControlInv(w)'
    <2>1. QueueHeld(w)'
      BY <1>1, <1>2, StepHeld
    <2>2. CalmWhenEmpty(w)'
      BY <1>2 DEF KeepsCourse, KeepsCalm, CompletionInv, ControlInv, CalmWhenEmpty, HasPending,
                  MessageIds
    <2>3. TaskWhileRunning(w)'
      BY <1>2, StepTask DEF KeepsCourse, CompletionInv
    <2>4. TokenInHand(w)'
      <3>1. crmIssued + 1 # 0
        BY DEF IInv, CrmOK, CrmTypeOK
      <3>2. QED BY <1>2, <3>1 DEF KeepsCourse, KeepsToken, CompletionInv, ControlInv, TokenInHand
    <2>5. CancelReported(w)' /\ Closing(w)'
      BY <1>2, StepClosing DEF KeepsCourse
    <2>6. QED BY <2>1, <2>2, <2>3, <2>4, <2>5 DEF ControlInv
  <1>4. SplitHasInvalid'
    BY <1>2, StepSplit DEF CompletionInv
  <1>5. DiscardCounted'
    <2>1. Running' => Running
      BY <1>2 DEF CrmRests, ReportSent, BatchSent
    <2>2. Running' => runInvalid' \in {runInvalid, runInvalid + 1}
      BY <1>1, WorkerMovesCounters DEF CountersRest, Acked
    <2>3. QED BY <1>2, <2>1, <2>2, StepDiscard DEF CompletionInv
  <1>6. Reported' /\ CompletedIsExact'
    BY <1>2, StepReported, StepExact
  <1>7. Owned'
    BY <1>1, StepOwned
  <1>8. QED BY <1>3, <1>4, <1>5, <1>6, <1>7 DEF CompletionInv

\* A step of the environment.
LEMMA EnvironmentCompletes ==
    ASSUME IInv, CandidatesInv, NEW w \in Workers, CompletionInv(w), EnvironmentMoves
    PROVE  CompletionInv(w)'
  <1>1. /\ UNCHANGED workerVars
        /\ UNCHANGED <<runAccepted, runInvalid, crmCands, crmReport, ledger>>
        /\ RowsKept /\ DOMAIN outbox' = DOMAIN outbox /\ StatusesKept
        /\ Running' <=> Running
        /\ crmStatus' = "completed" => crmStatus = "completed"
    BY EnvironmentRests
  <1>2. IInv'
    <2>1. [Next]_vars
      BY DEF Next, EnvironmentMoves
    <2>2. QED BY <2>1, NextInv
  <1>3. RowsMove(w) /\ CrmRests /\ LedgerGrows
    BY <1>1, RowsRest DEF CrmRests, LedgerGrows
  <1>4. ControlInv(w)'
    <2>1. UNCHANGED <<pc, tok, queue, after, final>>
      BY <1>1 DEF workerVars
    <2>2. /\ HasPending' <=> HasPending
          /\ DeadLetters' <=> DeadLetters
          /\ TerminalQueued' <=> TerminalQueued
      BY <1>1 DEF StatusesKept, RowsKept, HasPending, DeadLetters, TerminalQueued, MessageIds
    <2>3. QueueHeld(w)'
      <3>1. \A i \in queue[w] : i \in DOMAIN outbox /\ (First(w, i)' <=> First(w, i))
        BY <2>1 DEF First, IInv, WorkerOK
      <3>2. QED BY <1>1, <2>1, <3>1 DEF CompletionInv, ControlInv, QueueHeld, StatusesKept
    <2>4. TaskWhileRunning(w)' /\ CalmWhenEmpty(w)'
      BY <1>1, <2>1, <2>2 DEF CompletionInv, ControlInv, TaskWhileRunning, CalmWhenEmpty, InTask
    <2>5. TokenInHand(w)' /\ CancelReported(w)' /\ Closing(w)'
      BY <1>1, <2>1, <2>2 DEF CompletionInv, ControlInv, TokenInHand, CancelReported, Closing
    <2>6. QED BY <2>3, <2>4, <2>5 DEF ControlInv
  <1>5. SplitHasInvalid'
    BY <1>3, StepSplit DEF CompletionInv
  <1>6. DiscardCounted'
    BY <1>1, <1>3, StepDiscard DEF CompletionInv
  <1>7. Reported' /\ CompletedIsExact'
    BY <1>3, StepReported, StepExact
  <1>8. Owned'
    <2>1. \A i \in DOMAIN outbox : outbox'[i].status = "delivered" => outbox[i].status = "delivered"
      BY <1>1 DEF StatusesKept
    <2>2. Unrecorded' = Unrecorded
      BY <1>2, <1>3, <2>1, UnrecordedStay
    <2>3. QED BY <1>1, <1>3, <2>2, OwnedStays DEF CompletionInv
  <1>9. QED BY <1>4, <1>5, <1>6, <1>7, <1>8 DEF CompletionInv

\* Nothing is queued, committed or counted before the first step.
LEMMA InitCompletion ==
    ASSUME Init, NEW w \in Workers
    PROVE  CompletionInv(w)
  <1>1. /\ DOMAIN outbox = {} /\ crmStatus = "pending" /\ crmCands = {} /\ runAccepted = 0
        /\ pc[w] = "idle" /\ queue[w] = {}
    BY EmptySeq DEF Init, CrmInit, StoreInit
  <1>2. ControlInv(w)
    BY <1>1 DEF ControlInv, QueueHeld, CalmWhenEmpty, TaskWhileRunning, TokenInHand, CancelReported,
                Closing, InTask, JobLabels, CalmLabels, DeliveryLabels, FinalLabels
  <1>3. SplitHasInvalid /\ DiscardCounted /\ Reported /\ CompletedIsExact
    BY <1>1 DEF SplitHasInvalid, DiscardCounted, Reported, CompletedIsExact
  <1>4. Owned
    <2>1. PICK owner : owner = [c \in crmCands |-> 0]
      OBVIOUS
    <2>2. Unrecorded = {}
      BY <1>1 DEF Unrecorded
    <2>3. Share(owner, 0) = {}
      BY <1>1 DEF Share
    <2>4. SharedOut(owner)
      BY <1>1, <2>2, <2>3, FS_EmptySet DEF SharedOut
    <2>5. QED BY <2>1, <2>2, <2>4 DEF Owned
  <1>5. QED BY <1>2, <1>3, <1>4 DEF CompletionInv

\* With one worker, a run that the CRM holds as completed has every batch
\* delivered, and the report it accepted counts exactly its candidates, whatever
\* was lost, refused, split, executed again or interrupted: the worker queues its
\* report last, and counts each acknowledgement with the row it is for.
THEOREM CompletedRunsAreExact ==
    ASSUME NEW worker, Workers = {worker}
    PROVE  Spec => []CompletedIsExact
  <1>1. Init => CompletionInv(worker)
    BY InitCompletion
  <1>2. IInv /\ CandidatesInv /\ CompletionInv(worker) /\ [Next]_vars => CompletionInv(worker)'
    <2> SUFFICES ASSUME IInv, CandidatesInv, CompletionInv(worker), [Next]_vars
                 PROVE  CompletionInv(worker)'
      OBVIOUS
    <2>1. WorkerMoves(worker) \/ EnvironmentMoves
      BY AloneMoves
    <2>2. QED BY <2>1, WorkerCompletes, EnvironmentCompletes
  <1>3. CompletionInv(worker) => CompletedIsExact
    BY DEF CompletionInv
  <1>4. QED BY <1>1, <1>2, <1>3, Invariance, CandidatesAreKept, PTL DEF Spec

=============================================================================
