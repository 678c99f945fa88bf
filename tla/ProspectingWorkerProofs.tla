---------------------- MODULE ProspectingWorkerProofs ----------------------
(***************************************************************************)
(* Proofs about ProspectingWorker, for any tasks, candidates, workers and  *)
(* bounds.  None of the safety properties is inductive: what makes them    *)
(* hold is that a key names one row for ever, that the CRM only knows keys *)
(* it was sent from a row, and that a worker which saw a delivery succeed  *)
(* still points at the row it delivered.  IInv says that.                  *)
(***************************************************************************)
EXTENDS ProspectingWorker, FiniteSetTheorems, SequenceTheorems, TLAPS

-----------------------------------------------------------------------------
(* The inductive invariant.                                                *)

JobLabels == {"renew", "recheck", "start", "search", "searching", "save", "finish",
              "announce", "fail", "announceFailure"}
DeliveryLabels == {"fetch", "send", "mark", "settle"}
FinalLabels == {"cancelTasks", "announceCancel", "complete", "queueTerminal"}

\* No two rows of the outbox have the same key.
KeysUnique ==
    \A i, j \in DOMAIN outbox : outbox[i].key = outbox[j].key => i = j

\* What the CRM remembers was sent from a row that is still there.
LedgerFromOutbox ==
    \A k \in DOMAIN ledger : \E i \in DOMAIN outbox :
        outbox[i].key = k /\ outbox[i].payload = ledger[k].payload

\* A run that ended has no lease, and ended as its terminal message said.
EndedHasNoLease == crmStatus \in Terminal => crmToken = 0

TerminalCommitted ==
    \A k \in DOMAIN ledger : k \in TerminalKeys =>
        crmStatus \in Terminal /\ crmStatus = ledger[k].payload.status

\* What each worker relies on at the point where it is.
WorkerOK(w) ==
    /\ queue[w] \subseteq DOMAIN outbox
    /\ pc[w] \in {"replay", "replayed"} => \A i \in queue[w] : outbox[i].kind = "complete"
    /\ pc[w] \in JobLabels => job[w].task \in Tasks
    /\ pc[w] \in DeliveryLabels /\ after[w] = "started" => job[w].task \in Tasks
    /\ pc[w] \in FinalLabels => final[w].status \in Terminal
    /\ sent[w] = "ok" => pc[w] \in {"mark", "settle", "replayed"}
    /\ pc[w] = "settle" => sent[w] = "ok"
    /\ sent[w] = "ok" => \A i \in queue[w] : First(w, i) => Known(outbox[i].key)

RowsOK  == outbox \in Seq(RowType) /\ KeysUnique
CrmOK   == CrmTypeOK /\ EndedHasNoLease /\ TerminalCommitted
StoreOK == StoreTypeOK /\ KeysUnique /\ LedgerFromOutbox /\ DeliveredIsCommitted
             /\ LocalOutcomeIsRemote

IInv == CrmOK /\ StoreOK /\ WorkerTypeOK /\ (\A w \in Workers : WorkerOK(w))

-----------------------------------------------------------------------------
(* Operations on rows.                                                     *)

\* A row whose status or back-off changes is still a row.
LEMMA RowUpdated ==
    ASSUME NEW r \in RowType, NEW status \in RowStatus, NEW avail \in BOOLEAN
    PROVE  /\ [r EXCEPT !.status = status] \in RowType
           /\ [r EXCEPT !.avail = avail] \in RowType
           /\ [r EXCEPT !.status = status, !.avail = avail] \in RowType
  <1>1. CASE r \in RowOf("events", EventKeys, EventType)
    BY <1>1 DEF RowType, RowOf
  <1>2. CASE r \in RowOf("candidates", CandidateKeys, Seq(Candidates))
    BY <1>2 DEF RowType, RowOf
  <1>3. CASE r \in RowOf("complete", TerminalKeys, ReportType)
    BY <1>3 DEF RowType, RowOf
  <1>4. QED BY <1>1, <1>2, <1>3 DEF RowType

\* What the type of a row says of its fields.
LEMMA RowFields ==
    ASSUME NEW r \in RowType
    PROVE  /\ r.status \in RowStatus /\ r.avail \in BOOLEAN
           /\ r.key \in EventKeys \cup CandidateKeys \cup TerminalKeys
           /\ r.kind \in {"events", "candidates", "complete"}
           /\ r.kind = "events" => r.payload \in EventType /\ r.key \in EventKeys
           /\ r.kind = "candidates" => r.payload \in Seq(Candidates) /\ r.key \in CandidateKeys
           /\ r.kind = "complete" => r.payload \in ReportType /\ r.key \in TerminalKeys
  BY DEF RowType, RowOf

\* A terminal key belongs to a terminal message.
LEMMA KindOfTerminalKey ==
    ASSUME NEW r \in RowType, r.key \in TerminalKeys
    PROVE  r.kind = "complete"
  <1>1. r.kind = "events" => r.key[1] = "event"
    BY RowFields DEF EventKeys
  <1>2. r.kind = "candidates" => r.key[1] \in {"candidates", "split"}
    BY RowFields DEF CandidateKeys
  <1>3. r.key[1] = "terminal"
    BY DEF TerminalKeys
  <1>4. QED BY <1>1, <1>2, <1>3, RowFields

\* The rows are an array indexed from 1.
LEMMA RowsAreArray ==
    ASSUME NEW table \in Seq(RowType)
    PROVE  /\ Len(table) \in Nat
           /\ DOMAIN table = 1 .. Len(table)
           /\ \A i \in DOMAIN table : table[i] \in RowType
  BY LenProperties, ElementOfSeq

\* Replacing one row leaves the others alone.
LEMMA RowReplaced ==
    ASSUME NEW table \in Seq(RowType), NEW i \in DOMAIN table, NEW r \in RowType
    PROVE  /\ [table EXCEPT ![i] = r] \in Seq(RowType)
           /\ DOMAIN [table EXCEPT ![i] = r] = DOMAIN table
           /\ \A j \in DOMAIN table : [table EXCEPT ![i] = r][j] = IF j = i THEN r ELSE table[j]
  BY RowsAreArray, ExceptSeq

\* Insert adds at most one row, at the end, under a key that no row has.
LEMMA InsertProperties ==
    ASSUME NEW table \in Seq(RowType), NEW r \in RowType,
           \A i, j \in DOMAIN table : table[i].key = table[j].key => i = j
    PROVE  /\ Insert(table, r) \in Seq(RowType)
           /\ DOMAIN table \subseteq DOMAIN Insert(table, r)
           /\ \A i \in DOMAIN table : Insert(table, r)[i] = table[i]
           /\ \A i \in DOMAIN Insert(table, r) \ DOMAIN table : Insert(table, r)[i] = r
           /\ \A i, j \in DOMAIN Insert(table, r) :
                 Insert(table, r)[i].key = Insert(table, r)[j].key => i = j
  <1>1. CASE \E i \in DOMAIN table : table[i].key = r.key
    BY <1>1 DEF Insert
  <1>2. CASE ~ \E i \in DOMAIN table : table[i].key = r.key
    <2>1. Insert(table, r) = Append(table, r)
      BY <1>2 DEF Insert
    <2>2. /\ Append(table, r) \in Seq(RowType)
          /\ Len(Append(table, r)) = Len(table) + 1
          /\ \A i \in 1 .. Len(table) : Append(table, r)[i] = table[i]
          /\ Append(table, r)[Len(table) + 1] = r
      BY RowsAreArray
    <2>3. DOMAIN Append(table, r) = 1 .. Len(table) + 1
      BY <2>2, RowsAreArray
    <2>4. DOMAIN table = 1 .. Len(table) /\ Len(table) \in Nat
      BY RowsAreArray
    <2>5. \A i \in 1 .. Len(table) + 1 : i \in DOMAIN table \/ i = Len(table) + 1
      BY <2>4
    <2>6. ASSUME NEW i \in DOMAIN Append(table, r), NEW j \in DOMAIN Append(table, r),
                 Append(table, r)[i].key = Append(table, r)[j].key
          PROVE  i = j
      BY <1>2, <2>2, <2>3, <2>4, <2>5, <2>6
    <2>7. QED BY <2>1, <2>2, <2>3, <2>4, <2>5, <2>6
  <1>3. QED BY <1>1, <1>2

-----------------------------------------------------------------------------
(* What every transaction of the store does to the outbox, and every call  *)
(* to the CRM to the ledger.                                               *)

\* Rows are never removed, and never change their kind, key or payload.
RowsKept ==
    /\ DOMAIN outbox \subseteq DOMAIN outbox'
    /\ \A i \in DOMAIN outbox :
          /\ outbox'[i].kind = outbox[i].kind
          /\ outbox'[i].key = outbox[i].key
          /\ outbox'[i].payload = outbox[i].payload

\* The CRM never forgets a key nor what it stored with it.
LedgerGrows ==
    /\ DOMAIN ledger \subseteq DOMAIN ledger'
    /\ \A k \in DOMAIN ledger : ledger'[k] = ledger[k]

\* A row becomes delivered only when the CRM knows its key.
DeliveredHonestly ==
    \A i \in DOMAIN outbox' : outbox'[i].status = "delivered" =>
        i \in DOMAIN outbox /\ (outbox[i].status = "delivered" \/ Known(outbox[i].key))

OutboxStep == (RowsOK)' /\ RowsKept /\ DeliveredHonestly

\* A transaction that leaves the outbox alone treats it well.
LEMMA OutboxSame ==
    ASSUME RowsOK, outbox' = outbox
    PROVE  OutboxStep
  BY DEF RowsOK, OutboxStep, RowsKept, DeliveredHonestly, KeysUnique

\* One row is replaced by another with the same kind, key and payload.
LEMMA OutboxReplaced ==
    ASSUME RowsOK, NEW i \in DOMAIN outbox, NEW r \in RowType,
           outbox' = [outbox EXCEPT ![i] = r],
           r.kind = outbox[i].kind, r.key = outbox[i].key, r.payload = outbox[i].payload,
           r.status = "delivered" => outbox[i].status = "delivered" \/ Known(outbox[i].key)
    PROVE  OutboxStep
  <1>1. /\ outbox' \in Seq(RowType)
        /\ DOMAIN outbox' = DOMAIN outbox
        /\ \A j \in DOMAIN outbox : outbox'[j] = IF j = i THEN r ELSE outbox[j]
    BY RowReplaced DEF RowsOK
  <1>2. KeysUnique'
    BY <1>1 DEF RowsOK, KeysUnique
  <1>3. RowsKept
    BY <1>1 DEF RowsKept
  <1>4. DeliveredHonestly
    BY <1>1 DEF DeliveredHonestly
  <1>5. QED BY <1>1, <1>2, <1>3, <1>4 DEF OutboxStep, RowsOK

\* MarkDelivered and its like: only the status of one row changes.
LEMMA OutboxWithStatus ==
    ASSUME RowsOK, NEW i \in DOMAIN outbox, NEW status \in RowStatus,
           outbox' = WithStatus(i, status),
           status = "delivered" => Known(outbox[i].key)
    PROVE  OutboxStep
  <1> DEFINE r == [outbox[i] EXCEPT !.status = status]
  <1>1. outbox[i] \in RowType
    BY RowsAreArray DEF RowsOK
  <1>2. r \in RowType
    BY <1>1, RowUpdated, status \in RowStatus, TRUE \in BOOLEAN
  <1>3. outbox' = [outbox EXCEPT ![i] = r]
    BY DEF WithStatus
  <1>4. /\ r.kind = outbox[i].kind /\ r.key = outbox[i].key
        /\ r.payload = outbox[i].payload /\ r.status = status
    BY <1>1 DEF RowType, RowOf
  <1> HIDE DEF r
  <1>5. QED BY <1>2, <1>3, <1>4, OutboxReplaced

\* MarkFailed: the status and the back-off of one row change.
LEMMA OutboxFailed ==
    ASSUME RowsOK, NEW i \in DOMAIN outbox, NEW retryable \in BOOLEAN,
           MarkFailed(i, retryable)
    PROVE  OutboxStep
  <1> DEFINE status == IF retryable THEN "queued" ELSE "dead"
             r == [outbox[i] EXCEPT !.status = status, !.avail = ~retryable]
  <1>1. outbox[i] \in RowType
    BY RowsAreArray DEF RowsOK
  <1>2. status \in RowStatus /\ status # "delivered"
    BY DEF RowStatus
  <1>3. r \in RowType
    BY <1>1, <1>2, RowUpdated, (~retryable) \in BOOLEAN
  <1>4. outbox' = [outbox EXCEPT ![i] = r]
    BY DEF MarkFailed
  <1>5. /\ r.kind = outbox[i].kind /\ r.key = outbox[i].key
        /\ r.payload = outbox[i].payload /\ r.status = status
    BY <1>1 DEF RowType, RowOf
  <1> HIDE DEF r, status
  <1>6. QED BY <1>2, <1>3, <1>4, <1>5, OutboxReplaced

\* A back-off that elapses changes neither key, payload nor status.
LEMMA OutboxBackoff ==
    ASSUME RowsOK, NEW i \in DOMAIN outbox, BackoffElapses(i)
    PROVE  OutboxStep
  <1> DEFINE r == [outbox[i] EXCEPT !.avail = TRUE]
  <1>1. outbox[i] \in RowType
    BY RowsAreArray DEF RowsOK
  <1>2. outbox[i].status \in RowStatus
    BY <1>1, RowFields
  <1>3. r \in RowType
    BY <1>1, <1>2, RowUpdated, TRUE \in BOOLEAN
  <1>4. outbox' = [outbox EXCEPT ![i] = r]
    BY DEF BackoffElapses
  <1>5. /\ r.kind = outbox[i].kind /\ r.key = outbox[i].key
        /\ r.payload = outbox[i].payload /\ r.status = outbox[i].status
    BY <1>1 DEF RowType, RowOf
  <1> HIDE DEF r
  <1>6. QED BY <1>3, <1>4, <1>5, OutboxReplaced

\* Queueing a message, whether or not its key is already in the table.
LEMMA OutboxQueued ==
    ASSUME RowsOK, NEW r \in RowType, r.status # "delivered",
           outbox' = Insert(outbox, r)
    PROVE  OutboxStep
  <1>1. /\ outbox' \in Seq(RowType)
        /\ DOMAIN outbox \subseteq DOMAIN outbox'
        /\ \A i \in DOMAIN outbox : outbox'[i] = outbox[i]
        /\ \A i \in DOMAIN outbox' \ DOMAIN outbox : outbox'[i] = r
        /\ \A i, j \in DOMAIN outbox' : outbox'[i].key = outbox'[j].key => i = j
    BY InsertProperties DEF RowsOK, KeysUnique
  <1>2. RowsKept
    BY <1>1 DEF RowsKept
  <1>3. DeliveredHonestly
    BY <1>1 DEF DeliveredHonestly
  <1>4. QED BY <1>1, <1>2, <1>3 DEF OutboxStep, RowsOK, KeysUnique

\* The two halves of a batch are rows of candidates.
LEMMA HalfIsRow ==
    ASSUME RowsOK, NEW i \in DOMAIN outbox, outbox[i].kind = "candidates",
           NEW half \in {0, 1}
    PROVE  Half(i, half) \in RowType /\ Half(i, half).status = "queued"
  <1> DEFINE payload == outbox[i].payload
             midpoint == Len(payload) \div 2
  <1>1. outbox[i] \in RowType /\ i \in Nat
    BY RowsAreArray DEF RowsOK
  <1>2. payload \in Seq(Candidates)
    BY <1>1, RowFields
  <1>3. /\ Half(i, 0) = Row("candidates", SplitKey(i, 0), SubSeq(payload, 1, midpoint))
        /\ Half(i, 1) = Row("candidates", SplitKey(i, 1),
                            SubSeq(payload, midpoint + 1, Len(payload)))
    BY DEF Half
  <1> HIDE DEF payload
  <1>4. Len(payload) \in Nat /\ (\A n \in 1 .. Len(payload) : payload[n] \in Candidates)
    BY <1>2, LenProperties, ElementOfSeq
  <1>5. midpoint \in Nat /\ midpoint <= Len(payload)
    BY <1>4
  <1> HIDE DEF midpoint
  <1>6. SubSeq(payload, 1, midpoint) \in Seq(Candidates)
    <2>1. \A n \in 1 .. midpoint : payload[n] \in Candidates
      BY <1>4, <1>5
    <2>2. QED BY <2>1, <1>5, SubSeqProperties
  <1>7. SubSeq(payload, midpoint + 1, Len(payload)) \in Seq(Candidates)
    <2>1. \A n \in midpoint + 1 .. Len(payload) : payload[n] \in Candidates
      BY <1>4, <1>5
    <2>2. QED BY <2>1, <1>4, <1>5, SubSeqProperties
  <1>8. ASSUME NEW p \in Seq(Candidates), NEW h \in {0, 1}
        PROVE  /\ Row("candidates", SplitKey(i, h), p) \in RowType
               /\ Row("candidates", SplitKey(i, h), p).status = "queued"
    BY <1>1 DEF Row, RowType, RowOf, RowStatus, SplitKey, CandidateKeys
  <1>9. QED BY <1>3, <1>6, <1>7, <1>8

\* Split: a rejected batch is set apart and its halves are appended.
LEMMA OutboxSplit ==
    ASSUME RowsOK, NEW i \in DOMAIN outbox, outbox[i].kind = "candidates",
           outbox' = Insert(Insert(WithStatus(i, "split"), Half(i, 0)), Half(i, 1))
    PROVE  OutboxStep
  <1> DEFINE r == [outbox[i] EXCEPT !.status = "split"]
             marked == WithStatus(i, "split")
             one == Insert(marked, Half(i, 0))
             two == Insert(one, Half(i, 1))
  <1>1. outbox[i] \in RowType /\ outbox \in Seq(RowType)
    BY RowsAreArray DEF RowsOK
  <1>2. r \in RowType
    BY <1>1, RowUpdated, TRUE \in BOOLEAN DEF RowStatus
  <1>3. /\ r.kind = outbox[i].kind /\ r.key = outbox[i].key
        /\ r.payload = outbox[i].payload /\ r.status = "split"
    BY <1>1 DEF RowType, RowOf
  <1>4. marked = [outbox EXCEPT ![i] = r]
    BY DEF WithStatus
  <1>5. /\ Half(i, 0) \in RowType /\ Half(i, 0).status = "queued"
        /\ Half(i, 1) \in RowType /\ Half(i, 1).status = "queued"
    BY HalfIsRow
  <1> HIDE DEF r, marked
  <1>6. /\ marked \in Seq(RowType)
        /\ DOMAIN marked = DOMAIN outbox
        /\ \A j \in DOMAIN outbox : marked[j] = IF j = i THEN r ELSE outbox[j]
    BY <1>1, <1>2, <1>4, RowReplaced
  <1>7. \A j, k \in DOMAIN marked : marked[j].key = marked[k].key => j = k
    BY <1>3, <1>6 DEF RowsOK, KeysUnique
  <1>8. /\ one \in Seq(RowType)
        /\ DOMAIN marked \subseteq DOMAIN one
        /\ \A j \in DOMAIN marked : one[j] = marked[j]
        /\ \A j \in DOMAIN one \ DOMAIN marked : one[j] = Half(i, 0)
        /\ \A j, k \in DOMAIN one : one[j].key = one[k].key => j = k
    BY <1>5, <1>6, <1>7, InsertProperties
  <1> HIDE DEF one
  <1>9. /\ two \in Seq(RowType)
        /\ DOMAIN one \subseteq DOMAIN two
        /\ \A j \in DOMAIN one : two[j] = one[j]
        /\ \A j \in DOMAIN two \ DOMAIN one : two[j] = Half(i, 1)
        /\ \A j, k \in DOMAIN two : two[j].key = two[k].key => j = k
    BY <1>5, <1>8, InsertProperties
  <1>10. outbox' = two
    BY DEF two, one, marked
  <1> HIDE DEF two
  <1>11. RowsKept
    BY <1>3, <1>6, <1>8, <1>9, <1>10 DEF RowsKept
  <1>12. DeliveredHonestly
    BY <1>3, <1>5, <1>6, <1>8, <1>9, <1>10 DEF DeliveredHonestly
  <1>13. QED BY <1>9, <1>10, <1>11, <1>12 DEF OutboxStep, RowsOK, KeysUnique

\* A transaction of the store preserves StoreOK when it treats the outbox well.
LEMMA StoreStep ==
    ASSUME StoreOK, CrmOK, UNCHANGED crmVars, OutboxStep,
           runStatus' \in {"none", "running"} \cup Terminal, runToken' \in Nat,
           runBaseline' \in Nat, runAccepted' \in Nat, runInvalid' \in Nat,
           taskRow' \in [Tasks -> LocalTask],
           runStatus' \in Terminal => crmStatus = runStatus'
    PROVE  StoreOK' /\ CrmOK' /\ RowsKept /\ LedgerGrows
  <1>1. LedgerGrows /\ CrmOK'
    BY DEF LedgerGrows, crmVars, CrmOK, CrmTypeOK, EndedHasNoLease, TerminalCommitted
  <1>2. StoreTypeOK'
    BY DEF StoreTypeOK, OutboxStep, RowsOK
  <1>3. LedgerFromOutbox'
    BY DEF LedgerFromOutbox, StoreOK, OutboxStep, RowsKept, crmVars
  <1>4. DeliveredIsCommitted'
    BY DEF DeliveredIsCommitted, StoreOK, OutboxStep, RowsKept, DeliveredHonestly, crmVars,
           MessageIds, Known
  <1>5. LocalOutcomeIsRemote'
    BY DEF LocalOutcomeIsRemote, crmVars
  <1>6. QED BY <1>1, <1>2, <1>3, <1>4, <1>5 DEF StoreOK, OutboxStep, RowsOK

\* Every position of the outbox holds a row.
LEMMA RowsOfStore ==
    ASSUME StoreOK
    PROVE  RowsOK
  BY DEF StoreOK, StoreTypeOK, RowsOK

\* Neither the store nor the CRM moves.
LEMMA DataSame ==
    ASSUME StoreOK, CrmOK, UNCHANGED crmVars, UNCHANGED storeVars
    PROVE  StoreOK' /\ CrmOK' /\ RowsKept /\ LedgerGrows
  <1>1. OutboxStep
    BY RowsOfStore, OutboxSame DEF storeVars
  <1>2. QED BY <1>1, StoreStep DEF storeVars, StoreOK, StoreTypeOK, LocalOutcomeIsRemote

-----------------------------------------------------------------------------
(* The steps and the data they leave behind.                               *)

DataKept == StoreOK' /\ CrmOK' /\ RowsKept /\ LedgerGrows

\* Steps of a worker that touch neither the store nor the CRM.
Idle(w) ==
    \/ Poll(w) \/ NothingToClaim(w) \/ Fetch(w) \/ LeaseLost(w) \/ Loop(w) \/ Check(w)
    \/ Drain(w) \/ Renew(w) \/ Recheck(w) \/ Search(w) \/ Searched(w) \/ Executed(w)
    \/ Report(w) \/ Refuse(w) \/ AnnounceFails(w) \/ RunHeartbeat(w) \/ TaskHeartbeat(w)
    \/ Crash(w)

\* Steps of a worker that touch neither the CRM nor the store.
LEMMA IdleData ==
    ASSUME IInv, NEW w \in Workers, Idle(w)
    PROVE  DataKept
  <1>1. UNCHANGED crmVars
    BY DEF Idle, Poll, NothingToClaim, Fetch, LeaseLost, Loop, Check, Drain, Renew, Recheck,
           Search, Searched, Executed, Report, Refuse, AnnounceFails, RunHeartbeat,
           TaskHeartbeat, Crash, Quiet
  <1>2. UNCHANGED storeVars
    BY DEF Idle, Poll, NothingToClaim, Fetch, LeaseLost, Loop, Check, Drain, Renew, Recheck,
           Search, Searched, Executed, Report, Refuse, AnnounceFails, RunHeartbeat,
           TaskHeartbeat, Crash
  <1>3. QED BY <1>1, <1>2, DataSame DEF IInv, DataKept

\* A transaction of the store that keeps the run row.
LEMMA RunSame ==
    ASSUME IInv, UNCHANGED crmVars, UNCHANGED runVars, OutboxStep,
           taskRow' \in [Tasks -> LocalTask]
    PROVE  DataKept
  BY StoreStep DEF IInv, DataKept, runVars, StoreOK, StoreTypeOK, LocalOutcomeIsRemote

\* A transaction of the store that only writes task rows.
LEMMA TasksOnly ==
    ASSUME IInv, UNCHANGED crmVars, UNCHANGED <<runVars, outbox>>,
           taskRow' \in [Tasks -> LocalTask]
    PROVE  DataKept
  BY RunSame, RowsOfStore, OutboxSame DEF IInv

\* A transaction of the store that only writes the outbox.
LEMMA OutboxOnly ==
    ASSUME IInv, UNCHANGED crmVars, UNCHANGED <<runVars, taskRow>>, OutboxStep
    PROVE  DataKept
  BY RunSame DEF IInv, StoreOK, StoreTypeOK

\* The fields of a local task row.
LEMMA TaskTyped ==
    ASSUME IInv, NEW t \in Tasks
    PROVE  /\ taskRow[t] \in LocalTask
           /\ taskRow[t].status \in TaskStatus /\ taskRow[t].attempts \in Nat
           /\ taskRow[t].owner \in Workers \cup {NoWorker} /\ taskRow[t].live \in BOOLEAN
  BY DEF IInv, StoreOK, StoreTypeOK, LocalTask

\* A task row with another status, owner and lease is still a task row.
LEMMA TaskUpdated ==
    ASSUME NEW r \in LocalTask, NEW status \in TaskStatus
    PROVE  [r EXCEPT !.status = status, !.owner = NoWorker] \in LocalTask
  BY DEF LocalTask

\* Releasing a task keeps the task rows well typed.
LEMMA ReleaseTyped ==
    ASSUME IInv, NEW t, NEW status \in TaskStatus, Release(t, status)
    PROVE  taskRow' \in [Tasks -> LocalTask]
  <1>1. taskRow \in [Tasks -> LocalTask]
    BY DEF IInv, StoreOK, StoreTypeOK
  <1>2. QED BY <1>1 DEF Release, LocalTask

\* claim_task writes task rows only.
LEMMA TakeTaskData ==
    ASSUME IInv, NEW w \in Workers, TakeTask(w)
    PROVE  DataKept
  <1>1. UNCHANGED crmVars /\ UNCHANGED <<runVars, outbox>>
    BY DEF TakeTask, ClaimTask, Quiet
  <1>2. taskRow' \in [Tasks -> LocalTask]
    <2> DEFINE taken(t) == [status |-> "running", attempts |-> taskRow[t].attempts + 1,
                            owner |-> w, live |-> TRUE]
               failed(t) == [taskRow[t] EXCEPT !.status = "failed", !.owner = NoWorker]
    <2>1. ASSUME NEW t \in Tasks
          PROVE  taken(t) \in LocalTask /\ failed(t) \in LocalTask
      <3>1. taken(t) \in LocalTask
        BY TaskTyped DEF LocalTask, TaskStatus
      <3>2. failed(t) \in LocalTask
        <4>1. taskRow[t] \in LocalTask /\ "failed" \in TaskStatus
          BY TaskTyped DEF TaskStatus
        <4>2. QED BY <4>1, TaskUpdated
      <3>3. QED BY <3>1, <3>2
    <2>2. taskRow' = [t \in Tasks |-> IF t \in Claimed THEN taken(t)
                                      ELSE IF Exhausted(t) THEN failed(t) ELSE taskRow[t]]
      BY DEF TakeTask, ClaimTask
    <2> HIDE DEF taken, failed
    <2>3. QED BY <2>1, <2>2, TaskTyped
  <1>3. QED BY <1>1, <1>2, TasksOnly

\* finish_task writes task rows only.
LEMMA FinishJobData ==
    ASSUME IInv, NEW w \in Workers, FinishJob(w)
    PROVE  DataKept
  <1>1. CASE FinishTask(w, job[w].task)
    <2>1. taskRow' \in [Tasks -> LocalTask]
      BY <1>1, ReleaseTyped DEF FinishTask, TaskStatus
    <2>2. QED BY <1>1, <2>1, TasksOnly DEF FinishTask, FinishJob, Quiet
  <1>2. CASE UNCHANGED storeVars
    BY <1>2, DataSame DEF IInv, DataKept, FinishJob, Quiet
  <1>3. QED BY <1>1, <1>2 DEF FinishJob

\* fail_task writes task rows only.
LEMMA FailData ==
    ASSUME IInv, NEW w \in Workers, Fail(w)
    PROVE  DataKept
  <1>1. taskRow' \in [Tasks -> LocalTask]
    <2>1. CASE Owns(w, job[w].task)
      BY <2>1, ReleaseTyped DEF Fail, FailTask, TaskStatus
    <2>2. CASE ~Owns(w, job[w].task)
      BY <2>2 DEF Fail, FailTask, IInv, StoreOK, StoreTypeOK
    <2>3. QED BY <2>1, <2>2
  <1>2. QED BY <1>1, TasksOnly DEF Fail, FailTask, Quiet

\* cancel_tasks writes task rows only.
LEMMA StopTasksData ==
    ASSUME IInv, NEW w \in Workers, StopTasks(w)
    PROVE  DataKept
  <1>1. taskRow' \in [Tasks -> LocalTask]
    BY TaskTyped DEF StopTasks, CancelTasks, LocalTask, TaskStatus
  <1>2. QED BY <1>1, TasksOnly DEF StopTasks, CancelTasks, Quiet

\* A task lease that expires changes that task row only.
LEMMA TaskLeaseEndsData ==
    ASSUME IInv, NEW t \in Tasks, TaskLeaseEnds(t)
    PROVE  DataKept
  <1>1. taskRow' \in [Tasks -> LocalTask]
    BY TaskTyped DEF TaskLeaseEnds, TaskLeaseExpires, LocalTask, IInv, StoreOK, StoreTypeOK
  <1>2. QED BY <1>1, TasksOnly DEF TaskLeaseEnds, TaskLeaseExpires

\* ensure_run takes the status back to running, which claims no outcome.
LEMMA EnsureData ==
    ASSUME IInv, NEW w \in Workers, Ensure(w)
    PROVE  DataKept
  <1>1. claim[w].tasks \in [Tasks -> RemoteTask] /\ claim[w].found \in Nat /\ tok[w] \in Nat
    BY DEF IInv, WorkerTypeOK
  <1>2. taskRow' \in [Tasks -> LocalTask]
    <2> DEFINE kept(t) == PreserveCompletion(t, claim[w].tasks[t])
               row(t) == [status   |-> IF kept(t) THEN taskRow[t].status
                                       ELSE claim[w].tasks[t].status,
                          attempts |-> IF kept(t) THEN taskRow[t].attempts
                                       ELSE claim[w].tasks[t].attempts,
                          owner    |-> NoWorker,
                          live     |-> FALSE]
    <2>1. taskRow' = [t \in Tasks |-> row(t)]
      BY DEF Ensure, EnsureRun
    <2>2. ASSUME NEW t \in Tasks
          PROVE  row(t) \in LocalTask
      <3>1. claim[w].tasks[t].status \in TaskStatus /\ claim[w].tasks[t].attempts \in Nat
        BY <1>1 DEF RemoteTask
      <3>2. taskRow[t].status \in TaskStatus /\ taskRow[t].attempts \in Nat
        BY TaskTyped
      <3> HIDE DEF kept
      <3>3. QED BY <3>1, <3>2 DEF LocalTask
    <2> HIDE DEF row
    <2>3. QED BY <2>1, <2>2
  <1>3. OutboxStep
    BY RowsOfStore, OutboxSame DEF IInv, Ensure, EnsureRun
  <1>4. /\ runStatus' = "running" /\ runToken' \in Nat /\ runBaseline' \in Nat
        /\ runAccepted' \in Nat /\ runInvalid' \in Nat
    BY <1>1 DEF Ensure, EnsureRun, Larger, IInv, StoreOK, StoreTypeOK
  <1>5. UNCHANGED crmVars
    BY DEF Ensure, Quiet
  <1>6. QED BY <1>2, <1>3, <1>4, <1>5, StoreStep DEF IInv, DataKept, Terminal

\* save_event appends an event under a key that no row has.
LEMMA SaveEventData ==
    ASSUME IInv, UNCHANGED crmVars, NEW event \in EventType, SaveEvent(event)
    PROVE  DataKept
  <1> DEFINE r == Row("events", <<"event", Len(outbox) + 1>>, event)
  <1>1. RowsOK
    BY RowsOfStore DEF IInv
  <1>2. Len(outbox) + 1 \in Nat
    BY <1>1, RowsAreArray DEF RowsOK
  <1>3. r \in RowType /\ r.status # "delivered"
    BY <1>2 DEF Row, RowType, RowOf, RowStatus, EventKeys
  <1>4. outbox' = Insert(outbox, r) /\ UNCHANGED <<runVars, taskRow>>
    BY DEF SaveEvent, Queue
  <1> HIDE DEF r
  <1>5. QED BY <1>1, <1>3, <1>4, OutboxQueued, OutboxOnly

\* The job of a worker is a task, or none, and an attempt.
LEMMA JobOfWorker ==
    ASSUME IInv, NEW w \in Workers, pc[w] \in JobLabels
    PROVE  job[w].task \in Tasks /\ job[w].attempt \in Nat
  BY DEF IInv, WorkerOK, WorkerTypeOK

\* The event that announces an attempt is well formed.
LEMMA StartData ==
    ASSUME IInv, NEW w \in Workers, Start(w) \/ Announce(w) \/ AnnounceFailure(w)
    PROVE  DataKept
  <1>1. job[w].task \in Tasks /\ job[w].attempt \in Nat
    BY JobOfWorker DEF Start, Announce, AnnounceFailure, At, JobLabels
  <1>2. ASSUME NEW status \in TaskStatus, NEW attempt \in Nat
        PROVE  Event(job[w].task, status, attempt) \in EventType
    BY <1>1 DEF Event, EventType
  <1>3. CASE Start(w)
    BY <1>1, <1>2, <1>3, SaveEventData DEF Start, Quiet, TaskStatus
  <1>4. CASE Announce(w)
    BY <1>1, <1>2, <1>4, SaveEventData DEF Announce, Quiet, TaskStatus
  <1>5. CASE AnnounceFailure(w)
    <2>1. (IF job[w].attempt >= MaxAttempts THEN "failed" ELSE "pending") \in TaskStatus
      BY DEF TaskStatus
    <2>2. QED BY <1>2, <1>5, <2>1, SaveEventData DEF AnnounceFailure, Quiet
  <1>6. QED BY <1>3, <1>4, <1>5

\* So is the event of a cancellation.
LEMMA AnnounceCancelData ==
    ASSUME IInv, NEW w \in Workers, AnnounceCancel(w)
    PROVE  DataKept
  <1>1. Event(NoTask, "none", 0) \in EventType
    BY DEF Event, EventType
  <1>2. QED BY <1>1, SaveEventData DEF AnnounceCancel, Quiet

\* A batch of candidates is queued under the key of its task and attempt.
LEMMA SaveData ==
    ASSUME IInv, NEW w \in Workers, Save(w)
    PROVE  DataKept
  <1>1. job[w].task \in Tasks /\ job[w].attempt \in Nat
    BY JobOfWorker DEF Save, At, JobLabels
  <1>2. PICK batch \in Yield[job[w].task] :
            SaveCandidates(job[w].task, job[w].attempt, batch)
    BY DEF Save
  <1>3. batch \in Seq(Candidates)
    BY <1>1, <1>2, WorkerAssumption
  <1> DEFINE r == Row("candidates", CandidatesKey(job[w].task, job[w].attempt), batch)
  <1>4. r \in RowType /\ r.status # "delivered"
    BY <1>1, <1>3 DEF Row, RowType, RowOf, RowStatus, CandidatesKey, CandidateKeys
  <1>5. UNCHANGED <<runVars, taskRow>> /\ UNCHANGED crmVars
    BY <1>2 DEF SaveCandidates, Save, Quiet
  <1>6. RowsOK
    BY RowsOfStore DEF IInv
  <1>7. CASE batch = <<>>
    BY <1>2, <1>5, <1>6, <1>7, OutboxSame, OutboxOnly DEF SaveCandidates
  <1>8. CASE batch # <<>>
    <2>1. outbox' = Insert(outbox, r)
      BY <1>2, <1>8 DEF SaveCandidates, Queue
    <2> HIDE DEF r
    <2>2. QED BY <2>1, <1>4, <1>5, <1>6, OutboxQueued, OutboxOnly
  <1>9. QED BY <1>7, <1>8

\* The terminal message is queued under the key of its status.
LEMMA ConcludeData ==
    ASSUME IInv, NEW w \in Workers, Conclude(w)
    PROVE  DataKept
  <1> DEFINE r == Row("complete", TerminalKey(final[w].status), final[w])
  <1>1. final[w].status \in Terminal
    BY DEF Conclude, At, IInv, WorkerOK, FinalLabels
  <1>2. final[w] \in ReportType
    BY <1>1 DEF IInv, WorkerTypeOK, ReportType
  <1>3. r \in RowType /\ r.status # "delivered"
    BY <1>1, <1>2 DEF Row, RowType, RowOf, RowStatus, TerminalKey, TerminalKeys
  <1>4. outbox' = Insert(outbox, r) /\ UNCHANGED <<runVars, taskRow>> /\ UNCHANGED crmVars
    BY DEF Conclude, QueueTerminal, Queue, Quiet
  <1> HIDE DEF r
  <1>5. QED BY <1>3, <1>4, RowsOfStore, OutboxQueued, OutboxOnly DEF IInv

\* A row whose back-off elapses.
LEMMA RetryData ==
    ASSUME IInv, NEW i \in MessageIds, Retry(i)
    PROVE  DataKept
  BY RowsOfStore, OutboxBackoff, OutboxOnly DEF IInv, Retry, BackoffElapses, MessageIds

\* The row that a worker delivers is in the outbox, and known to the CRM when
\* the delivery succeeded.
LEMMA FirstOfQueue ==
    ASSUME IInv, NEW w \in Workers, NEW i, First(w, i)
    PROVE  /\ i \in DOMAIN outbox /\ outbox[i] \in RowType
           /\ sent[w] = "ok" => Known(outbox[i].key)
  <1>1. i \in DOMAIN outbox
    BY DEF IInv, WorkerOK, First
  <1>2. QED BY <1>1, RowsAreArray, RowsOfStore DEF IInv, WorkerOK, First, RowsOK

\* A row whose delivery the CRM confirmed may be marked delivered.
LEMMA DeliveredRow ==
    ASSUME IInv, UNCHANGED crmVars, NEW i \in DOMAIN outbox, Known(outbox[i].key),
           MarkDelivered(i)
    PROVE  DataKept
  <1>1. OutboxStep
    BY RowsOfStore, OutboxWithStatus DEF IInv, MarkDelivered, RowStatus
  <1>2. QED BY <1>1, OutboxOnly DEF MarkDelivered

\* mark_outbox_delivered after a recorded acknowledgement.
LEMMA SettleData ==
    ASSUME IInv, NEW w \in Workers, Settle(w)
    PROVE  DataKept
  <1>1. sent[w] = "ok"
    BY DEF Settle, At, IInv, WorkerOK
  <1>2. PICK i \in queue[w] : First(w, i) /\ MarkDelivered(i)
    BY DEF Settle
  <1>3. QED BY <1>1, <1>2, FirstOfQueue, DeliveredRow DEF Settle, Quiet

\* A failed delivery never marks a row delivered.
LEMMA FailedRow ==
    ASSUME IInv, UNCHANGED crmVars, NEW i \in DOMAIN outbox, NEW retryable \in BOOLEAN,
           MarkFailed(i, retryable)
    PROVE  DataKept
  <1>1. OutboxStep
    BY RowsOfStore, OutboxFailed DEF IInv
  <1>2. QED BY <1>1, OutboxOnly DEF MarkFailed

\* A delivery that is retried later or dead-lettered.
LEMMA UndeliveredData ==
    ASSUME IInv, NEW w \in Workers, Undelivered(w)
    PROVE  DataKept
  <1>1. PICK i \in queue[w] : First(w, i) /\ MarkFailed(i, sent[w] = "retry")
    BY DEF Undelivered
  <1>2. (sent[w] = "retry") \in BOOLEAN
    OBVIOUS
  <1>3. QED BY <1>1, <1>2, FirstOfQueue, FailedRow DEF Undelivered, Quiet

\* A refused batch is split, a refused candidate discarded.
LEMMA IsolateData ==
    ASSUME IInv, NEW w \in Workers, Isolate(w)
    PROVE  DataKept
  <1>1. PICK i \in queue[w] : First(w, i) /\ outbox[i].kind = "candidates"
                                /\ (Split(i) \/ Discard(i))
    BY DEF Isolate
  <1>2. i \in DOMAIN outbox /\ RowsOK
    BY <1>1, FirstOfQueue, RowsOfStore DEF IInv
  <1>3. UNCHANGED crmVars
    BY DEF Isolate, Quiet
  <1>4. CASE Split(i)
    BY <1>1, <1>2, <1>3, <1>4, OutboxSplit, OutboxOnly DEF Split
  <1>5. CASE Discard(i)
    <2>1. OutboxStep
      BY <1>2, <1>5, OutboxWithStatus DEF Discard, RowStatus
    <2>2. /\ runStatus' = runStatus /\ runToken' = runToken /\ runBaseline' = runBaseline
          /\ runAccepted' = runAccepted /\ runInvalid' = runInvalid + 1 /\ taskRow' = taskRow
      BY <1>5 DEF Discard
    <2>3. QED BY <1>3, <2>1, <2>2, StoreStep
              DEF IInv, DataKept, StoreOK, StoreTypeOK, LocalOutcomeIsRemote
  <1>6. QED BY <1>1, <1>4, <1>5

\* A terminal row that the CRM knows says how the run ended there.
LEMMA FinalizedRow ==
    ASSUME IInv, UNCHANGED crmVars, NEW i \in DOMAIN outbox, Known(outbox[i].key),
           outbox[i].kind = "complete", FinalizeTerminal(i)
    PROVE  DataKept
  <1>1. /\ outbox[i].payload \in ReportType /\ outbox[i].key \in TerminalKeys
        /\ RowsOK
    BY RowsOfStore, RowsAreArray, RowFields DEF IInv, RowsOK
  <1>2. OutboxStep
    BY <1>1, OutboxWithStatus DEF FinalizeTerminal, RowStatus
  <1>3. outbox[i].payload = ledger[outbox[i].key].payload
    BY DEF IInv, StoreOK, LedgerFromOutbox, KeysUnique, Known
  <1>4. crmStatus = outbox[i].payload.status
    BY <1>1, <1>3 DEF IInv, CrmOK, TerminalCommitted, Known
  <1>5. /\ runStatus' = outbox[i].payload.status
        /\ runAccepted' = outbox[i].payload.accepted
        /\ runInvalid' = outbox[i].payload.invalid
        /\ UNCHANGED <<runToken, runBaseline, taskRow>>
    BY DEF FinalizeTerminal
  <1>6. runStatus' \in Terminal /\ runAccepted' \in Nat /\ runInvalid' \in Nat
    BY <1>1, <1>5 DEF ReportType
  <1>7. QED BY <1>2, <1>4, <1>5, <1>6, StoreStep DEF IInv, DataKept, StoreOK, StoreTypeOK

\* The acknowledgement of a batch the CRM committed.
LEMMA AckedRow ==
    ASSUME IInv, UNCHANGED crmVars, NEW i \in DOMAIN outbox, Known(outbox[i].key),
           RecordAck(i, ledger[outbox[i].key])
    PROVE  DataKept
  <1> DEFINE ack == ledger[outbox[i].key]
  <1>1. ack.accepted \in Nat /\ ack.found \in Nat
    BY DEF IInv, CrmOK, CrmTypeOK, Known
  <1>2. CASE outbox[i].status = "delivered"
    BY <1>2, DataSame DEF RecordAck, IInv, DataKept
  <1>3. CASE outbox[i].status # "delivered"
    <2>1. /\ outbox' = WithStatus(i, "delivered")
          /\ runBaseline' = Larger(runBaseline, ack.found)
          /\ runAccepted' = runAccepted + ack.accepted
          /\ UNCHANGED <<runStatus, runToken, runInvalid, taskRow>>
      BY <1>3 DEF RecordAck
    <2>2. OutboxStep
      BY <2>1, RowsOfStore, OutboxWithStatus DEF IInv, RowStatus
    <2>3. runBaseline' \in Nat /\ runAccepted' \in Nat
      BY <1>1, <2>1 DEF Larger, IInv, StoreOK, StoreTypeOK
    <2>4. QED BY <2>1, <2>2, <2>3, StoreStep
              DEF IInv, DataKept, StoreOK, StoreTypeOK, LocalOutcomeIsRemote
  <1>4. QED BY <1>2, <1>3

\* The three ways in which the store learns of a success.
LEMMA DeliveredData ==
    ASSUME IInv, NEW w \in Workers, Delivered(w)
    PROVE  DataKept
  <1>1. PICK i \in queue[w] :
           /\ First(w, i)
           /\ CASE outbox[i].kind = "events" -> MarkDelivered(i) /\ NextRow(w, i)
                [] outbox[i].kind = "complete" -> FinalizeTerminal(i) /\ NextRow(w, i)
                [] OTHER -> RecordAck(i, ledger[outbox[i].key]) /\ Proceed(w, "settle")
    BY DEF Delivered
  <1>2. i \in DOMAIN outbox /\ Known(outbox[i].key)
    BY <1>1, FirstOfQueue DEF Delivered
  <1>3. UNCHANGED crmVars
    BY DEF Delivered, Quiet
  <1>4. CASE outbox[i].kind = "events"
    BY <1>1, <1>2, <1>3, <1>4, DeliveredRow
  <1>5. CASE outbox[i].kind = "complete"
    BY <1>1, <1>2, <1>3, <1>5, FinalizedRow
  <1>6. CASE outbox[i].kind \notin {"events", "complete"}
    BY <1>1, <1>2, <1>3, <1>6, AckedRow
  <1>7. QED BY <1>4, <1>5, <1>6

\* What the store learns of a replayed terminal message.
LEMMA ReplayedData ==
    ASSUME IInv, NEW w \in Workers, Replayed(w)
    PROVE  DataKept
  <1>1. PICK i \in queue[w] :
           /\ First(w, i)
           /\ CASE sent[w] = "ok" -> FinalizeTerminal(i)
                [] sent[w] \in {"lease", "retry"} -> MarkFailed(i, TRUE)
                [] OTHER -> MarkFailed(i, FALSE)
    BY DEF Replayed
  <1>2. i \in DOMAIN outbox /\ (sent[w] = "ok" => Known(outbox[i].key))
    BY <1>1, FirstOfQueue
  <1>3. outbox[i].kind = "complete"
    BY DEF Replayed, At, IInv, WorkerOK
  <1>4. UNCHANGED crmVars
    BY DEF Replayed, Quiet
  <1>5. CASE sent[w] = "ok"
    BY <1>1, <1>2, <1>3, <1>4, <1>5, FinalizedRow
  <1>6. CASE sent[w] # "ok"
    <2>1. MarkFailed(i, TRUE) \/ MarkFailed(i, FALSE)
      BY <1>1, <1>6
    <2>2. QED BY <1>2, <1>4, <2>1, FailedRow
  <1>7. QED BY <1>5, <1>6

-----------------------------------------------------------------------------
(* Calls to the CRM.                                                       *)

\* The store stays as it is while the CRM moves.
LEMMA CrmStep ==
    ASSUME IInv, UNCHANGED storeVars, CrmOK', LedgerGrows, LedgerFromOutbox',
           runStatus \in Terminal => crmStatus' = runStatus
    PROVE  DataKept
  <1>1. RowsKept
    BY DEF RowsKept, storeVars
  <1>2. StoreTypeOK' /\ KeysUnique'
    BY DEF storeVars, IInv, StoreOK, StoreTypeOK, KeysUnique
  <1>3. DeliveredIsCommitted'
    BY DEF storeVars, IInv, StoreOK, DeliveredIsCommitted, MessageIds, Known, LedgerGrows
  <1>4. LocalOutcomeIsRemote'
    BY DEF storeVars, LocalOutcomeIsRemote
  <1>5. QED BY <1>1, <1>2, <1>3, <1>4 DEF DataKept, StoreOK

\* The ledger after a key was committed for the first time.
LEMMA Remembered ==
    ASSUME IInv, UNCHANGED storeVars, NEW i \in DOMAIN outbox, ~Known(outbox[i].key),
           NEW accepted \in Nat, NEW found \in Nat,
           Remember(outbox[i].key, outbox[i].payload, accepted, found)
    PROVE  /\ LedgerGrows
           /\ LedgerFromOutbox'
           /\ DOMAIN ledger' = DOMAIN ledger \cup {outbox[i].key}
           /\ ledger'[outbox[i].key].payload = outbox[i].payload
           /\ DOMAIN ledger' \subseteq EventKeys \cup CandidateKeys \cup TerminalKeys
           /\ \A k \in DOMAIN ledger' : ledger'[k].accepted \in Nat /\ ledger'[k].found \in Nat
  <1> DEFINE key == outbox[i].key
             entry == [payload |-> outbox[i].payload, accepted |-> accepted, found |-> found]
  <1>1. ledger' = [k \in DOMAIN ledger \cup {key} |-> IF k = key THEN entry ELSE ledger[k]]
    BY DEF Remember
  <1>2. /\ DOMAIN ledger' = DOMAIN ledger \cup {key}
        /\ ledger'[key] = entry
        /\ \A k \in DOMAIN ledger : k # key /\ ledger'[k] = ledger[k]
    BY <1>1 DEF Known
  <1>3. key \in EventKeys \cup CandidateKeys \cup TerminalKeys
    BY RowsAreArray, RowsOfStore, RowFields DEF IInv, RowsOK
  <1>4. LedgerGrows
    BY <1>2 DEF LedgerGrows
  <1>5. LedgerFromOutbox'
    <2>1. ASSUME NEW k \in DOMAIN ledger'
          PROVE  \E j \in DOMAIN outbox : outbox[j].key = k /\ outbox[j].payload = ledger'[k].payload
      <3>1. CASE k = key
        BY <1>2, <3>1
      <3>2. CASE k \in DOMAIN ledger
        BY <1>2, <3>2 DEF IInv, StoreOK, LedgerFromOutbox
      <3>3. QED BY <1>2, <2>1, <3>1, <3>2
    <2>2. QED BY <2>1 DEF LedgerFromOutbox, storeVars
  <1>6. \A k \in DOMAIN ledger' : ledger'[k].accepted \in Nat /\ ledger'[k].found \in Nat
    BY <1>2 DEF IInv, CrmOK, CrmTypeOK
  <1>7. QED BY <1>2, <1>3, <1>4, <1>5, <1>6 DEF IInv, CrmOK, CrmTypeOK

\* A key known before is answered from the ledger.
LEMMA AnsweredFromLedger ==
    ASSUME IInv, UNCHANGED storeVars, UNCHANGED crmVars
    PROVE  DataKept
  BY DataSame DEF IInv, DataKept

\* append_events commits a key of an event once.
LEMMA EventsCommitted ==
    ASSUME IInv, UNCHANGED storeVars, NEW i \in DOMAIN outbox,
           outbox[i].kind = "events", AppendEvents(outbox[i].key, outbox[i].payload)
    PROVE  DataKept
  <1> DEFINE event == outbox[i].payload
  <1>1. event \in EventType /\ outbox[i].key \in EventKeys
    BY RowsAreArray, RowsOfStore, RowFields DEF IInv, RowsOK
  <1>2. CASE Known(outbox[i].key)
    BY <1>2, AnsweredFromLedger DEF AppendEvents, crmVars
  <1>3. CASE ~Known(outbox[i].key)
    <2>1. Remember(outbox[i].key, event, 0, 0)
      BY <1>3 DEF AppendEvents
    <2>2. /\ LedgerGrows
          /\ LedgerFromOutbox'
          /\ DOMAIN ledger' = DOMAIN ledger \cup {outbox[i].key}
          /\ DOMAIN ledger' \subseteq EventKeys \cup CandidateKeys \cup TerminalKeys
          /\ \A k \in DOMAIN ledger' : ledger'[k].accepted \in Nat /\ ledger'[k].found \in Nat
      BY <1>3, <2>1, Remembered, 0 \in Nat
    <2>3. UNCHANGED <<crmStatus, crmToken, crmLive, crmIssued, crmCancel, crmCands, crmReport>>
      BY DEF AppendEvents
    <2>4. crmTask' \in [Tasks -> RemoteTask]
      <3> DEFINE row(t) == IF t # event.task THEN crmTask[t]
                           ELSE [status |-> event.status,
                                 attempts |-> IF event.attempt > crmTask[t].attempts
                                              THEN event.attempt ELSE crmTask[t].attempts]
      <3>1. crmTask' = [t \in Tasks |-> row(t)]
        BY <1>3 DEF AppendEvents
      <3>2. ASSUME NEW t \in Tasks
            PROVE  row(t) \in RemoteTask
        <4>1. crmTask[t] \in RemoteTask /\ crmTask[t].attempts \in Nat
          BY DEF IInv, CrmOK, CrmTypeOK, RemoteTask
        <4>2. CASE t # event.task
          BY <4>1, <4>2
        <4>3. CASE t = event.task
          <5>1. t # NoTask
            BY CrmAssumption DEF NoTask
          <5>2. event.status \in TaskStatus /\ event.attempt \in Nat
            BY <1>1, <4>3, <5>1 DEF EventType
          <5>3. QED BY <4>1, <4>3, <5>2 DEF RemoteTask
        <4>4. QED BY <4>2, <4>3
      <3> HIDE DEF row
      <3>3. QED BY <3>1, <3>2
    <2>5. TerminalCommitted' /\ EndedHasNoLease'
      <3>1. outbox[i].key \notin TerminalKeys
        BY <1>1 DEF EventKeys, TerminalKeys
      <3>2. QED BY <2>2, <2>3, <3>1
                DEF IInv, CrmOK, TerminalCommitted, EndedHasNoLease, LedgerGrows
    <2>6. CrmOK'
      BY <2>2, <2>3, <2>4, <2>5 DEF IInv, CrmOK, CrmTypeOK
    <2>7. QED BY <2>2, <2>3, <2>6, CrmStep DEF IInv, StoreOK, LocalOutcomeIsRemote
  <1>4. QED BY <1>2, <1>3

\* upsert_candidates commits a key of candidates once.
LEMMA CandidatesCommitted ==
    ASSUME IInv, UNCHANGED storeVars, NEW i \in DOMAIN outbox,
           outbox[i].kind = "candidates", UpsertCandidates(outbox[i].key, outbox[i].payload)
    PROVE  DataKept
  <1> DEFINE payload == outbox[i].payload
             accepted == Cardinality(Admitted(payload))
             found == Cardinality(crmCands \cup Admitted(payload))
  <1>1. payload \in Seq(Candidates) /\ outbox[i].key \in CandidateKeys
    BY RowsAreArray, RowsOfStore, RowFields DEF IInv, RowsOK
  <1>2. Admitted(payload) \subseteq Candidates
    <2>1. \A n \in DOMAIN payload : payload[n] \in Candidates
      BY <1>1, LenProperties, ElementOfSeq
    <2>2. QED BY <2>1 DEF Admitted, Fresh
  <1>3. crmCands \subseteq Candidates
    BY DEF IInv, CrmOK, CrmTypeOK
  <1>4. accepted \in Nat /\ found \in Nat
    <2>1. IsFiniteSet(Admitted(payload)) /\ IsFiniteSet(crmCands \cup Admitted(payload))
      BY <1>2, <1>3, CrmAssumption, FS_Subset
    <2>2. QED BY <2>1, FS_CardinalityType
  <1>5. CASE Known(outbox[i].key)
    BY <1>5, AnsweredFromLedger DEF UpsertCandidates, crmVars
  <1>6. CASE ~Known(outbox[i].key)
    <2>1. /\ Remember(outbox[i].key, payload, accepted, found)
          /\ crmCands' = crmCands \cup Admitted(payload)
      BY <1>6 DEF UpsertCandidates
    <2> HIDE DEF accepted, found
    <2>2. /\ LedgerGrows
          /\ LedgerFromOutbox'
          /\ DOMAIN ledger' = DOMAIN ledger \cup {outbox[i].key}
          /\ DOMAIN ledger' \subseteq EventKeys \cup CandidateKeys \cup TerminalKeys
          /\ \A k \in DOMAIN ledger' : ledger'[k].accepted \in Nat /\ ledger'[k].found \in Nat
      BY <1>4, <1>6, <2>1, Remembered
    <2>3. UNCHANGED <<crmStatus, crmToken, crmLive, crmIssued, crmCancel, crmTask, crmReport>>
      BY DEF UpsertCandidates
    <2>4. crmCands' \subseteq Candidates
      BY <1>2, <1>3, <2>1
    <2>5. TerminalCommitted' /\ EndedHasNoLease'
      <3>1. outbox[i].key \notin TerminalKeys
        BY <1>1 DEF CandidateKeys, TerminalKeys
      <3>2. QED BY <2>2, <2>3, <3>1
                DEF IInv, CrmOK, TerminalCommitted, EndedHasNoLease, LedgerGrows
    <2>6. CrmOK'
      BY <2>2, <2>3, <2>4, <2>5 DEF IInv, CrmOK, CrmTypeOK
    <2>7. QED BY <2>2, <2>3, <2>6, CrmStep DEF IInv, StoreOK, LocalOutcomeIsRemote
  <1>7. QED BY <1>5, <1>6

\* A terminal message is committed for the first time under the lease only,
\* hence before the run ended: no other terminal key can be in the ledger.
LEMMA TerminalIsCommitted ==
    ASSUME IInv, UNCHANGED storeVars, NEW i \in DOMAIN outbox, NEW token,
           outbox[i].kind = "complete", CompleteRun(outbox[i].key, outbox[i].payload),
           Known(outbox[i].key) \/ HoldsLease(token)
    PROVE  DataKept
  <1> DEFINE report == outbox[i].payload
  <1>1. report \in ReportType /\ outbox[i].key \in TerminalKeys
    BY RowsAreArray, RowsOfStore, RowFields DEF IInv, RowsOK
  <1>2. CASE Known(outbox[i].key)
    BY <1>2, AnsweredFromLedger DEF CompleteRun, crmVars
  <1>3. CASE ~Known(outbox[i].key)
    <2>1. /\ Remember(outbox[i].key, report, 0, 0)
          /\ crmStatus' = report.status /\ crmReport' = report.accepted
          /\ crmToken' = 0 /\ crmLive' = FALSE
          /\ UNCHANGED <<crmIssued, crmCancel, crmTask, crmCands>>
      BY <1>3 DEF CompleteRun
    <2>2. /\ LedgerGrows
          /\ LedgerFromOutbox'
          /\ DOMAIN ledger' = DOMAIN ledger \cup {outbox[i].key}
          /\ ledger'[outbox[i].key].payload = report
          /\ DOMAIN ledger' \subseteq EventKeys \cup CandidateKeys \cup TerminalKeys
          /\ \A k \in DOMAIN ledger' : ledger'[k].accepted \in Nat /\ ledger'[k].found \in Nat
      BY <1>3, <2>1, Remembered, 0 \in Nat
    <2>3. crmStatus \notin Terminal
      BY <1>3 DEF HoldsLease, IInv, CrmOK, EndedHasNoLease
    <2>4. \A k \in DOMAIN ledger : k \notin TerminalKeys
      BY <2>3 DEF IInv, CrmOK, TerminalCommitted
    <2>5. report.status \in Terminal /\ report.accepted \in Nat
      BY <1>1 DEF ReportType
    <2>6. TerminalCommitted' /\ EndedHasNoLease'
      BY <2>1, <2>2, <2>4, <2>5 DEF TerminalCommitted, EndedHasNoLease
    <2>7. CrmOK'
      BY <2>1, <2>2, <2>5, <2>6 DEF IInv, CrmOK, CrmTypeOK
    <2>8. runStatus \notin Terminal
      BY <2>3 DEF IInv, StoreOK, LocalOutcomeIsRemote
    <2>9. QED BY <2>2, <2>7, <2>8, CrmStep
  <1>4. QED BY <1>2, <1>3

\* A delivery, with or without its answer, keeps the ledger and the outbox in accord.
LEMMA SendingData ==
    ASSUME IInv, NEW w \in Workers, NEW next, Sending(w, next)
    PROVE  DataKept
  <1>1. PICK i \in queue[w] :
           /\ First(w, i)
           /\ LET m       == outbox[i]
                  outcome == Outcome(tok[w], m.kind, m.key, m.payload)
              IN  (outcome = "ok" /\ Commit(m.kind, m.key, m.payload)) \/ UNCHANGED crmVars
    BY DEF Sending
  <1>2. UNCHANGED storeVars
    BY DEF Sending
  <1>3. i \in DOMAIN outbox
    BY <1>1, FirstOfQueue
  <1>4. CASE UNCHANGED crmVars
    BY <1>2, <1>4, AnsweredFromLedger
  <1>5. CASE /\ Outcome(tok[w], outbox[i].kind, outbox[i].key, outbox[i].payload) = "ok"
             /\ Commit(outbox[i].kind, outbox[i].key, outbox[i].payload)
    <2>1. outbox[i].kind = "complete" => Known(outbox[i].key) \/ HoldsLease(tok[w])
      BY <1>5 DEF Outcome
    <2>2. QED BY <1>2, <1>3, <1>5, <2>1, EventsCommitted, CandidatesCommitted,
                 TerminalIsCommitted DEF Commit
  <1>6. QED BY <1>1, <1>4, <1>5

\* Steps of the CRM that commit no message.
LEMMA LedgerSame ==
    ASSUME IInv, UNCHANGED storeVars, ledger' = ledger, CrmTypeOK',
           crmStatus \in Terminal => crmStatus' = crmStatus /\ crmToken' = crmToken,
           crmStatus' \in Terminal => crmStatus \in Terminal
    PROVE  DataKept
  <1>1. LedgerGrows /\ LedgerFromOutbox'
    BY DEF LedgerGrows, LedgerFromOutbox, storeVars, IInv, StoreOK
  <1>2. EndedHasNoLease' /\ TerminalCommitted'
    BY DEF IInv, CrmOK, EndedHasNoLease, TerminalCommitted
  <1>3. runStatus \in Terminal => crmStatus' = runStatus
    BY DEF IInv, StoreOK, LocalOutcomeIsRemote
  <1>4. QED BY <1>1, <1>2, <1>3, CrmStep DEF CrmOK

\* A granted claim issues a new token; the ledger stays.
LEMMA ClaimData ==
    ASSUME IInv, CrmClaimRun, UNCHANGED storeVars
    PROVE  DataKept
  <1>1. crmStatus \notin Terminal
    BY DEF CrmClaimRun, Claimable, Terminal
  <1>2. CrmTypeOK' /\ crmStatus' = "running" /\ ledger' = ledger
    BY DEF CrmClaimRun, IInv, CrmOK, CrmTypeOK
  <1>3. QED BY <1>1, <1>2, LedgerSame DEF Terminal

\* A lease that expires is no longer live; the ledger stays.
LEMMA RunLeaseExpiresData ==
    ASSUME IInv, RunLeaseExpires
    PROVE  DataKept
  <1>1. /\ CrmTypeOK' /\ crmStatus' = crmStatus /\ crmToken' = crmToken /\ ledger' = ledger
        /\ UNCHANGED storeVars
    BY DEF RunLeaseExpires, CrmLeaseExpires, IInv, CrmOK, CrmTypeOK
  <1>2. QED BY <1>1, LedgerSame

\* A cancellation happens to a run that has not ended.
LEMMA CancelData ==
    ASSUME IInv, Cancel
    PROVE  DataKept
  <1>1. crmStatus \notin Terminal /\ crmStatus' = "cancel_requested" /\ ledger' = ledger
    BY DEF Cancel, RequestCancel, Terminal
  <1>2. crmTask' \in [Tasks -> RemoteTask]
    <2> DEFINE stopped(t) == [crmTask[t] EXCEPT !.status = "cancelled"]
    <2>1. ASSUME NEW t \in Tasks
          PROVE  crmTask[t] \in RemoteTask /\ stopped(t) \in RemoteTask
      BY DEF IInv, CrmOK, CrmTypeOK, RemoteTask, TaskStatus
    <2>2. crmTask' = [t \in Tasks |-> IF crmTask[t].status \in {"pending", "running"}
                                     THEN stopped(t) ELSE crmTask[t]]
      BY DEF Cancel, RequestCancel
    <2> HIDE DEF stopped
    <2>3. QED BY <2>1, <2>2
  <1>3. CrmTypeOK'
    BY <1>1, <1>2 DEF Cancel, RequestCancel, IInv, CrmOK, CrmTypeOK
  <1>4. QED BY <1>1, <1>3, LedgerSame DEF Cancel, Terminal

-----------------------------------------------------------------------------
(* The steps and the place they leave each worker in.                      *)

ControlKept == WorkerTypeOK' /\ \A v \in Workers : WorkerOK(v)'

\* The volatile state of a worker does not move.
SameWorker(v) ==
    /\ pc'[v] = pc[v] /\ job'[v] = job[v] /\ queue'[v] = queue[v]
    /\ sent'[v] = sent[v] /\ after'[v] = after[v] /\ final'[v] = final[v]

\* A worker that no step moved stays well, its rows being delivered once committed.
LEMMA SameWorkerOK ==
    ASSUME IInv, RowsKept, LedgerGrows, NEW v \in Workers, SameWorker(v)
    PROVE  WorkerOK(v)'
  <1>1. WorkerOK(v)
    BY DEF IInv
  <1>2. \A i \in queue[v] : First(v, i)' <=> First(v, i)
    BY DEF First, SameWorker
  <1>3. \A i \in queue[v] : i \in DOMAIN outbox'
    BY <1>1 DEF WorkerOK, RowsKept
  <1>4. \A i \in queue[v] : /\ outbox'[i].kind = outbox[i].kind
                            /\ Known(outbox[i].key) => Known(outbox[i].key)'
    BY <1>1 DEF WorkerOK, RowsKept, LedgerGrows, Known
  <1>5. QED BY <1>1, <1>2, <1>3, <1>4 DEF WorkerOK, SameWorker

\* A step of one worker is judged by what it does to that worker.
LEMMA OneWorker ==
    ASSUME IInv, RowsKept, LedgerGrows, NEW w \in Workers, WorkerTypeOK', WorkerOK(w)',
           \A v \in Workers \ {w} : SameWorker(v)
    PROVE  ControlKept
  BY SameWorkerOK DEF ControlKept

\* A step of the environment moves no worker.
LEMMA NoWorkerMoves ==
    ASSUME IInv, RowsKept, LedgerGrows, UNCHANGED workerVars, sourceRuns' = sourceRuns,
           faults' \in Nat
    PROVE  ControlKept
  <1>1. \A v \in Workers : SameWorker(v)
    BY DEF SameWorker, workerVars
  <1>2. WorkerTypeOK'
    BY DEF IInv, WorkerTypeOK, workerVars
  <1>3. QED BY <1>1, <1>2, SameWorkerOK DEF ControlKept

\* Counters that any step may move.
CountersOK == faults' \in Nat /\ sourceRuns' \in [Tasks -> Nat]

\* A step without fault or search keeps the counters well typed.
LEMMA QuietCounters ==
    ASSUME IInv, Quiet
    PROVE  CountersOK
  BY DEF IInv, WorkerTypeOK, Quiet, CountersOK

\* A fault adds one to its counter.
LEMMA FaultCounters ==
    ASSUME IInv, NEW kind, Fault(kind) \/ UNCHANGED faults, UNCHANGED sourceRuns
    PROVE  CountersOK
  BY DEF IInv, WorkerTypeOK, Fault, CountersOK

\* A poll that ends leaves a worker that holds nothing.
LEMMA LeaveControl ==
    ASSUME IInv, RowsKept, LedgerGrows, CountersOK, NEW w \in Workers, Leave(w)
    PROVE  ControlKept
  <1>1. NoClaim \in [tasks : [Tasks -> RemoteTask], found : Nat]
    BY DEF NoClaim, RemoteTask, TaskStatus
  <1>2. NoJob \in [task : TaskRef, attempt : Nat]
    BY DEF NoJob, TaskRef, NoTask
  <1>3. NoFinal \in [status : Terminal \cup {"none"}, accepted : Nat, invalid : Nat]
    BY DEF NoFinal
  <1>4. WorkerTypeOK'
    BY <1>1, <1>2, <1>3 DEF Leave, Goto, Labels, CountersOK, IInv, WorkerTypeOK
  <1>5. WorkerOK(w)'
    BY DEF Leave, Goto, IInv, WorkerTypeOK, WorkerOK, JobLabels, DeliveryLabels, FinalLabels
  <1>6. \A v \in Workers \ {w} : SameWorker(v)
    BY DEF Leave, Goto, IInv, WorkerTypeOK, SameWorker
  <1>7. QED BY <1>4, <1>5, <1>6, OneWorker

\* What a worker must have in hand to stand at a label.
Fits(w, label) ==
    /\ label \in Labels \ {"replay", "replayed"}
    /\ label \in JobLabels => job[w].task \in Tasks
    /\ label \in DeliveryLabels /\ after[w] = "started" => job[w].task \in Tasks
    /\ label \in FinalLabels => final[w].status \in Terminal
    /\ sent[w] = "ok" => label \in {"mark", "settle"}
    /\ label = "settle" => sent[w] = "ok"

\* A worker that only moves to a label where nothing more is required.
LEMMA ProceedControl ==
    ASSUME IInv, RowsKept, LedgerGrows, CountersOK, NEW w \in Workers, NEW label,
           Proceed(w, label), Fits(w, label)
    PROVE  ControlKept
  <1>1. WorkerTypeOK'
    BY DEF Proceed, Goto, Fits, CountersOK, IInv, WorkerTypeOK
  <1>2. WorkerOK(w)'
    <2>1. WorkerOK(w)
      BY DEF IInv
    <2>2. pc'[w] = label
      BY DEF Proceed, Goto, IInv, WorkerTypeOK
    <2>3. \A i \in queue[w] : /\ i \in DOMAIN outbox'
                              /\ First(w, i)' <=> First(w, i)
                              /\ Known(outbox[i].key) => outbox'[i].key \in DOMAIN ledger'
      BY <2>1 DEF WorkerOK, RowsKept, LedgerGrows, Known, First, Proceed
    <2>4. UNCHANGED <<job, queue, sent, after, final>>
      BY DEF Proceed
    <2>5. sent[w] = "ok" => \A i \in queue[w] : First(w, i)' => outbox'[i].key \in DOMAIN ledger'
      BY <2>1, <2>3 DEF WorkerOK
    <2>6. QED BY <2>2, <2>3, <2>4, <2>5 DEF WorkerOK, Fits, Known
  <1>3. \A v \in Workers \ {w} : SameWorker(v)
    BY DEF Proceed, Goto, IInv, WorkerTypeOK, SameWorker
  <1>4. QED BY <1>1, <1>2, <1>3, OneWorker

\* Preparing a terminal report.
LEMMA FinishControl ==
    ASSUME IInv, RowsKept, LedgerGrows, CountersOK, NEW w \in Workers,
           NEW label \in {"cancelTasks", "complete"}, NEW status \in Terminal,
           Goto(w, label), Finish(w, status), sent[w] # "ok"
    PROVE  ControlKept
  <1>1. final'[w].status = status /\ pc'[w] = label
    BY DEF Goto, Finish, NoFinal, IInv, WorkerTypeOK
  <1>2. WorkerTypeOK'
    <2>1. [NoFinal EXCEPT !.status = status]
              \in [status : Terminal \cup {"none"}, accepted : Nat, invalid : Nat]
      BY DEF NoFinal
    <2>2. QED BY <2>1 DEF Goto, Finish, Labels, CountersOK, IInv, WorkerTypeOK
  <1>3. WorkerOK(w)'
    BY <1>1 DEF IInv, WorkerOK, Finish, RowsKept, JobLabels, DeliveryLabels, FinalLabels
  <1>4. \A v \in Workers \ {w} : SameWorker(v)
    BY DEF Goto, Finish, IInv, WorkerTypeOK, SameWorker
  <1>5. QED BY <1>2, <1>3, <1>4, OneWorker

\* Entering _deliver_outbox.
LEMMA DeliverControl ==
    ASSUME IInv, RowsKept, LedgerGrows, CountersOK, NEW w \in Workers,
           NEW label \in {"loop", "started", "end"}, Deliver(w, label), sent[w] # "ok",
           label = "started" => job[w].task \in Tasks
    PROVE  ControlKept
  <1>1. pc'[w] = "fetch" /\ after'[w] = label
    BY DEF Deliver, Goto, IInv, WorkerTypeOK
  <1>2. WorkerTypeOK'
    BY DEF Deliver, Goto, Labels, CountersOK, IInv, WorkerTypeOK
  <1>3. WorkerOK(w)'
    BY <1>1 DEF IInv, WorkerOK, Deliver, RowsKept, JobLabels, FinalLabels
  <1>4. \A v \in Workers \ {w} : SameWorker(v)
    BY DEF Deliver, Goto, IInv, WorkerTypeOK, SameWorker
  <1>5. QED BY <1>2, <1>3, <1>4, OneWorker

\* Moving on to the next row of a batch.
LEMMA NextRowControl ==
    ASSUME IInv, RowsKept, LedgerGrows, CountersOK, NEW w \in Workers, NEW i \in queue[w],
           NextRow(w, i), pc[w] \in {"mark", "settle"}
    PROVE  ControlKept
  <1>1. /\ pc'[w] \in {"fetch", "send"} /\ sent'[w] = "none" /\ queue'[w] = queue[w] \ {i}
        /\ after'[w] = after[w] /\ job'[w] = job[w]
    BY DEF NextRow, Goto, IInv, WorkerTypeOK
  <1>2. WorkerTypeOK'
    BY DEF NextRow, Goto, Labels, CountersOK, IInv, WorkerTypeOK
  <1>3. WorkerOK(w)'
    BY <1>1 DEF IInv, WorkerOK, RowsKept, JobLabels, DeliveryLabels, FinalLabels
  <1>4. \A v \in Workers \ {w} : SameWorker(v)
    BY DEF NextRow, Goto, IInv, WorkerTypeOK, SameWorker
  <1>5. QED BY <1>2, <1>3, <1>4, OneWorker

\* _deliver_outbox returns False.
LEMMA GaveUpControl ==
    ASSUME IInv, RowsKept, LedgerGrows, CountersOK, NEW w \in Workers, GaveUp(w)
    PROVE  ControlKept
  <1>1. CASE after[w] # "started"
    BY <1>1, LeaveControl DEF GaveUp
  <1>2. CASE after[w] = "started"
    <2>1. /\ Goto(w, "executed")
          /\ stop' = [stop EXCEPT ![w] = @ \cup {"lease"}]
          /\ queue' = [queue EXCEPT ![w] = {}]
          /\ sent' = [sent EXCEPT ![w] = "none"]
          /\ UNCHANGED <<tok, claim, job, after, final>>
      BY <1>2 DEF GaveUp
    <2>2. pc'[w] = "executed" /\ sent'[w] = "none" /\ queue'[w] = {}
      BY <2>1 DEF Goto, IInv, WorkerTypeOK
    <2>3. WorkerTypeOK'
      BY <2>1 DEF Goto, Labels, CountersOK, IInv, WorkerTypeOK
    <2>4. WorkerOK(w)'
      BY <2>2 DEF WorkerOK, JobLabels, DeliveryLabels, FinalLabels
    <2>5. \A v \in Workers \ {w} : SameWorker(v)
      BY <2>1 DEF Goto, IInv, WorkerTypeOK, SameWorker
    <2>6. QED BY <2>3, <2>4, <2>5, OneWorker
  <1>3. QED BY <1>1, <1>2

\* Most steps go on, prepare a report, or end the poll.
GoesOn(w) ==
    \/ Leave(w)
    \/ GaveUp(w)
    \/ \E label \in Labels : Proceed(w, label) /\ Fits(w, label)
    \/ \E label \in {"cancelTasks", "complete"}, status \in Terminal :
          Goto(w, label) /\ Finish(w, status) /\ sent[w] # "ok"

\* A step that leaves, gives up or goes to a label it fits.
LEMMA GoesOnControl ==
    ASSUME IInv, RowsKept, LedgerGrows, CountersOK, NEW w \in Workers, GoesOn(w)
    PROVE  ControlKept
  BY LeaveControl, GaveUpControl, ProceedControl, FinishControl DEF GoesOn

\* The verdict is a terminal status.
LEMMA VerdictTyped ==
    ASSUME NEW blemish \in BOOLEAN
    PROVE  Verdict(blemish) \in Terminal
  BY DEF Verdict, Terminal

\* Between deliveries a worker may stand at any label that needs no job and
\* no report; at a label of a job it may go to any other of them.
LEMMA FreeLabel ==
    ASSUME IInv, NEW w \in Workers, pc[w] \notin {"mark", "settle", "replayed"},
           NEW label \in Labels \ ({"replay", "replayed"} \cup JobLabels \cup DeliveryLabels
                                   \cup FinalLabels)
    PROVE  Fits(w, label)
  BY DEF IInv, WorkerOK, Fits, DeliveryLabels

\* The labels at which a worker holds a job.
LEMMA JobLabel ==
    ASSUME IInv, NEW w \in Workers, pc[w] \in JobLabels, NEW label \in JobLabels
    PROVE  Fits(w, label)
  BY DEF IInv, WorkerOK, Fits, Labels, JobLabels, DeliveryLabels, FinalLabels

\* The labels at which a worker holds a terminal report.
LEMMA FinalLabel ==
    ASSUME IInv, NEW w \in Workers, pc[w] \in FinalLabels, NEW label \in FinalLabels
    PROVE  Fits(w, label)
  BY DEF IInv, WorkerOK, Fits, Labels, JobLabels, DeliveryLabels, FinalLabels

\* A result of the CRM that a worker has not looked at yet.
LEMMA NothingInFlight ==
    ASSUME IInv, NEW w \in Workers, pc[w] \notin {"mark", "settle", "replayed"}
    PROVE  sent[w] # "ok"
  BY DEF IInv, WorkerOK

\* The decisions of the loop of _process_claim.
LEMMA LoopControl ==
    ASSUME IInv, NEW w \in Workers, RowsKept, LedgerGrows,
           Loop(w) \/ Check(w) \/ Drain(w) \/ Renew(w) \/ Recheck(w)
    PROVE  ControlKept
  <1>1. CASE Loop(w)
    <2>1. CountersOK
      <3>1. (Fault("network") \/ UNCHANGED faults) /\ UNCHANGED sourceRuns
        BY <1>1 DEF Loop
      <3>2. QED BY <3>1, FaultCounters
    <2>2. pc[w] = "loop"
      BY <1>1 DEF Loop, At
    <2>3. Fits(w, "check") /\ sent[w] # "ok"
      BY <2>2, FreeLabel, NothingInFlight DEF Labels, JobLabels, DeliveryLabels, FinalLabels
    <2>4. GoesOn(w)
      BY <1>1, <2>3 DEF Loop, GoesOn, Terminal, Labels
    <2>5. QED BY <2>1, <2>4, GoesOnControl
  <1>2. CASE Check(w)
    <2>1. CountersOK
      BY <1>2, QuietCounters DEF Check
    <2>2. pc[w] = "check"
      BY <1>2 DEF Check, At
    <2>3. Fits(w, "claimTask") /\ sent[w] # "ok"
      BY <2>2, FreeLabel, NothingInFlight DEF Labels, JobLabels, DeliveryLabels, FinalLabels
    <2>4. GoesOn(w)
      BY <1>2, <2>3, VerdictTyped, FALSE \in BOOLEAN DEF Check, GoesOn, Terminal, Labels
    <2>5. QED BY <2>1, <2>4, GoesOnControl
  <1>3. CASE Drain(w)
    <2>1. CountersOK
      BY <1>3, QuietCounters DEF Drain
    <2>2. pc[w] = "drain"
      BY <1>3 DEF Drain, At
    <2>3. Fits(w, "loop") /\ sent[w] # "ok"
      BY <2>2, FreeLabel, NothingInFlight DEF Labels, JobLabels, DeliveryLabels, FinalLabels
    <2>4. Verdict(BudgetWasLimited) \in Terminal
      BY VerdictTyped DEF BudgetWasLimited
    <2>5. GoesOn(w)
      BY <1>3, <2>3, <2>4 DEF Drain, GoesOn, Labels
    <2>6. QED BY <2>1, <2>5, GoesOnControl
  <1>4. CASE Renew(w)
    <2>1. CountersOK
      <3>1. (Fault("network") \/ UNCHANGED faults) /\ UNCHANGED sourceRuns
        BY <1>4 DEF Renew
      <3>2. QED BY <3>1, FaultCounters
    <2>2. pc[w] = "renew"
      BY <1>4 DEF Renew, At
    <2>3. Fits(w, "recheck") /\ sent[w] # "ok"
      BY <2>2, JobLabel, NothingInFlight DEF JobLabels
    <2>4. GoesOn(w)
      BY <1>4, <2>3 DEF Renew, GoesOn, Terminal, Labels
    <2>5. QED BY <2>1, <2>4, GoesOnControl
  <1>5. CASE Recheck(w)
    <2>1. CountersOK
      BY <1>5, QuietCounters DEF Recheck
    <2>2. pc[w] = "recheck"
      BY <1>5 DEF Recheck, At
    <2>3. Fits(w, "start") /\ sent[w] # "ok"
      BY <2>2, JobLabel, NothingInFlight DEF JobLabels
    <2>4. GoesOn(w)
      BY <1>5, <2>3 DEF Recheck, GoesOn, Terminal, Labels
    <2>5. QED BY <2>1, <2>4, GoesOnControl
  <1>6. QED BY <1>1, <1>2, <1>3, <1>4, <1>5

\* The steps of a task from its search to its announcement.
LEMMA JobControl ==
    ASSUME IInv, NEW w \in Workers, RowsKept, LedgerGrows,
           \/ Search(w) \/ Searched(w) \/ Save(w) \/ FinishJob(w) \/ Announce(w)
           \/ AnnounceFails(w) \/ Fail(w) \/ AnnounceFailure(w)
    PROVE  ControlKept
  <1>1. pc[w] \in JobLabels
    BY DEF Search, Searched, Save, FinishJob, Announce, AnnounceFails, Fail, AnnounceFailure,
           At, JobLabels
  <1>2. \A label \in JobLabels : Fits(w, label)
    BY <1>1, JobLabel
  <1>3. Fits(w, "executed")
    BY <1>1, FreeLabel DEF Labels, JobLabels, DeliveryLabels, FinalLabels
  <1>4. CountersOK
    <2>1. CASE Search(w)
      <3>1. sourceRuns \in [Tasks -> Nat] /\ faults \in Nat
        BY DEF IInv, WorkerTypeOK
      <3>2. sourceRuns' = [sourceRuns EXCEPT ![job[w].task] = sourceRuns[job[w].task] + 1]
            /\ faults' = faults
        BY <2>1 DEF Search
      <3>3. job[w].task \in Tasks
        BY <1>1, JobOfWorker
      <3>4. QED BY <3>1, <3>2, <3>3 DEF CountersOK
    <2>2. CASE AnnounceFails(w)
      BY <2>2, FaultCounters DEF AnnounceFails
    <2>3. CASE Quiet
      BY <2>3, QuietCounters
    <2>4. QED BY <2>1, <2>2, <2>3
              DEF Searched, Save, FinishJob, Announce, Fail, AnnounceFailure
  <1>5. \E label \in JobLabels \cup {"executed"} : Proceed(w, label)
    BY DEF Search, Searched, Save, FinishJob, Announce, AnnounceFails, Fail, AnnounceFailure,
           JobLabels
  <1>6. JobLabels \cup {"executed"} \subseteq Labels
    BY DEF JobLabels, Labels
  <1>7. GoesOn(w)
    BY <1>2, <1>3, <1>5, <1>6 DEF GoesOn
  <1>8. QED BY <1>4, <1>7, GoesOnControl

\* The steps between a verdict and the report.
LEMMA FinalControl ==
    ASSUME IInv, NEW w \in Workers, RowsKept, LedgerGrows, StopTasks(w) \/ AnnounceCancel(w)
    PROVE  ControlKept
  <1>1. pc[w] \in FinalLabels /\ CountersOK
    BY QuietCounters DEF StopTasks, AnnounceCancel, At, FinalLabels
  <1>2. \E label \in FinalLabels : Proceed(w, label)
    BY DEF StopTasks, AnnounceCancel, FinalLabels
  <1>3. FinalLabels \subseteq Labels
    BY DEF FinalLabels, Labels
  <1>4. GoesOn(w)
    BY <1>1, <1>2, <1>3, FinalLabel DEF GoesOn
  <1>5. QED BY <1>1, <1>4, GoesOnControl

\* The steps after which the poll ends or gives up.
LEMMA EndControl ==
    ASSUME IInv, NEW w \in Workers, RowsKept, LedgerGrows,
           ClaimLost(w) \/ NothingToClaim(w) \/ Crash(w) \/ LeaseLost(w) \/ Undelivered(w)
    PROVE  ControlKept
  <1>1. CountersOK
    BY QuietCounters, FaultCounters
       DEF ClaimLost, NothingToClaim, Crash, LeaseLost, Undelivered
  <1>2. GoesOn(w)
    BY DEF ClaimLost, NothingToClaim, Crash, LeaseLost, Undelivered, GoesOn
  <1>3. QED BY <1>1, <1>2, GoesOnControl

\* The start of a poll takes up the queued terminal rows, if any.
LEMMA PollControl ==
    ASSUME IInv, NEW w \in Workers, RowsKept, LedgerGrows, Poll(w)
    PROVE  ControlKept
  <1>1. pc[w] = "idle" /\ sent[w] # "ok"
    BY NothingInFlight DEF Poll, At
  <1>2. \/ /\ pc'[w] = "replay" /\ queue'[w] = TerminalReplays
        \/ /\ pc'[w] = "claim" /\ queue'[w] = queue[w]
    BY DEF Poll, Goto, IInv, WorkerTypeOK
  <1>3. WorkerTypeOK'
    <2>1. TerminalReplays \subseteq Nat /\ runToken \in Nat
      BY RowsOfStore, RowsAreArray
         DEF IInv, StoreOK, StoreTypeOK, RowsOK, TerminalReplays, MessageIds
    <2>2. CountersOK
      BY QuietCounters DEF Poll
    <2> DEFINE rows == TerminalReplays
    <2> HIDE DEF rows
    <2>3. CASE rows # {}
      <3>1. /\ pc' = [pc EXCEPT ![w] = "replay"] /\ queue' = [queue EXCEPT ![w] = rows]
            /\ tok' = [tok EXCEPT ![w] = runToken]
            /\ UNCHANGED <<claim, job, sent, after, stop, final>>
        BY <2>3 DEF Poll, Goto, rows
      <3>2. rows \in SUBSET Nat
        BY <2>1 DEF rows
      <3>3. QED BY <3>1, <3>2, <2>1, <2>2 DEF Labels, CountersOK, IInv, WorkerTypeOK
    <2>4. CASE rows = {}
      BY <2>4, <2>2 DEF Poll, Goto, Labels, CountersOK, IInv, WorkerTypeOK, rows
    <2>5. QED BY <2>3, <2>4
  <1>4. WorkerOK(w)'
    <2>1. TerminalReplays \subseteq DOMAIN outbox
            /\ \A i \in TerminalReplays : outbox[i].kind = "complete"
      BY DEF TerminalReplays, MessageIds
    <2>2. UNCHANGED <<sent, outbox>>
      BY DEF Poll, storeVars
    <2>3. queue[w] \subseteq DOMAIN outbox
      BY DEF IInv, WorkerOK
    <2>4. QED BY <1>1, <1>2, <2>1, <2>2, <2>3 DEF WorkerOK, JobLabels, DeliveryLabels, FinalLabels
  <1>5. \A v \in Workers \ {w} : SameWorker(v)
    BY DEF Poll, Goto, IInv, WorkerTypeOK, SameWorker
  <1>6. QED BY <1>3, <1>4, <1>5, OneWorker

\* A granted claim gives the worker its token and the snapshot.
LEMMA ClaimRunControl ==
    ASSUME IInv, NEW w \in Workers, RowsKept, LedgerGrows, ClaimRun(w)
    PROVE  ControlKept
  <1>1. sent[w] # "ok" /\ pc'[w] = "ensure"
    BY NothingInFlight DEF ClaimRun, At, Goto, IInv, WorkerTypeOK
  <1>2. WorkerTypeOK'
    <2>1. [tasks |-> crmTask, found |-> Cardinality(crmCands)]
              \in [tasks : [Tasks -> RemoteTask], found : Nat]
      <3>1. IsFiniteSet(crmCands)
        BY CrmAssumption, FS_Subset DEF IInv, CrmOK, CrmTypeOK
      <3>2. QED BY <3>1, FS_CardinalityType DEF IInv, CrmOK, CrmTypeOK
    <2>2. crmIssued + 1 \in Nat
      BY DEF IInv, CrmOK, CrmTypeOK
    <2>3. QED BY <2>1, <2>2 DEF ClaimRun, Goto, Labels, IInv, WorkerTypeOK
  <1>3. WorkerOK(w)'
    BY <1>1 DEF ClaimRun, storeVars, IInv, WorkerOK, JobLabels, DeliveryLabels, FinalLabels
  <1>4. \A v \in Workers \ {w} : SameWorker(v)
    BY DEF ClaimRun, Goto, IInv, WorkerTypeOK, SameWorker
  <1>5. QED BY <1>2, <1>3, <1>4, OneWorker

\* After ensure_run the first delivery begins.
LEMMA EnsureControl ==
    ASSUME IInv, NEW w \in Workers, RowsKept, LedgerGrows, Ensure(w)
    PROVE  ControlKept
  <1>1. sent[w] # "ok" /\ pc'[w] = "fetch" /\ after'[w] = "loop"
    BY NothingInFlight DEF Ensure, At, Goto, IInv, WorkerTypeOK
  <1>2. WorkerTypeOK'
    <2>1. NoClaim \in [tasks : [Tasks -> RemoteTask], found : Nat]
      BY DEF NoClaim, RemoteTask, TaskStatus
    <2>2. CountersOK
      BY QuietCounters DEF Ensure
    <2>3. QED BY <2>1, <2>2 DEF Ensure, Goto, Labels, CountersOK, IInv, WorkerTypeOK
  <1>3. WorkerOK(w)'
    BY <1>1 DEF Ensure, RowsKept, IInv, WorkerOK, JobLabels, FinalLabels
  <1>4. \A v \in Workers \ {w} : SameWorker(v)
    BY DEF Ensure, Goto, IInv, WorkerTypeOK, SameWorker
  <1>5. QED BY <1>2, <1>3, <1>4, OneWorker

\* After a delivery the worker stands one step further, with its outcome; an
\* outcome "ok" means that the key of the row it sent is in the ledger.
Answered(w, next, outcome) ==
    /\ Goto(w, next)
    /\ sent' = [sent EXCEPT ![w] = outcome]
    /\ UNCHANGED <<tok, claim, job, queue, after, stop, final, outbox>>

\* A worker whose message was answered holds the first row of its batch.
LEMMA AnsweredControl ==
    ASSUME IInv, NEW w \in Workers, RowsKept, LedgerGrows, CountersOK,
           NEW next, NEW outcome \in {"ok", "lease", "retry", "perm", "conflict"},
           Answered(w, next, outcome),
           \/ pc[w] = "replay" /\ next = "replayed"
           \/ pc[w] = "send" /\ next = "mark",
           outcome = "ok" => \A i \in queue[w] : First(w, i) => outbox[i].key \in DOMAIN ledger'
    PROVE  ControlKept
  <1>1. pc'[w] = next /\ sent'[w] = outcome
    BY DEF Answered, Goto, IInv, WorkerTypeOK
  <1>2. WorkerTypeOK'
    BY DEF Answered, Goto, Labels, CountersOK, IInv, WorkerTypeOK
  <1>3. WorkerOK(w)'
    <2>1. \A i \in queue[w] : First(w, i)' <=> First(w, i)
      BY DEF First, Answered
    <2>2. outcome = "ok" => \A i \in queue[w] : First(w, i)' => Known(outbox[i].key)'
      BY <2>1 DEF Known, Answered
    <2>3. QED BY <1>1, <2>2
              DEF Answered, IInv, WorkerOK, JobLabels, DeliveryLabels, FinalLabels
  <1>4. \A v \in Workers \ {w} : SameWorker(v)
    BY DEF Answered, Goto, IInv, WorkerTypeOK, SameWorker
  <1>5. QED BY <1>2, <1>3, <1>4, OneWorker

\* A commit leaves its key in the ledger.
LEMMA CommitKnown ==
    ASSUME NEW kind, NEW key, NEW payload, Commit(kind, key, payload)
    PROVE  key \in DOMAIN ledger'
  <1>1. CASE Known(key)
    BY <1>1 DEF Commit, AppendEvents, UpsertCandidates, CompleteRun, Known
  <1>2. CASE ~Known(key)
    <2>1. \E accepted, found : Remember(key, payload, accepted, found)
      BY <1>2 DEF Commit, AppendEvents, UpsertCandidates, CompleteRun
    <2>2. QED BY <2>1 DEF Remember
  <1>3. QED BY <1>1, <1>2

\* A delivery answered ok leaves its key in the ledger.
LEMMA SendControl ==
    ASSUME IInv, NEW w \in Workers, RowsKept, LedgerGrows, Replay(w) \/ Send(w)
    PROVE  ControlKept
  <1>1. PICK next : /\ Sending(w, next)
                    /\ \/ pc[w] = "replay" /\ next = "replayed"
                       \/ pc[w] = "send" /\ next = "mark"
    BY DEF Replay, Send, At
  <1>2. PICK i \in queue[w] :
           /\ First(w, i)
           /\ LET m       == outbox[i]
                  outcome == Outcome(tok[w], m.kind, m.key, m.payload)
              IN  \/ /\ outcome = "ok"
                     /\ Commit(m.kind, m.key, m.payload)
                     /\ sent' = [sent EXCEPT ![w] = "ok"]
                     /\ UNCHANGED faults
                  \/ /\ outcome # "ok"
                     /\ sent' = [sent EXCEPT ![w] = outcome]
                     /\ UNCHANGED <<crmVars, faults>>
                  \/ /\ outcome = "ok"
                     /\ Commit(m.kind, m.key, m.payload)
                     /\ sent' = [sent EXCEPT ![w] = "retry"]
                     /\ Fault("network")
                  \/ /\ sent' = [sent EXCEPT ![w] = "retry"]
                     /\ UNCHANGED crmVars
                     /\ Fault("network")
    BY <1>1 DEF Sending
  <1> DEFINE outcome == Outcome(tok[w], outbox[i].kind, outbox[i].key, outbox[i].payload)
  <1>3. outcome \in {"ok", "lease", "perm", "conflict"}
    BY DEF Outcome
  <1>4. CountersOK
    BY <1>1, <1>2, FaultCounters DEF Sending
  <1>5. \A j \in queue[w] : First(w, j) => j = i
    <2>1. queue[w] \subseteq Nat
      BY DEF IInv, WorkerTypeOK
    <2>2. QED BY <1>2, <2>1 DEF First
  <1>6. PICK result \in {"ok", "lease", "retry", "perm", "conflict"} :
           /\ sent' = [sent EXCEPT ![w] = result]
           /\ result = "ok" => outbox[i].key \in DOMAIN ledger'
    <2> HIDE DEF outcome
    <2>1. \/ outcome = "ok" /\ Commit(outbox[i].kind, outbox[i].key, outbox[i].payload)
               /\ sent' = [sent EXCEPT ![w] = "ok"]
          \/ outcome # "ok" /\ sent' = [sent EXCEPT ![w] = outcome]
          \/ sent' = [sent EXCEPT ![w] = "retry"]
      BY <1>2 DEF outcome
    <2>2. QED BY <1>3, <2>1, CommitKnown
  <1>7. Answered(w, next, result)
    BY <1>1, <1>6 DEF Answered, Sending, storeVars
  <1>8. QED BY <1>1, <1>4, <1>5, <1>6, <1>7, AnsweredControl

\* A refusal is no success.
LEMMA RefuseControl ==
    ASSUME IInv, NEW w \in Workers, RowsKept, LedgerGrows, Refuse(w)
    PROVE  ControlKept
  <1>1. CountersOK
    BY FaultCounters DEF Refuse
  <1>2. Answered(w, IF At(w, "send") THEN "mark" ELSE "replayed", "perm")
    BY DEF Refuse, Answered, storeVars
  <1>3. CASE At(w, "send")
    BY <1>1, <1>2, <1>3, AnsweredControl DEF At
  <1>4. CASE ~At(w, "send")
    BY <1>1, <1>2, <1>4, AnsweredControl DEF At, Refuse
  <1>5. QED BY <1>3, <1>4

\* After one replay comes the next, or the claim.
LEMMA ReplayedControl ==
    ASSUME IInv, NEW w \in Workers, RowsKept, LedgerGrows, Replayed(w)
    PROVE  ControlKept
  <1>1. PICK i \in queue[w] :
           /\ queue' = [queue EXCEPT ![w] = @ \ {i}]
           /\ Goto(w, IF queue[w] = {i} THEN "claim" ELSE "replay")
           /\ tok' = [tok EXCEPT ![w] = IF queue[w] = {i} THEN 0 ELSE @]
    BY DEF Replayed
  <1>2. /\ pc'[w] \in {"claim", "replay"} /\ queue'[w] = queue[w] \ {i} /\ sent'[w] = "none"
        /\ pc[w] = "replayed"
    BY <1>1 DEF Replayed, At, Goto, IInv, WorkerTypeOK
  <1>3. WorkerTypeOK'
    <2>1. CountersOK
      BY QuietCounters DEF Replayed
    <2>2. sent' = [sent EXCEPT ![w] = "none"] /\ UNCHANGED <<claim, job, after, stop, final>>
      BY DEF Replayed
    <2>3. QED BY <1>1, <2>1, <2>2 DEF Goto, Labels, CountersOK, IInv, WorkerTypeOK
  <1>4. WorkerOK(w)'
    <2>1. /\ queue[w] \subseteq DOMAIN outbox
          /\ \A j \in queue[w] : outbox[j].kind = "complete"
      BY <1>2 DEF IInv, WorkerOK
    <2>2. QED BY <1>2, <2>1 DEF RowsKept, WorkerOK, JobLabels, DeliveryLabels, FinalLabels
  <1>5. \A v \in Workers \ {w} : SameWorker(v)
    BY <1>1 DEF Replayed, Goto, IInv, WorkerTypeOK, SameWorker
  <1>6. QED BY <1>3, <1>4, <1>5, OneWorker

\* get_outbox starts a batch, or _deliver_outbox returns.
LEMMA FetchControl ==
    ASSUME IInv, NEW w \in Workers, RowsKept, LedgerGrows, Fetch(w)
    PROVE  ControlKept
  <1>1. CountersOK
    BY QuietCounters DEF Fetch
  <1>2. pc[w] = "fetch" /\ sent[w] # "ok"
    BY NothingInFlight DEF Fetch, At
  <1>3. CASE GaveUp(w)
    BY <1>1, <1>3, GaveUpControl
  <1>4. CASE Returned(w)
    <2>1. CASE Leave(w)
      BY <1>1, <2>1, LeaveControl
    <2>2. CASE ~Leave(w)
      <3>1. PICK label \in {"executed", "search", "loop"} :
               Proceed(w, label) /\ (label = "search" => after[w] = "started")
        BY <1>4, <2>2 DEF Returned, Proceed
      <3>2. Fits(w, label)
        BY <1>2, <3>1 DEF IInv, WorkerOK, Fits, Labels, JobLabels, DeliveryLabels, FinalLabels
      <3>3. QED BY <1>1, <3>1, <3>2, ProceedControl
    <2>3. QED BY <2>1, <2>2
  <1>5. CASE /\ queue' = [queue EXCEPT ![w] = Deliverable]
             /\ Goto(w, "send")
             /\ UNCHANGED <<tok, claim, job, sent, after, stop, final>>
    <2> DEFINE rows == Deliverable
    <2>1. rows \subseteq DOMAIN outbox /\ rows \subseteq Nat
      BY RowsOfStore, RowsAreArray DEF IInv, RowsOK, Deliverable, MessageIds
    <2>2. queue' = [queue EXCEPT ![w] = rows]
      BY <1>5
    <2> HIDE DEF rows
    <2>3. WorkerTypeOK'
      <3>1. rows \in SUBSET Nat
        BY <2>1
      <3>2. QED BY <1>1, <1>5, <2>2, <3>1 DEF Goto, Labels, CountersOK, IInv, WorkerTypeOK
    <2>4. pc'[w] = "send" /\ queue'[w] = rows /\ sent'[w] # "ok"
      BY <1>2, <1>5, <2>2 DEF Goto, IInv, WorkerTypeOK
    <2>5. WorkerOK(w)'
      BY <1>2, <1>5, <2>1, <2>4
         DEF RowsKept, IInv, WorkerOK, JobLabels, DeliveryLabels, FinalLabels
    <2>6. \A v \in Workers \ {w} : SameWorker(v)
      BY <1>5, <2>2 DEF Goto, IInv, WorkerTypeOK, SameWorker
    <2>7. QED BY <2>3, <2>5, <2>6, OneWorker
  <1>6. QED BY <1>3, <1>4, <1>5 DEF Fetch

\* What the worker does with the outcome of a delivery.
LEMMA OutcomeControl ==
    ASSUME IInv, NEW w \in Workers, RowsKept, LedgerGrows,
           Delivered(w) \/ Settle(w) \/ Isolate(w)
    PROVE  ControlKept
  <1>1. pc[w] \in {"mark", "settle"} /\ CountersOK
    BY QuietCounters DEF Delivered, Settle, Isolate, At
  <1>2. \/ \E i \in queue[w] : NextRow(w, i)
        \/ Proceed(w, "settle") /\ sent[w] = "ok" /\ pc[w] = "mark"
    <2>1. CASE Delivered(w)
      <3>1. PICK i \in queue[w] :
               CASE outbox[i].kind = "events" -> MarkDelivered(i) /\ NextRow(w, i)
                 [] outbox[i].kind = "complete" -> FinalizeTerminal(i) /\ NextRow(w, i)
                 [] OTHER -> RecordAck(i, ledger[outbox[i].key]) /\ Proceed(w, "settle")
        BY <2>1 DEF Delivered
      <3>2. NextRow(w, i) \/ Proceed(w, "settle")
        BY <3>1
      <3>3. QED BY <2>1, <3>2 DEF Delivered, At
    <2>2. CASE Settle(w)
      BY <2>2 DEF Settle
    <2>3. CASE Isolate(w)
      BY <2>3 DEF Isolate
    <2>4. QED BY <2>1, <2>2, <2>3
  <1>3. CASE \E i \in queue[w] : NextRow(w, i)
    BY <1>1, <1>3, NextRowControl
  <1>4. CASE Proceed(w, "settle") /\ sent[w] = "ok" /\ pc[w] = "mark"
    <2>1. Fits(w, "settle")
      BY <1>4 DEF IInv, WorkerOK, Fits, Labels, JobLabels, DeliveryLabels, FinalLabels
    <2>2. QED BY <1>1, <1>4, <2>1, ProceedControl
  <1>5. QED BY <1>2, <1>3, <1>4

\* A claimed task becomes the job of the worker.
LEMMA TakeTaskControl ==
    ASSUME IInv, NEW w \in Workers, RowsKept, LedgerGrows, TakeTask(w)
    PROVE  ControlKept
  <1>1. CountersOK /\ pc[w] = "claimTask" /\ sent[w] # "ok"
    BY QuietCounters, NothingInFlight DEF TakeTask, At
  <1>2. CASE Proceed(w, "drain")
    <2>1. Fits(w, "drain")
      BY <1>1, FreeLabel DEF Labels, JobLabels, DeliveryLabels, FinalLabels
    <2>2. QED BY <1>1, <1>2, <2>1, ProceedControl
  <1>3. CASE ~Proceed(w, "drain")
    <2>1. PICK t \in Claimed :
             job' = [job EXCEPT ![w] = [task |-> t, attempt |-> taskRow[t].attempts + 1]]
      BY <1>3 DEF TakeTask
    <2>2. Goto(w, "renew") /\ UNCHANGED <<tok, claim, queue, sent, after, stop, final>>
      BY <1>3 DEF TakeTask
    <2>3. t \in Tasks /\ taskRow[t].attempts + 1 \in Nat
      BY TaskTyped DEF Claimed
    <2>4. WorkerTypeOK'
      <3>1. [task |-> t, attempt |-> taskRow[t].attempts + 1] \in [task : TaskRef, attempt : Nat]
        BY <2>3 DEF TaskRef
      <3>2. QED BY <1>1, <2>1, <2>2, <3>1 DEF Goto, Labels, CountersOK, IInv, WorkerTypeOK
    <2>5. pc'[w] = "renew" /\ job'[w].task \in Tasks
      BY <2>1, <2>2, <2>3 DEF Goto, IInv, WorkerTypeOK
    <2>6. WorkerOK(w)'
      BY <1>1, <2>2, <2>5 DEF RowsKept, IInv, WorkerOK, DeliveryLabels, FinalLabels
    <2>7. \A v \in Workers \ {w} : SameWorker(v)
      BY <2>1, <2>2 DEF Goto, IInv, WorkerTypeOK, SameWorker
    <2>8. QED BY <2>4, <2>6, <2>7, OneWorker
  <1>4. QED BY <1>2, <1>3

\* The worker delivers the announcement of its attempt.
LEMMA StartControl ==
    ASSUME IInv, NEW w \in Workers, RowsKept, LedgerGrows, Start(w) \/ Conclude(w)
    PROVE  ControlKept
  <1>1. CountersOK /\ sent[w] # "ok"
    BY QuietCounters, NothingInFlight DEF Start, Conclude, At
  <1>2. CASE Start(w)
    <2>1. job[w].task \in Tasks
      BY <1>2, JobOfWorker DEF Start, At, JobLabels
    <2>2. QED BY <1>1, <1>2, <2>1, DeliverControl DEF Start
  <1>3. CASE Conclude(w)
    BY <1>1, <1>3, DeliverControl DEF Conclude
  <1>4. QED BY <1>2, <1>3

\* Back in the loop after a task.
LEMMA ExecutedControl ==
    ASSUME IInv, NEW w \in Workers, RowsKept, LedgerGrows, Executed(w)
    PROVE  ControlKept
  <1>1. CountersOK /\ pc[w] = "executed" /\ sent[w] # "ok"
    BY QuietCounters, NothingInFlight DEF Executed, At
  <1>2. NoJob \in [task : TaskRef, attempt : Nat]
    BY DEF NoJob, TaskRef, NoTask
  <1>3. CASE "cancel" \in stop[w]
    <2>1. /\ Goto(w, "cancelTasks")
          /\ final' = [final EXCEPT ![w] = [NoFinal EXCEPT !.status = "cancelled"]]
          /\ UNCHANGED <<tok, claim, queue, sent, after, stop>>
          /\ job' = [job EXCEPT ![w] = NoJob]
      BY <1>3 DEF Executed
    <2>2. [NoFinal EXCEPT !.status = "cancelled"]
              \in [status : Terminal \cup {"none"}, accepted : Nat, invalid : Nat]
            /\ [NoFinal EXCEPT !.status = "cancelled"].status = "cancelled"
      BY DEF NoFinal, Terminal
    <2>3. WorkerTypeOK'
      BY <1>1, <1>2, <2>1, <2>2 DEF Goto, Labels, CountersOK, IInv, WorkerTypeOK
    <2>4. pc'[w] = "cancelTasks" /\ final'[w].status \in Terminal
      BY <2>1, <2>2 DEF Goto, Terminal, IInv, WorkerTypeOK
    <2>5. WorkerOK(w)'
      BY <1>1, <2>1, <2>4 DEF RowsKept, IInv, WorkerOK, JobLabels, DeliveryLabels
    <2>6. \A v \in Workers \ {w} : SameWorker(v)
      BY <2>1 DEF Goto, IInv, WorkerTypeOK, SameWorker
    <2>7. QED BY <2>3, <2>5, <2>6, OneWorker
  <1>4. CASE "cancel" \notin stop[w] /\ "lease" \in stop[w]
    BY <1>1, <1>4, LeaveControl DEF Executed
  <1>5. CASE "cancel" \notin stop[w] /\ "lease" \notin stop[w]
    <2>1. /\ Goto(w, "fetch")
          /\ job' = [job EXCEPT ![w] = NoJob]
          /\ after' = [after EXCEPT ![w] = "loop"]
          /\ stop' = [stop EXCEPT ![w] = @ \ {"task"}]
          /\ UNCHANGED <<tok, claim, queue, sent, final>>
      BY <1>5 DEF Executed
    <2>2. WorkerTypeOK'
      BY <1>1, <1>2, <2>1 DEF Goto, Labels, CountersOK, IInv, WorkerTypeOK
    <2>3. pc'[w] = "fetch" /\ after'[w] = "loop"
      BY <2>1 DEF Goto, IInv, WorkerTypeOK
    <2>4. WorkerOK(w)'
      BY <1>1, <2>1, <2>3 DEF RowsKept, IInv, WorkerOK, JobLabels, FinalLabels
    <2>5. \A v \in Workers \ {w} : SameWorker(v)
      BY <2>1 DEF Goto, IInv, WorkerTypeOK, SameWorker
    <2>6. QED BY <2>2, <2>4, <2>5, OneWorker
  <1>6. QED BY <1>3, <1>4, <1>5

\* The report copies the statistics, which are numbers.
LEMMA ReportControl ==
    ASSUME IInv, NEW w \in Workers, RowsKept, LedgerGrows, Report(w)
    PROVE  ControlKept
  <1>1. CountersOK /\ pc[w] = "complete" /\ sent[w] # "ok"
    BY QuietCounters, NothingInFlight DEF Report, At
  <1>2. final[w].status \in Terminal
    BY <1>1 DEF IInv, WorkerOK, FinalLabels
  <1> DEFINE report == [final[w] EXCEPT !.accepted = runAccepted, !.invalid = runInvalid]
  <1>3. report \in [status : Terminal \cup {"none"}, accepted : Nat, invalid : Nat]
          /\ report.status = final[w].status
    BY DEF IInv, WorkerTypeOK, StoreOK, StoreTypeOK
  <1>4. final' = [final EXCEPT ![w] = report]
    BY DEF Report
  <1> HIDE DEF report
  <1>5. WorkerTypeOK'
    <2>1. /\ pc' = [pc EXCEPT ![w] = "queueTerminal"]
          /\ UNCHANGED <<tok, claim, job, queue, sent, after, stop>>
      BY DEF Report, Goto
    <2>2. final' \in [Workers -> [status : Terminal \cup {"none"}, accepted : Nat, invalid : Nat]]
      BY <1>3, <1>4 DEF IInv, WorkerTypeOK
    <2>3. pc' \in [Workers -> Labels]
      BY <2>1 DEF Labels, IInv, WorkerTypeOK
    <2>4. QED BY <1>1, <2>1, <2>2, <2>3 DEF CountersOK, IInv, WorkerTypeOK
  <1>6. pc'[w] = "queueTerminal" /\ final'[w].status \in Terminal
    BY <1>2, <1>3, <1>4 DEF Report, Goto, IInv, WorkerTypeOK
  <1>7. WorkerOK(w)'
    BY <1>1, <1>6 DEF Report, RowsKept, IInv, WorkerOK, JobLabels, DeliveryLabels
  <1>8. \A v \in Workers \ {w} : SameWorker(v)
    BY <1>4 DEF Report, Goto, IInv, WorkerTypeOK, SameWorker
  <1>9. QED BY <1>5, <1>7, <1>8, OneWorker

\* A heartbeat only adds a stop event.
LEMMA HeartbeatControl ==
    ASSUME IInv, NEW w \in Workers, RowsKept, LedgerGrows, RunHeartbeat(w) \/ TaskHeartbeat(w)
    PROVE  ControlKept
  <1>1. CountersOK
    <2>1. CASE RunHeartbeat(w)
      <3>1. (Fault("network") \/ UNCHANGED faults) /\ UNCHANGED sourceRuns
        BY <2>1 DEF RunHeartbeat
      <3>2. QED BY <3>1, FaultCounters
    <2>2. CASE TaskHeartbeat(w)
      BY <2>2, QuietCounters DEF TaskHeartbeat
    <2>3. QED BY <2>1, <2>2
  <1>2. UNCHANGED <<pc, tok, claim, job, queue, sent, after, final>>
    BY DEF RunHeartbeat, TaskHeartbeat
  <1>3. stop' \in [Workers -> SUBSET {"lease", "cancel", "task"}]
    <2>1. PICK event \in {"lease", "cancel", "task"} :
             stop' = [stop EXCEPT ![w] = stop[w] \cup {event}]
      BY DEF RunHeartbeat, TaskHeartbeat
    <2>2. QED BY <2>1 DEF IInv, WorkerTypeOK
  <1>4. WorkerTypeOK'
    BY <1>1, <1>2, <1>3 DEF CountersOK, IInv, WorkerTypeOK
  <1>5. \A v \in Workers : SameWorker(v)
    BY <1>2 DEF SameWorker
  <1>6. QED BY <1>4, <1>5, SameWorkerOK DEF ControlKept

-----------------------------------------------------------------------------
(* The theorems.                                                           *)

\* The daemon starts with nothing delivered, nothing queued and nobody busy.
LEMMA InitInv ==
    ASSUME Init
    PROVE  IInv
  <1>1. CrmOK
    <2>1. DOMAIN ledger = {}
      BY DEF Init, CrmInit
    <2>2. crmTask \in [Tasks -> RemoteTask]
      BY DEF Init, CrmInit, RemoteTask, TaskStatus
    <2>3. QED BY <2>1, <2>2 DEF Init, CrmInit, CrmOK, CrmTypeOK, EndedHasNoLease,
                               TerminalCommitted
  <1>2. StoreOK
    <2>1. outbox \in Seq(RowType) /\ DOMAIN outbox = {} /\ DOMAIN ledger = {}
      BY DEF Init, StoreInit, CrmInit
    <2>2. taskRow \in [Tasks -> LocalTask]
      BY DEF Init, StoreInit, LocalTask, TaskStatus
    <2>3. runStatus = "none"
      BY DEF Init, StoreInit
    <2>4. QED BY <2>1, <2>2, <2>3 DEF Init, StoreInit, StoreOK, StoreTypeOK, KeysUnique,
                 LedgerFromOutbox, DeliveredIsCommitted, MessageIds, LocalOutcomeIsRemote,
                 Terminal
  <1>3. WorkerTypeOK
    <2>1. NoClaim \in [tasks : [Tasks -> RemoteTask], found : Nat]
      BY DEF NoClaim, RemoteTask, TaskStatus
    <2>2. NoJob \in [task : TaskRef, attempt : Nat]
      BY DEF NoJob, TaskRef, NoTask
    <2>3. NoFinal \in [status : Terminal \cup {"none"}, accepted : Nat, invalid : Nat]
      BY DEF NoFinal
    <2>4. QED BY <2>1, <2>2, <2>3 DEF Init, WorkerTypeOK, Labels
  <1>4. ASSUME NEW w \in Workers
        PROVE  WorkerOK(w)
    BY DEF Init, WorkerOK, JobLabels, DeliveryLabels, FinalLabels
  <1>5. QED BY <1>1, <1>2, <1>3, <1>4 DEF IInv

\* A step of a worker, whether or not something goes wrong in it.
LEMMA WorkerStep ==
    ASSUME IInv, NEW w \in Workers,
           \/ Step(w) \/ ClaimLost(w) \/ Refuse(w) \/ AnnounceFails(w) \/ RunHeartbeat(w)
           \/ TaskHeartbeat(w) \/ Crash(w)
    PROVE  IInv'
  <1>1. CASE Idle(w)
    <2>1. DataKept
      BY <1>1, IdleData
    <2>2. ControlKept
      BY <1>1, <2>1, PollControl, EndControl, FetchControl, LoopControl, JobControl,
         ExecutedControl, ReportControl, RefuseControl, HeartbeatControl DEF Idle, DataKept
    <2>3. QED BY <2>1, <2>2 DEF IInv, DataKept, ControlKept
  <1>2. CASE ClaimRun(w) \/ ClaimLost(w)
    <2>1. DataKept
      BY <1>2, ClaimData DEF ClaimRun, ClaimLost
    <2>2. ControlKept
      BY <1>2, <2>1, ClaimRunControl, EndControl DEF DataKept
    <2>3. QED BY <2>1, <2>2 DEF IInv, DataKept, ControlKept
  <1>3. CASE Replay(w) \/ Send(w)
    <2>1. DataKept
      BY <1>3, SendingData DEF Replay, Send
    <2>2. ControlKept
      BY <1>3, <2>1, SendControl DEF DataKept
    <2>3. QED BY <2>1, <2>2 DEF IInv, DataKept, ControlKept
  <1>4. CASE Ensure(w) \/ Replayed(w) \/ Delivered(w) \/ Settle(w) \/ Isolate(w) \/ Undelivered(w)
    <2>1. DataKept
      BY <1>4, EnsureData, ReplayedData, DeliveredData, SettleData, IsolateData,
         UndeliveredData
    <2>2. ControlKept
      BY <1>4, <2>1, EnsureControl, ReplayedControl, OutcomeControl, EndControl DEF DataKept
    <2>3. QED BY <2>1, <2>2 DEF IInv, DataKept, ControlKept
  <1>5. CASE TakeTask(w) \/ Start(w) \/ Save(w) \/ FinishJob(w) \/ Announce(w) \/ Fail(w)
               \/ AnnounceFailure(w)
    <2>1. DataKept
      BY <1>5, TakeTaskData, StartData, SaveData, FinishJobData, FailData
    <2>2. ControlKept
      BY <1>5, <2>1, TakeTaskControl, StartControl, JobControl DEF DataKept
    <2>3. QED BY <2>1, <2>2 DEF IInv, DataKept, ControlKept
  <1>6. CASE StopTasks(w) \/ AnnounceCancel(w) \/ Conclude(w)
    <2>1. DataKept
      BY <1>6, StopTasksData, AnnounceCancelData, ConcludeData
    <2>2. ControlKept
      BY <1>6, <2>1, FinalControl, StartControl DEF DataKept
    <2>3. QED BY <2>1, <2>2 DEF IInv, DataKept, ControlKept
  <1>7. QED BY <1>1, <1>2, <1>3, <1>4, <1>5, <1>6 DEF Step, Idle

\* A step of the environment: time passes, the user cancels.
LEMMA EnvironmentStep ==
    ASSUME IInv,
           \/ RunLeaseExpires
           \/ \E t \in Tasks : TaskLeaseEnds(t)
           \/ \E i \in MessageIds : Retry(i)
           \/ Cancel
    PROVE  IInv'
  <1>1. DataKept
    BY RunLeaseExpiresData, TaskLeaseEndsData, RetryData, CancelData
  <1>2. UNCHANGED workerVars /\ sourceRuns' = sourceRuns
    BY DEF RunLeaseExpires, TaskLeaseEnds, Retry, Cancel
  <1>3. faults' \in Nat
    <2>1. (\E kind : Fault(kind)) \/ UNCHANGED faults
      BY DEF RunLeaseExpires, TaskLeaseEnds, Retry, Cancel
    <2>2. QED BY <2>1, FaultCounters, <1>2 DEF CountersOK
  <1>4. ControlKept
    BY <1>1, <1>2, <1>3, NoWorkerMoves DEF DataKept
  <1>5. QED BY <1>1, <1>4 DEF IInv, DataKept, ControlKept

\* The invariant is inductive.
LEMMA NextInv ==
    ASSUME IInv, [Next]_vars
    PROVE  IInv'
  <1>1. CASE Next
    BY <1>1, WorkerStep, EnvironmentStep DEF Next
  <1>2. CASE UNCHANGED vars
    <2>1. DataKept
      BY <1>2, AnsweredFromLedger DEF vars
    <2>2. UNCHANGED workerVars /\ sourceRuns' = sourceRuns /\ faults' \in Nat
      BY <1>2 DEF vars, IInv, WorkerTypeOK
    <2>3. ControlKept
      BY <2>1, <2>2, NoWorkerMoves DEF DataKept
    <2>4. QED BY <2>1, <2>3 DEF IInv, DataKept, ControlKept
  <1>3. QED BY <1>1, <1>2

\* In every run of the daemon the inductive invariant holds.
THEOREM Invariance == Spec => []IInv
  <1>1. Init => IInv
    BY InitInv
  <1>2. IInv /\ [Next]_vars => IInv'
    BY NextInv
  <1>3. QED BY <1>1, <1>2, PTL DEF Spec

\* Every variable keeps its type (CrmPort, WorkerStore, ProspectingWorker).
THEOREM TypeCorrect == Spec => []TypeOK
  <1>1. IInv => TypeOK
    BY DEF IInv, CrmOK, StoreOK, TypeOK
  <1>2. QED BY <1>1, Invariance, PTL

\* mark_outbox_delivered, record_candidate_ack and finalize_terminal_outbox
\* only ever touch a row whose key the CRM committed.
THEOREM DeliveriesAreCommitted == Spec => []DeliveredIsCommitted
  <1>1. IInv => DeliveredIsCommitted
    BY DEF IInv, StoreOK
  <1>2. QED BY <1>1, Invariance, PTL

\* However many workers, claims, losses and crashes: no row is ever replayed
\* with a body that differs from the one committed under its key.
THEOREM ReplaysAreIdempotent == Spec => []ReplaysNeverConflict
  <1>1. IInv => ReplaysNeverConflict
    BY DEF IInv, StoreOK, KeysUnique, LedgerFromOutbox, ReplaysNeverConflict, MessageIds, Known
  <1>2. QED BY <1>1, Invariance, PTL

\* The run row never claims an outcome that the CRM did not record.
THEOREM OutcomesAgree == Spec => []LocalOutcomeIsRemote
  <1>1. IInv => LocalOutcomeIsRemote
    BY DEF IInv, StoreOK
  <1>2. QED BY <1>1, Invariance, PTL
=============================================================================
