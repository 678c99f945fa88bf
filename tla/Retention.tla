----------------------------- MODULE Retention -----------------------------
(***************************************************************************)
(* The retention purge of app/prospecting/retention.py while the worker    *)
(* delivers batches of candidates.  The scheduler runs both in one event   *)
(* loop: the purge is one transaction, and it may commit between any two   *)
(* awaits of a delivery, whose batch was read before.                      *)
(*                                                                         *)
(* A candidate of a batch is its identity with the evidence items it       *)
(* carries.  Licensed items expire; a candidate is rebuilt from the items  *)
(* that are left if they are Sufficient (a name, a location, a contact)    *)
(* and dropped otherwise.  The back-off of a row is always over.           *)
(***************************************************************************)
EXTENDS ProspectingData, FiniteSets

CONSTANTS Identities, \* companies
          Items,      \* evidence items
          Batches,    \* batches that save_candidates queued, one row each
          Licensed,   \* items with a retention_until
          Sufficient, \* sets of items from which a candidate is rebuilt
          Invalid,    \* identities the CRM refuses with a permanent 4xx
          MaxDeliveryFaults   \* bound on crashes and lost requests or answers

Candidate == [id : Identities, items : Sufficient]

ASSUME RetentionAssumption ==
    /\ Licensed \subseteq Items
    /\ Invalid \subseteq Identities
    /\ Sufficient \subseteq SUBSET Items
    /\ \A s \in Sufficient, t \in SUBSET Items : s \subseteq t => t \in Sufficient
    /\ Batches \in Seq(Seq(Candidate))
    /\ MaxDeliveryFaults \in Nat

VARIABLES rows,     \* outbox rows of kind candidates
          expired,  \* items whose retention_until has passed
          swept,    \* items that had expired at the last purge (history)
          ledger,   \* the CRM: key (position of the row) -> body committed
          phase,       \* next step of the delivery
          fetched,     \* the rows get_outbox read and not yet delivered -> body read
          sent,     \* outcome of the delivery in flight
          deliveryFaults

retentionVars == <<rows, expired, swept, ledger, phase, fetched, sent, deliveryFaults>>

Ids(body) == {body[n].id : n \in DOMAIN body}

EvidenceIn(body) == UNION {body[n].items : n \in DOMAIN body}

\* names: the identities the row was created with (history).
Row(body) == [body |-> body, status |-> "queued", failures |-> 0, old |-> FALSE,
              names |-> Ids(body)]

RetentionInit ==
    /\ rows = [b \in DOMAIN Batches |-> Row(Batches[b])]
    /\ expired = {}
    /\ swept = {}
    /\ ledger = <<>>
    /\ phase = "fetch"
    /\ fetched = <<>>
    /\ sent = "none"
    /\ deliveryFaults = 0

Queued == {i \in DOMAIN rows : rows[i].status = "queued"}

-----------------------------------------------------------------------------
(* Delivery (_deliver_outbox, and upsert_candidates of the CRM).           *)

DeliveryFault == deliveryFaults < MaxDeliveryFaults /\ deliveryFaults' = deliveryFaults + 1

Fetch ==
    /\ phase = "fetch" /\ Queued # {}
    /\ fetched' = [i \in Queued |-> rows[i].body]
    /\ phase' = "send"
    /\ UNCHANGED <<rows, expired, swept, ledger, sent, deliveryFaults>>

\* The rows are delivered in order of creation.
First(i) == i \in DOMAIN fetched /\ \A j \in DOMAIN fetched : i <= j

\* The CRM checks the body against the one committed under the key.
Answer(i) ==
    IF Ids(fetched[i]) \cap Invalid # {} THEN "perm"
    ELSE IF i \in DOMAIN ledger /\ ledger[i] # fetched[i] THEN "conflict"
    ELSE "ok"

Commit(i) ==
    ledger' = [k \in DOMAIN ledger \cup {i} |-> IF k = i THEN fetched[i] ELSE ledger[k]]

Send ==
    /\ phase = "send"
    /\ \E i \in DOMAIN fetched :
         /\ First(i)
         /\ \/ Answer(i) = "ok" /\ Commit(i) /\ sent' = "ok" /\ UNCHANGED deliveryFaults
            \/ Answer(i) = "ok" /\ Commit(i) /\ sent' = "retry" /\ DeliveryFault  \* answer lost
            \/ UNCHANGED ledger /\ sent' = "retry" /\ DeliveryFault               \* request lost
            \/ Answer(i) # "ok" /\ sent' = Answer(i) /\ UNCHANGED <<ledger, deliveryFaults>>
    /\ phase' = "mark"
    /\ UNCHANGED <<rows, expired, swept, fetched>>

\* record_candidate_ack and mark_outbox_delivered both end here.
Acknowledged(i) == [rows EXCEPT ![i].status = "delivered"]

\* Mutant: an unknown outcome is taken for success.
FailedDelivered(i, retryable) ==
    [rows EXCEPT ![i].status = IF retryable THEN "delivered" ELSE "dead",
                 ![i].failures = @ + 1]

\* mark_outbox_failed, the only place that counts a failure.
Failed(i, retryable) ==
    [rows EXCEPT ![i].status = IF retryable THEN "queued" ELSE "dead",
                 ![i].failures = @ + 1]

\* split_candidate_outbox and discard_candidate_outbox look at the body that
\* the row has now, after the worker looked at the one it sent.
Isolable(i, size) ==
    /\ rows[i].status \in {"queued", "dead"}
    /\ IF size > 1 THEN Len(rows[i].body) >= 2 ELSE size = 1 /\ Len(rows[i].body) = 1

Isolated(i) ==
    LET body     == rows[i].body
        midpoint == Len(body) \div 2
    IN  IF Len(body) = 1
        THEN [rows EXCEPT ![i].status = "discarded"]
        ELSE [rows EXCEPT ![i].status = "split"]
               \o <<Row(SubSeq(body, 1, midpoint)), Row(SubSeq(body, midpoint + 1, Len(body)))>>

\* The next row of the batch; after a failure the poll is over.
Continue(i) == fetched' = [j \in DOMAIN fetched \ {i} |-> fetched[j]]
                 /\ phase' = IF DOMAIN fetched = {i} THEN "fetch" ELSE "send"
GiveUp == fetched' = <<>> /\ phase' = "fetch"

Mark ==
    /\ phase = "mark"
    /\ \E i \in DOMAIN fetched :
         /\ First(i)
         /\ \/ sent = "ok" /\ rows' = Acknowledged(i) /\ Continue(i)
            \/ sent = "retry" /\ rows' = Failed(i, TRUE) /\ GiveUp
            \/ sent = "conflict" /\ rows' = Failed(i, FALSE) /\ GiveUp
            \/ /\ sent = "perm" /\ Isolable(i, Len(fetched[i]))
               /\ rows' = Isolated(i) /\ Continue(i)
            \/ /\ sent = "perm" /\ ~Isolable(i, Len(fetched[i]))
               /\ rows' = Failed(i, FALSE) /\ GiveUp
    /\ sent' = "none"
    /\ UNCHANGED <<expired, swept, ledger, deliveryFaults>>

\* The process stops and starts again.
CrashDelivery ==
    /\ phase # "fetch"
    /\ DeliveryFault
    /\ GiveUp
    /\ sent' = "none"
    /\ UNCHANGED <<rows, expired, swept, ledger>>

-----------------------------------------------------------------------------
(* purge_expired_source_data.                                              *)

\* Mutant: a candidate that lost an item is dropped, not rebuilt.
RehydratedDropping(body) == SelectSeq(body, LAMBDA c : c.items \cap expired = {})

\* rehydrate_candidate_batch_payload.
Rehydrated(body) ==
    Among([n \in DOMAIN body |-> [body[n] EXCEPT !.items = @ \ expired]], Candidate)

\* Mutant: a row that failed before is left alone.
CleanedUnlessTried(row) ==
    LET safe == Rehydrated(row.body)
    IN  IF row.failures > 0 THEN row
        ELSE [row EXCEPT !.body = safe, !.status = IF safe = <<>> THEN "dead" ELSE @]

\* A row that failed before is dead-lettered and emptied, because the CRM may
\* know its body; one that did not is rewritten.
Cleaned(row) ==
    LET safe == IF row.failures > 0 THEN <<>> ELSE Rehydrated(row.body)
    IN  [row EXCEPT !.body = safe, !.status = IF safe = <<>> THEN "dead" ELSE @]

\* Of the rows that hold expired evidence only the queued ones are cleaned.
\* Delivered rows are deleted 30 days after their creation.
Purged(row) ==
    IF row.status = "queued" /\ EvidenceIn(row.body) \cap expired # {}
    THEN Cleaned(row)
    ELSE IF row.status = "delivered" /\ row.old
    THEN [row EXCEPT !.status = "deleted", !.body = <<>>]
    ELSE row

Purge ==
    /\ rows' = [i \in DOMAIN rows |-> Purged(rows[i])]
    /\ swept' = expired
    /\ UNCHANGED <<expired, ledger, phase, fetched, sent, deliveryFaults>>

-----------------------------------------------------------------------------
(* The passage of time.                                                    *)

Expire(item) ==
    /\ item \in Licensed \ expired
    /\ expired' = expired \cup {item}
    /\ UNCHANGED <<rows, swept, ledger, phase, fetched, sent, deliveryFaults>>

Age ==
    /\ \E i \in DOMAIN rows : ~rows[i].old
    /\ rows' = [i \in DOMAIN rows |-> [rows[i] EXCEPT !.old = TRUE]]
    /\ UNCHANGED <<expired, swept, ledger, phase, fetched, sent, deliveryFaults>>

RetentionNext ==
    \/ Fetch \/ Send \/ Mark \/ CrashDelivery
    \/ Purge \/ Age \/ \E item \in Items : Expire(item)

RetentionSpec == RetentionInit /\ [][RetentionNext]_retentionVars

-----------------------------------------------------------------------------
(* Properties.                                                             *)

\* A row leaves the queue as delivered, and may be deleted with its body, only
\* when the CRM committed its key.
DeletedIsCommitted ==
    \A i \in DOMAIN rows : rows[i].status \in {"delivered", "deleted"} => i \in DOMAIN ledger

\* Evidence that had expired at the last purge is never queued again, not by a
\* delivery that was in flight with the older body, nor by the halves of a
\* batch split after the purge.
SweptStaysOut ==
    \A i \in Queued : EvidenceIn(rows[i].body) \cap swept = {}

\* A valid candidate that can be rebuilt from what has not expired is in the
\* CRM, in a row that is queued or dead-lettered, or in a row that was emptied
\* because an earlier delivery of it had failed.
LostOnlyWhenAmbiguous ==
    \A b \in DOMAIN Batches : \A n \in DOMAIN Batches[b] :
        LET c == Batches[b][n] IN
        c.id \notin Invalid /\ c.items \ expired \in Sufficient =>
          \/ \E k \in DOMAIN ledger : c.id \in Ids(ledger[k])
          \/ \E i \in DOMAIN rows :
                /\ rows[i].status \in {"queued", "dead"}
                /\ c.id \in Ids(rows[i].body)
          \/ \E i \in DOMAIN rows :
                c.id \in rows[i].names /\ rows[i].body = <<>> /\ rows[i].failures > 0

\* The body of a key that the CRM may know does not change: a delivery is never
\* refused because the body differs from the one committed under its key.
NeverConflicts == sent # "conflict"

\* What the purge found expired is in no row any more, but for delivered rows,
\* which it deletes after 30 days.
ExpiredIsRemoved ==
    \A i \in DOMAIN rows :
        rows[i].status # "delivered" => EvidenceIn(rows[i].body) \cap swept = {}
=============================================================================
