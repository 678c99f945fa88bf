------------------------------ MODULE CrmPort ------------------------------
(***************************************************************************)
(* The CRM side of one prospecting run, as app/crm/fake.py implements the  *)
(* CRMPort protocol: a run with a lease, the tasks of its snapshot, the    *)
(* candidates it accepted and a ledger of idempotency keys.  Every call is *)
(* one critical section of the port's lock, hence one action.              *)
(*                                                                         *)
(* A lease token is the number of the claim that issued it (0 is None);    *)
(* the lease deadline is abstracted to crmLive, which CrmLeaseExpires      *)
(* clears.  The module knows nothing of the worker: the calls take the     *)
(* token, the key and the payload that the worker sends.                   *)
(***************************************************************************)
EXTENDS Naturals, Sequences, FiniteSets

CONSTANTS Tasks,          \* the tasks of the run's snapshot, in claim order
          Candidates,     \* identities (candidate_id) of the companies found
          Invalid,        \* candidates the CRM refuses with a permanent 4xx
          MaxCandidates,  \* campaign.max_candidates
          MaxClaims       \* bound on the number of claims explored

ASSUME CrmAssumption ==
    /\ Tasks \subseteq Nat \ {0}
    /\ Invalid \subseteq Candidates
    /\ IsFiniteSet(Candidates)
    /\ MaxCandidates \in Nat \ {0}
    /\ MaxClaims \in Nat \ {0}

VARIABLES crmStatus,   \* status of the run in the CRM
          crmToken,    \* lease_token of the current claim, 0 when none
          crmLive,     \* TRUE while lease_expires_at is in the future
          crmIssued,   \* number of claims granted so far
          crmCancel,   \* cancel_requested
          crmTask,     \* status and attempts of each task
          crmCands,    \* identities of the accepted candidates
          crmReport,   \* count reported by the accepted terminal message
          ledger       \* idempotency key -> payload and stored result

crmVars == <<crmStatus, crmToken, crmLive, crmIssued, crmCancel, crmTask,
             crmCands, crmReport, ledger>>

TaskStatus == {"pending", "running", "completed", "failed", "cancelled"}
Terminal   == {"completed", "partial", "cancelled"}
NoTask     == 0

CrmInit ==
    /\ crmStatus = "pending"
    /\ crmToken = 0
    /\ crmLive = FALSE
    /\ crmIssued = 0
    /\ crmCancel = FALSE
    /\ crmTask = [t \in Tasks |-> [status |-> "pending", attempts |-> 0]]
    /\ crmCands = {}
    /\ crmReport = 0
    /\ ledger = <<>>

-----------------------------------------------------------------------------
(* Guards shared by the calls.                                             *)

HoldsLease(tok) == tok # 0 /\ crmToken = tok /\ crmLive

Known(key) == key \in DOMAIN ledger

Conflicts(key, payload) == Known(key) /\ ledger[key].payload # payload

\* is_cancel_requested answers TRUE to whoever does not hold the last token.
IsCancelRequested(tok) == crmToken # tok \/ crmCancel

Claimable ==
    \/ crmStatus = "pending"
    \/ crmStatus = "running" /\ crmToken # 0 /\ ~crmLive

\* Outcome of a call that reaches the CRM.  Events and candidates need the
\* lease even when the key is known; a terminal message whose key is known is
\* answered from the ledger without looking at the lease.
Outcome(tok, kind, key, payload) ==
    IF kind = "complete" /\ Known(key)
    THEN IF Conflicts(key, payload) THEN "conflict" ELSE "ok"
    ELSE IF ~HoldsLease(tok) THEN "lease"
    ELSE IF kind = "candidates" /\ (\E i \in DOMAIN payload : payload[i] \in Invalid)
    THEN "perm"
    ELSE IF Conflicts(key, payload) THEN "conflict" ELSE "ok"

-----------------------------------------------------------------------------
(* Candidates admitted by upsert_candidates: the new ones, in payload      *)
(* order, while the run is below its candidate limit.                      *)

Position(c, payload) ==
    CHOOSE i \in DOMAIN payload :
        payload[i] = c /\ \A j \in DOMAIN payload : payload[j] = c => i <= j

Fresh(payload) == {payload[i] : i \in DOMAIN payload} \ crmCands

Admitted(payload) ==
    {c \in Fresh(payload) :
        Cardinality({d \in Fresh(payload) : Position(d, payload) < Position(c, payload)})
          + Cardinality(crmCands) < MaxCandidates}

Remember(key, payload, accepted, found) ==
    ledger' = [k \in DOMAIN ledger \cup {key} |->
                 IF k = key
                 THEN [payload |-> payload, accepted |-> accepted, found |-> found]
                 ELSE ledger[k]]

-----------------------------------------------------------------------------
(* Calls.                                                                  *)

CrmClaimRun ==
    /\ Claimable
    /\ crmIssued < MaxClaims
    /\ crmStatus' = "running"
    /\ crmIssued' = crmIssued + 1
    /\ crmToken' = crmIssued + 1
    /\ crmLive' = TRUE
    /\ UNCHANGED <<crmCancel, crmTask, crmCands, crmReport, ledger>>

AppendEvents(key, event) ==
    /\ IF Known(key)
       THEN UNCHANGED <<crmTask, ledger>>
       ELSE /\ Remember(key, event, 0, 0)
            /\ crmTask' =
                 [t \in Tasks |->
                    IF t # event.task THEN crmTask[t]
                    ELSE [status |-> event.status,
                          attempts |-> IF event.attempt > crmTask[t].attempts
                                       THEN event.attempt
                                       ELSE crmTask[t].attempts]]
    /\ UNCHANGED <<crmStatus, crmToken, crmLive, crmIssued, crmCancel, crmCands, crmReport>>

UpsertCandidates(key, payload) ==
    /\ IF Known(key)
       THEN UNCHANGED <<crmCands, ledger>>
       ELSE /\ crmCands' = crmCands \cup Admitted(payload)
            /\ Remember(key, payload, Cardinality(Admitted(payload)),
                        Cardinality(crmCands \cup Admitted(payload)))
    /\ UNCHANGED <<crmStatus, crmToken, crmLive, crmIssued, crmCancel, crmTask, crmReport>>

CompleteRun(key, report) ==
    /\ IF Known(key)
       THEN UNCHANGED <<crmStatus, crmToken, crmLive, crmReport, ledger>>
       ELSE /\ Remember(key, report, 0, 0)
            /\ crmStatus' = report.status
            /\ crmReport' = report.accepted
            /\ crmToken' = 0
            /\ crmLive' = FALSE
    /\ UNCHANGED <<crmIssued, crmCancel, crmTask, crmCands>>

\* The CRM processes a delivery and commits it.
Commit(kind, key, payload) ==
    \/ kind = "events" /\ AppendEvents(key, payload)
    \/ kind = "candidates" /\ UpsertCandidates(key, payload)
    \/ kind = "complete" /\ CompleteRun(key, payload)

-----------------------------------------------------------------------------
(* The environment of the run: its user, and the passage of time.          *)

\* request_cancel tests no status: its caller, the user of a campaign (or a
\* test), cancels only a run that has not ended.
RequestCancel ==
    /\ crmStatus \in {"pending", "running"}
    /\ crmCancel' = TRUE
    /\ crmStatus' = "cancel_requested"
    /\ crmTask' = [t \in Tasks |->
                     IF crmTask[t].status \in {"pending", "running"}
                     THEN [crmTask[t] EXCEPT !.status = "cancelled"]
                     ELSE crmTask[t]]
    /\ UNCHANGED <<crmToken, crmLive, crmIssued, crmCands, crmReport, ledger>>

CrmLeaseExpires ==
    /\ crmLive
    /\ crmLive' = FALSE
    /\ UNCHANGED <<crmStatus, crmToken, crmIssued, crmCancel, crmTask, crmCands,
                   crmReport, ledger>>
=============================================================================
