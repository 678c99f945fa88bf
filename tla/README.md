# Agente inteligente comercial: TLA+ specifications

The repository is the backend of a commercial agent. A *prospecting worker*
claims runs of prospecting campaigns from a CRM, searches authorized sources
for companies, and delivers what it found; an *agent hub* executes analysis
tasks and mirrors an ERP and a shop into the CRM. Both are asyncio daemons that
speak HTTP to a CRM they do not control, over networks and processes that fail.
This directory specifies the parts of it that have a protocol, model-checks
them with TLC, and proves the most important facts with TLAPS.

## 1. Inventory

Paths are relative to `src/app`.

| Component | State | Operations | Correct when |
|---|---|---|---|
| Prospecting worker, `prospecting/worker.py` | memory of one process: claim, task in hand, rows read, stop events of two heartbeats | poll, claim, execute a task, deliver the outbox, cancel, complete, replay terminals | nothing found is lost or reported twice; a run ends the same way on both sides; a source is called a bounded number of times |
| Worker store, `prospecting/store.py`, `db/models.py` | tables of runs, tasks, candidates, events and the outbox | `ensure_run`, `claim_task`, `finish_task`, `save_candidates`, `save_event`, the `*_outbox` operations, `queue_terminal`, `summary` | each call is one transaction; keys are unique; leases fence stale workers |
| CRM port, `crm/port.py`, `crm/http.py`, `crm/fake.py` | run, lease token, cancellation, idempotency ledger, candidates | claim, heartbeat, cancel query, `append_events`, `upsert_candidates`, `complete_run` | a key is committed once, with one body; a token is valid only for the current lease |
| Retention, `prospecting/retention.py` | evidence, candidates and outbox rows with `retention_until` | `purge_expired_source_data` every six hours | expired evidence disappears, nothing else does, and replays stay safe |
| Search budgets, `prospecting/budget.py` | query logs, reconciliation with the provider | `reserve`, `complete`, `reconcile_provider_usage` | spending stays within the limits under concurrent searches |
| Authorized sources, `prospecting/sources.py`, `enrichment/google_places.py` | none beyond a search | one search per task | asks the budget before every paid request |
| Quality, evidence, scoring, dedup, `prospecting/{quality,evidence,validation,scoring,dedup}.py` | none (functions over the candidate table) | match, merge, classify, validate candidates | two rows that show one company are one entity or wait for a review; a save does not fail for good; the judgements of one company agree |
| Hub worker, `hub/worker.py`, `hub/agents/registry.py` | the claimed task and its heartbeat; three monitors with their slots | claim, execute, complete, fail; schedule and dispatch | one outcome per task; every due slot is scheduled; a cycle never mixes what two cycles read; every page is read |
| Hub CRM client, `hub/crm.py` | none | batches of records under a count and a size limit | every record is in exactly one batch, in order |
| Hub analyses, `hub/{finance,commercial,inventory,marketing}.py`, `hub/agents/business.py` | none beyond one analysis | records to snapshots | the parts of every sum add up to it; customers are merged by identifiers only; what an offer or a segment says is true |
| Integrations, `integrations/*.py` | none | read-only HTTP clients, connectivity checks | checks do not spend what is not accounted |
| Legacy ingestion, matching, enrichment, `ingestion`, `dedup`, `enrichment`, `normalization`, `classification` | tables of prospects | imports and merges, kept for compatibility | merges lose no value |
| Foreign trade, `foreign_trade` | static catalogues | lookups and planning | - |
| Web panel, `main.py`, `web`, `config.py`; schema, `db/migrations`; scripts | sessions, configuration | request handlers | - |

### How they interact

The scheduler (`scheduler/worker.py`) runs three coroutines of one event loop:
the worker, the retention loop and, with the HTTP CRM, the integration monitor.
They share the database. The worker and the CRM share nothing but messages:

```
 CRM  <---- claim / heartbeat / is_cancel_requested ----  worker (+2 heartbeats)
  ^                                                         |  transactions
  |  append_events, upsert_candidates, complete_run         v
  +------------------- outbox rows, replayed ----------  worker store <-- purge
```

Every message is first a row of the outbox, with an idempotency key, written in
the transaction that makes it true; a later step sends it; another one records
the outcome. Between any two of those steps the process may stop, the answer
may be lost, the lease may expire and a second process may take over.

### What is hard

The hazards are listed with their lines in `PROJECT.json`. In short: replays
after an unknown outcome; a stale worker that comes back; claims whose snapshot
is older than the local rows; batches that are split while they are replayed;
several terminal messages for one run; a purge that rewrites rows in flight;
and, above all of it, termination. In the hub: answers of `complete` that are
lost, a heartbeat that dies unnoticed, cycles of which any request may fail, and
listings that move while they are read. In the analyses and in the identity of
companies nothing is concurrent; what is hard there is the order in which
records come, and chains of merges.

## 2. Modules

| Module | Models | Extends |
|---|---|---|
| `CrmPort` | the CRM, as `FakeCRMPort` implements the contract | |
| `WorkerStore` | `SQLWorkerStore`: the run row, its tasks, the outbox | `CrmPort` |
| `ProspectingWorker` | the workers: their control, their heartbeats, crashes, the faults of the network; the properties | `WorkerStore` |
| `ProspectingWorkerProofs` | theorems about `ProspectingWorker`: what ties outbox, ledger and run | `ProspectingWorker` |
| `WorkerSafetyProofs` | theorems that rest on those: candidates, tasks, calls of the sources | `ProspectingWorkerProofs` |
| `CompletionProofs` | with one worker, a completed run is exact | `WorkerSafetyProofs` |
| `ProspectingData` | the selection that the two models of candidates share | |
| `Retention` | the purge beside the delivery of batches with licensed evidence | `ProspectingData` |
| `GoogleSearch` | searches of Google Places and their budget of the run, the day and the month | |
| `BraveSearch` | searches of Brave, the monitor's check, the monthly budget and its reconciliation | |
| `BraveSearchProofs` | theorems about `BraveSearch` | `BraveSearch` |
| `Candidates` | the identity of companies: matching, merging, the candidate table, the way of a task's results to it | `ProspectingData` |
| `QualityGate` | classification, sanitising and validation of one company | |
| `SourcesProofs` | theorems about `GoogleSearch`, `QualityGate`, `Retention` and `Candidates` | these four |
| `HubQueue` | abstract: a task ends once, completed with a result or failed | |
| `HubTasks` | the hub's consumer, its heartbeat, lost answers and crashes; implements `HubQueue` | |
| `HubMonitors` | the executive monitor over a day | |
| `HubIntegration` | one cycle after the other of the integration monitor | |
| `HubPaging` | the paginated loaders against a provider that issues records meanwhile | |
| `HubProofs` | theorems about these four, the refinement of `HubQueue` among them | `HubTasks`, `HubMonitors`, `HubIntegration`, `HubPaging` |
| `HubData` | the missing value and sums that the analyses share | |
| `CommercialIdentity`, `CommercialProducts`, `CommercialReport` | the portfolio of customers; what they bought and are offered; their scores and segments | `HubData` |
| `CommercialProofs` | theorems about the portfolio and about scores and segments | `CommercialIdentity`, `CommercialReport` |
| `FinanceSales`, `FinanceCollections`, `Inventory` | sales and purchases; receivables; product snapshots | `HubData` |
| `FinanceProofs` | what a sum is, and theorems about these three and `CommercialProducts` | `FinanceSales`, `FinanceCollections`, `Inventory`, `CommercialProducts` |
| `MC...` | instances for TLC; `MCServices` and `MCAnalyses` hold several components that share no state | |

### CrmPort

One run. `crmToken` is the lease token (0 when there is none), `crmLive` whether
the lease has time left, `crmIssued` how many claims were granted. `ledger` maps
an idempotency key to the body it was committed with and the answer that was
given. `crmTask` is what the CRM knows of each task from the events it accepted:
it is what the next claim's snapshot carries. `Outcome` orders the tests as the
code does: a key that is already known is answered from the ledger, or refused
as a conflict, before the lease is looked at. `Commit` is the effect of each of
the three kinds of message.

### WorkerStore

`outbox` is the sequence of rows in order of creation: kind, key, payload,
status, and `avail` for `available_at <= now`. `_queue_outbox` returns silently
when the key exists (`Insert`). A call of the store is one transaction, so each
of its operators is a whole method. Keys are what the code builds: an event has
a fresh identity; a batch has the task and its attempt; the halves of a split
have the row they come from; a terminal message has its status.

### ProspectingWorker

`pc[w]` names the next call to the CRM or transaction. The methods correspond to
groups of actions:

| Code | Actions |
|---|---|
| `poll_once`, `_reconcile_terminal_outbox` | `Poll`, `Replay`, `Replayed`, `ClaimRun`, `ClaimLost`, `NothingToClaim`, `Ensure` |
| `_deliver_outbox`, `_deliver_message`, `_finalize_outbox_delivery` | `Fetch`, `Send`, `Refuse`, `Delivered`, `Settle`, `LeaseLost`, `Isolate`, `Undelivered` |
| `_process_claim` | `Loop`, `Check`, `TakeTask`, `Drain`, `Renew`, `Recheck`, `Executed` |
| `_execute_task` | `Start`, `Search`, `Searched`, `Save`, `FinishJob`, `Announce`, `AnnounceFails`, `Fail`, `AnnounceFailure` |
| `_cancel`, `_complete` | `StopTasks`, `AnnounceCancel`, `Report`, `Conclude` |
| `_run_heartbeat`, `_task_heartbeat` | `RunHeartbeat`, `TaskHeartbeat` |
| the process, time and the user | `Crash`, `RunLeaseExpires`, `TaskLeaseEnds`, `Retry`, `Cancel` |

`after[w]` is where `_deliver_outbox` returns to. `stop[w]` holds the events the
heartbeats set; they are read exactly where the code reads them. A search is a
choice of a batch in `Yield`, a failure, or a stop.

### Retention

The rows carry candidates with the evidence items they rest on. `Fetch` reads
the rows and their bodies, as `get_outbox` does; `Send` and `Mark` use the body
that was read while the transaction of `Mark` works on the row as it is now.
A `Candidate` is one of `Identities` with its evidence. `Among` is the selection
of the candidates of a batch for which a test holds, in their order; it is a
recursive function, not a `SelectSeq`, so that it can be proved about.
`Purge` is the outbox part of `purge_expired_source_data`, one transaction that
may come between any two of them.

### GoogleSearch

One process per search of a task. A search asks for pages of each query, then
for the details of some of the places it found; before each paid request it
reserves. `reserve` is four steps, because others run between them: `Ask` reads
the clock, `Begin` starts the transaction (the database dates the row then),
`Lock` waits for the advisory lock and adds up the log, `Reserve` or `Refuse`
commits. Under READ COMMITTED the sums see every row committed before the lock
was granted. `Midnight` may come between any two steps. `log` is what the rows sum
up to by run and from each day on, which is all `_spend` looks at: rows are added
and never removed. The two budgets share nothing, so each has its module.

### BraveSearch

One month of one campaign. Searches reserve as above, send the query, and store
the usage that the headers of the answer tell (`Answered`, `Observe`, `Load`,
`Store`); the monitor's `Check` sends a query it did not reserve, then does the
same. The usage is what was stored last plus the rows dated after it was
observed, so time matters by its order only and is counted in reservations
begun. `charged` is the provider's own count: it is what the properties are
about, and no step of the code reads it other than through the headers. `lost`
counts the charges whose headers were not stored. `Fault` bounds the requests
that tell no usage and the processes that stop.

### Candidates

A company is what identifies it: RUT, an id per provider, domain, telephone,
name with commune and address. `Disposition` is `match_candidate`, `MergeExact`
the part of `merge_exact_candidate` that concerns identity, with its two
`ValueError`s as `Refused` or as an empty set of tables. A task is `SearchGoogle`
or `SearchBrave`, then `Partition` for Brave, `Gate` and `Save`; a row is a run,
a key, a disposition and a company. Each of them is one transaction or one
computation of the worker. The website of a domain answers or not. No source of
`src/` sets a RUT, and none gives a company an id before it is saved
(`CandidatesAssumption`).

### QualityGate

A text is the set of kinds of words that the patterns of `quality.py` find in
it, so the patterns themselves are not modelled and their order is. `Classify`,
`Sanitize` and `Validate` follow the loop of `_execute_task`; `FoundAgain` is the
merge of a Brave hit into a company that the run kept, which brings it back
before the gate with the category it already has. A score is whether there is
one.

### HubTasks and HubQueue

`queue` is the CRM's table of tasks with its leases, `hub[w]` the worker's step,
task, token and heartbeat. A tick is half a heartbeat interval. The agents await
nothing, so no heartbeat is sent while one executes (`blocked`); an execution
that is longer than the lease allows is a fault, as are lost requests, lost
answers and crashes. `Promise` maps `queue` to `HubQueue`: the outcome is the
status, the executions given are the tokens.

### HubMonitors, HubIntegration, HubPaging

`round` of `HubMonitors` is what the executive monitor holds between two
requests. `HubIntegration` has one action per request of a cycle, in the order
of the code; `Try` is a request that goes on, or raises to the handler that
catches it, and a list is represented by the cycle it was read in.
`HubPaging`, whose specification by itself is `PagingSpec`, reads a listing whose newest record is first, through each of the
four loaders that differ in how they stop.

### The analyses

Each module reads its records one after the other, in every order, and adds
them to what the code keeps (`customers` and `aliases`, `history`, the sums, the
buckets, what was sold); what the code computes at the end is an operator over
them. The properties compare that with the records, which the model keeps.

## 3. Runs

Each passing run is paired in `PROJECT.json` with mutants of the mapped code
that break each of its properties.

| Run | Instance | Question |
|---|---|---|
| `solo` | 1 worker, 2 tasks, 3 candidates of which 1 invalid, limit 2, 5 claims, 2 attempts, 2 faults of any kind, cancellation | Is anything counted wrong, executed too often or concluded differently on both sides? Does every run end? |
| `takeover` | 2 workers, 1 task whose batch holds a refused candidate, 2 claims, 1 fault of any kind | Can a stale worker finish what it lost, rewind a completed task, or lose a candidate of a batch that both split? |
| `brave_budget` | 2 searches with four discovery queries and a social one, 1 check, limit of 3 queries, 1 of them social, 2 faults | Do the reservations keep to the limits, and by how much can the charges exceed them? |
| `services` | Eight components, one at a time: 2 hub workers with 1 task, leases of 4 ticks, 2 faults; a day of 4 slots with up to 4 notifications and 2 errors; 2 alternating cycles of integration with every setting; pages of 3 of up to 8 records and 2 new ones, in 3 envelopes; 2 Google searches of one run, 2 queries of up to 2 pages, 3 days in months of 2; 2 batches with 3 items beside the purge, 2 faults; 2 runs with 3 tasks over 3 places and 3 sites; 246 companies, 3 campaigns and up to 2 later hits | Do the parts beside the worker keep their invariants, does each of them go on, and do the hub's tasks keep the promise of `HubQueue`? |
| `analyses` | Six components, one at a time: 3 rows of 4 people, 3 lines of products, 2 ranked customers beside 2 others, 3 documents or orders on both sides of the end of February, 2 documents with 2 rows of collections on both sides of every limit, 2 lines sold | Do the analyses say what the records say? |
| `ack_twice`, `retention_conflict`, `retention_left`, `pagination`, `identifier`, `saves_across`, `pages_of_one_site` | smaller | The findings of section 6 |

The components of `services`, and those of `analyses`, share no state: every
behaviour of such a run is a behaviour of one of them while the others stay in
one initial state, so the run checks what separate runs would.

The bounds. Two tasks let one complete while the other is executed, retried or
cancelled. Two claims are a takeover and three a takeover after a replay; every
fault needs at most one new claim, so 5 claims leave `solo` enough for its two
faults, with the claims it needs without them. Two faults combine a lost answer
with a crash, which is the smallest sequence that replays a committed message.
A batch of two candidates is the smallest that splits. `MaxCandidates` is
reached by one batch and the rest of another. `solo` has the shapes of all
results (a batch with an invalid candidate, overlapping batches, an empty one).
The workers are symmetric in `takeover`, which states no liveness property. Days
and costs of Google's searches are such that each of the three budgets is the
one that refuses in some behaviour. In `brave_budget` the limit is small
enough for the faults to let the searches reserve it all before an answer is
stored, which is when `HardWithoutHeaders` says something. The bound of
`OverspendBounded` is not reached there; it is with a limit of 5 and searches of
five discovery queries, where TLC finds one smaller by one violated, and the
theorem of section 5 covers every instance.

The one fault of `takeover` is the stall that lets the second worker in, or any
other, after which the rows are retried under a new claim.

A takeover in `HubTasks` takes a lease and one fault, and a lost answer of
`complete` and of `fail` are two. Two cycles of integration are enough for one
to use what the other read. A listing of three pages that moves by two records
repeats records without repeating a page. Three tasks over two runs are the
smallest that match a company in another run and merge it in this one; the
places form the chain site, telephone, site that joins three companies. Three
rows are the smallest that link two customers through a third.

### Properties

*Delivery*: `DeliveredIsCommitted` (a row marked delivered was committed by the
CRM), `ReplaysNeverConflict` (a committed key has the body of its row),
`NoCandidateLost` (every candidate ever queued is in the CRM, was turned away by
a full run, was set apart as invalid, or is still in a live or dead-lettered
row). *Outcome*: `LocalOutcomeIsRemote`, `CompletedIsExact` (a completed run
delivered every batch and reported exactly what the CRM holds). *Execution*:
`SourceRunsBounded`, `FencedFinish`, `NoRerunWhileCompletionQueued`.
*Termination*: `RunEnds`. *Retention*: `DeletedIsCommitted`, `SweptStaysOut`,
`LostOnlyWhenAmbiguous`. *Budgets*: `WithinBudgets`, `EverySearchEnds`,
`WithinSocialLimit`, `HardWithoutHeaders` (the reservations alone keep to the
monthly limit), `OverspendBounded`. The last one says what the reconciliation
costs. It takes no lock and decides on the row as it read it, so an answer that
is stored after a later one takes the usage back, and other searches spend what
was spent already until one of their own answers corrects it. For one search the
charges exceed the limit by no more than one for each check and each lost
answer; for n searches, by n(n+1)/2 - 1 more, and by another n - 1 when there was
a check, whose late answer lets all of them spend once more.

*Companies*: `TwinsAreFlagged` (two rows that show the same company are one
entity, or one was put up for a review, as its id tells; its disposition may no
longer do so, as the end of section 6 says), `SavesOfOneRunSucceed` (within one run no
company makes `save_candidates` raise), `VerdictsAgree` (a company that was kept
is one that the gate, asked again, would keep, under the same role).
*Hub*: `KeepsPromise` (the refinement), `EveryTaskEnds`, `OverlapOnlyUnkept`
(two workers on one task only after an execution outlasted its lease or a
heartbeat died), `RoundRebuildsMissedSlots`, `SnapshotsOfOneCycle`,
`InternetIsKnown`, `CycleFollowsCycle` (unless the commercial extraction, which
is outside of every `try`, raises and ends the monitor), `LoadsEveryRecord`,
`TakesEachRecordOnce`. *Analyses*: `SameRutSameCustomer`, `MergedOnlyByLink`,
`LocationIsBest`, `OffersTellTheTruth`, `HigherValueNeverScoresLess`,
`SegmentsAreAsTheySay`, `SumsAgree`, `YearsAreComparable`, `DebtReconciles`,
`SalesAreTheProducts`.

`CompletedIsExact` and `SourceRunsBounded` are checked with one worker only:
with two, a stale worker may search the attempt of another one and leave a batch
queued under a run that ended; the code accepts that (the leases bound how often
it can happen) and the deployment runs one replica.

## 4. Fairness and time

`FairSpec` assumes weak fairness of each worker's own step (the daemon's loop
survives every exception and the supervisor restarts it), of the expiry of a
lease nobody holds, and of the end of a back-off. Faults are never fair and are
at most `MaxFaults`. The model also knows an order of clocks: the lease of 120 s
(`config.py:88`) does not run out before the back-off of a row that failed once
or twice (2 or 4 s, `store.py:1093`) and before the next poll (15 s,
`config.py:87`) replayed a terminal message queued under that lease, unless the
daemon stalls, which is a fault (`Overdue`, `RunLeaseExpires`). Without it each
new claim would meet rows in back-off, for ever. `RunEnds` excepts a run whose
terminal message the CRM refused for good (`TerminalRefused`): it is
dead-lettered, its key cannot be queued again (`store.py:963-975`), and the run
stays open.

`GoogleSearch` assumes weak fairness of each search's step: the event loop runs
it. The lock may be taken by another search each time it is free, but searches
are finite (bounded queries, pages and details), so not for ever: weak fairness
is enough. The lock belongs to the transaction and goes with it however
it ends. The clock of the process is assumed not to be a day ahead of the
database's. `BraveSearch` states safety only.

`HubTasks` assumes that time passes, and that the event loop runs the consumer
and its heartbeat: requests have a timeout and executions end. `HubIntegration`
assumes weak fairness of its next step, for the same reason. The other modules
state safety only. In `MCServices` each of these is conjoined with the component
that runs.

## 5. Proofs

Every theorem holds for every set of workers, tasks, searches, slots or
candidates and every bound, from the assumptions on the constants of its module
(`CrmAssumption`, `StoreAssumption`, `WorkerAssumption`, `BraveAssumption` and
their like), which TLC evaluates in every run. Three have a hypothesis of their
own, said below.

### The prospecting worker

`ProspectingWorkerProofs`:

- `TypeCorrect`: `TypeOK`;
- `DeliveriesAreCommitted`: `DeliveredIsCommitted`;
- `ReplaysAreIdempotent`: `ReplaysNeverConflict`;
- `OutcomesAgree`: `LocalOutcomeIsRemote`.

None of these is inductive. `IInv` adds what makes them so:

1. *The outbox is a table of keys*: no two rows share a key (`KeysUnique`), rows
   are never removed and never change kind, key or payload (`RowsKept`, an
   action property every step has).
2. *The ledger comes from the outbox* (`LedgerFromOutbox`): the CRM only knows a
   key with the body of a row that is still there. With 1 this is
   `ReplaysNeverConflict`.
3. *A committed terminal key determines the run* (`TerminalCommitted`), and a
   run that ended has no lease (`EndedHasNoLease`), so a second terminal message
   under another key is refused.
4. *What a worker knows at its `pc`* (`WorkerOK`): the rows it holds exist; a
   delivery that was answered with success is in the ledger, until the worker has
   recorded it; there is a task, or a terminal status, where the code needs one.

The proof is in three layers: lemmas about one row and about the table; one
lemma per action for the data of CRM and store (`...Data`) and one for the
control of the workers (`...Control`); then `WorkerStep`, `EnvironmentStep` and
`NextInv`, one case per action.

`WorkerSafetyProofs` adds invariants that rest on `IInv`:

- `CandidatesAreNeverLost`: `NoCandidateLost`. `CandidatesInv` says that the
  candidates of any row are taken by the CRM, or held by that row or a later one
  (`Accounted`), that a committed row's are taken (`CommittedTaken`), and that a
  worker whose batch was refused holds an invalid candidate (`RefusedIsInvalid`).
  Two workers may split the same row, and the second split finds the keys of the
  first in the outbox; so a half is known by its key (`HalvesFollow`), whoever
  inserted it, and follows the row it comes from.
- `FinishesAreFenced`: `FencedFinish`, and `CompletionsAreNotRepeated`:
  `NoRerunWhileCompletionQueued`, both action properties. `TaskMoves` lists the
  ways in which any step can change the row of a task. `TasksInv` says that
  a worker that still owns the task of its job owns it for that attempt, which
  needs that no two workers ever store the same token (`TokensFresh`).
- `OneWorkerRunsBounded`: `SourceRunsBounded`, if there is one worker. A search
  starts only when the CRM has the event of its attempt, so that the CRM's
  counter, to which a new claim resets the local one, is never behind the
  calls of the source (`RunsInv`). The hypothesis is the deployment's; with two
  workers the property fails (section 3).

`CompletionProofs`: `CompletedRunsAreExact`: `CompletedIsExact`, if there is one
worker. The report a worker queues is a number it read from its own store, and
must be the size of a set that the CRM keeps. `CompletionInv` says, in every state:

1. *Every candidate of the CRM is counted or owned* (`Owned`): there is a way to
   share the candidates out to `runAccepted` and to the batches that the CRM
   committed while the store does not know it (`Unrecorded`), as many to each as
   the ledger's answer says. A commit gives the candidates that it adds to the
   row it was sent from (`OwnedWhenSent`); the acknowledgement, which is one
   transaction with the row's status, passes them to the counter
   (`OwnedWhenAcked`). A replayed row adds none.
2. *The rows in the hands of the worker are queued* (`QueueHeld`), so each row is
   acknowledged once. A second worker breaks just this, as finding 1 shows.
3. *Nothing moves behind a report*: the work of a round starts with nothing queued
   (`CalmWhenEmpty`) and under a lease of the claim in hand, so no task is executed
   once a report is queued or the run ended (`TaskWhileRunning`).
4. *A verdict of completed is about everything* (`Closing`, `Reported`): nothing is
   queued, dead or discarded, and no row is split, because a split leaves an invalid
   candidate in one of these (`SplitHasInvalid` with `CandidatesInv`); hence every
   batch is delivered, nothing is unrecorded, and 1 is the equality.

### The budgets

`BraveSearchProofs`:

- `SocialLimitHolds`: `WithinSocialLimit`;
- `LedgerHolds`: `HardWithoutHeaders`;
- `OverspendIsBounded`: `OverspendBounded`.

What makes the first two inductive is `DecidesUnderLock`: a search that is
about to decide holds the advisory lock, and what it counted is still what the
log holds. Only a decision inserts a row, so two searches that decide at once
would break it; `Stop` keeps it because a process that stops lets go of its own
lock only. `SearchInvariance` states it with the types.

The third counts over a whole history, and its invariant is a potential. Once the
charges have reached the limit, every new answer tells a usage that exhausts it.
What is left to spend is one query for each search that decided already or,
while the stored usage is below the limit, has no answer of its own to store
(`Spenders`); and what the answers from before the limit was reached can lead to
when they are stored late: for an answer of the check, one query of each search;
for those of the searches, one query of each search that has none to store any
more (`Ahead`). `OverspendInv` says that the charges and all of these together
are within `Allowance`, twice the bound of `OverspendBounded`. The charge that
reaches the limit establishes it (`Crossing`), and each action keeps it. The
proof found that the bound this project stated before was too small: it did not
count the late answer of a check.

`SourcesProofs`: `BudgetsHold`: `WithinBudgets`. What a search added up under
the lock is what the log adds up to (`CountsUnderLock`) from the day it read
before it waited. Its row is dated when the transaction began, on that day or
a later one (`DatedLater`), and the sums from a later day on count fewer rows
(`SumsShrink`), so a midnight or the end of a month in between makes the
search count too much, never too little.

### Retention

`SourcesProofs`: `DeliveredBeforeDeleted` (`DeletedIsCommitted`), `PurgedStaysOut`
(`SweptStaysOut`), `NothingLostSilently` (`LostOnlyWhenAmbiguous`), from
`RetentionInvariance`: what the body of a row, the body that a delivery in flight
read, and the body the CRM committed under its key have in common while the purge
rewrites the first and a refusal splits it. `AmongSelects` says what `Among`
returns for a batch of any length; the induction goes through the least element
of a set of numbers (`LeastElement`).

### Companies

`SourcesProofs`, for any companies, any number of runs and tasks, and any names that
are alike:

- `TwinsAlwaysFlagged`: `TwinsAreFlagged`. A merge adds to a row what the other
  company shows, so that whoever agrees with the merged row agreed with one of the
  two (`Merged`); and whoever agreed with the company when it was matched has the
  id that it got, or was one of several or of contradicting entities, and then
  the company's id is one of a review (`DispositionTells`, `SaveFlags`). The proof
  needs no bound on how often a company is found. With four tasks an earlier form
  of the property, which read the disposition, was refuted (see the end of section 6).
- `OneRunAlwaysSaves`: `SavesOfOneRunSucceed`. In `CandidatesInv` each row of the only
  run there is still shows what its key was made of (`KeyKept`): a merge of exact
  matches never changes what a row showed, as the ids of providers do not contradict
  one another and outrank all keys but the RUT, which no source tells (`ExactMeans`,
  `Extends`). So a company that gets the key or the id of a row is an exact match of
  it (`FindsItsRow`), and what `partition_discoveries` joined to a row still is when
  it is saved, whatever was merged in between (`AfterExpects`). It holds of one run
  only: the row of another run may have been told by what this run never saw, which
  is finding 6.

The folds of `Save` and `ByDomain` are unfolded along the indexes of the sequence
(`FoldExists`, `FoldSteps`), one company after the other (`TablesFollow`).

### The hub

`HubProofs`: `OverlapNeedsALostLease` (`OverlapOnlyUnkept`) and
`ConsumerKeepsPromise` (`KeepsPromise`: the initial state of `HubTasks` is one of
`HubQueue`, and each of its steps is a step of it or a stutter).
`TasksInvariance` ties the timers to each other: the lease of a worker that kept
it outlives the wait for its next heartbeat (`Outlives`); no token is given twice
(`TokensDiffer`); a result on its way was produced under the worker's token.

Of the monitors and the loaders, in the same module:

- `MissedSlotsAreRebuilt`: `RoundRebuildsMissedSlots`. A round schedules the slots
  up to its own one after the other and dispatches only when it has them all
  (`RoundOK`).
- `SnapshotsDoNotMix` (`SnapshotsOfOneCycle`) and `WebSalesAreKnown`
  (`InternetIsKnown`). Whatever a cycle holds it read itself (`OfThisCycle`), and
  the web channel is ready only once the orders were read and recorded
  (`WebReadyIsKnown`).
- `EveryRecordIsLoaded`: `LoadsEveryRecord`, if no provider names the next page
  `next_page`. With that name it fails, which is finding 4. The rows taken hold
  every record above the page to be read, wherever the listing moved to
  (`ReadAbove`), and no page that was read can come again unless it moved by a
  page (`SeenAbove`).
- `RecordsAreTakenOnce`: `TakesEachRecordOnce`. While the listing stands still, the
  rows taken are the newest records, counted down (`Counted`).

### The quality gate

`SourcesProofs`: `VerdictsAlwaysAgree` (`VerdictsAgree`). `GateInv` says that a
company which has its category has the one it would be given now, and was judged
as it would be now. Three facts about `quality.py` carry it:

- a category is read as text when the company is judged again, but the words that
  it holds are never looked for before those that gave it (`RoleOfText`,
  `CategoryTellsNothing`: a large installer's category holds the word of a
  technician, and a technician is looked for later);
- no category holds a word that excludes a company, or that makes it one of the
  trade (`CategoryExcludesNothing`);
- what `Sanitize` takes away is not read, since a description is there with its
  observation or not at all. This starts with the sources and is the assumption
  `GateAssumption` on the profiles they give: each of them records evidence of
  the description it sets (`sources.py:542`, `sources.py:729`, `sources.py:867`).

### The commercial analysis

`CommercialProofs`, for portfolios and payloads of any size:

- `HigherSalesScoreHigher`: `HigherValueNeverScoresLess`. The only part of a score
  that reads the sales is the percentile; of two customers the one with more
  sales comes after at least as many others (`Position`), and the
  division by the number of customers keeps that order (`DivisionGrows`).
- `SegmentsTellTheTruth`: `SegmentsAreAsTheySay`. `LifecycleTells` says what days each
  stage stands for; this needs that the limits of the stages are in order
  (`NewDays <= ActiveDays < RiskDays`), which the three constants of the code are.
- `OneRutOneCustomer`: `SameRutSameCustomer`, and `CustomersAreLinked`:
  `MergedOnlyByLink`. In `IdentityInv` the key of a customer is an identifier of
  the row that made it; an alias leads to a customer that has a row with it; and
  until the report is built, the RUT of a row that was read leads to the customer
  of that row: a RUT that is known decides before an e-mail and a phone do, so its
  alias never moves (those of e-mails and phones may).
  `build_commercial_report` makes a second index from the customers alone; it is a
  function of the portfolio because `ComesAfter` orders customers totally, so that
  the last of them to hold an identifier is one customer.
- `LocationsAreBest`: `LocationIsBest`. `PlaceOK` says, for the rows of a customer
  that tell a place, which of them it is at: the first company of the CRM,
  else the latest day of an invoice or order, else the first document
  without a day, else the first of the others; and that priority and day of
  verification are those of that row, except that the report starts
  the priorities anew, when companies are the only rows still to come.

### Finance, inventory and offers

`FinanceProofs`, for any finite set of documents, any books and any lines. The
model adds with `Total`, which takes the terms in an order that nothing tells.
`AnyTermLast` shows that the order does not matter: whichever term is last, a sum
is that term and the sum of the others. From it, a change of one term changes the
sum by as much (`TotalMoves`, `TotalAdds`), which is what every invariant below
needs.

- `DebtAlwaysReconciles`: `DebtReconciles`. Inductive once the types are added:
  one debt moves the total, one bucket and one customer by as much, and its bucket
  says of its day what the sums say (`BucketTells`).
- `SumsAlwaysAgree`: `SumsAgree`. `SumsOK` holds of the sales and of the purchases
  after each document; `AmountsOK` is what `_amounts` makes of any document.
- `YearsCompare`: `YearsAreComparable`. There is a latest day of what was read
  (`LatestOK`), no day comes after it, and a day of the year before is counted
  exactly when its twin of this year is (`YearBeforeOK`, for a cutoff on 29
  February too).
- `CreditsAreExact`: `SalesAreTheProducts`. `CreditNames` says when the lookup by
  code, nested code and unambiguous name gives a product; a product's units are
  then the sum of its own lines so far (`ProductOK`), and its last sale is in the
  period.
- `OffersAreTrue`: `OffersTellTheTruth`. `Tells` says what the history of a product
  knows of the lines read so far: the latest of their days, the documents they
  stand in, how many of those there are, and the sum of their units. One line more
  keeps it (`LineCounts`), the first line of a product included (`NothingBought`),
  and a line of another product does not touch it (`OtherLine`). A
  match is an item of the inventory or none (`MatchIsItem`): the choice of the best
  item of a family always finds one, as of finitely many items one has the most
  (`MostExists`, `BestIsItem`).

`SalesAssumption` says that the amounts of one document do not contradict each
other (`Coherent`: a net and a gross given with a tax differ by it; without a tax,
the net is not above the gross; a tax beside a gross alone is the one of the rate;
an exempt document has none), and that its date exists. The code does not check the
amounts: of a document whose net, tax and gross do not fit it keeps all three, and
the sums differ by as much. The division by month, day and partner does not rest on
it.

The other assumptions on the constants (`IdentityAssumption`, `ReportAssumption`,
`GateAssumption`, `CollectionsAssumption`, `InventoryAssumption`,
`ProductsAssumption`) give types to what is enumerated; TLC evaluates them on the instances.

### Only model-checked

The liveness properties (`RunEnds`, `EveryTaskEnds`, `CycleFollowsCycle`,
`EverySearchEnds`): fairness and ENABLED are out of the prover's reach. Every
invariant and every action property of the passing runs is stated by a theorem.

## 6. Findings

1. `ack_twice`. `mark_outbox_failed` (`store.py:1082`) tests no status. Two
   workers deliver the same batch; the first is acknowledged; the second one's
   answer is lost and its failure puts the delivered row back to `queued`. It is
   sent once more, answered from the ledger, and `crm_accepted` is incremented
   twice for one acceptance.
2. `retention_conflict`. The purge protects a body the CRM may know by looking at
   `attempt_count` (`retention.py:203`), which counts reported failures only. A
   commit followed by a stop of the process leaves it at 0: the body is
   rewritten and its replay is refused as a conflict.
3. `retention_left`. The purge only looks at `queued` rows and deletes only
   `delivered` ones: split, discarded and dead-lettered rows keep expired
   evidence.
4. `pagination`. `_is_explicit_last_page` (`hub/worker.py:906`) looks only at
   `next`, but accepts the presence of `next_page` or `nextPage` as the sign of
   an envelope that would tell: with those names the first page is the last.
5. `identifier`. `inventory.py:436` uses the loop variable of an earlier loop, so
   every product snapshot carries the identifier of the last product of its
   source; the match by `exact_product_id` (`commercial.py:891`) relies on it.
6. `saves_across`. `save_candidates` matches a company in the rows of every run
   and merges it into the row of its own (`store.py:827`), which may share none
   of the keys that matched. The merge raises and the task's save fails at every
   attempt. Within one run it cannot happen (`SavesOfOneRunSucceed`).
7. `pages_of_one_site`. Two pages of one website among Brave's results have two
   provider ids, which outrank their common domain: `merge_exact_candidate`
   raises in `_brave` (`sources.py:780`) and the search is lost with every query
   it paid for.

Met on the way, and not findings of a run: the connectivity check of the monitor
sends Brave a paid query that is not reserved (`monitor.py:76`), which is one of
the terms of `OverspendBounded`; `README.md:32-33` says that profiles of generic
categories enter a review, while `validation.py:220` rejects them. And a company
saved as `possible_duplicate` that is found again is compared with its own row as
well: it is an exact match of it, and the row's disposition becomes `exact_match`
(`store.py:832`) although nobody reviewed it, where `README.md:24-25` says that such
companies stay `possible_duplicate`. Its id goes on telling, and so it is the id
that `TwinsAreFlagged` reads.

## 7. Not modelled

Inside the modelled parts: several runs at once (the rows of a run are
independent outside of `Candidates`), enrichment claims,
`MemoryWorkerStore`, the limit of 50 rows of `get_outbox`, ties of `created_at`
between the two halves of a split, a claim without the list of tasks, failures of
the database other than the one between `finish_task` and its event, and equal
worker identities. The CRM is the one of the repository's fake: the real service
is outside it.

Of the budgets: `complete`, which only counts results, the alert, more than one
campaign (the searches of `BraveSearch` are those of one; other campaigns share
the lock and the monthly limit as further discovery queries would), and what
happens at the end of a month to Brave's usage, when the reconciliation of the
old month is no longer read.

Of the companies: branches beside the canonical location, their scoping to the
territory and their import eligibility (`store.py:307-520`), the hits that are
counted again when a known company is merged twice (`store.py:733`,
`dedup.py:287`), the compaction of evidence, the amounts of the scores.

Of the hub: `load_facto_details` with its cache and its pause after a 429, the
commercial monitor, the sizes of the batches of `hub/crm.py`, rankings,
the reconciliation of payments, marketing, geography and the wording of the
business agents. Rounding and decimals of amounts are not modelled.

Some hazards of the worker have no property yet: a row that the purge empties
while its delivery is in flight and that a retryable failure queues again
(`store.py:1092`); a second worker's split that dead-letters a row already split
(`worker.py:482`); a cancelled run whose terminal message goes out before its
candidates (`worker.py:513`); two replicas under one `crm_worker_id`
(`config.py:72`).

Other components: see the `note` of each in `PROJECT.json`.

## 8. Plan

In this order:

1. An abstract specification of what the outbox and the CRM promise together (a
   batch is taken in at most once, under one body, and nothing is confirmed that
   was not taken in), which `ProspectingWorker` implements, checked first and then
   proved from the invariants of `ProspectingWorkerProofs`.
2. Properties for the hazards of section 7 that have none.
