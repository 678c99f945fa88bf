------------------------------ MODULE HubProofs ------------------------------
(***************************************************************************)
(* Proofs about the loops of the agent hub.  HubMonitors: a round          *)
(* without an error leaves no slot of the day behind, for any number of    *)
(* slots, errors and restarts.  HubIntegration: no snapshot mixes cycles,  *)
(* and none presents unknown web sales as known, whatever requests fail.   *)
(* HubPaging: a load that ends by itself misses no record and, while the   *)
(* listing stands still, takes none twice, for any page size and limit.    *)
(* HubTasks: for any number of workers, tasks and faults, the consumer     *)
(* implements HubQueue, and two workers have one task only where the lease *)
(* of one of them was not kept.                                            *)
(***************************************************************************)
EXTENDS HubMonitors, HubIntegration, HubPaging, HubTasks, FiniteSetTheorems, TLAPS

-----------------------------------------------------------------------------
(* The executive monitor.                                                  *)

Rounds == [at : {"sleep", "schedule", "dispatch"}, now : Nat, slot : Nat, sent : Nat]

\* A round schedules the slots up to its own one after the other, and dispatches
\* only when it has them all.
RoundOK ==
    /\ round.at # "sleep" => round.now \in 1 .. Slots
    /\ round.at = "schedule" =>
         round.slot \in 1 .. round.now /\ \A s \in 1 .. round.now : s < round.slot => s \in scheduled
    /\ round.at = "dispatch" => 1 .. round.now \subseteq scheduled

MonitorsInv ==
    /\ clock \in 0 .. Closed
    /\ round \in Rounds
    /\ covered \in Nat
    /\ RoundOK
    /\ RoundRebuildsMissedSlots

\* The invariant holds before the first round.
LEMMA InitMonitors == MonitorsInit => MonitorsInv
  BY MonitorsAssumption
     DEF MonitorsInit, MonitorsInv, Rounds, RoundOK, RoundRebuildsMissedSlots, Sleeping, Closed

\* A round begins with the first slot.
LEMMA WakeInv == ASSUME MonitorsInv, Wake PROVE MonitorsInv'
  <1> USE MonitorsAssumption
  <1>1. CASE Window(clock)
    BY <1>1 DEF Wake, MonitorsInv, Rounds, RoundOK, RoundRebuildsMissedSlots, Window, FirstDue, Closed
  <1>2. CASE ~Window(clock)
    <2>1. covered' \in Nat /\ covered' \notin 1 .. Slots
      BY <1>2 DEF Wake, MonitorsInv, Window, Closed
    <2>2. QED BY <1>2, <2>1 DEF Wake, MonitorsInv, Rounds, RoundOK, RoundRebuildsMissedSlots, Closed
  <1>3. QED BY <1>1, <1>2

\* It is the only step that adds a slot, and it adds the next one.
LEMMA ScheduleInv == ASSUME MonitorsInv, Schedule PROVE MonitorsInv'
  <1> USE MonitorsAssumption
  <1>1. RoundRebuildsMissedSlots' /\ clock' \in 0 .. Closed /\ covered' \in Nat
    BY DEF Schedule, MonitorsInv, RoundRebuildsMissedSlots, Closed
  <1>2. round' \in Rounds /\ RoundOK'
    <2>1. CASE round' = Sleeping
      BY <2>1 DEF Rounds, RoundOK, Sleeping
    <2>2. CASE /\ scheduled' = scheduled \cup {round.slot}
               /\ round' = IF round.slot = round.now
                           THEN [round EXCEPT !.at = "dispatch"]
                           ELSE [round EXCEPT !.slot = @ + 1]
      BY <2>2 DEF Schedule, MonitorsInv, Rounds, RoundOK
    <2>3. QED BY <2>1, <2>2 DEF Schedule
  <1>3. QED BY <1>1, <1>2 DEF MonitorsInv

\* A round that ends after its dispatch has covered its part of the day.
LEMMA DispatchInv == ASSUME MonitorsInv, Dispatch PROVE MonitorsInv'
  <1> USE MonitorsAssumption
  <1>1. CASE round' = Sleeping
    BY <1>1 DEF Dispatch, EndRound, MonitorsInv, Rounds, RoundOK, RoundRebuildsMissedSlots,
                Sleeping, Closed
  <1>2. CASE round' = [round EXCEPT !.sent = @ + 1] /\ UNCHANGED covered
    BY <1>2 DEF Dispatch, MonitorsInv, Rounds, RoundOK, RoundRebuildsMissedSlots, Closed
  <1>3. QED BY <1>1, <1>2 DEF Dispatch, EndRound

\* Every step of a monitor keeps it.
LEMMA NextMonitors == MonitorsInv /\ [MonitorsNext]_monitorsVars => MonitorsInv'
  <1> SUFFICES ASSUME MonitorsInv, [MonitorsNext]_monitorsVars PROVE MonitorsInv'
    OBVIOUS
  <1> USE MonitorsAssumption
  <1>1. CASE Notify
    BY <1>1 DEF Notify, MonitorsInv, RoundOK, RoundRebuildsMissedSlots
  <1>2. CASE ClockMoves
    BY <1>2 DEF ClockMoves, MonitorsInv, RoundOK, RoundRebuildsMissedSlots, Closed
  <1>3. CASE Restart
    BY <1>3 DEF Restart, MonitorsInv, Rounds, RoundOK, RoundRebuildsMissedSlots, Sleeping
  <1>4. CASE UNCHANGED monitorsVars
    BY <1>4 DEF monitorsVars, MonitorsInv, RoundOK, RoundRebuildsMissedSlots
  <1>5. QED BY <1>1, <1>2, <1>3, <1>4, WakeInv, ScheduleInv, DispatchInv DEF MonitorsNext

\* Whatever requests failed and however often the hub was restarted before: after
\* a round without an error every slot up to its own is scheduled in the CRM.
THEOREM MissedSlotsAreRebuilt == MonitorsSpec => []RoundRebuildsMissedSlots
  <1>1. MonitorsInv => RoundRebuildsMissedSlots
    BY DEF MonitorsInv
  <1>2. QED BY <1>1, InitMonitors, NextMonitors, PTL DEF MonitorsSpec

-----------------------------------------------------------------------------
(* The integration monitor.                                                *)

\* Every list was read in this cycle or is empty.
OfThisCycle == \A x \in Lists : local[x] \in {0, cycle}

\* Where Tiendanube is enabled, the web channel is ready only once its orders
\* were read and recorded in this cycle.
WebReadyIsKnown ==
    /\ at = "record web" => local.webOrders = cycle
    /\ settings.tiendanube /\ local.webReady => local.webOrders = cycle /\ local.webRecorded

IntegrationInv ==
    /\ DOMAIN local = Lists \cup Flags
    /\ OfThisCycle
    /\ WebReadyIsKnown
    /\ SnapshotsOfOneCycle
    /\ InternetIsKnown

\* Nothing of the cycle before is left.
LEMMA FreshOK ==
    ASSUME NEW before
    PROVE  /\ DOMAIN Fresh(before) = Lists \cup Flags
           /\ \A x \in Lists : Fresh(before)[x] = 0
           /\ Fresh(before).webReady = ~settings.tiendanube
  BY DEF Fresh, Lists, Flags

\* The invariant holds before the first cycle.
LEMMA InitIntegration == IntegrationInit => IntegrationInv
  <1> SUFFICES ASSUME IntegrationInit PROVE IntegrationInv
    OBVIOUS
  <1>1. QED BY FreshOK DEF IntegrationInit, IntegrationInv, OfThisCycle, WebReadyIsKnown,
                          SnapshotsOfOneCycle, InternetIsKnown, Nothing

\* What a step may leave the variables of the cycle with.
Admissible(after) ==
    /\ DOMAIN after = Lists \cup Flags
    /\ \A x \in Lists : after[x] \in {0, cycle}
    /\ after.webReady = local.webReady /\ after.webRecorded = local.webRecorded
    /\ after.webOrders = local.webOrders

\* A step away from the web channel keeps the invariant.
LEMMA OffWeb ==
    ASSUME IntegrationInv, Admissible(local'), at' # "record web",
           UNCHANGED <<settings, cycle, financial, commercial>>
    PROVE  IntegrationInv'
  BY DEF IntegrationInv, Admissible, OfThisCycle, WebReadyIsKnown, SnapshotsOfOneCycle,
         InternetIsKnown

\* Reading a list of Facto, or raising a flag of it, is such a step; so is
\* leaving everything as it is.
LEMMA Reads ==
    ASSUME IntegrationInv
    PROVE  /\ Admissible(local)
           /\ \A x \in Lists \ {"webOrders"} : Admissible(Read(x))
           /\ \A f \in {"financialReady", "factoReady", "detailed"} :
                 Admissible([local EXCEPT ![f] = TRUE])
           /\ Admissible([local EXCEPT !.payments = 0])
           /\ Admissible([Read("sales") EXCEPT !.factoReady = TRUE])
           /\ Admissible([local EXCEPT !.documents = cycle, !.purchases = cycle])
  <1>1. DOMAIN local = Lists \cup Flags /\ \A x \in Lists : local[x] \in {0, cycle}
    BY DEF IntegrationInv, OfThisCycle
  <1>2. Admissible(local)
    BY <1>1 DEF Admissible
  <1>3. ASSUME NEW x \in Lists \ {"webOrders"} PROVE Admissible(Read(x))
    BY <1>1 DEF Admissible, Read, Lists, Flags
  <1>4. ASSUME NEW f \in {"financialReady", "factoReady", "detailed"}
        PROVE  Admissible([local EXCEPT ![f] = TRUE])
    BY <1>1 DEF Admissible, Lists, Flags
  <1>5. Admissible([local EXCEPT !.payments = 0])
    BY <1>1 DEF Admissible, Lists, Flags
  <1>6. Admissible([Read("sales") EXCEPT !.factoReady = TRUE])
    BY <1>1 DEF Admissible, Read, Lists, Flags
  <1>7. Admissible([local EXCEPT !.documents = cycle, !.purchases = cycle])
    BY <1>1 DEF Admissible, Lists, Flags
  <1>8. QED BY <1>2, <1>3, <1>4, <1>5, <1>6, <1>7

\* A step of the cycle that is tried, and may fail, keeps it.
LEMMA TryInv ==
    ASSUME IntegrationInv, NEW step, NEW after, NEW next, NEW handler,
           next # "record web", handler # "record web",
           Admissible(after), Try(step, after, next, handler)
    PROVE  IntegrationInv'
  BY Reads, OffWeb DEF Try

\* The steps that read Facto.
LEMMA FactoInv ==
    ASSUME IntegrationInv,
           \/ Facto \/ Products \/ Customers \/ RecordCustomers \/ Documents
           \/ RecordDocuments \/ RecordPurchases \/ Payments \/ RecordPayments
           \/ Receivables \/ Details \/ RecordDetails
    PROVE  IntegrationInv'
  <1>1. CASE Facto
    BY <1>1, TryInv, OffWeb, Reads DEF Facto, Reach
  <1>2. CASE Products
    BY <1>2, TryInv, Reads DEF Products
  <1>3. CASE Customers
    BY <1>3, TryInv, Reads DEF Customers, Lists
  <1>4. CASE RecordCustomers
    BY <1>4, TryInv, Reads DEF RecordCustomers
  <1>5. CASE Documents
    BY <1>5, TryInv, Reads DEF Documents, WithoutDocuments
  <1>6. CASE RecordDocuments
    BY <1>6, TryInv, Reads DEF RecordDocuments, WithoutDocuments
  <1>7. CASE RecordPurchases
    BY <1>7, TryInv, Reads DEF RecordPurchases, WithoutDocuments
  <1>8. CASE Payments
    BY <1>8, TryInv, Reads DEF Payments, Lists
  <1>9. CASE RecordPayments
    BY <1>9, TryInv, Reads DEF RecordPayments
  <1>10. CASE Receivables
    BY <1>10, TryInv, Reads DEF Receivables, Lists
  <1>11. CASE Details
    BY <1>11, TryInv, Reads DEF Details, WithoutDocuments
  <1>12. CASE RecordDetails
    BY <1>12, TryInv, Reads DEF RecordDetails, WithoutDocuments
  <1>13. QED BY <1>1, <1>2, <1>3, <1>4, <1>5, <1>6, <1>7, <1>8, <1>9, <1>10, <1>11, <1>12

\* The steps that read the web channel: its orders come before its record, which
\* alone makes it ready.
LEMMA WebInv ==
    ASSUME IntegrationInv, Web \/ WebCustomers \/ WebOrders \/ RecordWeb
    PROVE  IntegrationInv'
  <1>1. DOMAIN local = Lists \cup Flags /\ \A x \in Lists : local[x] \in {0, cycle}
    BY DEF IntegrationInv, OfThisCycle
  <1>2. CASE Web
    BY <1>2, TryInv, OffWeb, Reads DEF Web, Reach
  <1>3. CASE WebCustomers
    BY <1>3, TryInv, Reads DEF WebCustomers, Lists
  <1>4. CASE WebOrders
    <2>1. CASE local' = Read("webOrders") /\ at' = "record web"
      <3>1. /\ DOMAIN local' = Lists \cup Flags /\ \A x \in Lists : local'[x] \in {0, cycle}
            /\ local'.webOrders = cycle
            /\ local'.webReady = local.webReady /\ local'.webRecorded = local.webRecorded
        BY <1>1, <2>1 DEF Read, Lists, Flags
      <3>2. QED BY <1>4, <2>1, <3>1 DEF WebOrders, Try, IntegrationInv, OfThisCycle,
                   WebReadyIsKnown, SnapshotsOfOneCycle, InternetIsKnown
    <2>2. CASE UNCHANGED local /\ at' = "financial"
      BY <1>4, <2>2, OffWeb, Reads DEF WebOrders, Try
    <2>3. QED BY <1>4, <2>1, <2>2 DEF WebOrders, Try
  <1>5. CASE RecordWeb
    <2>1. CASE local' = [local EXCEPT !.webReady = TRUE, !.webRecorded = TRUE]
      <3>1. /\ DOMAIN local' = Lists \cup Flags /\ \A x \in Lists : local'[x] \in {0, cycle}
            /\ local'.webOrders = local.webOrders /\ local'.webRecorded
        BY <1>1, <2>1 DEF Lists, Flags
      <3>2. local.webOrders = cycle
        BY <1>5 DEF RecordWeb, Try, IntegrationInv, WebReadyIsKnown
      <3>3. QED BY <1>5, <3>1, <3>2 DEF RecordWeb, Try, IntegrationInv, OfThisCycle,
                   WebReadyIsKnown, SnapshotsOfOneCycle, InternetIsKnown
    <2>2. CASE UNCHANGED local
      BY <1>5, <2>2, OffWeb, Reads DEF RecordWeb, Try
    <2>3. QED BY <1>5, <2>1, <2>2 DEF RecordWeb, Try
  <1>6. QED BY <1>2, <1>3, <1>4, <1>5

\* A snapshot is built of the lists of the cycle.
LEMMA SnapshotOK ==
    ASSUME IntegrationInv, NEW internet \in BOOLEAN
    PROVE  /\ ~Snapshot(internet).stale
           /\ Snapshot(internet).internet = internet
           /\ Snapshot(internet).known = (local.webOrders = cycle /\ local.webRecorded)
  BY DEF Snapshot, IntegrationInv, OfThisCycle

\* A financial snapshot keeps it.
LEMMA FinancialInv == ASSUME IntegrationInv, Financial PROVE IntegrationInv'
  <1>1. InternetAvailable => local.webOrders = cycle /\ local.webRecorded
    BY DEF InternetAvailable, IntegrationInv, WebReadyIsKnown
  <1>2. financial' = Snapshot(InternetAvailable) =>
          ~financial'.stale /\ (financial'.internet => financial'.known)
    <2>1. InternetAvailable \in BOOLEAN
      BY DEF InternetAvailable
    <2>2. ~Snapshot(InternetAvailable).stale
      BY <2>1, SnapshotOK
    <2>3. Snapshot(InternetAvailable).internet => Snapshot(InternetAvailable).known
      <3>1. Snapshot(InternetAvailable).internet = InternetAvailable
        BY <2>1, SnapshotOK
      <3>2. Snapshot(InternetAvailable).known = (local.webOrders = cycle /\ local.webRecorded)
        BY <2>1, SnapshotOK
      <3>3. QED BY <1>1, <3>1, <3>2
    <2>4. QED BY <2>2, <2>3
  <1>3. QED BY <1>2 DEF Financial, IntegrationInv, OfThisCycle, WebReadyIsKnown,
               SnapshotsOfOneCycle, InternetIsKnown

\* The commercial snapshot, the inbox and the inventory keep it.
LEMMA CommercialInv ==
    ASSUME IntegrationInv, Commercial \/ RecordCommercial \/ Inbox \/ Inventory
    PROVE  IntegrationInv'
  <1>1. CASE Commercial
    BY <1>1, OffWeb, Reads DEF Commercial
  <1>2. CASE RecordCommercial
    <2>1. ~commercial'.stale
      BY <1>2, SnapshotOK DEF RecordCommercial, IntegrationInv, SnapshotsOfOneCycle
    <2>2. QED BY <1>2, <2>1 DEF RecordCommercial, IntegrationInv, OfThisCycle, WebReadyIsKnown,
                 SnapshotsOfOneCycle, InternetIsKnown
  <1>3. CASE Inbox
    BY <1>3, OffWeb, Reads DEF Inbox
  <1>4. CASE Inventory
    BY <1>4, OffWeb, Reads DEF Inventory, Lists
  <1>5. QED BY <1>1, <1>2, <1>3, <1>4

\* The next cycle begins with nothing.
LEMMA SleepInv == ASSUME IntegrationInv, Sleep PROVE IntegrationInv'
  BY FreshOK DEF Sleep, IntegrationInv, OfThisCycle, WebReadyIsKnown, SnapshotsOfOneCycle,
                 InternetIsKnown

\* Every step keeps it.
LEMMA NextIntegration == IntegrationInv /\ [IntegrationNext]_integrationVars => IntegrationInv'
  <1> SUFFICES ASSUME IntegrationInv, [IntegrationNext]_integrationVars PROVE IntegrationInv'
    OBVIOUS
  <1>1. CASE UNCHANGED integrationVars
    BY <1>1 DEF integrationVars, IntegrationInv, OfThisCycle, WebReadyIsKnown,
                SnapshotsOfOneCycle, InternetIsKnown
  <1>2. QED BY <1>1, FactoInv, WebInv, FinancialInv, CommercialInv, SleepInv DEF IntegrationNext

\* Whatever requests fail in a cycle, its snapshots use nothing that an earlier
\* cycle read.
THEOREM SnapshotsDoNotMix == IntegrationSpec => []SnapshotsOfOneCycle
  <1>1. IntegrationInv => SnapshotsOfOneCycle
    BY DEF IntegrationInv
  <1>2. QED BY <1>1, InitIntegration, NextIntegration, PTL DEF IntegrationSpec

\* A financial snapshot that tells the web channel has its orders, read and
\* recorded in the same cycle.
THEOREM WebSalesAreKnown == IntegrationSpec => []InternetIsKnown
  <1>1. IntegrationInv => InternetIsKnown
    BY DEF IntegrationInv
  <1>2. QED BY <1>1, InitIntegration, NextIntegration, PTL DEF IntegrationSpec

-----------------------------------------------------------------------------
(* The paginated loaders.                                                  *)

\* The issue number of the newest record that a request for the page gets.
Top(page) == held - (page - 1) * provider.size

Loads == [kind : Loaders, page : Nat \ {0}, rows : Seq(Int), seen : SUBSET Seq(Int),
          expected : Nat, status : {"loading", "done", "limit", "raised"}]

\* The loader and the provider keep to their types.
PagingTyped ==
    /\ provider \in Providers
    /\ held \in Nat /\ provider.held <= held
    /\ load \in Loads
    /\ load.expected <= provider.size

\* The first record of every page that was read is newer than the page to be
\* read can be, unless the listing moved by a page.
SeenAbove ==
    load.status = "loading" =>
        \A rows \in load.seen :
            rows # <<>> /\ rows[1] >= provider.held - (load.page - 2) * provider.size

\* The pages that were read hold every record above the page to be read.
ReadAbove ==
    load.status = "loading" =>
        \A r \in 1 .. provider.held : r > Top(load.page) => r \in ToSet(load.rows)

\* What the loads of a provider that pages as asked keep.
CoverInv == PagingTyped /\ (Pages => SeenAbove /\ ReadAbove /\ LoadsEveryRecord)

\* What a page holds: the records from the top down, no more than its size.
LEMMA PageHolds ==
    ASSUME PagingTyped, NEW page \in Nat \ {0}
    PROVE  /\ PageRows(page) \in Seq(Int)
           /\ \A r \in Int : 1 <= r /\ r <= Top(Served(page)) /\ r > Top(Served(page)) - provider.size =>
                 r \in ToSet(PageRows(page))
           /\ Len(PageRows(page)) <= provider.size
           /\ PageRows(page) # <<>> => Top(Served(page)) >= 1 /\ PageRows(page)[1] = Top(Served(page))
           /\ PageRows(page) = <<>> => Top(Served(page)) < 1
           /\ Len(PageRows(page)) < provider.size => Top(Served(page)) - provider.size < 1
           /\ \A i \in 1 .. Len(PageRows(page)) : PageRows(page)[i] = Top(Served(page)) + 1 - i
  <1> DEFINE top == Top(Served(page))
             size == provider.size
             low == IF top - size + 1 > 1 THEN top - size + 1 ELSE 1
             n == top - low + 1
  <1>1. size \in Nat \ {0} /\ top \in Int
    BY PagingAssumption DEF PagingTyped, Providers, Top, Served
  <1>2. PageRows(page) = [i \in 1 .. n |-> top + 1 - i]
    BY DEF PageRows, Served, Top
  <1> HIDE DEF top, size
  <1>3. n \in Int /\ n <= size /\ low \in Int /\ low >= 1
    BY <1>1
  <1>4. n < size => top - size < 1
    BY <1>1
  <1>5. n >= 1 <=> top >= 1
    BY <1>1
  <1>6. \A r \in Int : 1 <= r /\ r <= top /\ r > top - size => low <= r
    BY <1>1
  <1> HIDE DEF low
  <1>7. PageRows(page) \in Seq(Int) /\ Len(PageRows(page)) = IF n >= 1 THEN n ELSE 0
    <2>1. CASE n >= 1
      <3>1. n \in Nat /\ \A i \in 1 .. n : top + 1 - i \in Int
        BY <1>1, <1>3, <2>1
      <3>2. QED BY <1>2, <2>1, <3>1
    <2>2. CASE ~(n >= 1)
      <3>1. 1 .. n = {}
        BY <1>3, <2>2
      <3>2. PageRows(page) = <<>>
        BY <1>2, <3>1
      <3>3. QED BY <2>2, <3>2
    <2>3. QED BY <2>1, <2>2
  <1>8. ASSUME NEW r \in Int, 1 <= r, r <= top, r > top - size
        PROVE  r \in ToSet(PageRows(page))
    <2>1. low <= r
      BY <1>6, <1>8
    <2>2. top + 1 - r \in 1 .. n /\ top + 1 - (top + 1 - r) = r
      BY <1>1, <1>3, <1>8, <2>1
    <2>3. top + 1 - r \in DOMAIN PageRows(page) /\ PageRows(page)[top + 1 - r] = r
      BY <1>2, <2>2
    <2>4. QED BY <2>3 DEF ToSet
  <1>9. Len(PageRows(page)) <= size
    BY <1>1, <1>3, <1>7
  <1>10. ASSUME PageRows(page) # <<>>
         PROVE  top >= 1 /\ PageRows(page)[1] = top
    <2>1. n >= 1
      BY <1>7, <1>10
    <2>2. 1 \in 1 .. n
      BY <1>3, <2>1
    <2>3. PageRows(page)[1] = top + 1 - 1
      BY <1>2, <2>2
    <2>4. QED BY <1>1, <1>5, <2>1, <2>3
  <1>11. PageRows(page) = <<>> => top < 1
    <2>1. PageRows(page) = <<>> => Len(PageRows(page)) = 0
      OBVIOUS
    <2>2. QED BY <1>1, <1>3, <1>5, <1>7, <2>1
  <1>12. Len(PageRows(page)) < size => top - size < 1
    BY <1>1, <1>3, <1>4, <1>5, <1>7
  <1>13. \A i \in 1 .. Len(PageRows(page)) : PageRows(page)[i] = top + 1 - i
    <2>1. ASSUME NEW i \in 1 .. Len(PageRows(page))
          PROVE  i \in 1 .. n
      BY <1>3, <1>7
    <2>2. QED BY <1>2, <2>1
  <1>14. QED BY <1>7, <1>8, <1>9, <1>10, <1>11, <1>12, <1>13 DEF top, size


\* The step of a loader that got these rows: what ReadPage does, without the
\* test it takes as a parameter.
ReadMove(rows, repeated, last) ==
    /\ load.status = "loading"
    /\ load' = IF rows = <<>> \/ (repeated /\ rows \in load.seen)
               THEN [load EXCEPT !.status = "done"]
               ELSE [load EXCEPT !.rows = @ \o rows,
                                 !.seen = @ \cup {rows},
                                 !.expected = IF @ = 0 THEN Len(rows) ELSE @,
                                 !.page = @ + 1,
                                 !.status = IF last THEN "done"
                                            ELSE IF load.page = MaxPages THEN "limit"
                                            ELSE @]
    /\ UNCHANGED <<provider, held>>

\* Every loader stops at the last page the envelope announces, and where its
\* own test of a short page says so.
Stops(rows) ==
    \/ IsExplicitLastPage(load.page)
    \/ load.kind \in {"rows", "inbox"} /\ ShorterThanFirst(rows)
    \/ load.kind = "collection" /\ ShorterThanAsked(rows)

ReadsAPage == ReadRows \/ ReadInbox \/ ReadCollection \/ ReadDocuments

\* The four loaders differ in the repeated pages they know and in the test.
LEMMA ReadsMove ==
    ReadsAPage => ReadMove(PageRows(load.page), load.kind # "documents", Stops(PageRows(load.page)))
  <1>1. ReadRows \/ ReadInbox =>
            ReadMove(PageRows(load.page), load.kind # "documents", Stops(PageRows(load.page)))
    BY DEF ReadRows, ReadInbox, ReadPage, ReadMove, Seen, Stops
  <1>2. ReadCollection =>
            ReadMove(PageRows(load.page), load.kind # "documents", Stops(PageRows(load.page)))
    BY DEF ReadCollection, ReadPage, ReadMove, Seen, Stops
  <1>3. ReadDocuments =>
            ReadMove(PageRows(load.page), load.kind # "documents", Stops(PageRows(load.page)))
    BY DEF ReadDocuments, ReadPage, ReadMove, Seen, Stops
  <1>4. QED BY <1>1, <1>2, <1>3 DEF ReadsAPage


\* What a step that read a page leaves in the load, field by field.
LEMMA AfterRead ==
    ASSUME load \in Loads, NEW rows, NEW last \in BOOLEAN, NEW repeated \in BOOLEAN,
           ReadMove(rows, repeated, last)
    PROVE  /\ load.status = "loading" /\ provider' = provider /\ held' = held
           /\ load'.kind = load.kind
           /\ \/ /\ rows = <<>> \/ (repeated /\ rows \in load.seen)
                 /\ load' = [load EXCEPT !.status = "done"]
                 /\ load'.rows = load.rows /\ load'.status = "done"
                 /\ load'.seen = load.seen /\ load'.page = load.page
              \/ /\ rows # <<>> /\ ~(repeated /\ rows \in load.seen)
                 /\ load'.rows = load.rows \o rows
                 /\ load'.seen = load.seen \cup {rows}
                 /\ load'.page = load.page + 1
                 /\ load'.expected = IF load.expected = 0 THEN Len(rows) ELSE load.expected
                 /\ load'.status \in {"loading", "done", "limit"}
                 /\ load'.status = "done" => last
                 /\ load' = [kind |-> load.kind, page |-> load.page + 1,
                             rows |-> load.rows \o rows, seen |-> load.seen \cup {rows},
                             expected |-> load'.expected, status |-> load'.status]
  <1>1. load = [kind |-> load.kind, page |-> load.page, rows |-> load.rows, seen |-> load.seen,
                expected |-> load.expected, status |-> load.status]
    BY DEF Loads
  <1>2. CASE rows = <<>> \/ (repeated /\ rows \in load.seen)
    <2>1. load' = [load EXCEPT !.status = "done"]
      BY <1>2 DEF ReadMove
    <2>2. QED BY <1>1, <1>2, <2>1 DEF ReadMove, Loads
  <1>3. CASE ~(rows = <<>> \/ (repeated /\ rows \in load.seen))
    <2> DEFINE status == IF last THEN "done" ELSE IF load.page = MaxPages THEN "limit"
                                                  ELSE load.status
               expected == IF load.expected = 0 THEN Len(rows) ELSE load.expected
    <2>1. load' = [load EXCEPT !.rows = load.rows \o rows, !.seen = load.seen \cup {rows},
                               !.expected = expected, !.page = load.page + 1, !.status = status]
      BY <1>3 DEF ReadMove
    <2>2. status \in {"loading", "done", "limit"} /\ (status = "done" => last)
      BY DEF ReadMove
    <2> HIDE DEF status
    <2>3. load' = [kind |-> load.kind, page |-> load.page + 1, rows |-> load.rows \o rows,
                   seen |-> load.seen \cup {rows}, expected |-> expected, status |-> status]
      <3> HIDE DEF expected
      <3>1. QED BY <1>1, <2>1
    <2>4. /\ load'.kind = load.kind /\ load'.page = load.page + 1
          /\ load'.rows = load.rows \o rows /\ load'.seen = load.seen \cup {rows}
          /\ load'.expected = expected /\ load'.status = status
      <3> HIDE DEF expected
      <3>1. QED BY <2>3
    <2>5. QED BY <1>3, <2>2, <2>3, <2>4 DEF ReadMove
  <1>4. QED BY <1>2, <1>3

\* What two sequences one after the other hold.
LEMMA ConcatToSet ==
    ASSUME NEW a \in Seq(Int), NEW b \in Seq(Int)
    PROVE  ToSet(a \o b) = ToSet(a) \cup ToSet(b)
  <1>1. ToSet(a \o b) \subseteq ToSet(a) \cup ToSet(b)
    <2> SUFFICES ASSUME NEW i \in 1 .. Len(a \o b) PROVE (a \o b)[i] \in ToSet(a) \cup ToSet(b)
      BY DEF ToSet
    <2>1. CASE i <= Len(a)
      <3>1. i \in 1 .. Len(a) /\ (a \o b)[i] = a[i]
        BY <2>1
      <3>2. QED BY <3>1 DEF ToSet
    <2>2. CASE i > Len(a)
      <3>1. i - Len(a) \in 1 .. Len(b) /\ (a \o b)[i] = b[i - Len(a)]
        BY <2>2
      <3>2. QED BY <3>1 DEF ToSet
    <2>3. QED BY <2>1, <2>2
  <1>2. ASSUME NEW i \in 1 .. Len(a) PROVE a[i] \in ToSet(a \o b)
    <2>1. i \in 1 .. Len(a \o b) /\ (a \o b)[i] = a[i]
      OBVIOUS
    <2>2. QED BY <2>1 DEF ToSet
  <1>3. ASSUME NEW i \in 1 .. Len(b) PROVE b[i] \in ToSet(a \o b)
    <2>1. Len(a) + i \in DOMAIN (a \o b) /\ (a \o b)[Len(a) + i] = b[i]
      OBVIOUS
    <2>2. QED BY <2>1, Zenon DEF ToSet
  <1>4. DOMAIN a = 1 .. Len(a) /\ DOMAIN b = 1 .. Len(b)
    OBVIOUS
  <1>5. ToSet(a) \subseteq ToSet(a \o b) /\ ToSet(b) \subseteq ToSet(a \o b)
    <2>1. ASSUME NEW x \in ToSet(a) PROVE x \in ToSet(a \o b)
      <3>1. PICK i \in DOMAIN a : x = a[i]
        BY Zenon DEF ToSet
      <3>2. QED BY <1>2, <1>4, <3>1
    <2>2. ASSUME NEW x \in ToSet(b) PROVE x \in ToSet(a \o b)
      <3>1. PICK i \in DOMAIN b : x = b[i]
        BY Zenon DEF ToSet
      <3>2. QED BY <1>3, <1>4, <3>1
    <2>3. QED BY <2>1, <2>2
  <1>6. QED BY <1>1, <1>5

\* The load begins with nothing read.
LEMMA InitCover == PagingInit => CoverInv
  <1> SUFFICES ASSUME PagingInit PROVE CoverInv
    OBVIOUS
  <1>1. PICK kind \in Loaders :
           load = [kind |-> kind, page |-> 1, rows |-> <<>>, seen |-> {},
                   expected |-> 0, status |-> "loading"]
    BY DEF PagingInit
  <1>2. provider.size \in Nat \ {0} /\ provider.held \in Nat /\ held = provider.held
    BY PagingAssumption DEF PagingInit, Providers
  <1>3. PagingTyped
    <2>1. load \in Loads
      BY <1>1 DEF Loads
    <2>2. QED BY <1>1, <1>2, <2>1 DEF PagingTyped, PagingInit
  <1>4. SeenAbove
    BY <1>1 DEF SeenAbove
  <1>5. ReadAbove
    <2>1. load.page = 1
      BY <1>1
    <2>2. (1 - 1) * provider.size = 0
      BY <1>2
    <2>3. Top(load.page) = held - (1 - 1) * provider.size
      BY <2>1 DEF Top
    <2> HIDE DEF Top
    <2>4. Top(load.page) = held
      BY <1>2, <2>2, <2>3
    <2>5. QED BY <1>2, <2>4 DEF ReadAbove
  <1>6. LoadsEveryRecord
    BY <1>1 DEF LoadsEveryRecord
  <1>7. QED BY <1>3, <1>4, <1>5, <1>6 DEF CoverInv

\* The types of a step that reads.
LEMMA ReadTyped ==
    ASSUME PagingTyped, ReadsAPage PROVE PagingTyped'
  <1> DEFINE q == PageRows(load.page)
  <1>1. load \in Loads /\ load.page \in Nat \ {0}
    BY DEF PagingTyped, Loads
  <1>2. q \in Seq(Int) /\ Len(q) <= provider.size
    BY <1>1, PageHolds
  <1>3. ReadMove(q, load.kind # "documents", Stops(q))
    BY ReadsMove
  <1>4. Stops(q) \in BOOLEAN
    BY DEF Stops
  <1> HIDE DEF q
  <1>5. provider' = provider /\ held' = held
    BY <1>3 DEF ReadMove
  <1>6. CASE load' = [load EXCEPT !.status = "done"]
    <2>1. load' \in Loads
      BY <1>1, <1>6 DEF Loads
    <2>2. load'.expected = load.expected
      BY <1>1, <1>6 DEF Loads
    <2>3. QED BY <1>5, <2>1, <2>2 DEF PagingTyped
  <1>7. CASE load' # [load EXCEPT !.status = "done"]
    <2>1. /\ load'.expected = IF load.expected = 0 THEN Len(q) ELSE load.expected
          /\ load'.status \in {"loading", "done", "limit"}
          /\ load' = [kind |-> load.kind, page |-> load.page + 1,
                      rows |-> load.rows \o q, seen |-> load.seen \cup {q},
                      expected |-> load'.expected, status |-> load'.status]
      BY <1>1, <1>3, <1>4, <1>7, AfterRead
    <2>2. load'.expected \in Nat /\ load'.expected <= provider.size
      BY <1>1, <1>2, <2>1 DEF PagingTyped, Loads
    <2>3. load.rows \o q \in Seq(Int) /\ load.seen \cup {q} \in SUBSET Seq(Int)
      BY <1>1, <1>2 DEF Loads
    <2>4. load' \in Loads
      <3>1. \A e \in Nat, s \in {"loading", "done", "limit"} :
               [kind |-> load.kind, page |-> load.page + 1, rows |-> load.rows \o q,
                seen |-> load.seen \cup {q}, expected |-> e, status |-> s] \in Loads
        BY <1>1, <2>3 DEF Loads
      <3>2. QED BY <2>1, <2>2, <3>1
    <2>5. QED BY <1>5, <2>2, <2>4 DEF PagingTyped
  <1>8. QED BY <1>6, <1>7


\* A page that the envelope or the loader's test calls the last leaves nothing.
LEMMA LastLeavesNothing ==
    ASSUME PagingTyped, Pages, "next_page" \notin Envelopes, NEW q, q = PageRows(load.page),
           Stops(q)
    PROVE  Top(load.page) - provider.size < 1
  <1> DEFINE page == load.page
             size == provider.size
  <1>1. page \in Nat \ {0} /\ size \in Nat \ {0} /\ held \in Nat /\ Served(page) = page
    BY PagingAssumption DEF PagingTyped, Loads, Providers, Pages, Served
  <1>2. Len(q) < size => Top(page) - size < 1
    BY <1>1, PageHolds
  <1>3. Len(q) \in Nat
    BY <1>1, PageHolds
  <1>4. CASE IsExplicitLastPage(page)
    <2>1. provider.envelope # "next_page"
      BY DEF PagingTyped, Providers
    <2>2. page >= LastPage
      <3>1. LastPage \in Int
        BY <1>1 DEF LastPage
      <3>2. QED BY <1>1, <1>4, <2>1, <3>1 DEF IsExplicitLastPage, HasNext
    <2>3. held <= page * size
      <3>1. held + size - 1 < (((held + size - 1) \div size) + 1) * size
        <4>1. \A a \in Int, b \in Nat \ {0} : a < ((a \div b) + 1) * b
          BY SMT
        <4>2. held + size - 1 \in Int
          BY <1>1
        <4>3. QED BY <1>1, <4>1, <4>2
      <3>2. LastPage \in Int /\ held + size - 1 < (LastPage + 1) * size
        BY <1>1, <3>1 DEF LastPage
      <3>3. (LastPage + 1) * size <= (page + 1) * size
        <4>1. \A a, b \in Int, c \in Nat : a <= b => a * c <= b * c
          BY SMT
        <4>2. LastPage + 1 <= page + 1 /\ LastPage + 1 \in Int /\ page + 1 \in Int
          BY <1>1, <2>2, <3>2
        <4>3. QED BY <1>1, <4>1, <4>2
      <3>4. (page + 1) * size = page * size + size /\ page * size \in Int
        BY <1>1
      <3>5. (LastPage + 1) * size \in Int
        BY <1>1, <3>2
      <3>6. QED BY <1>1, <3>2, <3>3, <3>4, <3>5
    <2>4. Top(page) - size = held - page * size
      BY <1>1 DEF Top
    <2>5. page * size \in Int
      BY <1>1
    <2>6. QED BY <1>1, <2>3, <2>4, <2>5
  <1>5. CASE ShorterThanFirst(q)
    BY <1>1, <1>2, <1>3, <1>5 DEF ShorterThanFirst, PagingTyped, Loads
  <1>6. CASE load.kind = "collection" /\ ShorterThanAsked(q)
    BY <1>1, <1>2, <1>3, <1>6 DEF ShorterThanAsked, Pages
  <1>7. QED BY <1>4, <1>5, <1>6 DEF Stops


\* Reading a page of a provider that pages as asked covers what it served.
LEMMA ReadCovers ==
    ASSUME CoverInv, "next_page" \notin Envelopes, ReadsAPage
    PROVE  CoverInv'
  <1> DEFINE q == PageRows(load.page)
             page == load.page
             size == provider.size
             repeated == load.kind # "documents"
  <1>1. PagingTyped
    BY DEF CoverInv
  <1>2. PagingTyped'
    BY <1>1, ReadTyped
  <1>3. load \in Loads /\ page \in Nat \ {0} /\ size \in Nat \ {0} /\ held \in Nat
        /\ provider.held \in Nat
    BY <1>1, PagingAssumption DEF PagingTyped, Loads, Providers
  <1>4. Stops(q) \in BOOLEAN /\ repeated \in BOOLEAN
    BY DEF Stops
  <1>5. ReadMove(q, repeated, Stops(q))
    BY ReadsMove
  <1>6. load.status = "loading" /\ provider' = provider /\ held' = held /\ load'.kind = load.kind
    BY <1>3, <1>4, <1>5, AfterRead
  <1> SUFFICES ASSUME Pages' PROVE (SeenAbove /\ ReadAbove /\ LoadsEveryRecord)'
    BY <1>2 DEF CoverInv
  <1>7. Pages
    BY <1>6 DEF Pages
  <1>8. SeenAbove /\ ReadAbove
    BY <1>7 DEF CoverInv
  <1>9. Served(page) = page
    BY <1>7 DEF Pages, Served
  <1>10. /\ q \in Seq(Int)
         /\ \A r \in Int : 1 <= r /\ r <= Top(page) /\ r > Top(page) - size => r \in ToSet(q)
         /\ q # <<>> => q[1] = Top(page)
         /\ q = <<>> => Top(page) < 1
    BY <1>1, <1>3, <1>9, PageHolds
  <1>11. Top(page) \in Int /\ Top(page) - size = held - page * size /\ page * size \in Int
         /\ (page - 1) * size \in Int /\ (page - 2) * size = (page - 1) * size - size
         /\ Top(page) = held - (page - 1) * size
    BY <1>3 DEF Top
  <1>12. Stops(q) => Top(page) - size < 1
    BY <1>1, <1>7, LastLeavesNothing
  <1>13. \A r \in 1 .. provider.held : r > Top(page) => r \in ToSet(load.rows)
    BY <1>6, <1>8 DEF ReadAbove
  <1>14. CASE /\ q = <<>> \/ (repeated /\ q \in load.seen)
              /\ load'.rows = load.rows /\ load'.status = "done"
    <2>1. Top(page) < 1
      <3>1. CASE q = <<>>
        BY <1>10, <3>1
      <3>2. CASE q # <<>> /\ q \in load.seen
        <4>1. Top(page) >= provider.held - (page - 2) * size
          BY <1>6, <1>8, <1>10, <3>2 DEF SeenAbove
        <4>2. held - provider.held < size
          BY <1>7 DEF Pages
        <4> HIDE DEF page, size
        <4>3. QED BY <1>3, <1>11, <4>1, <4>2
      <3>3. QED BY <1>14, <3>1, <3>2
    <2>2. 1 .. provider.held \subseteq ToSet(load.rows)
      BY <1>3, <1>11, <1>13, <2>1
    <2>3. QED BY <1>6, <1>14, <2>2 DEF SeenAbove, ReadAbove, LoadsEveryRecord
  <1>15. CASE /\ q # <<>>
              /\ load'.rows = load.rows \o q
              /\ load'.seen = load.seen \cup {q}
              /\ load'.page = page + 1
              /\ load'.status = "done" => Stops(q)
    <2>1. ToSet(load'.rows) = ToSet(load.rows) \cup ToSet(q)
      <3>1. load.rows \in Seq(Int)
        BY <1>3 DEF Loads
      <3>2. QED BY <1>10, <1>15, <3>1, ConcatToSet
    <2>2. \A r \in 1 .. provider.held : r > Top(page) - size => r \in ToSet(load'.rows)
      <3> SUFFICES ASSUME NEW r \in 1 .. provider.held, r > Top(page) - size
                   PROVE  r \in ToSet(load'.rows)
        OBVIOUS
      <3>1. CASE r > Top(page)
        BY <1>13, <2>1, <3>1
      <3>2. CASE r <= Top(page)
        BY <1>3, <1>10, <2>1, <3>2
      <3>3. QED BY <1>11, <3>1, <3>2
    <2>3. Top(load.page)' = Top(page) - size
      <3>1. Top(load.page)' = held - (page + 1 - 1) * size
        <4>1. Top(load.page)' = held' - (load'.page - 1) * provider'.size
          BY Zenon DEF Top
        <4>2. load'.page = page + 1 /\ provider'.size = size /\ held' = held
          BY <1>6, <1>15
        <4> HIDE DEF page, size
        <4>3. QED BY <1>3, <4>1, <4>2
      <3>2. page + 1 - 1 = page
        BY <1>3
      <3>3. QED BY <1>11, <3>1, <3>2
    <2>4. ReadAbove'
      BY <1>6, <2>2, <2>3 DEF ReadAbove
    <2>5. SeenAbove'
      <3> SUFFICES ASSUME NEW rows \in load'.seen
                   PROVE  rows # <<>> /\ rows[1] >= provider.held - (page + 1 - 2) * size
        <4>1. load'.page = page + 1 /\ provider'.size = size /\ provider'.held = provider.held
          BY <1>6, <1>15
        <4>2. (load'.page - 2) * provider'.size = (page + 1 - 2) * size
          <5> HIDE DEF page, size
          <5>1. QED BY <1>3, <4>1
        <4>3. ASSUME NEW r \in load'.seen
              PROVE  r # <<>> /\ r[1] >= provider'.held - (load'.page - 2) * provider'.size
          <5>1. r # <<>> /\ r[1] >= provider.held - (page + 1 - 2) * size
            OBVIOUS
          <5> HIDE DEF page, size
          <5>2. QED BY <4>1, <4>2, <5>1
        <4>4. QED BY <4>3, Zenon DEF SeenAbove
      <3>1. (page + 1 - 2) * size = (page - 1) * size
        <4>1. page + 1 - 2 = page - 1
          BY <1>3
        <4>2. QED BY <4>1
      <3>2. CASE rows \in load.seen
        <4>1. rows # <<>> /\ rows[1] >= provider.held - (page - 2) * size
          BY <1>6, <1>8, <3>2 DEF SeenAbove
        <4>2. rows \in Seq(Int)
          BY <1>3, <3>2 DEF Loads
        <4>3. rows[1] \in Int
          BY <4>1, <4>2
        <4> HIDE DEF page, size
        <4>4. QED BY <1>3, <1>11, <3>1, <4>1, <4>3
      <3>3. CASE rows = q
        <4>1. rows # <<>> /\ rows[1] = Top(page)
          BY <1>10, <1>15, <3>3
        <4>2. provider.held <= held
          BY <1>1 DEF PagingTyped
        <4> HIDE DEF page, size
        <4>3. QED BY <1>3, <1>11, <3>1, <4>1, <4>2
      <3>4. QED BY <1>15, <3>2, <3>3
    <2>6. LoadsEveryRecord'
      <3> SUFFICES ASSUME load'.status = "done" PROVE 1 .. provider.held \subseteq ToSet(load'.rows)
        BY <1>6 DEF LoadsEveryRecord
      <3>1. Top(page) - size < 1
        BY <1>12, <1>15
      <3>2. QED BY <1>3, <1>11, <2>2, <3>1
    <2>7. QED BY <2>4, <2>5, <2>6
  <1> HIDE DEF q, repeated
  <1>16. QED BY <1>3, <1>4, <1>5, <1>14, <1>15, AfterRead


\* A request that raises ends the load without its rows.
LEMMA FailTyped == ASSUME PagingTyped, PageFails PROVE PagingTyped' /\ load'.status = "raised"
  <1>1. load' = [load EXCEPT !.status = "raised", !.rows = <<>>]
    BY DEF PageFails
  <1>2. load' \in Loads /\ load'.expected = load.expected /\ load'.status = "raised"
    <2>1. load' = [kind |-> load.kind, page |-> load.page, rows |-> <<>>, seen |-> load.seen,
                   expected |-> load.expected, status |-> "raised"]
      BY <1>1 DEF PagingTyped, Loads
    <2>2. <<>> \in Seq(Int)
      OBVIOUS
    <2>3. load' \in Loads
      BY <2>1, <2>2 DEF PagingTyped, Loads
    <2>4. QED BY <2>1, <2>3
  <1>3. QED BY <1>2 DEF PagingTyped, PageFails

\* A record issued while the load runs.
LEMMA IssueTyped == ASSUME PagingTyped, Issue PROVE PagingTyped' /\ held' # provider'.held
  <1>1. held' = held + 1 /\ provider' = provider /\ load' = load
    BY DEF Issue
  <1>2. provider.held \in Nat
    BY PagingAssumption DEF PagingTyped, Providers
  <1>3. QED BY <1>1, <1>2 DEF PagingTyped

\* A record issued between two requests moves the listing up by one: what was
\* above the next page still is.
LEMMA IssueCovers == ASSUME CoverInv, Issue PROVE CoverInv'
  <1>1. held' = held + 1 /\ provider' = provider /\ load' = load /\ load.status = "loading"
    BY DEF Issue
  <1>2. provider.held \in Nat /\ held \in Nat /\ provider.size \in Nat \ {0} /\ load.page \in Nat
    BY PagingAssumption DEF CoverInv, PagingTyped, Providers, Loads
  <1>3. PagingTyped'
    BY IssueTyped DEF CoverInv
  <1>4. ASSUME Pages' PROVE (SeenAbove /\ ReadAbove /\ LoadsEveryRecord)'
    <2>1. Pages
      BY <1>1, <1>2, <1>4 DEF Pages
    <2>2. SeenAbove /\ ReadAbove
      BY <2>1 DEF CoverInv
    <2>3. SeenAbove'
      BY <1>1, <2>2 DEF SeenAbove
    <2>4. Top(load.page)' = Top(load.page) + 1 /\ Top(load.page) \in Int
      <3>1. (load.page - 1) * provider.size \in Int
        BY <1>2
      <3>2. Top(load.page)' = held + 1 - (load.page - 1) * provider.size
        <4>1. Top(load.page)' = held' - (load.page - 1) * provider.size
          BY <1>1, Zenon DEF Top
        <4>2. held' = held + 1
          BY <1>1
        <4>3. QED BY <1>2, <3>1, <4>1, <4>2
      <3>3. QED BY <1>2, <3>1, <3>2 DEF Top
    <2>5. ReadAbove'
      BY <1>1, <1>2, <2>2, <2>4 DEF ReadAbove
    <2>6. LoadsEveryRecord'
      BY <1>1 DEF LoadsEveryRecord
    <2>7. QED BY <2>3, <2>5, <2>6
  <1>5. QED BY <1>3, <1>4 DEF CoverInv

\* Every step keeps it.
LEMMA NextCovers ==
    ASSUME CoverInv, "next_page" \notin Envelopes, [PagingNext]_pagingVars
    PROVE  CoverInv'
  <1>1. CASE ReadsAPage
    BY <1>1, ReadCovers
  <1>2. CASE PageFails
    <2>1. PagingTyped' /\ load'.status = "raised"
      BY <1>2, FailTyped DEF CoverInv
    <2>2. QED BY <2>1 DEF CoverInv, SeenAbove, ReadAbove, LoadsEveryRecord
  <1>3. CASE Issue
    BY <1>3, IssueCovers
  <1>4. CASE UNCHANGED pagingVars
    BY <1>4 DEF pagingVars, CoverInv, PagingTyped, Pages, SeenAbove, ReadAbove, Top,
                LoadsEveryRecord
  <1>5. QED BY <1>1, <1>2, <1>3, <1>4 DEF PagingNext, ReadsAPage

\* A load that ended by itself holds every record that existed when it began,
\* for any page size, limit and number of records, with every envelope but the
\* one whose "next_page" key the loaders look for and do not read.
THEOREM EveryRecordIsLoaded ==
    ASSUME "next_page" \notin Envelopes
    PROVE  PagingSpec => []LoadsEveryRecord
  <1>1. CoverInv /\ [PagingNext]_pagingVars => CoverInv'
    BY NextCovers
  <1>2. CoverInv /\ Pages => LoadsEveryRecord
    BY DEF CoverInv
  <1>3. ~Pages => LoadsEveryRecord
    BY DEF LoadsEveryRecord
  <1>4. QED BY <1>1, <1>2, <1>3, InitCover, PTL DEF PagingSpec

-----------------------------------------------------------------------------
\* While the listing stands still, the rows are the newest records counted down
\* from the first; and of a provider that ignores the page number, the first
\* page is read once.
Counted ==
    load.kind # "documents" /\ held = provider.held =>
        /\ \A i \in 1 .. Len(load.rows) : load.rows[i] = held + 1 - i
        /\ load.status = "loading" /\ load.rows # <<>> /\ provider.ignores =>
              PageRows(1) \in load.seen
        /\ load.status = "loading" /\ ~provider.ignores /\ Top(load.page) >= 1 =>
              Len(load.rows) = (load.page - 1) * provider.size

CountInv == PagingTyped /\ Counted

\* Rows counted down are all different.
LEMMA CountedOnce == ASSUME CountInv PROVE TakesEachRecordOnce
  <1> SUFFICES ASSUME load.kind # "documents", held = provider.held
               PROVE  Len(load.rows) = Cardinality(ToSet(load.rows))
    BY DEF TakesEachRecordOnce
  <1> DEFINE n == Len(load.rows)
  <1>1. n \in Nat /\ held \in Nat /\ DOMAIN load.rows = 1 .. n
    BY DEF CountInv, PagingTyped, Loads
  <1>2. \A i \in 1 .. n : load.rows[i] = held + 1 - i
    BY DEF CountInv, Counted
  <1> HIDE DEF n
  <1>3. ToSet(load.rows) = (held + 1 - n) .. held
    <2>1. ASSUME NEW x \in ToSet(load.rows) PROVE x \in (held + 1 - n) .. held
      <3>1. PICK i \in DOMAIN load.rows : x = load.rows[i]
        BY Zenon DEF ToSet
      <3>2. QED BY <1>1, <1>2, <3>1
    <2>2. ASSUME NEW x \in (held + 1 - n) .. held PROVE x \in ToSet(load.rows)
      <3>1. held + 1 - x \in 1 .. n /\ held + 1 - (held + 1 - x) = x
        BY <1>1
      <3>2. held + 1 - x \in DOMAIN load.rows /\ load.rows[held + 1 - x] = x
        BY <1>1, <1>2, <3>1
      <3>3. QED BY <3>2, Zenon DEF ToSet
    <2>3. QED BY <2>1, <2>2
  <1>4. Cardinality((held + 1 - n) .. held) = n
    <2>1. held + 1 - n \in Int /\ held \in Int
      BY <1>1
    <2>2. Cardinality((held + 1 - n) .. held) =
              IF held + 1 - n > held THEN 0 ELSE held - (held + 1 - n) + 1
      BY <2>1, FS_Interval
    <2>3. QED BY <1>1, <2>2
  <1>5. QED BY <1>3, <1>4 DEF n


\* The count holds before the first request.
LEMMA InitCount == PagingInit => CountInv
  <1> SUFFICES ASSUME PagingInit PROVE Counted
    BY InitCover DEF CountInv, CoverInv
  <1>1. load.rows = <<>> /\ load.page = 1
    BY DEF PagingInit
  <1>2. Len(load.rows) = 0 /\ provider.size \in Nat
    BY <1>1, PagingAssumption DEF PagingInit, Providers
  <1>3. (1 - 1) * provider.size = 0
    BY <1>2
  <1>4. Len(load.rows) = (load.page - 1) * provider.size
    BY <1>1, <1>2, <1>3
  <1>5. QED BY <1>1, <1>2, <1>4 DEF Counted

\* Reading a page goes on counting, or ends the load.
LEMMA ReadCounts == ASSUME CountInv, ReadsAPage PROVE CountInv'
  <1> DEFINE q == PageRows(load.page)
             page == load.page
             size == provider.size
             repeated == load.kind # "documents"
  <1>1. PagingTyped
    BY DEF CountInv
  <1>2. PagingTyped'
    BY <1>1, ReadTyped
  <1>3. load \in Loads /\ page \in Nat \ {0} /\ size \in Nat \ {0} /\ held \in Nat
        /\ load.rows \in Seq(Int)
    BY <1>1, PagingAssumption DEF PagingTyped, Loads, Providers
  <1>4. Stops(q) \in BOOLEAN /\ repeated \in BOOLEAN
    BY DEF Stops
  <1>5. ReadMove(q, repeated, Stops(q))
    BY ReadsMove
  <1>6. load.status = "loading" /\ provider' = provider /\ held' = held /\ load'.kind = load.kind
    BY <1>3, <1>4, <1>5, AfterRead
  <1> SUFFICES ASSUME load.kind # "documents", held = provider.held PROVE Counted'
    BY <1>2, <1>6 DEF CountInv, Counted
  <1>7. \A i \in 1 .. Len(load.rows) : load.rows[i] = held + 1 - i
    BY DEF CountInv, Counted
  <1>8. /\ load.rows # <<>> /\ provider.ignores => PageRows(1) \in load.seen
        /\ ~provider.ignores /\ Top(page) >= 1 => Len(load.rows) = (page - 1) * size
    BY <1>6 DEF CountInv, Counted
  <1>9. /\ q \in Seq(Int) /\ Len(q) <= size
        /\ q # <<>> => Top(Served(page)) >= 1
        /\ Len(q) < size => Top(Served(page)) - size < 1
        /\ \A i \in 1 .. Len(q) : q[i] = Top(Served(page)) + 1 - i
    BY <1>1, <1>3, PageHolds
  <1>10. CASE load'.rows = load.rows /\ load'.status = "done"
    <2>1. \A i \in 1 .. Len(load'.rows) : load'.rows[i] = held' + 1 - i
      BY <1>6, <1>7, <1>10
    <2>2. QED BY <1>10, <2>1 DEF Counted
  <1>11. CASE /\ q # <<>> /\ q \notin load.seen
              /\ load'.rows = load.rows \o q
              /\ load'.seen = load.seen \cup {q}
              /\ load'.page = page + 1
    <2>1. CASE provider.ignores
      <3>1. Served(page) = 1 /\ q = PageRows(1)
        BY <2>1 DEF Served, PageRows
      <3>2. load.rows = <<>>
        BY <1>8, <1>11, <2>1, <3>1
      <3>3. load'.rows = q
        BY <1>9, <1>11, <3>2
      <3>4. Top(1) = held
        <4>1. (1 - 1) * size = 0
          BY <1>3
        <4>2. Top(1) = held - (1 - 1) * size
          BY DEF Top
        <4> HIDE DEF Top
        <4>3. QED BY <1>3, <4>1, <4>2
      <3>5. \A i \in 1 .. Len(load'.rows) : load'.rows[i] = held' + 1 - i
        BY <1>6, <1>9, <3>1, <3>3, <3>4
      <3>6. PageRows(1)' = PageRows(1)
        BY <1>6 DEF PageRows, Served
      <3>7. PageRows(1)' \in load'.seen
        BY <1>11, <3>1, <3>6
      <3>8. provider'.ignores
        BY <1>6, <2>1
      <3>9. QED BY <3>5, <3>7, <3>8 DEF Counted
    <2>2. CASE ~provider.ignores
      <3>1. Served(page) = page
        BY <2>2 DEF Served
      <3>2. Top(page) = held - (page - 1) * size /\ (page - 1) * size \in Nat
        <4>1. page - 1 \in Nat
          BY <1>3
        <4>2. \A a, b \in Nat : a * b \in Nat
          OBVIOUS
        <4>3. (page - 1) * size \in Nat
          BY <1>3, <4>1, <4>2
        <4>4. QED BY <4>3 DEF Top
      <3>3. Len(load.rows) = (page - 1) * size
        BY <1>8, <1>9, <1>11, <2>2, <3>1
      <3>4. ASSUME NEW i \in 1 .. Len(load.rows \o q)
            PROVE  (load.rows \o q)[i] = held + 1 - i
        <4>1. CASE i <= Len(load.rows)
          <5>1. i \in 1 .. Len(load.rows) /\ (load.rows \o q)[i] = load.rows[i]
            BY <1>3, <1>9, <4>1
          <5>2. QED BY <1>7, <5>1
        <4>2. CASE i > Len(load.rows)
          <5>1. /\ i - Len(load.rows) \in 1 .. Len(q)
                /\ (load.rows \o q)[i] = q[i - Len(load.rows)]
            <6>1. \A a, b \in Seq(Int) : \A k \in 1 .. Len(a \o b) : k > Len(a) =>
                     k - Len(a) \in 1 .. Len(b) /\ (a \o b)[k] = b[k - Len(a)]
              OBVIOUS
            <6> HIDE DEF q
            <6>2. QED BY <1>3, <1>9, <4>2, <6>1
          <5>2. (load.rows \o q)[i] = Top(page) + 1 - (i - Len(load.rows))
            BY <1>9, <3>1, <5>1
          <5> HIDE DEF page, size
          <5>3. QED BY <1>3, <3>2, <3>3, <5>2
        <4>3. QED BY <4>1, <4>2
      <3>5. \A i \in 1 .. Len(load'.rows) : load'.rows[i] = held' + 1 - i
        BY <1>6, <1>11, <3>4
      <3>6. Top(load.page)' = Top(page) - size
        <4>1. Top(load.page)' = held' - (load'.page - 1) * provider'.size
          BY Zenon DEF Top
        <4>2. load'.page = page + 1 /\ provider'.size = size /\ held' = held
          BY <1>6, <1>11
        <4>3. (page + 1 - 1) * size = (page - 1) * size + size
          BY <1>3
        <4> HIDE DEF page, size
        <4>4. Top(load.page)' = held - (page + 1 - 1) * size
          BY <1>3, <4>1, <4>2
        <4>5. QED BY <1>3, <3>2, <4>3, <4>4
      <3>7. ASSUME Top(load.page)' >= 1 PROVE Len(load'.rows) = (load'.page - 1) * provider'.size
        <4>1. Len(q) = size
          <5>1. Top(page) - size >= 1 /\ Top(page) \in Int /\ Len(q) \in Nat
            BY <1>3, <1>9, <3>2, <3>6, <3>7
          <5>2. Served(page) = page
            BY <3>1
          <5>3. ~(Len(q) < size)
            BY <1>3, <1>9, <5>1, <5>2
          <5> HIDE DEF q, size
          <5>4. QED BY <1>3, <1>9, <5>1, <5>3
        <4>2. Len(load'.rows) = Len(load.rows) + Len(q)
          BY <1>3, <1>9, <1>11
        <4>3. (page + 1 - 1) * size = (page - 1) * size + size
          BY <1>3
        <4>4. load'.page = page + 1 /\ provider'.size = size
          BY <1>6, <1>11
        <4> HIDE DEF page, size
        <4>5. (load'.page - 1) * provider'.size = (page + 1 - 1) * size
          BY <1>3, <4>4
        <4>6. QED BY <3>3, <4>1, <4>2, <4>3, <4>5
      <3>8. ~provider'.ignores
        BY <1>6, <2>2
      <3> HIDE DEF page, size
      <3>9. QED BY <3>5, <3>7, <3>8 DEF Counted
    <2>3. QED BY <2>1, <2>2
  <1> HIDE DEF q
  <1>12. QED BY <1>3, <1>4, <1>5, <1>10, <1>11, AfterRead

\* Every step keeps the count.
LEMMA NextCounts == CountInv /\ [PagingNext]_pagingVars => CountInv'
  <1> SUFFICES ASSUME CountInv, [PagingNext]_pagingVars PROVE CountInv'
    OBVIOUS
  <1>1. CASE ReadsAPage
    BY <1>1, ReadCounts
  <1>2. CASE PageFails
    <2>1. PagingTyped' /\ load'.status = "raised"
      BY <1>2, FailTyped DEF CountInv
    <2>2. load'.rows = <<>>
      BY <1>2 DEF PageFails, CountInv, PagingTyped, Loads
    <2>3. QED BY <2>1, <2>2 DEF CountInv, Counted
  <1>3. CASE Issue
    BY <1>3, IssueTyped DEF CountInv, Counted
  <1>4. CASE UNCHANGED pagingVars
    <2>1. PageRows(1)' = PageRows(1)
      BY <1>4 DEF pagingVars, PageRows, Served
    <2>2. Top(load.page)' = Top(load.page)
      BY <1>4 DEF pagingVars, Top
    <2>3. QED BY <1>4, <2>1, <2>2 DEF pagingVars, CountInv, Counted, PagingTyped
  <1>5. QED BY <1>1, <1>2, <1>3, <1>4 DEF PagingNext, ReadsAPage

\* Unless the listing moves under the loader, no record is taken twice, however
\* the provider caps its pages and whether or not it heeds the page number.
THEOREM RecordsAreTakenOnce == PagingSpec => []TakesEachRecordOnce
  BY InitCount, NextCounts, CountedOnce, PTL DEF PagingSpec


-----------------------------------------------------------------------------
(* The consumer of tasks.  The lease tokens make it so: a token is given    *)
(* once, and a lease that is kept outlives every wait for its next          *)
(* heartbeat.                                                               *)

Status == {"pending", "in_progress", "completed", "failed"}

RowType == [status : Status, token : Nat, lease : 0 .. LeaseTicks]
HubType == [at : {"poll", "execute", "complete", "fail"}, task : Tasks \cup {NoTask},
            token : Nat, heart : {"none", "created", "sleeping", "dead"}, next : Nat]

Typed ==
    /\ queue \in [Tasks -> RowType]
    /\ hub \in [HubWorkers -> HubType]
    /\ blocked \in [HubWorkers -> Nat]
    /\ results \in [Tasks -> SUBSET Nat]
    /\ faults \in Nat

\* A worker that is not polling has a task, under a token that the CRM issued.
HasTask(w) ==
    /\ hub[w].task \in Tasks
    /\ hub[w].token \in 1 .. queue[hub[w].task].token
    /\ queue[hub[w].task].status # "pending"
    /\ hub[w].at = "complete" => hub[w].token \in results[hub[w].task]
    /\ hub[w].heart # "none"
    /\ hub[w].heart = "created" <=> hub[w].at = "execute"

\* The lease of a worker that did not hold the event loop for too long, and
\* whose heartbeat lives.
Kept(w) == hub[w].at # "poll" /\ blocked[w] <= SafeTicks /\ hub[w].heart # "dead"

\* The lease is the last one given, and outlives the wait for the next heartbeat.
Outlives(w) ==
    LET row == queue[hub[w].task] IN
    /\ hub[w].token = row.token
    /\ row.status = "in_progress" =>
         IF hub[w].heart = "created" THEN row.lease + blocked[w] >= LeaseTicks
                                     ELSE row.lease > hub[w].next

WorkerOK(w) ==
    /\ hub[w].at = "poll" => hub[w] = Idle
    /\ hub[w].at # "poll" => HasTask(w)
    /\ Kept(w) => Outlives(w)

\* No token is given to two workers.
TokensDiffer ==
    \A v, w \in HubWorkers :
        v # w /\ hub[v].task = hub[w].task /\ hub[v].task # NoTask => hub[v].token # hub[w].token

TasksInv == Typed /\ (\A w \in HubWorkers : WorkerOK(w)) /\ TokensDiffer

-----------------------------------------------------------------------------
\* The invariant holds before the first claim.
LEMMA InitTasks == TasksInit => TasksInv
  <1> SUFFICES ASSUME TasksInit PROVE TasksInv
    OBVIOUS
  <1>1. Typed
    BY HubTasksAssumption DEF TasksInit, Typed, RowType, HubType, Idle, Status
  <1>2. (\A w \in HubWorkers : WorkerOK(w)) /\ TokensDiffer
    BY DEF TasksInit, WorkerOK, TokensDiffer, Kept, Idle
  <1>3. QED BY <1>1, <1>2 DEF TasksInv

\* What a step must leave of the row of a task for a lease of it to stay kept.
Undisturbed(t) ==
    /\ queue'[t].token = queue[t].token
    /\ queue'[t].status = "in_progress" =>
         queue[t].status = "in_progress" /\ queue'[t].lease >= queue[t].lease

\* Tokens are only issued, and no task becomes pending again.
RowsAdvance ==
    \A t \in Tasks : /\ queue'[t].token >= queue[t].token
                     /\ queue[t].status # "pending" => queue'[t].status # "pending"
                     /\ results[t] \subseteq results'[t]

\* The other workers do not notice a step that disturbs none of their kept leases.
LEMMA OthersOK ==
    ASSUME TasksInv, Typed', RowsAdvance, NEW v \in HubWorkers,
           hub'[v] = hub[v], blocked'[v] = blocked[v],
           Kept(v) => Undisturbed(hub[v].task)
    PROVE  WorkerOK(v)'
  <1>1. WorkerOK(v)
    BY DEF TasksInv
  <1>2. hub[v].at # "poll" => HasTask(v)'
    <2> SUFFICES ASSUME hub[v].at # "poll" PROVE HasTask(v)'
      OBVIOUS
    <2> DEFINE t == hub[v].task
    <2>1. HasTask(v) /\ t \in Tasks
      BY <1>1 DEF WorkerOK, HasTask
    <2>2. queue[t].token \in Nat /\ queue'[t].token \in Nat /\ hub[v].token \in Nat
      BY <2>1 DEF TasksInv, Typed, RowType, HubType
    <2>3. queue'[t].token >= queue[t].token /\ queue'[t].status # "pending"
            /\ results[t] \subseteq results'[t]
      BY <2>1 DEF RowsAdvance, HasTask
    <2>4. QED BY <2>1, <2>2, <2>3 DEF HasTask
  <1>3. Kept(v)' => Outlives(v)'
    <2> SUFFICES ASSUME Kept(v)' PROVE Outlives(v)'
      OBVIOUS
    <2> DEFINE t == hub[v].task
    <2>1. Kept(v) /\ Outlives(v) /\ Undisturbed(t)
      BY <1>1 DEF Kept, WorkerOK, SafeTicks
    <2>2. t \in Tasks
      BY <1>1, <2>1 DEF WorkerOK, Kept, HasTask
    <2>3. /\ queue[t].lease \in Nat /\ queue'[t].lease \in Nat
          /\ hub[v].next \in Nat /\ blocked[v] \in Nat
      BY <2>2, HubTasksAssumption DEF TasksInv, Typed, RowType, HubType
    <2>4. QED BY <2>1, <2>3, HubTasksAssumption DEF Outlives, Undisturbed
  <1>4. QED BY <1>1, <1>2, <1>3 DEF WorkerOK

\* A worker that keeps its task and its token, or has none, keeps the tokens apart.
LEMMA TokensStay ==
    ASSUME TokensDiffer,
           \A v \in HubWorkers : \/ hub'[v].task = hub[v].task /\ hub'[v].token = hub[v].token
                                 \/ hub'[v].task = NoTask
    PROVE  TokensDiffer'
  BY DEF TokensDiffer

-----------------------------------------------------------------------------
(* The steps of a worker.                                                  *)

\* Claiming a task keeps it.
LEMMA ClaimInv == ASSUME TasksInv, NEW w \in HubWorkers, Claim(w) PROVE TasksInv'
  <1> USE HubTasksAssumption
  <1>1. PICK t \in Tasks : /\ Claimable(t) /\ Lease(t)
                           /\ \/ hub' = [hub EXCEPT ![w] = [at |-> "execute", task |-> t,
                                     token |-> queue[t].token + 1, heart |-> "created", next |-> 0]]
                                 /\ UNCHANGED faults
                              \/ Fault /\ UNCHANGED hub
    BY DEF Claim
  <1>2. queue[t].token \in Nat /\ queue[t].lease \in Nat
    BY DEF TasksInv, Typed, RowType
  <1>3. Typed'
    <2>1. [status |-> "in_progress", token |-> queue[t].token + 1, lease |-> LeaseTicks] \in RowType
      BY <1>2 DEF RowType, Status
    <2>2. queue' \in [Tasks -> RowType]
      BY <1>1, <2>1 DEF Lease, TasksInv, Typed
    <2>3. hub' \in [HubWorkers -> HubType]
      BY <1>1, <1>2 DEF TasksInv, Typed, HubType
    <2>4. faults' \in Nat
      BY <1>1 DEF Fault, TasksInv, Typed
    <2>5. blocked' \in [HubWorkers -> Nat] /\ results' = results
      BY DEF Claim, TasksInv, Typed
    <2>6. QED BY <2>2, <2>3, <2>4, <2>5 DEF Typed, TasksInv
  <1>4. queue'[t] = [status |-> "in_progress", token |-> queue[t].token + 1, lease |-> LeaseTicks]
          /\ \A u \in Tasks \ {t} : queue'[u] = queue[u]
    BY <1>1 DEF Lease, TasksInv, Typed
  <1>5. RowsAdvance
    <2>1. \A u \in Tasks : queue[u].token \in Nat
      BY DEF TasksInv, Typed, RowType
    <2>2. results' = results
      BY DEF Claim
    <2>3. QED BY <1>4, <2>1, <2>2 DEF RowsAdvance
  <1>6. ASSUME NEW v \in HubWorkers, Kept(v) PROVE Undisturbed(hub[v].task)
    <2>1. HasTask(v) /\ Outlives(v)
      BY <1>6 DEF TasksInv, WorkerOK, Kept
    <2>2. hub[v].next \in Nat /\ blocked[v] \in Nat /\ blocked[v] < LeaseTicks
      BY <1>6 DEF TasksInv, Typed, HubType, Kept, SafeTicks
    <2>3. hub[v].task # t
      BY <1>1, <2>1, <2>2 DEF Claimable, HasTask, Outlives
    <2>4. hub[v].task \in Tasks /\ queue[hub[v].task].lease \in Nat
      BY <2>1 DEF HasTask, TasksInv, Typed, RowType
    <2>5. QED BY <1>4, <2>3, <2>4 DEF Undisturbed
  <1>7. ASSUME NEW v \in HubWorkers PROVE WorkerOK(v)'
    <2>1. hub[w].at = "poll" /\ hub[w] = Idle
      BY DEF Claim, TasksInv, WorkerOK
    <2>2. CASE v # w
      <3>1. hub'[v] = hub[v] /\ blocked'[v] = blocked[v]
        BY <1>1, <2>2 DEF Claim, TasksInv, Typed
      <3>2. QED BY <3>1, <1>3, <1>5, <1>6, OthersOK
    <2>3. CASE v = w /\ hub' = hub
      BY <2>1, <2>3 DEF WorkerOK, Kept, Idle
    <2>4. CASE v = w /\ hub' # hub
      <3>1. hub'[w] = [at |-> "execute", task |-> t, token |-> queue[t].token + 1,
                      heart |-> "created", next |-> 0]
        BY <1>1, <2>4 DEF TasksInv, Typed
      <3>2. blocked'[w] = 0
        BY DEF Claim, TasksInv, Typed
      <3>3. HasTask(w)'
        BY <3>1, <1>4, <1>2 DEF HasTask
      <3>4. Outlives(w)'
        BY <3>1, <3>2, <1>4 DEF Outlives
      <3>5. QED BY <2>4, <3>1, <3>3, <3>4 DEF WorkerOK
    <2>5. QED BY <2>2, <2>3, <2>4
  <1>8. TokensDiffer'
    <2>1. CASE hub' = hub
      BY <2>1 DEF TokensDiffer, TasksInv
    <2>2. CASE hub' # hub
      <3>1. /\ hub'[w].task = t /\ hub'[w].token = queue[t].token + 1
            /\ \A v \in HubWorkers \ {w} : hub'[v] = hub[v]
        BY <1>1, <2>2 DEF TasksInv, Typed
      <3>2. \A v \in HubWorkers : hub[v].task = t => hub[v].token \in Nat /\ hub[v].token <= queue[t].token
        BY <1>2 DEF TasksInv, WorkerOK, HasTask, Idle
      <3>3. \A v \in HubWorkers \ {w} : hub[v].task = t => hub[v].token # queue[t].token + 1
        BY <3>2, <1>2
      <3>4. QED BY <3>1, <3>3 DEF TokensDiffer, TasksInv
    <2>3. QED BY <2>1, <2>2
  <1>9. QED BY <1>3, <1>7, <1>8 DEF TasksInv

\* A step of one worker that disturbs no row keeps the invariant as long as it
\* keeps the types and what concerns the worker itself.
LEMMA WorkerMoves ==
    ASSUME TasksInv, NEW w \in HubWorkers, Typed', RowsAdvance,
           \A t \in Tasks : Undisturbed(t),
           \A v \in HubWorkers \ {w} : hub'[v] = hub[v],
           blocked' = blocked,
           WorkerOK(w)',
           \/ hub'[w].task = hub[w].task /\ hub'[w].token = hub[w].token
           \/ hub'[w].task = NoTask
    PROVE  TasksInv'
  <1>1. ASSUME NEW v \in HubWorkers PROVE WorkerOK(v)'
    <2>1. Kept(v) => hub[v].task \in Tasks
      BY DEF TasksInv, WorkerOK, HasTask, Kept
    <2>2. QED BY <2>1, OthersOK
  <1>2. TokensDiffer'
    BY TokensStay DEF TasksInv
  <1>3. QED BY <1>1, <1>2 DEF TasksInv

\* A worker that awaits a request has sent its first heartbeat in time, if it is
\* kept, and waits for the next one otherwise as before.
LEMMA AwaitingOK ==
    ASSUME TasksInv, NEW w \in HubWorkers, hub[w].at # "poll", Typed', RowsAdvance,
           Undisturbed(hub[w].task), blocked' = blocked,
           NEW label \in {"complete", "fail"},
           hub'[w] = Awaiting(w, label),
           label = "complete" => hub[w].token \in results'[hub[w].task]
    PROVE  WorkerOK(w)'
  <1> USE HubTasksAssumption
  <1> DEFINE t == hub[w].task
  <1>1. HasTask(w) /\ t \in Tasks /\ (Kept(w) => Outlives(w))
    BY DEF TasksInv, WorkerOK, HasTask
  <1>2. /\ queue[t].token \in Nat /\ queue'[t].token \in Nat
        /\ queue[t].lease \in Nat /\ queue'[t].lease \in Nat
        /\ hub[w].token \in Nat /\ hub[w].next \in Nat /\ blocked[w] \in Nat
    BY <1>1 DEF TasksInv, Typed, RowType, HubType
  <1>3. /\ hub'[w].at = label /\ hub'[w].task = t /\ hub'[w].token = hub[w].token
        /\ hub'[w].heart = IF hub[w].heart = "created" THEN "sleeping" ELSE hub[w].heart
        /\ hub'[w].next = IF hub[w].heart = "created" THEN BeatTicks ELSE hub[w].next
    BY DEF Awaiting, TasksInv, Typed, HubType
  <1>4. HasTask(w)'
    BY <1>1, <1>2, <1>3 DEF HasTask, RowsAdvance
  <1>5. ASSUME Kept(w)' PROVE Outlives(w)'
    <2>1. Kept(w) /\ Outlives(w)
      BY <1>1, <1>3, <1>5 DEF Kept, SafeTicks
    <2>2. blocked[w] <= SafeTicks /\ queue'[t].token = hub[w].token
      BY <2>1 DEF Kept, Outlives, Undisturbed
    <2>3. ASSUME queue'[t].status = "in_progress" PROVE queue'[t].lease > hub'[w].next
      <3>1. queue[t].status = "in_progress" /\ queue'[t].lease >= queue[t].lease
        BY <2>3 DEF Undisturbed
      <3>2. CASE hub[w].heart = "created"
        <4>1. queue[t].lease + blocked[w] >= LeaseTicks
          BY <3>1, <3>2, <2>1 DEF Outlives
        <4>2. QED BY <4>1, <3>1, <3>2, <2>2, <1>2, <1>3 DEF SafeTicks
      <3>3. CASE hub[w].heart # "created"
        BY <3>1, <3>3, <2>1, <1>2, <1>3 DEF Outlives
      <3>4. QED BY <3>2, <3>3
    <2>4. QED BY <2>2, <2>3, <1>3 DEF Outlives
  <1>6. QED BY <1>3, <1>4, <1>5 DEF WorkerOK

\* A worker that goes back to polling holds nothing.
LEMMA IdleOK ==
    ASSUME NEW w \in HubWorkers, hub'[w] = Idle
    PROVE  WorkerOK(w)' /\ hub'[w].task = NoTask
  BY DEF WorkerOK, Kept, Idle

\* The records that the steps give a worker.
LEMMA HubTypes ==
    ASSUME TasksInv, NEW w \in HubWorkers, NEW label \in {"complete", "fail"}
    PROVE  /\ Idle \in HubType
           /\ Awaiting(w, label) \in HubType
           /\ Awaiting(w, label).task = hub[w].task
           /\ Awaiting(w, label).token = hub[w].token
  BY HubTasksAssumption DEF TasksInv, Typed, HubType, Idle, Awaiting

\* Executing a task keeps it.
LEMMA ExecuteInv == ASSUME TasksInv, NEW w \in HubWorkers, Execute(w) PROVE TasksInv'
  <1>1. HasTask(w) /\ hub[w].task \in Tasks /\ hub[w].at = "execute"
    BY DEF TasksInv, WorkerOK, HasTask, Execute
  <1>2. PICK label \in {"complete", "fail"} : hub' = [hub EXCEPT ![w] = Awaiting(w, label)]
          /\ IF label = "complete"
             THEN results' = [results EXCEPT ![hub[w].task] = @ \cup {hub[w].token}]
             ELSE UNCHANGED results
    BY DEF Execute, Raised
  <1>3. hub' \in [HubWorkers -> HubType] /\ hub'[w] = Awaiting(w, label)
          /\ \A v \in HubWorkers \ {w} : hub'[v] = hub[v]
    BY <1>2, HubTypes DEF TasksInv, Typed
  <1>4. /\ results' \in [Tasks -> SUBSET Nat]
        /\ \A t \in Tasks : results[t] \subseteq results'[t]
        /\ label = "complete" => hub[w].token \in results'[hub[w].task]
    BY <1>1, <1>2 DEF TasksInv, Typed, HubType
  <1>5. Typed'
    BY <1>3, <1>4 DEF Execute, TasksInv, Typed
  <1>6. queue' = queue /\ RowsAdvance /\ \A t \in Tasks : Undisturbed(t)
    BY <1>4, HubTasksAssumption DEF Execute, RowsAdvance, Undisturbed, TasksInv, Typed, RowType
  <1>7. blocked' = blocked
    BY DEF Execute
  <1>8. WorkerOK(w)'
    BY <1>1, <1>3, <1>4, <1>5, <1>6, <1>7, AwaitingOK
  <1>9. QED BY <1>3, <1>5, <1>6, <1>7, <1>8, HubTypes, WorkerMoves

\* A report ends the task or changes nothing in the CRM; the worker then polls
\* again or reports a failure.
LEMMA ReportInv ==
    ASSUME TasksInv, NEW w \in HubWorkers, hub[w].at # "poll",
           queue' = queue \/ Ends(w, "completed") \/ Ends(w, "failed"),
           \/ hub' = [hub EXCEPT ![w] = Idle]
           \/ hub' = [hub EXCEPT ![w] = Awaiting(w, "fail")],
           faults' \in Nat, UNCHANGED <<blocked, results>>
    PROVE  TasksInv'
  <1>1. HasTask(w) /\ hub[w].task \in Tasks
    BY DEF TasksInv, WorkerOK, HasTask
  <1>2. /\ queue' \in [Tasks -> RowType]
        /\ \A t \in Tasks : /\ queue'[t].token = queue[t].token
                            /\ \/ queue'[t] = queue[t]
                               \/ queue'[t].status \in {"completed", "failed"}
    BY <1>1 DEF Ends, TasksInv, Typed, RowType, Status
  <1>3. /\ hub' \in [HubWorkers -> HubType]
        /\ \A v \in HubWorkers \ {w} : hub'[v] = hub[v]
        /\ hub'[w] = Idle \/ hub'[w] = Awaiting(w, "fail")
    BY HubTypes DEF TasksInv, Typed
  <1>4. Typed'
    BY <1>2, <1>3 DEF TasksInv, Typed
  <1>5. RowsAdvance /\ \A t \in Tasks : Undisturbed(t)
    <2>1. \A t \in Tasks : queue[t].token \in Nat /\ queue[t].lease \in Nat
      BY HubTasksAssumption DEF TasksInv, Typed, RowType
    <2>2. QED BY <1>2, <2>1 DEF RowsAdvance, Undisturbed
  <1>6. CASE hub'[w] = Idle
    BY <1>3, <1>4, <1>5, <1>6, IdleOK, WorkerMoves
  <1>7. CASE hub'[w] = Awaiting(w, "fail")
    <2>1. WorkerOK(w)'
      BY <1>1, <1>4, <1>5, <1>7, AwaitingOK
    <2>2. QED BY <1>3, <1>4, <1>5, <1>7, <2>1, HubTypes, WorkerMoves
  <1>8. QED BY <1>3, <1>6, <1>7

\* Completing a task keeps it.
LEMMA CompleteInv == ASSUME TasksInv, NEW w \in HubWorkers, CompleteTask(w) PROVE TasksInv'
  <1>1. faults' \in Nat
    BY DEF CompleteTask, Fault, TasksInv, Typed
  <1>2. QED BY <1>1, ReportInv DEF CompleteTask, Raised

\* Failing a task keeps it.
LEMMA FailInv == ASSUME TasksInv, NEW w \in HubWorkers, FailTask(w) PROVE TasksInv'
  <1>1. faults' \in Nat
    BY DEF FailTask, Fault, TasksInv, Typed
  <1>2. QED BY <1>1, ReportInv DEF FailTask, Resumed

\* A crash keeps it.
LEMMA CrashInv == ASSUME TasksInv, NEW w \in HubWorkers, Crash(w) PROVE TasksInv'
  <1>1. faults' \in Nat
    BY DEF Crash, Fault, TasksInv, Typed
  <1>2. QED BY <1>1, ReportInv DEF Crash

\* A heartbeat renews the lease, or the heartbeat task dies.
LEMMA HeartbeatInv == ASSUME TasksInv, NEW w \in HubWorkers, Heartbeat(w) PROVE TasksInv'
  <1> USE HubTasksAssumption
  <1> DEFINE t == hub[w].task
  <1>1. hub[w].at # "poll" /\ HasTask(w) /\ t \in Tasks
    BY DEF TasksInv, WorkerOK, HasTask, Idle, Heartbeat
  <1>2. /\ queue' \in [Tasks -> RowType]
        /\ \A u \in Tasks : /\ queue'[u].token = queue[u].token
                            /\ queue'[u].status = queue[u].status
                            /\ queue'[u].lease >= queue[u].lease
    BY <1>1 DEF Heartbeat, TasksInv, Typed, RowType
  <1>3. faults' \in Nat
    BY DEF Heartbeat, Fault, TasksInv, Typed
  <1>4. /\ hub' \in [HubWorkers -> HubType]
        /\ \A v \in HubWorkers \ {w} : hub'[v] = hub[v]
        /\ hub'[w].at = hub[w].at /\ hub'[w].task = t /\ hub'[w].token = hub[w].token
        /\ \/ hub'[w].heart = "dead"
           \/ /\ hub'[w].heart = "sleeping" /\ hub'[w].next = BeatTicks
              /\ Holds(w) /\ queue'[t].lease = LeaseTicks
    <2>1. hub \in [HubWorkers -> HubType] /\ hub[w].heart = "sleeping"
      BY DEF Heartbeat, TasksInv, Typed
    <2>2. CASE hub' = [hub EXCEPT ![w].heart = "dead"]
      BY <2>1, <2>2 DEF HubType
    <2>3. CASE Holds(w) /\ queue' = [queue EXCEPT ![t].lease = LeaseTicks]
                 /\ hub' = [hub EXCEPT ![w].next = BeatTicks]
      <3>1. queue'[t].lease = LeaseTicks
        BY <1>1, <2>3 DEF TasksInv, Typed, RowType
      <3>2. QED BY <2>1, <2>3, <3>1 DEF HubType
    <2>4. QED BY <2>2, <2>3 DEF Heartbeat
  <1>5. Typed'
    BY <1>2, <1>3, <1>4 DEF Heartbeat, TasksInv, Typed
  <1>6. RowsAdvance /\ \A u \in Tasks : Undisturbed(u)
    BY <1>2 DEF Heartbeat, RowsAdvance, Undisturbed, TasksInv, Typed, RowType
  <1>7. WorkerOK(w)'
    <2>1. HasTask(w)'
      BY <1>1, <1>2, <1>4 DEF HasTask, Heartbeat
    <2>2. Kept(w)' => Outlives(w)'
      BY <1>1, <1>2, <1>4 DEF Kept, Outlives, Holds
    <2>3. QED BY <1>1, <1>4, <2>1, <2>2 DEF WorkerOK
  <1>8. blocked' = blocked
    BY DEF Heartbeat
  <1>9. QED BY <1>4, <1>5, <1>6, <1>7, <1>8, WorkerMoves

\* The leases run down with the waits for the next heartbeats, which are due
\* before them, and with the ticks of the executions.
LEMMA TickInv == ASSUME TasksInv, Tick PROVE TasksInv'
  <1> USE HubTasksAssumption
  <1>1. ASSUME NEW t \in Tasks
        PROVE  /\ queue[t].token \in Nat /\ queue[t].lease \in 0 .. LeaseTicks
               /\ queue'[t].token = queue[t].token
               /\ queue'[t].status = queue[t].status
               /\ queue'[t].lease \in 0 .. LeaseTicks
               /\ queue'[t].lease >= queue[t].lease - 1
               /\ queue'[t] \in RowType
    <2>1. queue[t] \in RowType
      BY DEF TasksInv, Typed
    <2>2. queue'[t] = [queue[t] EXCEPT !.lease = Minus1(queue[t].lease)]
      BY DEF Tick
    <2>3. queue[t].lease \in 0 .. LeaseTicks
      BY <2>1 DEF RowType
    <2>4. /\ Minus1(queue[t].lease) \in 0 .. LeaseTicks
          /\ Minus1(queue[t].lease) >= queue[t].lease - 1
      BY <2>3 DEF Minus1
    <2>5. QED BY <2>1, <2>2, <2>3, <2>4 DEF RowType
  <1>3. ASSUME NEW w \in HubWorkers
        PROVE  /\ hub[w].heart = "sleeping" => /\ hub[w].next \in Nat
                                              /\ hub'[w].next = hub[w].next - 1
               /\ hub[w].heart # "sleeping" => hub'[w] = hub[w]
               /\ hub'[w].at = hub[w].at /\ hub'[w].task = hub[w].task
               /\ hub'[w].token = hub[w].token /\ hub'[w].heart = hub[w].heart
               /\ hub[w] \in HubType /\ hub'[w] \in HubType
    <2>1. hub[w] \in HubType
      BY DEF TasksInv, Typed
    <2>2. CASE hub[w].heart = "sleeping"
      <3>1. hub'[w] = [hub[w] EXCEPT !.next = hub[w].next - 1] /\ hub[w].next # 0
        BY <2>2 DEF Tick
      <3>2. QED BY <2>1, <2>2, <3>1 DEF HubType
    <2>3. CASE hub[w].heart # "sleeping"
      BY <2>1, <2>3 DEF Tick
    <2>4. QED BY <2>2, <2>3
  <1>5. \A w \in HubWorkers :
          /\ blocked[w] \in Nat /\ blocked'[w] \in Nat /\ blocked'[w] >= blocked[w]
          /\ hub[w].at = "execute" /\ blocked[w] <= SafeTicks => blocked'[w] = blocked[w] + 1
    BY DEF Tick, Executing, TasksInv, Typed
  <1>6. Typed'
    <2>1. queue' \in [Tasks -> RowType]
      BY <1>1 DEF Tick
    <2>2. hub' \in [HubWorkers -> HubType]
      BY <1>3 DEF Tick
    <2>3. blocked' \in [HubWorkers -> Nat]
      BY <1>5 DEF Tick
    <2>4. faults' \in Nat
      BY DEF Tick, Fault, TasksInv, Typed
    <2>5. QED BY <2>1, <2>2, <2>3, <2>4 DEF Tick, TasksInv, Typed
  <1>7. ASSUME NEW w \in HubWorkers PROVE WorkerOK(w)'
    <2> DEFINE t == hub[w].task
    <2>1. WorkerOK(w) /\ SafeTicks' = SafeTicks /\ results' = results
      BY DEF TasksInv, SafeTicks, Tick
    <2>2. hub[w].at = "poll" => hub'[w] = Idle
      <3>1. Idle.heart # "sleeping"
        BY DEF Idle
      <3>2. QED BY <1>3, <2>1, <3>1 DEF WorkerOK
    <2>3. HasTask(w) => HasTask(w)'
      BY <1>1, <1>3, <2>1 DEF HasTask
    <2>4. ASSUME Kept(w)' PROVE Outlives(w)'
      <3>1. Kept(w) /\ Outlives(w) /\ HasTask(w) /\ t \in Tasks
        BY <1>3, <1>5, <2>1, <2>4 DEF Kept, WorkerOK, HasTask, SafeTicks
      <3>2. CASE hub[w].heart = "created"
        <4>1. hub[w].at = "execute" /\ blocked'[w] = blocked[w] + 1
          BY <3>1, <3>2, <1>5 DEF HasTask, Kept
        <4>2. QED BY <3>1, <3>2, <4>1, <1>1, <1>3, <1>5 DEF Outlives
      <3>3. CASE hub[w].heart = "sleeping"
        BY <3>1, <3>3, <1>1, <1>3 DEF Outlives
      <3>4. hub[w].heart \in {"created", "sleeping"}
        BY <3>1, <1>3 DEF HasTask, Kept, HubType
      <3>5. QED BY <3>2, <3>3, <3>4
    <2>5. QED BY <2>1, <2>2, <2>3, <2>4, <1>3 DEF WorkerOK
  <1>8. TokensDiffer'
    BY <1>3, TokensStay DEF TasksInv
  <1>9. QED BY <1>6, <1>7, <1>8 DEF TasksInv

\* The invariant is inductive.
LEMMA NextTasks == TasksInv /\ [TasksNext]_tasksVars => TasksInv'
  <1> SUFFICES ASSUME TasksInv, [TasksNext]_tasksVars PROVE TasksInv'
    OBVIOUS
  <1>1. CASE Tick
    BY <1>1, TickInv
  <1>2. ASSUME NEW w \in HubWorkers, Work(w) \/ Heartbeat(w) \/ Crash(w)
        PROVE  TasksInv'
    BY <1>2, ClaimInv, ExecuteInv, CompleteInv, FailInv, HeartbeatInv, CrashInv DEF Work
  <1>3. CASE UNCHANGED tasksVars
    BY <1>3 DEF tasksVars, TasksInv, Typed, WorkerOK, HasTask, Kept, Outlives, TokensDiffer
  <1>4. QED BY <1>1, <1>2, <1>3 DEF TasksNext

\* Whatever a worker holds was given to it alone, and a kept lease outlives the
\* wait for the next heartbeat.
THEOREM TasksInvariance == TasksSpec => []TasksInv
  <1>1. QED BY InitTasks, NextTasks, PTL DEF TasksSpec

\* Two workers that have one task hold different tokens of it, and a kept lease
\* is the last one given.
LEMMA KeptAlone == TasksInv => OverlapOnlyUnkept
  <1> SUFFICES ASSUME TasksInv, NEW v \in HubWorkers, NEW w \in HubWorkers, v # w,
                      hub[v].task = hub[w].task, hub[v].task # NoTask
               PROVE  \E u \in {v, w} : blocked[u] > SafeTicks \/ hub[u].heart = "dead"
    BY DEF OverlapOnlyUnkept
  <1>1. hub[v].at # "poll" /\ hub[w].at # "poll"
    BY DEF TasksInv, WorkerOK, Idle
  <1>2. hub[v].token # hub[w].token
    BY DEF TasksInv, TokensDiffer
  <1>3. ~(Kept(v) /\ Kept(w))
    BY <1>2 DEF TasksInv, WorkerOK, Outlives
  <1>4. blocked[v] \in Nat /\ blocked[w] \in Nat /\ SafeTicks \in Int
    BY HubTasksAssumption DEF TasksInv, Typed, SafeTicks
  <1>5. QED BY <1>1, <1>3, <1>4 DEF Kept

\* However many workers poll, crash and lose answers: two of them work on one
\* task only where one held the event loop past its lease or its heartbeat died.
THEOREM OverlapNeedsALostLease == TasksSpec => []OverlapOnlyUnkept
  <1>1. QED BY TasksInvariance, KeptAlone, PTL

-----------------------------------------------------------------------------
(* The refinement of HubQueue.                                             *)


\* A step that leaves the status, the token and the results is a stutter.
LEMMA Stutters ==
    ASSUME \A t \in Tasks : queue'[t].status = queue[t].status /\ queue'[t].token = queue[t].token,
           results' = results
    PROVE  UNCHANGED Promise!queueVars
  BY DEF Promise!queueVars, Open

\* The first state is one of the promise.
LEMMA InitPromise == TasksInit => Promise!QueueInit
  BY DEF TasksInit, Promise!QueueInit, Open

\* What the queue may do in one step, or nothing.
PromisedStep ==
    \/ \E t \in Tasks : Promise!Give(t) \/ Promise!Produce(t) \/ Promise!Complete(t)
                          \/ Promise!Fail(t)
    \/ UNCHANGED Promise!queueVars

\* A claim gives the task, whether or not the worker learns of it.
LEMMA ClaimGives == ASSUME TasksInv, NEW w \in HubWorkers, Claim(w) PROVE PromisedStep
  <1>1. PICK t \in Tasks : Claimable(t) /\ Lease(t)
    BY DEF Claim
  <1>2. /\ queue'[t].status = "in_progress" /\ queue'[t].token = queue[t].token + 1
        /\ \A u \in Tasks \ {t} : queue'[u] = queue[u]
    BY <1>1 DEF Lease, TasksInv, Typed, RowType
  <1>3. Open(queue[t].status) = "open" /\ Open(queue'[t].status) = "open"
    BY <1>1, <1>2 DEF Claimable, Open
  <1>4. Promise!Give(t)
    BY <1>2, <1>3 DEF Promise!Give, Claim
  <1>5. QED BY <1>4 DEF PromisedStep

\* An execution produces the result of a token that was given, or raises.
LEMMA ExecuteProduces == ASSUME TasksInv, NEW w \in HubWorkers, Execute(w) PROVE PromisedStep
  <1> DEFINE t == hub[w].task
  <1>1. t \in Tasks /\ hub[w].token \in 1 .. queue[t].token /\ queue' = queue
    BY DEF Execute, TasksInv, WorkerOK, HasTask
  <1>2. CASE UNCHANGED results
    BY <1>1, <1>2, Stutters DEF PromisedStep
  <1>3. CASE results' = [results EXCEPT ![t] = @ \cup {hub[w].token}]
    <2>1. Promise!Produce(t)
      BY <1>1, <1>3 DEF Promise!Produce
    <2>2. QED BY <1>1, <2>1 DEF PromisedStep
  <1>4. QED BY <1>2, <1>3 DEF Execute

\* A task that ends was open, and only it ends.
LEMMA Ending ==
    ASSUME TasksInv, NEW w \in HubWorkers, hub[w].task \in Tasks, Holds(w),
           NEW status \in {"completed", "failed"}, Ends(w, status)
    PROVE  LET t == hub[w].task IN
           /\ queue[t].status = "in_progress" /\ queue'[t].status = status
           /\ queue'[t].token = queue[t].token
           /\ \A u \in Tasks \ {t} : queue'[u] = queue[u]
  BY DEF Holds, Ends, TasksInv, Typed, RowType

\* A task is completed with the result of an execution.
LEMMA CompleteCompletes ==
    ASSUME TasksInv, NEW w \in HubWorkers, CompleteTask(w) PROVE PromisedStep
  <1> DEFINE t == hub[w].task
  <1>1. t \in Tasks /\ results[t] # {} /\ results' = results
    BY DEF CompleteTask, TasksInv, WorkerOK, HasTask
  <1>2. CASE UNCHANGED queue
    BY <1>1, <1>2, Stutters DEF PromisedStep
  <1>3. CASE Holds(w) /\ Ends(w, "completed")
    <2>1. Promise!Complete(t)
      BY <1>1, <1>3, Ending DEF Promise!Complete, Open
    <2>2. QED BY <1>1, <2>1 DEF PromisedStep
  <1>4. QED BY <1>2, <1>3 DEF CompleteTask

\* A task fails while it is open.
LEMMA FailFails == ASSUME TasksInv, NEW w \in HubWorkers, FailTask(w) PROVE PromisedStep
  <1> DEFINE t == hub[w].task
  <1>1. t \in Tasks /\ results' = results
    BY DEF FailTask, TasksInv, WorkerOK, HasTask
  <1>2. CASE UNCHANGED queue
    BY <1>1, <1>2, Stutters DEF PromisedStep
  <1>3. CASE Holds(w) /\ Ends(w, "failed")
    <2>1. Promise!Fail(t)
      BY <1>1, <1>3, Ending DEF Promise!Fail, Open
    <2>2. QED BY <1>1, <2>1 DEF PromisedStep
  <1>4. QED BY <1>2, <1>3 DEF FailTask

\* Leases and heartbeats are none of the queue's business.
LEMMA HeartbeatStutters ==
    ASSUME TasksInv, NEW w \in HubWorkers, Heartbeat(w) PROVE PromisedStep
  <1>1. hub[w].task \in Tasks
    BY DEF TasksInv, WorkerOK, HasTask, Idle, Heartbeat
  <1>2. \A t \in Tasks : queue'[t].status = queue[t].status /\ queue'[t].token = queue[t].token
    BY <1>1 DEF Heartbeat, TasksInv, Typed, RowType
  <1>3. QED BY <1>2, Stutters DEF Heartbeat, PromisedStep

\* The passage of time is a step of the promise, or none.
LEMMA TickStutters == ASSUME TasksInv, Tick PROVE PromisedStep
  <1>1. ASSUME NEW t \in Tasks
        PROVE  queue'[t].status = queue[t].status /\ queue'[t].token = queue[t].token
    BY DEF Tick, TasksInv, Typed, RowType
  <1>2. QED BY <1>1, Stutters DEF Tick, PromisedStep

\* Every step of the consumer is a step of the queue or none.
LEMMA StepsOfTheQueue == TasksInv /\ [TasksNext]_tasksVars => PromisedStep
  <1> SUFFICES ASSUME TasksInv, [TasksNext]_tasksVars PROVE PromisedStep
    OBVIOUS
  <1>1. CASE Tick
    BY <1>1, TickStutters
  <1>2. ASSUME NEW w \in HubWorkers, Work(w) \/ Heartbeat(w) PROVE PromisedStep
    BY <1>2, ClaimGives, ExecuteProduces, CompleteCompletes, FailFails, HeartbeatStutters
       DEF Work
  <1>3. ASSUME NEW w \in HubWorkers, Crash(w) PROVE PromisedStep
    BY <1>3, Stutters DEF Crash, PromisedStep
  <1>4. CASE UNCHANGED tasksVars
    BY <1>4, Stutters DEF tasksVars, PromisedStep
  <1>5. QED BY <1>1, <1>2, <1>3, <1>4 DEF TasksNext

\* The consumer, with every lost answer, crash and takeover, implements the
\* queue: each task ends at most once, and completed only with the result of an
\* execution that was given the task.
THEOREM ConsumerKeepsPromise == TasksSpec => KeepsPromise
  <1>1. TasksInit => Promise!QueueInit
    BY InitPromise
  <1>2. TasksInv /\ [TasksNext]_tasksVars =>
          [\E t \in Tasks : Promise!Give(t) \/ Promise!Produce(t) \/ Promise!Complete(t)
                              \/ Promise!Fail(t)]_(Promise!queueVars)
    BY StepsOfTheQueue DEF PromisedStep
  <1>3. QED BY <1>1, <1>2, TasksInvariance, PTL DEF TasksSpec, KeepsPromise, Promise!QueueSpec

=============================================================================
