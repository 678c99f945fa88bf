--------------------------- MODULE HubIntegration ---------------------------
(***************************************************************************)
(* The cycle of integration_monitor in app/hub/worker.py: it reads Facto    *)
(* and Tiendanube, records what it read in the CRM and publishes a          *)
(* financial and a commercial snapshot.  Every request to a provider or to  *)
(* the CRM may raise; what is kept of a cycle then depends on the handler   *)
(* that catches it.  A list is represented by the cycle it was read in, 0   *)
(* when it is empty or None.                                                *)
(***************************************************************************)
EXTENDS Naturals

CONSTANTS Cycles    \* bound: the cycles are numbered 1 .. Cycles, again and again

ASSUME IntegrationAssumption == Cycles \in Nat /\ Cycles >= 2

VARIABLES settings,    \* [facto, tiendanube, receivables]: what is enabled
          cycle,
          at,          \* the step of the cycle
          local,       \* the variables of the cycle
          financial,   \* the last financial snapshot in the CRM
          commercial   \* the last commercial snapshot in the CRM

integrationVars == <<settings, cycle, at, local, financial, commercial>>

Lists == {"customers", "sales", "documents", "purchases", "payments", "receivables",
          "products", "webCustomers", "webOrders"}
Flags == {"financialReady", "factoReady", "webReady", "detailed", "webRecorded"}

\* Mutant: the orders of the web shop survive into the next cycle.
FreshKeepingOrders(before) ==
    [[x \in Lists \cup Flags |-> IF x \in Lists THEN 0 ELSE FALSE]
        EXCEPT !.factoReady = ~settings.facto, !.webReady = ~settings.tiendanube,
               !.webOrders = before]

\* What a cycle begins with, whatever the last one read.
Fresh(before) ==
    [[x \in Lists \cup Flags |-> IF x \in Lists THEN 0 ELSE FALSE]
        EXCEPT !.factoReady = ~settings.facto, !.webReady = ~settings.tiendanube]

Nothing == [internet |-> FALSE, known |-> TRUE, stale |-> FALSE]

IntegrationInit ==
    /\ settings \in [facto : BOOLEAN, tiendanube : BOOLEAN, receivables : BOOLEAN]
    /\ cycle = 1
    /\ at = "facto"
    /\ local = Fresh(0)
    /\ financial = Nothing
    /\ commercial = Nothing

Read(list) == [local EXCEPT ![list] = cycle]

\* A step that awaits: it goes on, or its exception is caught at a handler.
Try(step, after, next, handler) ==
    /\ at = step
    /\ \/ local' = after /\ at' = next
       \/ UNCHANGED local /\ at' = handler
    /\ UNCHANGED <<settings, cycle, financial, commercial>>

\* A provider that is not enabled is not connected; the others may be or not.
Reach(step, enabled, next, otherwise) ==
    \/ enabled /\ Try(step, local, next, otherwise)
    \/ at = step /\ at' = otherwise
       /\ UNCHANGED <<settings, cycle, local, financial, commercial>>

\* The health of Facto is asked for and reported, or the cycle goes without it.
Facto == Reach("facto", settings.facto, "products", "web")

Products ==
    Try("products", [local EXCEPT !.financialReady = TRUE], "customers", "web")

Customers == Try("customers", Read("customers"), "record customers", "documents")

RecordCustomers ==
    Try("record customers", [local EXCEPT !.factoReady = TRUE], "documents", "documents")

\* Mutant: nothing catches the exceptions that concern the documents.
NoDocumentsUncaught == "escaped"

\* The handler of everything that concerns the documents.
WithoutDocuments == "inventory"

Documents ==
    Try("documents", [Read("sales") EXCEPT !.factoReady = TRUE], "inbox", WithoutDocuments)

\* The inbox only adds supplier names: the documents are used without it.
Inbox ==
    LET known == [local EXCEPT !.documents = cycle, !.purchases = cycle]
    IN /\ at = "inbox"
       /\ local' = known
       /\ at' = "record documents"
       /\ UNCHANGED <<settings, cycle, financial, commercial>>

RecordDocuments ==
    Try("record documents", local, "record purchases", WithoutDocuments)

\* A HubCRMError is caught on the spot, any other exception further out.
RecordPurchases ==
    \/ Try("record purchases", local, "payments", WithoutDocuments)
    \/ Try("record purchases", local, "payments", "payments")

Payments == Try("payments", Read("payments"), "record payments", "receivables")

\* A HubCRMError keeps the payments, any other exception forgets them.
RecordPayments ==
    \/ Try("record payments", local, "receivables", "receivables")
    \/ Try("record payments", [local EXCEPT !.payments = 0], "receivables", "receivables")

\* Receivables count only when they were read and recorded.
Receivables ==
    IF settings.receivables
    THEN Try("receivables", Read("receivables"), "details", "details")
    ELSE Try("receivables", local, "details", "details")

Details ==
    Try("details", [local EXCEPT !.detailed = TRUE], "record details", WithoutDocuments)

RecordDetails == Try("record details", local, "inventory", WithoutDocuments)

\* The inventory snapshot is built and sent with whatever documents there are.
Inventory ==
    /\ at = "inventory"
    /\ at' = "web"
    /\ local' \in {local, Read("products")}
    /\ UNCHANGED <<settings, cycle, financial, commercial>>

\* Tiendanube: health, status, products and their record.
Web == Reach("web", settings.tiendanube, "web customers", "financial")

WebCustomers == Try("web customers", Read("webCustomers"), "web orders", "financial")

WebOrders == Try("web orders", Read("webOrders"), "record web", "financial")

RecordWeb ==
    Try("record web", [local EXCEPT !.webReady = TRUE, !.webRecorded = TRUE],
        "financial", "financial")

\* What a snapshot is made of: whether it tells the web channel, whether the web
\* orders were read and recorded in this cycle, whether anything is of another.
Snapshot(internet) ==
    [internet |-> internet,
     known |-> local.webOrders = cycle /\ local.webRecorded,
     stale |-> \E x \in Lists : local[x] \notin {0, cycle}]

\* Mutant: the web channel counts as available once it is enabled and was read.
InternetOnceRead == settings.tiendanube /\ local.webOrders # 0

InternetAvailable == settings.tiendanube /\ local.webReady

Financial ==
    /\ at = "financial"
    /\ at' = "commercial"
    /\ \/ /\ local.financialReady
          /\ financial' = Snapshot(InternetAvailable)
       \/ UNCHANGED financial
    /\ UNCHANGED <<settings, cycle, local, commercial>>

CommercialAvailable ==
    \/ settings.facto /\ local.factoReady
    \/ settings.tiendanube /\ local.webReady

\* The extraction of the commercial snapshot is outside of every try.
Commercial ==
    /\ at = "commercial"
    /\ IF CommercialAvailable
       THEN at' = "record commercial" \/ at' = "ended"
       ELSE at' = "sleep"
    /\ UNCHANGED <<settings, cycle, local, financial, commercial>>

RecordCommercial ==
    /\ at = "record commercial"
    /\ at' = "sleep"
    /\ \/ commercial' = Snapshot(FALSE)
       \/ UNCHANGED commercial
    /\ UNCHANGED <<settings, cycle, local, financial>>

Sleep ==
    /\ at = "sleep"
    /\ at' = "facto"
    /\ cycle' = (cycle % Cycles) + 1
    /\ local' = Fresh(local.webOrders)
    /\ UNCHANGED <<settings, financial, commercial>>

IntegrationNext ==
    \/ Facto \/ Products \/ Customers \/ RecordCustomers \/ Documents \/ Inbox
    \/ RecordDocuments \/ RecordPurchases \/ Payments \/ RecordPayments \/ Receivables
    \/ Details \/ RecordDetails \/ Inventory
    \/ Web \/ WebCustomers \/ WebOrders \/ RecordWeb
    \/ Financial \/ Commercial \/ RecordCommercial \/ Sleep

IntegrationSpec == IntegrationInit /\ [][IntegrationNext]_integrationVars

\* Requests have a timeout, and the monitor is a task of the event loop.
IntegrationFairness == WF_integrationVars(IntegrationNext)

-----------------------------------------------------------------------------
\* A snapshot never uses anything that an earlier cycle read: where a request
\* failed the snapshot goes without, it does not mix two cycles.
SnapshotsOfOneCycle == ~financial.stale /\ ~commercial.stale

\* The financial snapshot says that it knows the web channel only when the
\* orders it uses were read and recorded in its own cycle; otherwise it must not
\* present the missing web sales as none.
InternetIsKnown == financial.internet => financial.known

\* Cycle follows cycle whatever fails; the one exception that ends the monitor,
\* and that nobody notices, is raised by the commercial extraction.
CyclesGoOn == []<>(at = "sleep") \/ <>(at = "ended")
=============================================================================
