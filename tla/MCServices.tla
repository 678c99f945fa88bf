------------------------------ MODULE MCServices ------------------------------
(***************************************************************************)
(* Instance for TLC of the services that work beside the prospecting        *)
(* worker.  They share no state: each run of the model is one of them, and  *)
(* the others stay in an initial state.                                     *)
(***************************************************************************)
EXTENDS HubPaging, HubTasks, HubMonitors, HubIntegration, GoogleSearch, Retention,
        MCCandidates, MCQuality, TLC

CONSTANTS s1, s2, r1, alpha, beta, gamma, bad, listing, rating, site

VARIABLE service

\* A page costs more than details, as in COST_ESTIMATE_USD.
Prices == "text" :> 2 @@ "details" :> 1

SameRun == s1 :> r1 @@ s2 :> r1

Company(id, items) == [id |-> id, items |-> items]

\* A batch whose candidates survive the loss of a licensed item, or not, and
\* one with a candidate that the CRM refuses.
TwoBatches == << <<Company(alpha, {listing, site}), Company(beta, {rating})>>,
                 <<Company(bad, {listing, site}), Company(gamma, {rating, site})>> >>

AnyItem == SUBSET {listing, rating, site} \ {{}}

\* What a service that does not run is left with comes first: TLC enumerates less.
Init ==
    /\ service \in {"paging", "tasks", "monitors", "integration", "google", "retention",
                   "candidates", "quality"}
    /\ service # "paging" =>
         provider = [size |-> 1, held |-> 0, envelope |-> "bare", ignores |-> FALSE]
    /\ service # "integration" =>
         settings = [facto |-> FALSE, tiendanube |-> FALSE, receivables |-> FALSE]
    /\ service # "quality" =>
         /\ profile = Profile({"hvac"}, {"store"}, {}, FALSE)
         /\ targets = {"tienda comercial", "distribuidor"}
    /\ PagingInit /\ TasksInit /\ MonitorsInit /\ IntegrationInit
    /\ GoogleInit /\ RetentionInit /\ CandidatesInit /\ GateInit
    /\ service # "paging" => load.kind = "documents"

Next ==
    \/ /\ service = "paging" /\ PagingNext
       /\ UNCHANGED <<service, tasksVars, monitorsVars, integrationVars, googleVars,
                      retentionVars, candidateVars, gateVars>>
    \/ /\ service = "tasks" /\ TasksNext
       /\ UNCHANGED <<service, pagingVars, monitorsVars, integrationVars, googleVars,
                      retentionVars, candidateVars, gateVars>>
    \/ /\ service = "monitors" /\ MonitorsNext
       /\ UNCHANGED <<service, pagingVars, tasksVars, integrationVars, googleVars,
                      retentionVars, candidateVars, gateVars>>
    \/ /\ service = "integration" /\ IntegrationNext
       /\ UNCHANGED <<service, pagingVars, tasksVars, monitorsVars, googleVars,
                      retentionVars, candidateVars, gateVars>>
    \/ /\ service = "google" /\ GoogleNext
       /\ UNCHANGED <<service, pagingVars, tasksVars, monitorsVars, integrationVars,
                      retentionVars, candidateVars, gateVars>>
    \/ /\ service = "retention" /\ RetentionNext
       /\ UNCHANGED <<service, pagingVars, tasksVars, monitorsVars, integrationVars,
                      googleVars, candidateVars, gateVars>>
    \/ /\ service = "candidates" /\ CandidatesNext
       /\ UNCHANGED <<service, pagingVars, tasksVars, monitorsVars, integrationVars,
                      googleVars, retentionVars, gateVars>>
    \/ /\ service = "quality" /\ GateNext
       /\ UNCHANGED <<service, pagingVars, tasksVars, monitorsVars, integrationVars,
                      googleVars, retentionVars, candidateVars>>

\* TasksFairness, IntegrationFairness and the fairness of GoogleSpec.
Fairness ==
    /\ WF_tasksVars(service = "tasks" /\ Tick)
    /\ \A w \in HubWorkers : /\ WF_tasksVars(service = "tasks" /\ Work(w))
                             /\ WF_tasksVars(service = "tasks" /\ Heartbeat(w))
    /\ WF_integrationVars(service = "integration" /\ IntegrationNext)
    /\ \A s \in Searches : WF_googleVars(service = "google" /\ Step(s))

Spec == Init /\ [][Next]_<<service, pagingVars, tasksVars, monitorsVars, integrationVars,
                           googleVars, retentionVars, candidateVars, gateVars>> /\ Fairness

\* TasksEnd, of the instance that works on tasks: every task of the hub ends
\* although requests and answers get lost and workers crash.
EveryTaskEnds == service = "tasks" => TasksEnd

\* CyclesGoOn, of the instance that integrates: cycle follows cycle whatever fails.
CycleFollowsCycle == service = "integration" => CyclesGoOn

\* SearchesEnd, of the instance that searches: a refused, failed or interrupted
\* reservation does not leave the others waiting for its lock.
EverySearchEnds == service = "google" => SearchesEnd
=============================================================================
