------------------------------ MODULE HubQueue ------------------------------
(***************************************************************************)
(* What the agent hub promises for its tasks: each one ends at most once,   *)
(* as completed with the result of an execution that was given the task, or *)
(* as failed.                                                               *)
(***************************************************************************)
EXTENDS Naturals

CONSTANTS Tasks

VARIABLES outcome,   \* "open", "completed" or "failed", per task
          given,     \* executions of the task so far
          results    \* the executions of the task that produced a result

queueVars == <<outcome, given, results>>

QueueInit ==
    /\ outcome = [t \in Tasks |-> "open"]
    /\ given = [t \in Tasks |-> 0]
    /\ results = [t \in Tasks |-> {}]

Give(t) ==
    /\ outcome[t] = "open"
    /\ given' = [given EXCEPT ![t] = @ + 1]
    /\ UNCHANGED <<outcome, results>>

\* An execution may end after its task did.
Produce(t) ==
    /\ \E e \in 1 .. given[t] : results' = [results EXCEPT ![t] = @ \cup {e}]
    /\ UNCHANGED <<outcome, given>>

Complete(t) ==
    /\ outcome[t] = "open"
    /\ results[t] # {}
    /\ outcome' = [outcome EXCEPT ![t] = "completed"]
    /\ UNCHANGED <<given, results>>

Fail(t) ==
    /\ outcome[t] = "open"
    /\ outcome' = [outcome EXCEPT ![t] = "failed"]
    /\ UNCHANGED <<given, results>>

QueueSpec ==
    QueueInit /\ [][\E t \in Tasks : Give(t) \/ Produce(t) \/ Complete(t) \/ Fail(t)]_queueVars
=============================================================================
