------------------------ MODULE MCProspectingWorker ------------------------
(* Instances of ProspectingWorker for TLC.                                 *)
EXTENDS ProspectingWorker, TLC

CONSTANTS w1, w2, c1, c2, bad

\* Two tasks whose batches overlap; one batch holds an invalid candidate, one
\* search finds nothing.
YieldSolo == 1 :> {<<c1, bad>>, <<c2>>} @@ 2 :> {<<c1, c2>>, <<>>}

\* The two processes run the same code.
Processes == Permutations({w1, w2})

\* One task whose executions always find the same batch, or nothing.
YieldDuo == 1 :> {<<c1, bad>>}
YieldOne == 1 :> {<<c1>>}
=============================================================================
