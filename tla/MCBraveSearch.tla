---------------------------- MODULE MCBraveSearch ----------------------------
(* Instances of BraveSearch for TLC.                                        *)
EXTENDS BraveSearch, TLC

CONSTANTS s1, s2

\* The processes that search run the same code.
Symmetric == Permutations(Searches)

\* Enough queries to reach each limit while others are under way.
Mixed == <<"discovery", "social", "discovery", "discovery", "discovery">>
=============================================================================
