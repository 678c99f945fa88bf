-------------------------------- MODULE HubData --------------------------------
(***************************************************************************)
(* What the models of the hub's analyses share.  A row of a provider is a   *)
(* record of the fields an analysis reads of it, already parsed.            *)
(***************************************************************************)
EXTENDS Integers, FiniteSets, FiniteSetsExt

CONSTANT None     \* what a field is when the provider leaves it empty or it cannot be read

Total(f) == MapThenSumSet(LAMBDA x : f[x], DOMAIN f)
=============================================================================
