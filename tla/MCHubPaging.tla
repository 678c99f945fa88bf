----------------------------- MODULE MCHubPaging -----------------------------
(* HubPaging by itself, for TLC.                                            *)
EXTENDS HubPaging
=============================================================================
