---------------------------- MODULE MCRecovery ----------------------------
(***************************************************************************)
(* Recovery for TLC: two nodes, one processor whose checkpoint both write, *)
(* two starts, so that a node restarts alone or both recover at once.      *)
(***************************************************************************)
EXTENDS Recovery

MCNodeID == {0, 1}
=============================================================================
