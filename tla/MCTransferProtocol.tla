------------------------- MODULE MCTransferProtocol -------------------------
(* TransferProtocol for TLC: two callers whose handlers interleave, two or *)
(* three nodes, one symbol.  MaxVersion admits a migration that fails and  *)
(* a second one that commits, with progress updates in between; two rows   *)
(* let a stale row exist.                                                  *)
EXTENDS TransferProtocol, TLC

CONSTANTS n1, n2, n3, s1, c1, c2

MCNode == {n1, n2}
ThreeNodes == {n1, n2, n3}
MCSymbol == {s1}
MCCaller == {c1, c2}

Callers == Permutations(MCCaller)
=============================================================================
