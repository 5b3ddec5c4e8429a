---------------------------- MODULE MCOwnership ----------------------------
(***************************************************************************)
(* The handover of a partition and the epochs that fence its owners, for   *)
(* TLC side by side: a behaviour is one of TransferProtocol or one of      *)
(* OwnershipEpochs, which share no state in the program, so the state      *)
(* spaces add up.  Two updates of the epoch race for two nodes and one     *)
(* cached epoch; with three epochs the partition can come back to its      *)
(* first owner.                                                            *)
(***************************************************************************)
EXTENDS MCTransferProtocol, OwnershipEpochs

CONSTANTS u1, u2, o1, o2

VARIABLE part

MCUpdater == {u1, u2}
MCOwner == {o1, o2}
Symmetries == Callers \cup Permutations(MCUpdater) \cup Permutations(MCOwner)

OwnershipInit ==
    /\ ProtocolInit
    /\ EpochInit
    /\ \/ part = "transfer"
       \/ part = "epochs" /\ CurrentOwner = n1 /\ ~transferCoordinator

OwnershipNext ==
    /\ \/ part = "transfer" /\ ProtocolNext /\ UNCHANGED epochVars
       \/ part = "epochs" /\ EpochNext /\ UNCHANGED protocolVars
    /\ UNCHANGED part

OwnershipSpec == OwnershipInit /\ [][OwnershipNext]_<<protocolVars, epochVars, part>>
=============================================================================
