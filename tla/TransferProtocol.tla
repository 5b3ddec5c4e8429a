-------------------------- MODULE TransferProtocol --------------------------
(***************************************************************************)
(* The handlers of biz/model/transfer_protocol.go, each run by a caller    *)
(* (a goroutine), on top of the ownership state machine.                   *)
(*                                                                         *)
(* A handler reads the state with GetState and then calls the state        *)
(* machine, and StartMigration and Rollback release the lock between       *)
(* writing TargetOwner and calling Transition.  The lock is free at each   *)
(* of these points, so they are separate steps and other callers           *)
(* interleave.  The responses the handlers return are reads and are left   *)
(* out.                                                                    *)
(***************************************************************************)
EXTENDS OwnershipFSM

CONSTANT Caller  \* goroutines that call the protocol

VARIABLES
    call,       \* the next critical section of each caller
    overlapped  \* history: two handlers ran at the same time

protocolVars == <<vars, call, overlapped>>

Idle == [step |-> "idle"]
AtSetTarget(node) == [step |-> "setTarget", node |-> node]
AtTransition(to) == [step |-> "transition", to |-> to]

ProtocolTypeOK ==
    /\ TypeOK
    /\ call \in [Caller -> {Idle} \cup {AtSetTarget(n) : n \in Node}
                                  \cup {AtTransition(s) : s \in OwnershipState}]
    /\ overlapped \in BOOLEAN

ProtocolInit == Init /\ call = [c \in Caller |-> Idle] /\ overlapped = FALSE

\* A handler's check of GetState, which its later steps rely on.
CheckState(c, expected, next) ==
    /\ call[c] = Idle
    /\ State = expected
    /\ call' = [call EXCEPT ![c] = next]
    /\ UNCHANGED vars

StartTransfer(c, node) == CheckState(c, "Owned", AtSetTarget(node))

ApplyFreezeSignal(c) == CheckState(c, "MigrationPending", AtTransition("Frozen"))

CompleteFlushing(c) == CheckState(c, "Frozen", AtTransition("Flushing"))

ApplyTransferSignal(c) == CheckState(c, "Flushing", AtTransition("Transferring"))

CommitTransfer(c) == CheckState(c, "Transferring", AtTransition("Standby"))

\* StartMigration up to its unlock.
StartMigration(c) ==
    /\ call[c].step = "setTarget"
    /\ SetTarget(call[c].node)
    /\ call' = [call EXCEPT ![c] = AtTransition("MigrationPending")]

\* RollbackTransfer checks nothing: Rollback up to its unlock.
RollbackTransfer(c) ==
    /\ call[c] = Idle
    /\ ClearTarget
    /\ call' = [call EXCEPT ![c] = AtTransition("Failed")]

\* fsm.Recover is a single critical section.
Recover(c) ==
    /\ call[c] = Idle
    /\ Transition("Owned")
    /\ UNCHANGED call

\* The Transition a handler ends with, or its error.
RunTransition(c) ==
    /\ call[c].step = "transition"
    /\ \/ Transition(call[c].to)
       \/ Refused(call[c].to) /\ UNCHANGED vars
    /\ call' = [call EXCEPT ![c] = Idle]

Handler(c) ==
    \/ \E node \in Node : StartTransfer(c, node)
    \/ StartMigration(c)
    \/ ApplyFreezeSignal(c)
    \/ CompleteFlushing(c)
    \/ ApplyTransferSignal(c)
    \/ CommitTransfer(c)
    \/ RollbackTransfer(c)
    \/ Recover(c)
    \/ RunTransition(c)

\* Event processing and the database go on beside the handlers.
ProtocolNext ==
    \/ \E c \in Caller :
          /\ Handler(c)
          /\ overlapped' = (overlapped \/ \E other \in Caller \ {c} : call[other] # Idle)
    \/ (Update \/ Environment) /\ UNCHANGED <<call, overlapped>>

ProtocolSpec == ProtocolInit /\ [][ProtocolNext]_protocolVars

-----------------------------------------------------------------------------
(* Properties                                                              *)

\* A partition always has an owner: RollbackTransfer gives a migration up and
\* "清除 TargetOwner，保持原所有者" (clears TargetOwner, keeps the original owner;
\* PARTITION_OWNERSHIP_STATE_MACHINE.md), CommitTransfer names a node.
PartitionHasOwner == CurrentOwner \in Node

\* The node that becomes the owner is the node that confirmed: CommitTransfer
\* asks IsTargetReady, "检查目标节点是否已确认接收" (has the target node confirmed
\* receipt; transfer_coordinator.go), of the row whose ToOwner is that node.
\* As long as no two handlers ran at the same time, it is.
NewOwnerConfirmed ==
    ~overlapped /\ State = "Standby" =>
        /\ CurrentOwner \in Node
        /\ TransferID # 0 => transfers[TransferID].ToOwner = CurrentOwner
-----------------------------------------------------------------------------
(* The inductive invariant behind NewOwnerConfirmed.                       *)

\* While handlers do not overlap, at most one caller is inside one.
OneCallerInside ==
    ~overlapped => \A c, d \in Caller : call[c] # Idle /\ call[d] # Idle => c = d

\* While handlers do not overlap, what a handler checked or wrote before it
\* let the lock go still holds when it takes it again.
CheckStillHolds ==
    ~overlapped =>
        \A c \in Caller :
            /\ call[c].step = "setTarget" => State = "Owned"
            /\ call[c].step = "transition" =>
                /\ call[c].to = "MigrationPending" => State = "Owned"
                /\ call[c].to = "Failed" => TargetOwner = NoNode
                /\ call[c].to # "Owned"

\* A migration has its target, and its row names that target, unless a
\* rollback has cleared the target and not yet failed the migration.
MigrationHasTarget ==
    ~overlapped =>
        /\ State \in Migrating =>
            TargetOwner \in Node \/ \E c \in Caller : call[c] = AtTransition("Failed")
        /\ State = "Transferring" /\ TransferID # 0 /\ TargetOwner # NoNode =>
            transfers[TransferID].ToOwner = TargetOwner

ProtocolInv ==
    /\ Inv
    /\ ProtocolTypeOK
    /\ OneCallerInside
    /\ CheckStillHolds
    /\ MigrationHasTarget
    /\ NewOwnerConfirmed
=============================================================================
