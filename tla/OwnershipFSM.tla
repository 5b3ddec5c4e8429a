---------------------------- MODULE OwnershipFSM ----------------------------
(***************************************************************************)
(* The ownership state machine of one partition                            *)
(* (biz/model/partition_ownership.go) with the transfer records its        *)
(* coordinator keeps in the database (biz/service/db_transfer_coordinator). *)
(*                                                                         *)
(* Every action is one critical section of fsm.mu (or one database         *)
(* statement), so Next is the state machine under its most permissive      *)
(* client: any caller may enter any critical section at any time.  The     *)
(* public methods StartMigration and Rollback are two critical sections    *)
(* each; TransferProtocol strings them together as the code does.          *)
(***************************************************************************)
EXTENDS Integers, Sequences

CONSTANTS
    Node,             \* node identifiers that may own the partition
    NoNode,           \* the empty string of the owner fields
    Symbol,           \* symbols of the partition
    MigrationTimeout, \* fsm.migrationTimeout, in clock ticks
    MaxSeq,           \* bound on event sequence numbers
    MaxVersion,       \* bound on metadata.Version
    MaxTransfers      \* bound on the rows of ownership_transfers

ASSUME NodeAssumption == NoNode \notin Node

ASSUME BoundAssumption ==
    /\ MigrationTimeout \in Nat
    /\ MaxSeq \in Nat
    /\ MaxVersion \in Nat
    /\ MaxTransfers \in Nat

VARIABLES
    State, CurrentOwner, PreviousOwner, TargetOwner,
    LastProcessedSeq, CheckpointSeq,
    KafkaOffset,         \* the symbols that have an offset recorded
    Version,
    migrationAge,        \* time.Now() - MigrationStartTime, see Tick
    transferCoordinator, \* TRUE once a coordinator is injected
    TransferID,          \* row of the current transfer, 0 for ""
    transfers            \* the table ownership_transfers, in id order

ownerVars == <<CurrentOwner, PreviousOwner, TargetOwner>>
progressVars == <<LastProcessedSeq, CheckpointSeq, KafkaOffset>>
transferVars == <<transferCoordinator, TransferID, transfers>>
metadata == <<State, ownerVars, progressVars, TransferID>>
vars == <<State, ownerVars, progressVars, Version, migrationAge, transferVars>>

OwnershipState == {"Owned", "MigrationPending", "Frozen", "Flushing",
                   "Transferring", "Standby", "Failed"}

Migrating == {"MigrationPending", "Frozen", "Flushing", "Transferring"}

Transfer == [FromOwner : Node \cup {NoNode}, ToOwner : Node \cup {NoNode},
             CheckpointSeq : Nat, Status : {"pending", "completed"}]

TypeOK ==
    /\ State \in OwnershipState
    /\ CurrentOwner \in Node \cup {NoNode}
    /\ PreviousOwner \in Node \cup {NoNode}
    /\ TargetOwner \in Node \cup {NoNode}
    /\ LastProcessedSeq \in Nat
    /\ CheckpointSeq \in Nat
    /\ KafkaOffset \subseteq Symbol
    /\ Version \in Nat
    /\ migrationAge \in 0 .. MigrationTimeout + 1
    /\ transferCoordinator \in BOOLEAN
    /\ transfers \in Seq(Transfer)
    /\ TransferID \in 0 .. Len(transfers)

\* NewOwnershipStateMachine: owned by its creator, with or without the
\* default coordinator.  MigrationStartTime 0 makes the age exceed any timeout.
Init ==
    /\ State = "Owned"
    /\ CurrentOwner \in Node
    /\ PreviousOwner = NoNode
    /\ TargetOwner = NoNode
    /\ LastProcessedSeq = 0
    /\ CheckpointSeq = 0
    /\ KafkaOffset = {}
    /\ Version = 1
    /\ migrationAge = MigrationTimeout + 1
    /\ transferCoordinator \in BOOLEAN
    /\ TransferID = 0
    /\ transfers = <<>>

-----------------------------------------------------------------------------
(* Transition: under fsm.mu, look the edge up, run its guard, then its      *)
(* action, then set State and increment Version.  An edge that is not       *)
(* registered, a guard that says no and an action that fails leave the      *)
(* metadata as it was.                                                      *)

\* The tail of Transition, after the action of the edge has succeeded.
EnterState(from, to) ==
    /\ State = from
    /\ Version < MaxVersion
    /\ State' = to
    /\ Version' = Version + 1

\* Owned -> MigrationPending
ToMigrationPending ==
    /\ TargetOwner # NoNode
    /\ TargetOwner # CurrentOwner
    /\ EnterState("Owned", "MigrationPending")
    /\ migrationAge' = 0
    /\ UNCHANGED <<ownerVars, progressVars, transferVars>>

\* MigrationPending -> Frozen
ToFrozen ==
    /\ migrationAge <= MigrationTimeout
    /\ EnterState("MigrationPending", "Frozen")
    /\ UNCHANGED <<ownerVars, progressVars, migrationAge, transferVars>>

\* Frozen -> Flushing
ToFlushing ==
    /\ EnterState("Frozen", "Flushing")
    /\ UNCHANGED <<ownerVars, progressVars, migrationAge, transferVars>>

\* Mutant of InitiateTransfer: an id left by an earlier migration is kept.
InitiateTransferKeepsID ==
    /\ Len(transfers) < MaxTransfers
    /\ transfers' = Append(transfers,
                           [FromOwner |-> CurrentOwner, ToOwner |-> TargetOwner,
                            CheckpointSeq |-> CheckpointSeq, Status |-> "pending"])
    /\ TransferID' = IF TransferID = 0 THEN Len(transfers') ELSE TransferID

\* DBTransferCoordinator.InitiateTransfer: insert a pending row, keep its id.
InitiateTransfer ==
    /\ Len(transfers) < MaxTransfers
    /\ transfers' = Append(transfers,
                           [FromOwner |-> CurrentOwner, ToOwner |-> TargetOwner,
                            CheckpointSeq |-> CheckpointSeq, Status |-> "pending"])
    /\ TransferID' = Len(transfers')

\* Flushing -> Transferring
ToTransferring ==
    /\ CheckpointSeq <= LastProcessedSeq
    /\ EnterState("Flushing", "Transferring")
    /\ \/ transferCoordinator /\ InitiateTransfer
       \/ ~transferCoordinator /\ UNCHANGED <<TransferID, transfers>>
    /\ UNCHANGED <<ownerVars, progressVars, migrationAge, transferCoordinator>>

\* There is a transfer record, and IsTargetReady finds it completed.
IsTargetReady == TransferID # 0 /\ transfers[TransferID].Status = "completed"

\* Mutant of ToStandby: the coordinator is not asked.
ToStandbyUnconfirmed ==
    /\ EnterState("Transferring", "Standby")
    /\ PreviousOwner' = CurrentOwner
    /\ CurrentOwner' = TargetOwner
    /\ TargetOwner' = NoNode
    /\ UNCHANGED <<progressVars, migrationAge, transferVars>>

\* Mutant of ToStandby: the target is cleared before it is made the owner.
ToStandbyClearsFirst ==
    /\ transferCoordinator => IsTargetReady
    /\ EnterState("Transferring", "Standby")
    /\ PreviousOwner' = CurrentOwner
    /\ TargetOwner' = NoNode
    /\ CurrentOwner' = TargetOwner'
    /\ UNCHANGED <<progressVars, migrationAge, transferVars>>

\* Transferring -> Standby
ToStandby ==
    /\ transferCoordinator => IsTargetReady
    /\ EnterState("Transferring", "Standby")
    /\ PreviousOwner' = CurrentOwner
    /\ CurrentOwner' = TargetOwner
    /\ TargetOwner' = NoNode
    /\ UNCHANGED <<progressVars, migrationAge, transferVars>>

\* MigrationPending, Frozen, Flushing, Transferring -> Failed
ToFailed ==
    /\ \E from \in Migrating : EnterState(from, "Failed")
    /\ TargetOwner' = NoNode
    /\ UNCHANGED <<CurrentOwner, PreviousOwner, progressVars, migrationAge, transferVars>>

\* Failed -> Owned
ToOwned ==
    /\ EnterState("Failed", "Owned")
    /\ TargetOwner' = NoNode
    /\ UNCHANGED <<CurrentOwner, PreviousOwner, progressVars, migrationAge, transferVars>>

Transition(to) ==
    \/ to = "MigrationPending" /\ ToMigrationPending
    \/ to = "Frozen" /\ ToFrozen
    \/ to = "Flushing" /\ ToFlushing
    \/ to = "Transferring" /\ ToTransferring
    \/ to = "Standby" /\ ToStandby
    \/ to = "Failed" /\ ToFailed
    \/ to = "Owned" /\ ToOwned

\* Transition returns an error: no such edge, or the guard of the edge says no.
\* InitiateTransfer and the query of IsTargetReady may also fail whenever they
\* are made.
Refused(to) ==
    \/ /\ to = "MigrationPending"
       /\ State # "Owned" \/ TargetOwner \in {NoNode, CurrentOwner}
    \/ to = "Frozen" /\ (State # "MigrationPending" \/ migrationAge > MigrationTimeout)
    \/ to = "Flushing" /\ State # "Frozen"
    \/ /\ to = "Transferring"
       /\ State # "Flushing" \/ CheckpointSeq > LastProcessedSeq \/ transferCoordinator
    \/ /\ to = "Standby"
       /\ State # "Transferring" \/ transferCoordinator
    \/ to = "Failed" /\ State \notin Migrating
    \/ to = "Owned" /\ State # "Failed"

-----------------------------------------------------------------------------
(* The other critical sections.                                            *)

\* First critical section of StartMigration: no check, no Version++.
SetTarget(node) ==
    /\ TargetOwner' = node
    /\ UNCHANGED <<State, CurrentOwner, PreviousOwner, progressVars, Version,
                   migrationAge, transferVars>>

\* First critical section of Rollback: no check, no Version++.
ClearTarget == SetTarget(NoNode)

BumpVersion ==
    /\ Version < MaxVersion
    /\ Version' = Version + 1
    /\ UNCHANGED <<State, ownerVars, migrationAge, transferVars>>

UpdateLastProcessedSeq(seq) ==
    /\ seq >= LastProcessedSeq
    /\ LastProcessedSeq' = seq
    /\ BumpVersion
    /\ UNCHANGED <<CheckpointSeq, KafkaOffset>>

\* Mutant of UpdateCheckpoint: the checkpoint is not compared.
UpdateCheckpointUnchecked(seq) ==
    /\ CheckpointSeq' = seq
    /\ BumpVersion
    /\ UNCHANGED <<LastProcessedSeq, KafkaOffset>>

UpdateCheckpoint(seq) ==
    /\ seq <= LastProcessedSeq
    /\ CheckpointSeq' = seq
    /\ BumpVersion
    /\ UNCHANGED <<LastProcessedSeq, KafkaOffset>>

\* The offset value is abstracted to its presence.
UpdateKafkaOffset(symbol) ==
    /\ KafkaOffset' = KafkaOffset \cup {symbol}
    /\ BumpVersion
    /\ UNCHANGED <<LastProcessedSeq, CheckpointSeq>>

\* SetupCoordinators injects the coordinator once the database is up.
SetTransferCoordinator ==
    /\ transferCoordinator' = TRUE
    /\ UNCHANGED <<State, ownerVars, progressVars, Version, migrationAge,
                   TransferID, transfers>>

\* The target node, or an operator, marks any row completed.
MarkTransferCompleted(id) ==
    /\ transfers' = [transfers EXCEPT ![id].Status = "completed"]
    /\ UNCHANGED <<State, ownerVars, progressVars, Version, migrationAge,
                   transferCoordinator, TransferID>>

\* The clock: the age of a migration saturates once it is past the timeout.
Tick ==
    /\ migrationAge <= MigrationTimeout
    /\ migrationAge' = migrationAge + 1
    /\ UNCHANGED <<State, ownerVars, progressVars, Version, transferVars>>

Update ==
    \/ \E seq \in 0 .. MaxSeq : UpdateLastProcessedSeq(seq) \/ UpdateCheckpoint(seq)
    \/ \E symbol \in Symbol : UpdateKafkaOffset(symbol)

Environment ==
    \/ SetTransferCoordinator
    \/ \E id \in 1 .. Len(transfers) : MarkTransferCompleted(id)
    \/ Tick

Next ==
    \/ \E to \in OwnershipState : Transition(to)
    \/ \E node \in Node : SetTarget(node)
    \/ ClearTarget
    \/ Update
    \/ Environment

Spec == Init /\ [][Next]_vars

-----------------------------------------------------------------------------
(* Properties                                                              *)

\* Invariant 1 of ValidateTransferInvariants: whatever the order in which
\* UpdateLastProcessedSeq and UpdateCheckpoint are called, by whomever and in
\* whatever state, the checkpoint never claims an event that is not processed.
CheckpointBehindProcessed == CheckpointSeq <= LastProcessedSeq

\* While a transfer waits for its target, TransferID is the newest row of
\* ownership_transfers and that row was written by this migration: it names
\* the node that still owns the partition, and a checkpoint that is covered
\* by the processed events.  A row left by an earlier migration that was
\* rolled back is never taken for the current one.
TransferRecordIsCurrent ==
    State = "Transferring" /\ TransferID # 0 =>
        /\ TransferID = Len(transfers)
        /\ transfers[TransferID].FromOwner = CurrentOwner
        /\ transfers[TransferID].CheckpointSeq <= LastProcessedSeq

\* A coordinator is never removed, so before it is injected there is no row
\* and no TransferID that a later migration could mistake for its own.
NoCoordinatorNoTransfer ==
    ~transferCoordinator => TransferID = 0 /\ transfers = <<>>

\* The inductive invariant: the three facts above need one another.
Inv ==
    /\ TypeOK
    /\ CheckpointBehindProcessed
    /\ TransferRecordIsCurrent
    /\ NoCoordinatorNoTransfer

\* The owner changes in one way only: a commit, in one step, of a transfer
\* that the node losing the partition started and, when a coordinator is
\* configured, that was marked completed in the database.
OwnerChangesByCommit ==
    [][CurrentOwner' # CurrentOwner =>
        /\ State = "Transferring" /\ State' = "Standby"
        /\ PreviousOwner' = CurrentOwner
        /\ transferCoordinator =>
            \E id \in 1 .. Len(transfers) :
                /\ transfers[id].Status = "completed"
                /\ transfers[id].FromOwner = CurrentOwner]_vars
=============================================================================
