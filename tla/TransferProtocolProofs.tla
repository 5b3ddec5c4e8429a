----------------------- MODULE TransferProtocolProofs -----------------------
(***************************************************************************)
(* Proofs about the ownership state machine and about the protocol whose   *)
(* handlers drive it, for any nodes, symbols, callers and bounds.          *)
(*                                                                         *)
(* Of the state machine the inductive invariant is Inv:                    *)
(* TransferRecordIsCurrent is not inductive alone, since entering          *)
(* Transferring without a coordinator keeps TransferID, which              *)
(* NoCoordinatorNoTransfer shows to be 0 then, and entering it with one    *)
(* copies CheckpointSeq into the new row, which CheckpointBehindProcessed  *)
(* bounds by LastProcessedSeq.                                             *)
(*                                                                         *)
(* The protocol implements the state machine, so it inherits all that; of  *)
(* the protocol itself the inductive invariant is ProtocolInv.             *)
(***************************************************************************)
EXTENDS TransferProtocol, TLAPS

\* NewOwnershipStateMachine establishes the inductive invariant.
LEMMA InitInv == Init => Inv
  BY BoundAssumption
  DEF Init, Inv, TypeOK, CheckpointBehindProcessed, TransferRecordIsCurrent,
      NoCoordinatorNoTransfer, OwnershipState, Transfer

\* A row that InitiateTransfer appends is the newest and leaves the others alone.
LEMMA InitiateTransferAppends ==
    ASSUME TypeOK, InitiateTransfer
    PROVE  /\ transfers' \in Seq(Transfer)
           /\ Len(transfers') = Len(transfers) + 1
           /\ TransferID' = Len(transfers')
           /\ transfers'[TransferID'].FromOwner = CurrentOwner
           /\ transfers'[TransferID'].ToOwner = TargetOwner
           /\ transfers'[TransferID'].CheckpointSeq = CheckpointSeq
  <1> DEFINE row == [FromOwner |-> CurrentOwner, ToOwner |-> TargetOwner,
                     CheckpointSeq |-> CheckpointSeq, Status |-> "pending"]
  <1>1. row \in Transfer
    BY Zenon DEF TypeOK, Transfer
  <1>2. transfers' = Append(transfers, row) /\ TransferID' = Len(transfers')
    BY Zenon DEF InitiateTransfer
  <1>3. transfers \in Seq(Transfer)
    BY Zenon DEF TypeOK
  <1> HIDE DEF row
  <1>4. /\ transfers' \in Seq(Transfer)
        /\ Len(transfers') = Len(transfers) + 1
        /\ transfers'[Len(transfers) + 1] = row
    BY <1>1, <1>2, <1>3
  <1>5. /\ row.FromOwner = CurrentOwner /\ row.ToOwner = TargetOwner
        /\ row.CheckpointSeq = CheckpointSeq
    BY Zenon DEF row
  <1>. QED  BY <1>2, <1>4, <1>5, Zenon

\* MarkTransferCompleted changes nothing of a row but its status.
LEMMA MarkTransferCompletedKeepsRows ==
    ASSUME TypeOK, NEW id \in 1 .. Len(transfers), MarkTransferCompleted(id)
    PROVE  /\ transfers' \in Seq(Transfer)
           /\ Len(transfers') = Len(transfers)
           /\ \A i \in 1 .. Len(transfers) :
                /\ transfers'[i].FromOwner = transfers[i].FromOwner
                /\ transfers'[i].ToOwner = transfers[i].ToOwner
                /\ transfers'[i].CheckpointSeq = transfers[i].CheckpointSeq
  <1>1. transfers \in Seq(Transfer)
    BY Zenon DEF TypeOK
  <1>2. transfers' = [transfers EXCEPT ![id] = [@ EXCEPT !.Status = "completed"]]
    BY Zenon DEF MarkTransferCompleted
  <1> DEFINE row == [transfers[id] EXCEPT !.Status = "completed"]
  <1>3. /\ row \in Transfer
        /\ row.FromOwner = transfers[id].FromOwner
        /\ row.ToOwner = transfers[id].ToOwner
        /\ row.CheckpointSeq = transfers[id].CheckpointSeq
    <2>1. transfers[id] \in Transfer
      BY <1>1
    <2>. QED  BY <2>1, Zenon DEF Transfer
  <1>4. transfers' = [transfers EXCEPT ![id] = row]
    BY <1>2, Zenon
  <1> HIDE DEF row
  <1>. QED  BY <1>1, <1>3, <1>4

\* Every critical section preserves the inductive invariant.
LEMMA NextInv == Inv /\ [Next]_vars => Inv'
  <1> SUFFICES ASSUME Inv, [Next]_vars PROVE Inv'
    BY Zenon
  <1> USE DEF Inv, TypeOK, CheckpointBehindProcessed, TransferRecordIsCurrent,
              NoCoordinatorNoTransfer
  <1>1. CASE ToMigrationPending
    BY <1>1, BoundAssumption
    DEF ToMigrationPending, EnterState, ownerVars, progressVars, transferVars,
        OwnershipState
  <1>2. CASE ToFrozen
    BY <1>2 DEF ToFrozen, EnterState, ownerVars, progressVars, transferVars, OwnershipState
  <1>3. CASE ToFlushing
    BY <1>3 DEF ToFlushing, EnterState, ownerVars, progressVars, transferVars, OwnershipState
  <1>4. CASE ToTransferring
    <2>1. /\ State' = "Transferring" /\ Version' \in Nat
          /\ UNCHANGED <<ownerVars, progressVars, migrationAge, transferCoordinator>>
      BY <1>4 DEF ToTransferring, EnterState
    <2>2. CASE transferCoordinator /\ InitiateTransfer
      BY <2>1, <2>2, InitiateTransferAppends
      DEF ownerVars, progressVars, OwnershipState
    <2>3. CASE ~transferCoordinator /\ UNCHANGED <<TransferID, transfers>>
      BY <2>1, <2>3, Zenon DEF ownerVars, progressVars, OwnershipState
    <2>. QED  BY <1>4, <2>2, <2>3, Zenon DEF ToTransferring
  <1>5. CASE ToStandby
    BY <1>5 DEF ToStandby, EnterState, progressVars, transferVars, OwnershipState
  <1>6. CASE ToFailed
    BY <1>6 DEF ToFailed, EnterState, progressVars, transferVars, OwnershipState
  <1>7. CASE ToOwned
    BY <1>7 DEF ToOwned, EnterState, progressVars, transferVars, OwnershipState
  <1>8. ASSUME NEW node \in Node \cup {NoNode}, SetTarget(node) PROVE Inv'
    BY <1>8, Zenon DEF SetTarget, progressVars, transferVars
  <1>9. ASSUME NEW seq \in 0 .. MaxSeq, UpdateLastProcessedSeq(seq) PROVE Inv'
    <2>1. /\ LastProcessedSeq' = seq /\ seq >= LastProcessedSeq /\ seq \in Nat
          /\ Version' \in Nat
          /\ UNCHANGED <<State, ownerVars, CheckpointSeq, KafkaOffset, migrationAge,
                         transferVars>>
      BY <1>9, BoundAssumption DEF UpdateLastProcessedSeq, BumpVersion
    <2>2. TransferID # 0 => transfers[TransferID].CheckpointSeq \in Nat
      <3>1. TransferID # 0 => transfers[TransferID] \in Transfer
        OBVIOUS
      <3>. QED  BY <3>1, Zenon DEF Transfer
    <2>3. TransferRecordIsCurrent'
      BY <2>1, <2>2 DEF ownerVars, transferVars
    <2>. QED  BY <2>1, <2>3 DEF ownerVars, transferVars
  <1>10. ASSUME NEW seq \in 0 .. MaxSeq, UpdateCheckpoint(seq) PROVE Inv'
    BY <1>10, BoundAssumption DEF UpdateCheckpoint, BumpVersion, ownerVars, transferVars
  <1>11. ASSUME NEW symbol \in Symbol, UpdateKafkaOffset(symbol) PROVE Inv'
    BY <1>11 DEF UpdateKafkaOffset, BumpVersion, ownerVars, transferVars
  <1>12. CASE SetTransferCoordinator
    BY <1>12, Zenon DEF SetTransferCoordinator, ownerVars, progressVars
  <1>13. ASSUME NEW id \in 1 .. Len(transfers), MarkTransferCompleted(id) PROVE Inv'
    <2>1. UNCHANGED <<State, ownerVars, progressVars, Version, migrationAge,
                      transferCoordinator, TransferID>>
      BY <1>13, Zenon DEF MarkTransferCompleted
    <2>2. /\ transfers' \in Seq(Transfer)
          /\ Len(transfers') = Len(transfers)
          /\ \A i \in 1 .. Len(transfers) :
                /\ transfers'[i].FromOwner = transfers[i].FromOwner
                /\ transfers'[i].CheckpointSeq = transfers[i].CheckpointSeq
      BY <1>13, MarkTransferCompletedKeepsRows, Zenon
    <2>3. transferCoordinator
      BY <1>13
    <2>. QED  BY <2>1, <2>2, <2>3 DEF ownerVars, progressVars
  <1>14. CASE Tick
    BY <1>14, BoundAssumption DEF Tick, ownerVars, progressVars, transferVars
  <1>15. CASE UNCHANGED vars
    BY <1>15, Zenon DEF vars, ownerVars, progressVars, transferVars
  <1>. QED
    BY <1>1, <1>2, <1>3, <1>4, <1>5, <1>6, <1>7, <1>8, <1>9, <1>10, <1>11, <1>12,
       <1>13, <1>14, <1>15, Zenon
    DEF Next, Transition, ClearTarget, Update, Environment

\* The inductive invariant holds in every reachable state.
THEOREM Invariance == Spec => []Inv
  BY InitInv, NextInv, PTL DEF Spec

\* The metadata and the transfer rows keep their types: every owner field is a
\* node or empty, and TransferID always points into ownership_transfers.
THEOREM TypeCorrectness == Spec => []TypeOK
  BY Invariance, PTL DEF Inv

\* Whatever the interleaving of UpdateLastProcessedSeq and UpdateCheckpoint,
\* the checkpoint never runs ahead of the processed events.
THEOREM CheckpointSafety == Spec => []CheckpointBehindProcessed
  BY Invariance, PTL DEF Inv

\* In Transferring, TransferID is this migration's own row, however many
\* migrations were started and rolled back before.
THEOREM TransferRecordSafety == Spec => []TransferRecordIsCurrent
  BY Invariance, PTL DEF Inv

\* Under any client, ownership moves only by the commit of a transfer that the
\* current owner started and that was marked completed.
THEOREM OwnerChange == Spec => OwnerChangesByCommit
  <1> DEFINE Change == CurrentOwner' # CurrentOwner =>
                 /\ State = "Transferring" /\ State' = "Standby"
                 /\ PreviousOwner' = CurrentOwner
                 /\ transferCoordinator =>
                     \E id \in 1 .. Len(transfers) :
                         /\ transfers[id].Status = "completed"
                         /\ transfers[id].FromOwner = CurrentOwner
  <1>1. Inv /\ [Next]_vars => Change
    <2> SUFFICES ASSUME Inv, [Next]_vars, CurrentOwner' # CurrentOwner PROVE Change
      BY Zenon
    <2>1. ToStandby
      BY Zenon DEF Next, Transition, ToMigrationPending, ToFrozen, ToFlushing, ToTransferring,
             ToFailed, ToOwned, ClearTarget, SetTarget, Update, UpdateLastProcessedSeq,
             UpdateCheckpoint, UpdateKafkaOffset, BumpVersion, Environment,
             SetTransferCoordinator, MarkTransferCompleted, Tick, vars, ownerVars
    <2>2. State = "Transferring" /\ State' = "Standby" /\ PreviousOwner' = CurrentOwner
      BY <2>1, Zenon DEF ToStandby, EnterState
    <2>3. ASSUME transferCoordinator
          PROVE  \E id \in 1 .. Len(transfers) :
                     /\ transfers[id].Status = "completed"
                     /\ transfers[id].FromOwner = CurrentOwner
      <3>1. TransferID \in 1 .. Len(transfers) /\ transfers[TransferID].Status = "completed"
        BY <2>1, <2>3 DEF ToStandby, IsTargetReady, Inv, TypeOK
      <3>2. transfers[TransferID].FromOwner = CurrentOwner
        BY <2>2, <3>1 DEF Inv, TransferRecordIsCurrent
      <3>. QED  BY <3>1, <3>2, Zenon
    <2>. QED  BY <2>2, <2>3, Zenon
  <1>. QED  BY <1>1, Invariance, PTL DEF Spec, OwnerChangesByCommit
-----------------------------------------------------------------------------
(* The protocol.                                                           *)

\* A caller is outside every handler, about to write the target, or about to
\* call Transition.
LEMMA CallForms ==
    ASSUME ProtocolTypeOK, NEW c \in Caller
    PROVE  \/ call[c] = Idle /\ call[c].step = "idle"
           \/ call[c].step = "setTarget" /\ call[c].node \in Node /\ call[c] # Idle
           \/ /\ call[c].step = "transition" /\ call[c].to \in OwnershipState
              /\ call[c] # Idle /\ call[c] = AtTransition(call[c].to)
  BY DEF ProtocolTypeOK, Idle, AtSetTarget, AtTransition

\* Every step of a handler is a critical section of the state machine or leaves
\* it alone.
LEMMA HandlerStep ==
    ASSUME ProtocolTypeOK, NEW c \in Caller, Handler(c)
    PROVE  [Next]_vars
  <1>1. CASE \E node \in Node : StartTransfer(c, node)
    BY <1>1, Zenon DEF StartTransfer, CheckState
  <1>2. CASE StartMigration(c)
    BY <1>2, CallForms, Zenon DEF StartMigration, Next, Idle
  <1>3. CASE ApplyFreezeSignal(c) \/ CompleteFlushing(c) \/ ApplyTransferSignal(c)
                \/ CommitTransfer(c)
    BY <1>3, Zenon DEF ApplyFreezeSignal, CompleteFlushing, ApplyTransferSignal, CommitTransfer,
                CheckState
  <1>4. CASE RollbackTransfer(c)
    BY <1>4, Zenon DEF RollbackTransfer, Next
  <1>5. CASE Recover(c)
    BY <1>5, Zenon DEF Recover, Next, OwnershipState
  <1>6. CASE RunTransition(c)
    BY <1>6, CallForms, Zenon DEF RunTransition, Next
  <1>. QED
    BY <1>1, <1>2, <1>3, <1>4, <1>5, <1>6, Zenon DEF Handler

\* The same for every step of the protocol.
LEMMA ProtocolStep ==
    ASSUME ProtocolTypeOK, [ProtocolNext]_protocolVars
    PROVE  [Next]_vars
  BY HandlerStep, Zenon DEF ProtocolNext, protocolVars, Next

\* A handler changes where its own caller is and no other caller.
LEMMA HandlerCall ==
    ASSUME ProtocolTypeOK, NEW c \in Caller, Handler(c)
    PROVE  /\ \A d \in Caller \ {c} : call'[d] = call[d]
           /\ call' \in [Caller -> {Idle} \cup {AtSetTarget(n) : n \in Node}
                                          \cup {AtTransition(s) : s \in OwnershipState}]
  <1> DEFINE Call == {Idle} \cup {AtSetTarget(n) : n \in Node}
                            \cup {AtTransition(s) : s \in OwnershipState}
  <1>1. call \in [Caller -> Call]
    BY Zenon DEF ProtocolTypeOK
  <1>2. call' = call \/ \E x \in Call : call' = [call EXCEPT ![c] = x]
    <2>1. CASE \E node \in Node : StartTransfer(c, node)
      BY <2>1, Zenon DEF StartTransfer, CheckState
    <2>2. CASE StartMigration(c)
      BY <2>2, Zenon DEF StartMigration, OwnershipState
    <2>3. CASE ApplyFreezeSignal(c) \/ CompleteFlushing(c) \/ ApplyTransferSignal(c)
                  \/ CommitTransfer(c)
      BY <2>3, Zenon DEF ApplyFreezeSignal, CompleteFlushing, ApplyTransferSignal, CommitTransfer,
                  CheckState, OwnershipState
    <2>4. CASE RollbackTransfer(c)
      BY <2>4, Zenon DEF RollbackTransfer, OwnershipState
    <2>5. CASE Recover(c)
      BY <2>5, Zenon DEF Recover
    <2>6. CASE RunTransition(c)
      BY <2>6, Zenon DEF RunTransition
    <2>. QED
      BY <2>1, <2>2, <2>3, <2>4, <2>5, <2>6, Zenon DEF Handler
  <1> HIDE DEF Call
  <1>3. call' \in [Caller -> Call] /\ \A d \in Caller \ {c} : call'[d] = call[d]
    BY <1>1, <1>2, Zenon
  <1>. QED  BY <1>3, Zenon DEF Call

\* The types and the invariant of the state machine hold under the protocol.
LEMMA ProtocolTypeStep ==
    ASSUME Inv, ProtocolTypeOK, [ProtocolNext]_protocolVars
    PROVE  Inv' /\ ProtocolTypeOK'
  <1>1. Inv'
    BY ProtocolStep, NextInv, Zenon
  <1>2. TypeOK'
    BY <1>1, Zenon DEF Inv
  <1>3. overlapped' \in BOOLEAN
    BY Zenon DEF ProtocolTypeOK, ProtocolNext, protocolVars
  <1>4. call' \in [Caller -> {Idle} \cup {AtSetTarget(n) : n \in Node}
                                    \cup {AtTransition(s) : s \in OwnershipState}]
    BY HandlerCall, Zenon DEF ProtocolTypeOK, ProtocolNext, protocolVars
  <1>. QED  BY <1>1, <1>2, <1>3, <1>4, Zenon DEF ProtocolTypeOK

\* The protocol implements the state machine: its handlers, in whatever order
\* their critical sections interleave, only do what the state machine allows.
THEOREM ProtocolImplementsFSM == ProtocolSpec => Spec
  <1>1. ProtocolInit => Inv /\ ProtocolTypeOK
    BY InitInv, Zenon DEF ProtocolInit, ProtocolTypeOK, Inv
  <1>2. Inv /\ ProtocolTypeOK /\ [ProtocolNext]_protocolVars => (Inv /\ ProtocolTypeOK)'
    BY ProtocolTypeStep, Zenon
  <1>3. ProtocolTypeOK /\ [ProtocolNext]_protocolVars => [Next]_vars
    BY ProtocolStep, Zenon
  <1>4. ProtocolInit => Init
    BY Zenon DEF ProtocolInit
  <1>. QED  BY <1>1, <1>2, <1>3, <1>4, PTL DEF ProtocolSpec, Spec

\* A handler that runs while no two overlap is alone: every other caller is
\* outside, before the step and after it.
LEMMA HandlerAlone ==
    ASSUME ProtocolInv, NEW c \in Caller, Handler(c), ~overlapped',
           overlapped' = (overlapped \/ \E other \in Caller \ {c} : call[other] # Idle)
    PROVE  /\ ~overlapped
           /\ \A d \in Caller \ {c} : call[d] = Idle /\ call'[d] = Idle
           /\ OneCallerInside'
  <1>1. ~overlapped /\ \A d \in Caller \ {c} : call[d] = Idle
    BY Zenon
  <1>2. \A d \in Caller \ {c} : call'[d] = call[d]
    BY HandlerCall, Zenon DEF ProtocolInv
  <1>3. OneCallerInside'
    BY <1>1, <1>2, Zenon DEF OneCallerInside, Idle
  <1>. QED  BY <1>1, <1>2, <1>3, Zenon

\* What the protocol's clauses say of a state, when only caller c is inside.
LEMMA ClausesOfOneCaller ==
    ASSUME ProtocolTypeOK', NEW c \in Caller, \A d \in Caller \ {c} : call'[d] = Idle,
           call'[c].step = "setTarget" => State' = "Owned",
           call'[c].step = "transition" =>
                /\ call'[c].to = "MigrationPending" => State' = "Owned"
                /\ call'[c].to = "Failed" => TargetOwner' = NoNode
                /\ call'[c].to # "Owned"
    PROVE  CheckStillHolds'
  BY DEF CheckStillHolds, Idle

\* The steps of the handlers that end in a critical section of the state
\* machine other than Transition.
LEMMA CheckSteps ==
    ASSUME ProtocolInv, ProtocolTypeOK', NEW c \in Caller, ~overlapped,
           \A d \in Caller \ {c} : call[d] = Idle /\ call'[d] = Idle,
           \/ \E node \in Node : StartTransfer(c, node)
           \/ StartMigration(c)
           \/ ApplyFreezeSignal(c) \/ CompleteFlushing(c) \/ ApplyTransferSignal(c)
           \/ CommitTransfer(c)
           \/ RollbackTransfer(c)
    PROVE  CheckStillHolds' /\ MigrationHasTarget' /\ NewOwnerConfirmed'
  <1> USE DEF ProtocolInv
  <1>t. call \in [Caller -> {Idle} \cup {AtSetTarget(n) : n \in Node}
                                    \cup {AtTransition(s) : s \in OwnershipState}]
    BY Zenon DEF ProtocolTypeOK
  <1>1. ASSUME NEW next, NEW expected, CheckState(c, expected, next),
               \/ expected = "Owned" /\ next.step = "setTarget"
               \/ /\ next.step = "transition"
                  /\ next.to \notin {"MigrationPending", "Failed", "Owned"}
        PROVE  CheckStillHolds' /\ MigrationHasTarget' /\ NewOwnerConfirmed'
    <2>1. /\ call'[c] = next /\ call[c] = Idle /\ State = expected
          /\ UNCHANGED <<State, TargetOwner, CurrentOwner, TransferID, transfers>>
      BY <1>1, <1>t, Zenon DEF CheckState, vars, ownerVars, transferVars
    <2>2. CheckStillHolds'
      BY <1>1, <2>1, ClausesOfOneCaller, Zenon
    <2>3. \A d \in Caller : call[d] = Idle
      BY <2>1, Zenon
    <2>4. \A d \in Caller : call[d] # AtTransition("Failed")
      BY <2>3 DEF Idle, AtTransition
    <2>5. MigrationHasTarget'
      BY <2>1, <2>4, Zenon DEF MigrationHasTarget
    <2>6. NewOwnerConfirmed'
      BY <2>1, Zenon DEF NewOwnerConfirmed
    <2>. QED  BY <2>2, <2>5, <2>6, Zenon
  <1>2. CASE \E node \in Node : StartTransfer(c, node)
    BY <1>1, <1>2, Zenon DEF StartTransfer, AtSetTarget
  <1>3. CASE ApplyFreezeSignal(c) \/ CompleteFlushing(c) \/ ApplyTransferSignal(c)
                \/ CommitTransfer(c)
    BY <1>1, <1>3, Zenon DEF ApplyFreezeSignal, CompleteFlushing, ApplyTransferSignal,
                      CommitTransfer, AtTransition
  <1>4. CASE StartMigration(c)
    <2>1. /\ State = "Owned" /\ State' = "Owned"
          /\ call'[c] = AtTransition("MigrationPending")
      BY <1>4, <1>t, Zenon DEF StartMigration, SetTarget, CheckStillHolds
    <2>2. CheckStillHolds'
      BY <2>1, ClausesOfOneCaller DEF AtTransition
    <2>3. MigrationHasTarget' /\ NewOwnerConfirmed'
      BY <2>1, Zenon DEF MigrationHasTarget, NewOwnerConfirmed, Migrating
    <2>. QED  BY <2>2, <2>3, Zenon
  <1>5. CASE RollbackTransfer(c)
    <2>1. /\ TargetOwner' = NoNode /\ call'[c] = AtTransition("Failed")
          /\ UNCHANGED <<State, CurrentOwner, TransferID, transfers>>
      BY <1>5, <1>t, Zenon DEF RollbackTransfer, ClearTarget, SetTarget, transferVars
    <2>2. CheckStillHolds'
      BY <2>1, ClausesOfOneCaller DEF AtTransition
    <2>3. MigrationHasTarget'
      BY <2>1, Zenon DEF MigrationHasTarget
    <2>4. NewOwnerConfirmed'
      BY <2>1, Zenon DEF NewOwnerConfirmed
    <2>. QED  BY <2>2, <2>3, <2>4, Zenon
  <1>. QED  BY <1>2, <1>3, <1>4, <1>5, Zenon

\* The Transition a handler ends with: it is the one the handler checked for,
\* and a commit finds the target that the migration's row names.
LEMMA TransitionStep ==
    ASSUME ProtocolInv, Inv', NEW c \in Caller, ~overlapped,
           \A d \in Caller \ {c} : call[d] = Idle,
           NEW to \in OwnershipState, Transition(to),
           \/ call[c] = Idle /\ to = "Owned"
           \/ call[c] = AtTransition(to),
           \A d \in Caller : call'[d] = Idle
    PROVE  CheckStillHolds' /\ MigrationHasTarget' /\ NewOwnerConfirmed'
  <1> USE DEF ProtocolInv
  <1>1. CheckStillHolds'
    BY DEF CheckStillHolds, Idle
  <1>2. to # "Failed" => \A d \in Caller : call[d] # AtTransition("Failed")
    BY DEF Idle, AtTransition
  <1>3. TargetOwner \in Node \cup {NoNode}
    BY Zenon DEF Inv, TypeOK
  <1>4. CASE to = "MigrationPending"
    BY <1>1, <1>3, <1>4, Zenon DEF Transition, ToMigrationPending, EnterState, ownerVars,
       transferVars, MigrationHasTarget, NewOwnerConfirmed
  <1>5. CASE to = "Frozen"
    BY <1>1, <1>2, <1>5, Zenon DEF Transition, ToFrozen, EnterState, ownerVars, transferVars,
       MigrationHasTarget, NewOwnerConfirmed, Migrating
  <1>6. CASE to = "Flushing"
    BY <1>1, <1>2, <1>6, Zenon DEF Transition, ToFlushing, EnterState, ownerVars, transferVars,
       MigrationHasTarget, NewOwnerConfirmed, Migrating
  <1>7. CASE to = "Transferring"
    <2>1. /\ State = "Flushing" /\ State' = "Transferring"
          /\ UNCHANGED <<CurrentOwner, TargetOwner, transferCoordinator>>
          /\ \/ transferCoordinator /\ InitiateTransfer
             \/ ~transferCoordinator /\ UNCHANGED <<TransferID, transfers>>
      BY <1>7, Zenon DEF Transition, ToTransferring, EnterState, ownerVars
    <2>2. TargetOwner' \in Node
      BY <1>2, <1>7, <2>1, Zenon DEF MigrationHasTarget, Migrating
    <2>3. TransferID' # 0 => transfers'[TransferID'].ToOwner = TargetOwner'
      BY <2>1, InitiateTransferAppends, Zenon DEF Inv, NoCoordinatorNoTransfer
    <2>4. MigrationHasTarget'
      BY <2>2, <2>3, Zenon DEF MigrationHasTarget
    <2>5. NewOwnerConfirmed'
      BY <2>1, Zenon DEF NewOwnerConfirmed
    <2>. QED  BY <1>1, <2>4, <2>5, Zenon
  <1>8. CASE to = "Standby"
    <2>1. /\ State = "Transferring" /\ State' = "Standby" /\ CurrentOwner' = TargetOwner
          /\ UNCHANGED <<TransferID, transfers>>
      BY <1>8, Zenon DEF Transition, ToStandby, EnterState, transferVars
    <2>2. TargetOwner \in Node /\ TargetOwner # NoNode
      BY <1>2, <1>8, <2>1, NodeAssumption, Zenon DEF MigrationHasTarget, Migrating
    <2>3. TransferID # 0 => transfers[TransferID].ToOwner = TargetOwner
      BY <2>1, <2>2, Zenon DEF MigrationHasTarget
    <2>4. NewOwnerConfirmed'
      BY <2>1, <2>2, <2>3, Zenon DEF NewOwnerConfirmed
    <2>5. MigrationHasTarget'
      BY <2>1, Zenon DEF MigrationHasTarget, Migrating
    <2>. QED  BY <1>1, <2>4, <2>5, Zenon
  <1>9. CASE to = "Failed" \/ to = "Owned"
    BY <1>1, <1>9, Zenon DEF Transition, ToFailed, ToOwned, EnterState, MigrationHasTarget,
       NewOwnerConfirmed, Migrating
  <1>. QED  BY <1>4, <1>5, <1>6, <1>7, <1>8, <1>9, Zenon DEF OwnershipState

\* A refused Transition: a rollback is refused only when no migration is left.
LEMMA RefusedStep ==
    ASSUME ProtocolInv, NEW c \in Caller, ~overlapped, call[c].step = "transition",
           \A d \in Caller \ {c} : call[d] = Idle,
           Refused(call[c].to), UNCHANGED vars, \A d \in Caller : call'[d] = Idle
    PROVE  CheckStillHolds' /\ MigrationHasTarget' /\ NewOwnerConfirmed'
  <1> USE DEF ProtocolInv
  <1>1. UNCHANGED <<State, TargetOwner, CurrentOwner, TransferID, transfers>>
    BY Zenon DEF vars, ownerVars, transferVars
  <1>2. CheckStillHolds'
    BY DEF CheckStillHolds, Idle
  <1>3. NewOwnerConfirmed'
    BY <1>1, Zenon DEF NewOwnerConfirmed
  <1>4. ASSUME State \in Migrating PROVE TargetOwner \in Node
    <2>1. call[c].to # "Failed"
      BY <1>4, Zenon DEF Refused
    <2>2. \A d \in Caller : call[d] # AtTransition("Failed")
      BY <2>1 DEF Idle, AtTransition
    <2>. QED  BY <1>4, <2>2, Zenon DEF MigrationHasTarget
  <1>5. MigrationHasTarget'
    BY <1>1, <1>4, Zenon DEF MigrationHasTarget
  <1>. QED  BY <1>2, <1>3, <1>5, Zenon

\* Event processing, the database and the clock leave what the handlers rely on.
LEMMA BackgroundStep ==
    ASSUME ProtocolInv, Update \/ Environment \/ UNCHANGED vars, UNCHANGED <<call, overlapped>>
    PROVE  OneCallerInside' /\ CheckStillHolds' /\ MigrationHasTarget' /\ NewOwnerConfirmed'
  <1> USE DEF ProtocolInv
  <1>1. UNCHANGED <<State, TargetOwner, CurrentOwner, TransferID, call, overlapped>>
    BY Zenon DEF Update, UpdateLastProcessedSeq, UpdateCheckpoint, UpdateKafkaOffset, BumpVersion,
           Environment, SetTransferCoordinator, MarkTransferCompleted, Tick, vars, ownerVars,
           transferVars
  <1>2. TransferID # 0 => transfers'[TransferID].ToOwner = transfers[TransferID].ToOwner
    <2>1. ASSUME NEW id \in 1 .. Len(transfers), MarkTransferCompleted(id), TransferID # 0
          PROVE  transfers'[TransferID].ToOwner = transfers[TransferID].ToOwner
      <3>1. TransferID \in 1 .. Len(transfers)
        BY <2>1 DEF Inv, TypeOK
      <3>2. TypeOK
        BY Zenon DEF Inv
      <3>. QED  BY <2>1, <3>1, <3>2, MarkTransferCompletedKeepsRows, Zenon
    <2>2. \/ \E id \in 1 .. Len(transfers) : MarkTransferCompleted(id)
          \/ UNCHANGED transfers
      BY Zenon DEF Update, UpdateLastProcessedSeq, UpdateCheckpoint, UpdateKafkaOffset,
             BumpVersion, Environment, SetTransferCoordinator, Tick, vars, transferVars
    <2>. QED  BY <2>1, <2>2, Zenon
  <1>3. OneCallerInside' /\ CheckStillHolds'
    BY <1>1 DEF OneCallerInside, CheckStillHolds
  <1>4. MigrationHasTarget' /\ NewOwnerConfirmed'
    BY <1>1, <1>2 DEF MigrationHasTarget, NewOwnerConfirmed
  <1>. QED  BY <1>3, <1>4, Zenon

\* Every step of the protocol preserves its inductive invariant.
LEMMA ProtocolInvStep == ProtocolInv /\ [ProtocolNext]_protocolVars => ProtocolInv'
  <1> SUFFICES ASSUME ProtocolInv, [ProtocolNext]_protocolVars PROVE ProtocolInv'
    BY Zenon
  <1>1. Inv' /\ ProtocolTypeOK'
    BY ProtocolTypeStep, Zenon DEF ProtocolInv
  <1>2. ASSUME NEW c \in Caller, Handler(c), ~overlapped',
               overlapped' = (overlapped \/ \E other \in Caller \ {c} : call[other] # Idle)
        PROVE  OneCallerInside' /\ CheckStillHolds' /\ MigrationHasTarget' /\ NewOwnerConfirmed'
    <2>1. /\ ~overlapped /\ OneCallerInside'
          /\ \A d \in Caller \ {c} : call[d] = Idle /\ call'[d] = Idle
      BY <1>2, HandlerAlone, Zenon
    <2>t. call \in [Caller -> {Idle} \cup {AtSetTarget(n) : n \in Node}
                                      \cup {AtTransition(s) : s \in OwnershipState}]
      BY Zenon DEF ProtocolInv, ProtocolTypeOK
    <2>2. CASE RunTransition(c)
      <3>1. \A d \in Caller : call'[d] = Idle
        BY <2>1, <2>2, <2>t, Zenon DEF RunTransition
      <3>2. call[c].to \in OwnershipState /\ call[c] = AtTransition(call[c].to)
        BY <2>2, CallForms, Zenon DEF RunTransition, ProtocolInv
      <3>3. CASE Transition(call[c].to)
        BY <1>1, <2>1, <3>1, <3>2, <3>3, TransitionStep, Zenon
      <3>4. CASE Refused(call[c].to) /\ UNCHANGED vars
        BY <2>1, <2>2, <3>1, <3>4, RefusedStep, Zenon DEF RunTransition
      <3>. QED  BY <2>1, <2>2, <3>3, <3>4, Zenon DEF RunTransition
    <2>3. CASE Recover(c)
      <3>1. call[c] = Idle /\ Transition("Owned") /\ \A d \in Caller : call'[d] = Idle
        BY <2>1, <2>3, Zenon DEF Recover
      <3>2. "Owned" \in OwnershipState
        BY Zenon DEF OwnershipState
      <3>. QED  BY <1>1, <2>1, <3>1, <3>2, TransitionStep, Zenon
    <2>4. CASE ~RunTransition(c) /\ ~Recover(c)
      BY <1>1, <1>2, <2>1, <2>4, CheckSteps, Zenon DEF Handler
    <2>. QED  BY <2>2, <2>3, <2>4, Zenon
  <1>3. ASSUME overlapped'
        PROVE  OneCallerInside' /\ CheckStillHolds' /\ MigrationHasTarget' /\ NewOwnerConfirmed'
    BY <1>3, Zenon DEF OneCallerInside, CheckStillHolds, MigrationHasTarget, NewOwnerConfirmed
  <1>4. ASSUME Update \/ Environment \/ UNCHANGED vars, UNCHANGED <<call, overlapped>>
        PROVE  OneCallerInside' /\ CheckStillHolds' /\ MigrationHasTarget' /\ NewOwnerConfirmed'
    BY <1>4, BackgroundStep, Zenon
  <1>. QED  BY <1>1, <1>2, <1>3, <1>4, Zenon DEF ProtocolNext, protocolVars, ProtocolInv

\* The inductive invariant of the protocol holds in every reachable state.
THEOREM ProtocolInvariance == ProtocolSpec => []ProtocolInv
  <1>1. ProtocolInit => ProtocolInv
    <2>1. ProtocolInit => Inv /\ ProtocolTypeOK
      BY InitInv, Zenon DEF ProtocolInit, ProtocolTypeOK, Inv
    <2>2. ProtocolInit => OneCallerInside /\ CheckStillHolds
      BY DEF ProtocolInit, OneCallerInside, CheckStillHolds, Idle
    <2>3. ProtocolInit => MigrationHasTarget /\ NewOwnerConfirmed
      BY Zenon DEF ProtocolInit, Init, MigrationHasTarget, NewOwnerConfirmed, Migrating
    <2>. QED  BY <2>1, <2>2, <2>3, Zenon DEF ProtocolInv
  <1>. QED  BY <1>1, ProtocolInvStep, PTL DEF ProtocolSpec

\* As long as no two handlers of transfer_protocol.go run at the same time, the
\* node that CommitTransfer makes the owner is a node, and the one that the row
\* the coordinator found completed was written for.
THEOREM ConfirmedOwner == ProtocolSpec => []NewOwnerConfirmed
  BY ProtocolInvariance, PTL DEF ProtocolInv

\* With the handlers interleaved in any way, the checkpoint stays behind the
\* processed events, a transfer uses its own row, and the owner changes by a
\* commit only.
THEOREM ProtocolSafety ==
    ProtocolSpec => /\ []CheckpointBehindProcessed
                    /\ []TransferRecordIsCurrent
                    /\ OwnerChangesByCommit
  BY ProtocolImplementsFSM, CheckpointSafety, TransferRecordSafety, OwnerChange, PTL
=============================================================================
