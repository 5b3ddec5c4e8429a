------------------------------ MODULE Recovery ------------------------------
(***************************************************************************)
(* Recovery at start-up (biz/service/recovery_executor.go, initRecovery of *)
(* main.go) over the checkpoint table (biz/dal/pg/checkpoint_repo.go,      *)
(* biz/service/checkpoint_manager.go) and the log of events in Postgres    *)
(* (biz/service/event_log_postgres.go), for one symbol.                    *)
(*                                                                         *)
(* An event has a number of its own and is stored in a row whose number is *)
(* drawn later from the same counter; the checkpoint keeps the former and  *)
(* the query of the recovery looks for the latter.  A RecoveryContext has  *)
(* no Topic, so ProcessEventWithContext refuses the first event replayed.  *)
(***************************************************************************)
EXTENDS Integers, FiniteSets

CONSTANTS
    NodeID,     \* the nodes, named by the id in their numbers
    Span,       \* numbers of one node
    Item,       \* the processors, each with a checkpoint for the symbol
    Unreadable, \* numbers of the rows whose payload UnmarshalEvent refuses: none
                \* in the code, where AppendEvent is the only writer
    Limit,      \* window of GetEventsBySymbol: 1000 in the code
    MaxDrawn,   \* bound on the numbers a node draws in one run
    MaxRows,    \* bound on the events in the log
    MaxMarks,   \* bound on the status changes
    MaxStarts   \* bound on the starts of a node after the first

\* Nodes and their numbers are natural numbers, and a node's numbers are its own.
ASSUME NumberAssumption ==
    NodeID \subseteq Nat /\ {Span, Limit, MaxDrawn} \subseteq Nat /\ MaxDrawn < Span

NoNode == -1

VARIABLES
    lockMgr,    \* whether the executor is given a lock manager
    validate,   \* ValidateAfterRecovery
    local,      \* localSeq of each node's sequencer
    created,    \* numbers of events that are not yet processed
    rows,       \* the log: [row, seq] for each event
    last,       \* last number each node's processors applied in this run
    done,       \* history: what each processor ever applied
    checkpoint, \* event_seq of each checkpoint row, 0 for no row
    status,     \* its recovery_status
    phase,      \* "down", "recovering", "up", or "dead" of a panic
    pending,    \* the pendingList of each node's recovery
    job,        \* where recoverSingleProcessor is
    start,      \* its StartEventSeq
    found,      \* the numbers of the events it read
    lock,       \* the recovery lock of each processor
    expired,    \* history: the goroutines under which their lock expired
    report,     \* IsValid of the last recovery of each node
    marks,      \* number of status changes
    starts      \* number of starts

events == <<local, created, rows, last, done>>
table == <<checkpoint, status>>
recovery == <<pending, job, start, found, lock, expired>>
scenario == <<lockMgr, validate>>
bounds == <<marks, starts>>
recoveryVars == <<scenario, events, table, phase, recovery, report, bounds>>

GlobalSeq(n, l) == (n * Span) + l
Idle == [i \in Item |-> "none"]
Finished == {"valid", "invalid", "failed"}

Stage == {"none", "lock", "context", "read", "replay"} \cup Finished

\* The type of the state, apart from the two bounds.
RecoveryTypeOK ==
    /\ lockMgr \in BOOLEAN /\ validate \in BOOLEAN
    /\ local \in [NodeID -> Nat] /\ created \in [NodeID -> SUBSET Nat]
    /\ rows \subseteq [row : Nat, seq : Nat]
    /\ last \in [NodeID -> [Item -> Nat]] /\ done \in [Item -> SUBSET Nat]
    /\ checkpoint \in [Item -> Nat]
    /\ status \in [Item -> {"none", "in_progress", "failed", "complete"}]
    /\ phase \in [NodeID -> {"down", "recovering", "up", "dead"}]
    /\ pending \in [NodeID -> SUBSET Item]
    /\ job \in [NodeID -> [Item -> Stage]]
    /\ start \in [NodeID -> [Item -> Nat]]
    /\ found \in [NodeID -> [Item -> SUBSET Nat]]
    /\ lock \in [Item -> NodeID \cup {NoNode}]
    /\ expired \subseteq NodeID \X Item
    /\ report \in [NodeID -> {"none", "valid", "invalid"}]

\* Nodes that have started on an empty database.
RecoveryInit ==
    /\ lockMgr \in BOOLEAN
    /\ validate \in BOOLEAN
    /\ local = [n \in NodeID |-> 0]
    /\ created = [n \in NodeID |-> {}]
    /\ rows = {}
    /\ last = [n \in NodeID |-> [i \in Item |-> 0]]
    /\ done = [i \in Item |-> {}]
    /\ checkpoint = [i \in Item |-> 0]
    /\ status = [i \in Item |-> "none"]
    /\ phase = [n \in NodeID |-> "up"]
    /\ pending = [n \in NodeID |-> {}]
    /\ job = [n \in NodeID |-> Idle]
    /\ start = [n \in NodeID |-> [i \in Item |-> 0]]
    /\ found = [n \in NodeID |-> [i \in Item |-> {}]]
    /\ lock = [i \in Item |-> NoNode]
    /\ expired = {}
    /\ report = [n \in NodeID |-> "none"]
    /\ marks = 0
    /\ starts = 0

-----------------------------------------------------------------------------
(* Events of a node that serves.                                           *)

\* An event is created with its number.
Create(n) ==
    /\ phase[n] = "up"
    /\ local[n] < MaxDrawn
    /\ Cardinality(rows) + Cardinality(UNION {created[m] : m \in NodeID}) < MaxRows
    /\ local' = [local EXCEPT ![n] = @ + 1]
    /\ created' = [created EXCEPT ![n] = @ \cup {GlobalSeq(n, local[n] + 1)}]
    /\ UNCHANGED <<rows, last, done, scenario, table, phase, recovery, report, bounds>>

\* AppendEvent draws the number of the row; the row exists already if the
\* number was drawn by an earlier run of the node.
PostgresAppendFails(n) ==
    /\ \E r \in rows : r.row = GlobalSeq(n, local[n] + 1)
    /\ UNCHANGED <<rows, last, done, table>>

\* The processors in "applied" take the event, and FlushCheckpoints saves their
\* checkpoints up to its first error; it is left out when a processor failed.
PostgresAppendEvent(n, s) ==
    /\ \A r \in rows : r.row # GlobalSeq(n, local[n] + 1)
    /\ rows' = rows \cup {[row |-> GlobalSeq(n, local[n] + 1), seq |-> s]}
    /\ \E applied \in SUBSET Item, saved \in SUBSET Item :
          /\ \A i \in applied : s > last[n][i]
          /\ last' = [last EXCEPT ![n] = [i \in Item |-> IF i \in applied THEN s ELSE @[i]]]
          /\ done' = [i \in Item |-> IF i \in applied THEN done[i] \cup {s} ELSE done[i]]
          /\ saved # {} => \A i \in Item : last'[n][i] >= s
          /\ checkpoint' = [i \in Item |-> IF i \in saved THEN last'[n][i] ELSE checkpoint[i]]
    /\ UNCHANGED status

ProcessEventWithContext(n, s) ==
    /\ phase[n] = "up"
    /\ s \in created[n]
    /\ local[n] < MaxDrawn
    /\ local' = [local EXCEPT ![n] = @ + 1]
    /\ created' = [created EXCEPT ![n] = @ \ {s}]
    /\ PostgresAppendEvent(n, s) \/ PostgresAppendFails(n)
    /\ UNCHANGED <<scenario, phase, recovery, report, bounds>>

-----------------------------------------------------------------------------
(* The status of a checkpoint row, changed by an operator: nothing in the  *)
(* start-up does it.                                                       *)

Mark(i, s) ==
    /\ marks < MaxMarks
    /\ marks' = marks + 1
    /\ checkpoint[i] # 0
    /\ status[i] # s
    /\ status' = [status EXCEPT ![i] = s]
    /\ UNCHANGED <<scenario, events, checkpoint, phase, recovery, report, starts>>

MarkRecoveryInProgress(i) == Mark(i, "in_progress")
MarkRecoveryFailed(i) == Mark(i, "failed")
MarkRecoveryComplete(i) == Mark(i, "complete")

\* CleanupOldCheckpoints.
DeleteOldCheckpoints(i) ==
    /\ marks < MaxMarks
    /\ marks' = marks + 1
    /\ checkpoint[i] # 0
    /\ checkpoint' = [checkpoint EXCEPT ![i] = 0]
    /\ status' = [status EXCEPT ![i] = "none"]
    /\ UNCHANGED <<scenario, events, phase, recovery, report, starts>>

-----------------------------------------------------------------------------
(* Start-up.                                                               *)

ListPendingRecoveryItems == {i \in Item : status[i] \in {"in_progress", "failed"}}

\* ExecuteRecovery begins; the goroutines of the items found are started.
ExecuteRecovery(n) ==
    /\ phase[n] \in {"down", "dead"}
    /\ starts < MaxStarts
    /\ starts' = starts + 1
    /\ phase' = [phase EXCEPT ![n] = "recovering"]
    /\ pending' = [pending EXCEPT ![n] = ListPendingRecoveryItems]
    /\ job' = [job EXCEPT ![n] =
          [i \in Item |-> IF i \in ListPendingRecoveryItems THEN "lock" ELSE "none"]]
    /\ UNCHANGED <<start, found, lock, expired, scenario, events, table, report, marks>>

\* Auto-recovery is not enabled, or the list cannot be read: the start goes on.
StartWithout(n) ==
    /\ phase[n] \in {"down", "dead"}
    /\ starts < MaxStarts
    /\ starts' = starts + 1
    /\ phase' = [phase EXCEPT ![n] = "up"]
    /\ UNCHANGED <<scenario, events, table, recovery, report, marks>>

InStage(n, i, pc) == phase[n] = "recovering" /\ job[n][i] = pc
SetJob(n, i, pc) == job' = [job EXCEPT ![n][i] = pc]

\* The deferred Unlock deletes the lock if it is still its own; it may fail.
Finish(n, i, pc) ==
    /\ SetJob(n, i, pc)
    /\ lock' \in {lock, [lock EXCEPT ![i] = IF @ = n THEN NoNode ELSE @]}
    /\ expired' = expired \ {<<n, i>>}

Stopped(n, why) ==
    /\ phase' = [phase EXCEPT ![n] = why]
    /\ local' = [local EXCEPT ![n] = 0]
    /\ created' = [created EXCEPT ![n] = {}]
    /\ last' = [last EXCEPT ![n] = [i \in Item |-> 0]]
    /\ job' = [job EXCEPT ![n] = Idle]
    /\ pending' = [pending EXCEPT ![n] = {}]
    /\ start' = [start EXCEPT ![n] = [i \in Item |-> 0]]
    /\ found' = [found EXCEPT ![n] = [i \in Item |-> {}]]
    /\ report' = [report EXCEPT ![n] = "none"]
    /\ expired' = expired \ ({n} \X Item)
    /\ UNCHANGED <<rows, done, scenario, table, lock, bounds>>

\* WithRecoveryLock of a nil lock manager: the goroutine panics.
LockPanics(n, i) ==
    /\ InStage(n, i, "lock")
    /\ ~lockMgr
    /\ Stopped(n, "dead")

\* Mutant of WithRecoveryLock: it waits as long as the lock is held.
WithRecoveryLockWaits(n, i) ==
    /\ InStage(n, i, "lock")
    /\ lockMgr
    /\ lock[i] = NoNode
    /\ lock' = [lock EXCEPT ![i] = n]
    /\ SetJob(n, i, "context")
    /\ UNCHANGED <<scenario, events, table, phase, pending, start, found, expired, report, bounds>>

\* Mutant of WithRecoveryLock: the error of the attempt is not looked at.
WithRecoveryLockGoesOn(n, i) ==
    /\ InStage(n, i, "lock")
    /\ lockMgr
    /\ lock' = [lock EXCEPT ![i] = IF @ = NoNode THEN n ELSE @]
    /\ SetJob(n, i, "context")
    /\ UNCHANGED <<scenario, events, table, phase, pending, start, found, expired, report, bounds>>

\* One call of LockContext.  It fails if the lock is held for as long as it tries,
\* and if Redis does not answer, with the lock perhaps set.
WithRecoveryLock(n, i) ==
    /\ InStage(n, i, "lock")
    /\ lockMgr
    /\ \/ /\ lock[i] = NoNode
          /\ lock' = [lock EXCEPT ![i] = n]
          /\ SetJob(n, i, "context") \/ SetJob(n, i, "failed")
       \/ /\ SetJob(n, i, "failed")
          /\ UNCHANGED lock
    /\ UNCHANGED <<scenario, events, table, phase, pending, start, found, expired, report, bounds>>

\* From the checkpoint + 1, and from 1 when there is no row any more.
GetRecoveryContext(n, i) ==
    /\ InStage(n, i, "context")
    /\ start' = [start EXCEPT ![n][i] = checkpoint[i] + 1]
    /\ SetJob(n, i, "read")
    /\ UNCHANGED <<scenario, events, table, phase, pending, found, lock, expired, report, bounds>>

\* Mutant of GetSymbolEvents: the rows after the first.
GetSymbolEventsAfter(from) == {r \in rows : from + 1 < r.row /\ r.row <= from + Limit}

GetSymbolEvents(from) == {r \in rows : from <= r.row /\ r.row <= from + Limit}

Readable(log) == {r \in log : r.row \notin Unreadable}

\* Of the envelope in the payload only the number and the time have a field in
\* the event that is read from it: the order or trade is lost on the way.  A row
\* that cannot be read is passed over with a warning.
GetEventsBySymbol(n, i) ==
    /\ InStage(n, i, "read")
    /\ found' = [found EXCEPT ![n][i] = {r.seq : r \in Readable(GetSymbolEvents(start[n][i]))}]
    /\ SetJob(n, i, "replay")
    /\ UNCHANGED <<scenario, events, table, phase, pending, start, lock, expired, report, bounds>>

\* A query fails, or the time for the recovery is over.
QueryFails(n, i) ==
    /\ InStage(n, i, "context") \/ InStage(n, i, "read")
    /\ Finish(n, i, "failed")
    /\ UNCHANGED <<scenario, events, table, phase, pending, start, found, report, bounds>>

\* The first event is refused.  Without events the checksum decides, if asked
\* for: the one computed now hashes the time and never equals the stored one.
Replay(n, i) ==
    /\ InStage(n, i, "replay")
    /\ \/ found[n][i] # {} /\ Finish(n, i, "failed")
       \/ found[n][i] = {} /\ validate /\ Finish(n, i, "invalid")
       \/ found[n][i] = {} /\ ~validate /\ Finish(n, i, "valid")
    /\ UNCHANGED <<scenario, events, table, phase, pending, start, found, report, bounds>>

\* All goroutines have returned.
RecoveryReturns(n) ==
    /\ phase[n] = "recovering"
    /\ \A i \in pending[n] : job[n][i] \in Finished
    /\ report' = [report EXCEPT ![n] =
          IF \A i \in pending[n] : job[n][i] = "valid" THEN "valid" ELSE "invalid"]
    /\ phase' = [phase EXCEPT ![n] = "up"]
    /\ UNCHANGED <<scenario, events, table, recovery, bounds>>

NodeCrash(n) ==
    /\ phase[n] \in {"recovering", "up"}
    /\ Stopped(n, "down")

\* Within the lock: between taking it and the return of the goroutine.
Inside(n, i) == phase[n] = "recovering" /\ job[n][i] \in {"context", "read", "replay"}

\* The lock lives for the 8 seconds of the library, however long the recovery
\* takes: the options of WithRecoveryLock do not reach it.
LockExpires(i) ==
    /\ lock[i] # NoNode
    /\ lock' = [lock EXCEPT ![i] = NoNode]
    /\ expired' = expired \cup {<<n, i>> : n \in {m \in NodeID : m = lock[i] /\ Inside(m, i)}}
    /\ UNCHANGED <<scenario, events, table, phase, pending, job, start, found, report, bounds>>

RecoverSingleProcessor(n, i) ==
    \/ LockPanics(n, i)
    \/ WithRecoveryLock(n, i)
    \/ GetRecoveryContext(n, i)
    \/ GetEventsBySymbol(n, i)
    \/ QueryFails(n, i)
    \/ Replay(n, i)

RecoveryNext ==
    \/ \E n \in NodeID :
          \/ Create(n)
          \/ \E s \in created[n] : ProcessEventWithContext(n, s)
          \/ ExecuteRecovery(n)
          \/ StartWithout(n)
          \/ RecoveryReturns(n)
          \/ NodeCrash(n)
          \/ \E i \in Item : RecoverSingleProcessor(n, i)
    \/ \E i \in Item :
          \/ MarkRecoveryInProgress(i)
          \/ MarkRecoveryFailed(i)
          \/ MarkRecoveryComplete(i)
          \/ DeleteOldCheckpoints(i)
          \/ LockExpires(i)

\* The goroutines and the start-up go on as long as the process lives.
RecoveryFairness ==
    \A n \in NodeID :
        /\ WF_recoveryVars(RecoveryReturns(n))
        /\ \A i \in Item : WF_recoveryVars(RecoverSingleProcessor(n, i))

RecoverySpec == RecoveryInit /\ [][RecoveryNext]_recoveryVars /\ RecoveryFairness

-----------------------------------------------------------------------------
(* Properties.                                                             *)

\* Whatever the order in which events were numbered, logged, applied and saved
\* before, the recovery reads every event of the log that its processor never
\* applied: only one numbered up to the checkpoint (overtaken, or of a node with
\* a lower id), with a row past the window of 1000 numbers, or in a row that
\* UnmarshalEvent refuses is missed.
ReadsWhatIsMissing ==
    [][\A n \in NodeID, i \in Item :
          InStage(n, i, "read") /\ job'[n][i] = "replay" =>
             \A r \in rows :
                \/ r.seq \in found'[n][i] \cup done[i]
                \/ r.seq < start[n][i]
                \/ r.row > start[n][i] + Limit
                \/ r.row \in Unreadable]_recoveryVars

\* Two nodes are within WithRecoveryLock for the same processor only if the lock
\* of one of them has expired under it, whatever nodes crash, restart under a
\* lock they left behind, fail, or return after another has taken the lock.
OneRecoversAtATime ==
    \A i \in Item : \A n, m \in {k \in NodeID : Inside(k, i) /\ <<k, i>> \notin expired} : n = m

\* What the comment on RecoveryExecutor promises, that no event is left out: when
\* a start reports a valid recovery, the processors have applied every event of
\* the log.
ValidMissesNothing ==
    [][\A n \in NodeID :
          phase[n] = "recovering" /\ report'[n] = "valid" =>
             \A i \in Item : {r.seq : r \in rows} \subseteq done[i]]_recoveryVars

\* A start comes to an end, with the locks of dead nodes still there and peers
\* recovering the same items, if there is a lock manager or nothing is pending.
StartupEnds ==
    \A n \in NodeID :
        phase[n] = "recovering" /\ (lockMgr \/ pending[n] = {}) ~> phase[n] \in {"up", "down"}

-----------------------------------------------------------------------------
(* The invariant the safety properties follow from.                        *)

\* An event is numbered before its row is, on the same node.
NumberedBeforeRow ==
    /\ \A n \in NodeID : \A s \in created[n] : s <= GlobalSeq(n, local[n])
    /\ \A r \in rows : r.seq < r.row

\* A goroutine within the lock holds it, unless it has expired.
HoldsItsLock ==
    \A n \in NodeID, i \in Item : Inside(n, i) /\ <<n, i>> \notin expired => lock[i] = n

RecoveryInv ==
    /\ RecoveryTypeOK
    /\ NumberedBeforeRow
    /\ HoldsItsLock

=============================================================================
