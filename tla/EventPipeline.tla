--------------------------- MODULE EventPipeline ---------------------------
(***************************************************************************)
(* The event pipeline (biz/service/event_pipeline.go) with the sequencer   *)
(* that numbers its events, the event log it appends to and the checkpoint *)
(* manager it records progress with, for the events of one symbol.         *)
(*                                                                         *)
(* A producer is a goroutine that calls the pipeline: the handler of an    *)
(* order request, the match worker of the symbol, or a replay.  Within one *)
(* call there is one goroutine per processor; the mutex of processor and   *)
(* symbol covers its read of the offset, ProcessEvent and the updates, so  *)
(* that goroutine is one step.                                             *)
(***************************************************************************)
EXTENDS Integers, Sequences, Functions

CONSTANTS
    Producer,      \* goroutines that call the pipeline
    Processor,     \* registered processors
    Entry,         \* the entry points each producer uses
    Checkpointing, \* TRUE if a checkpoint manager is set
    MayFail,       \* TRUE if the log, a processor or the database may fail
    MaxSeq         \* bound on the sequence numbers drawn

EntryPoint == {"ProcessEvent", "ProcessEventWithContext", "ProcessEventsFromLog"}

ASSUME EntryAssumption == Entry \in [Producer -> SUBSET EntryPoint]

ASSUME ParameterAssumption ==
    Checkpointing \in BOOLEAN /\ MayFail \in BOOLEAN /\ MaxSeq \in Nat

VARIABLES
    localSeq,    \* the sequencer
    log,         \* the event log, the sequence numbers in order of arrival
    offset,      \* processorOffsets[processor]
    checkpoints, \* CheckpointManager.checkpoints[processor], 0 for none
    saved,       \* the rows of event_offset_checkpoint, 0 for none
    pc,          \* where each producer is in its call
    seq,         \* the event of the call
    hasContext,  \* the call has an EventContext (eventCtx # nil)
    batch,       \* positions in the log ProcessEventsFromLog has still to dispatch
    todo,        \* processors whose goroutine has not finished
    failed,      \* errChan is not empty
    snapshot,    \* checkpointsToFlush
    unsaved,     \* processors of the snapshot that are not saved yet
    crashed,     \* the process died of a panic
    applied,     \* history: events each processor applied, in order
    returned     \* history: events whose call returned nil

shared == <<localSeq, log, offset, checkpoints, saved, crashed, applied, returned>>
locals == <<pc, seq, hasContext, batch, todo, failed, snapshot, unsaved>>
vars == <<shared, locals>>

Label == {"idle", "append", "dispatch", "save"}

TypeOK ==
    /\ localSeq \in Nat
    /\ log \in Seq(Nat)
    /\ offset \in [Processor -> Nat]
    /\ checkpoints \in [Processor -> Nat]
    /\ saved \in [Processor -> Nat]
    /\ pc \in [Producer -> Label]
    /\ seq \in [Producer -> Nat]
    /\ hasContext \in [Producer -> BOOLEAN]
    /\ batch \in [Producer -> SUBSET Nat]
    /\ todo \in [Producer -> SUBSET Processor]
    /\ failed \in [Producer -> BOOLEAN]
    /\ snapshot \in [Producer -> [Processor -> Nat]]
    /\ unsaved \in [Producer -> SUBSET Processor]
    /\ crashed \in BOOLEAN
    /\ applied \in [Processor -> Seq(Nat)]
    /\ returned \subseteq Nat

Init ==
    /\ localSeq = 0
    /\ log = <<>>
    /\ offset = [q \in Processor |-> 0]
    /\ checkpoints = [q \in Processor |-> 0]
    /\ saved = [q \in Processor |-> 0]
    /\ pc = [p \in Producer |-> "idle"]
    /\ seq = [p \in Producer |-> 0]
    /\ hasContext = [p \in Producer |-> FALSE]
    /\ batch = [p \in Producer |-> {}]
    /\ todo = [p \in Producer |-> {}]
    /\ failed = [p \in Producer |-> FALSE]
    /\ snapshot = [p \in Producer |-> [q \in Processor |-> 0]]
    /\ unsaved = [p \in Producer |-> {}]
    /\ crashed = FALSE
    /\ applied = [q \in Processor |-> <<>>]
    /\ returned = {}

-----------------------------------------------------------------------------
\* Set one local of producer p.
Set(f, p, value) == [f EXCEPT ![p] = value]

At(p, label) == ~crashed /\ pc[p] = label

\* Sequencer.NextGlobalSeq, and the event built with it enters the pipeline
\* through ProcessEvent (no context) or ProcessEventWithContext.
NextGlobalSeq(p, entry) ==
    /\ At(p, "idle")
    /\ entry \in Entry[p] \cap {"ProcessEvent", "ProcessEventWithContext"}
    /\ localSeq < MaxSeq
    /\ localSeq' = localSeq + 1
    /\ seq' = Set(seq, p, localSeq + 1)
    /\ hasContext' = Set(hasContext, p, entry = "ProcessEventWithContext")
    /\ pc' = Set(pc, p, "append")
    /\ UNCHANGED <<log, offset, checkpoints, saved, crashed, applied, returned,
                   batch, todo, failed, snapshot, unsaved>>

\* Start one goroutine per processor for the event of the call.
StartDispatch(p) ==
    /\ pc' = Set(pc, p, "dispatch")
    /\ todo' = Set(todo, p, Processor)
    /\ failed' = Set(failed, p, FALSE)

\* eventLog.AppendEvent, before anything is dispatched.
AppendEvent(p) ==
    /\ At(p, "append")
    /\ log' = Append(log, seq[p])
    /\ StartDispatch(p)
    /\ UNCHANGED <<localSeq, offset, checkpoints, saved, crashed, applied, returned,
                   seq, hasContext, batch, snapshot, unsaved>>

\* The locals of a call end with it.
Return(p) ==
    /\ pc' = Set(pc, p, "idle")
    /\ seq' = Set(seq, p, 0)
    /\ hasContext' = Set(hasContext, p, FALSE)
    /\ failed' = Set(failed, p, FALSE)
    /\ snapshot' = Set(snapshot, p, [q \in Processor |-> 0])
    /\ unsaved' = Set(unsaved, p, {})

\* Mutant of AppendEventFails: the error is logged and not returned.
AppendEventFailsGoesOn(p) ==
    /\ At(p, "append")
    /\ MayFail
    /\ StartDispatch(p)
    /\ UNCHANGED <<shared, seq, hasContext, batch, snapshot, unsaved>>

\* An event that cannot be logged is not dispatched.
AppendEventFails(p) ==
    /\ At(p, "append")
    /\ MayFail
    /\ Return(p)
    /\ UNCHANGED <<shared, batch, todo>>

\* Dispatch the first of the events of the log at the given positions.
DispatchFirst(p, positions) ==
    \E i \in positions :
        /\ \A j \in positions : i <= j
        /\ seq' = Set(seq, p, log[i])
        /\ batch' = Set(batch, p, positions \ {i})
        /\ StartDispatch(p)

\* ProcessEventsFromLog reads the events of the log from startSeq on and
\* dispatches them one after the other, without a context; what is past the limit
\* or cannot be unmarshalled is left out.  The log is the one in memory, where an
\* event is read as it was appended; for the one in Postgres see Recovery.
ProcessEventsFromLog(p, startSeq) ==
    /\ At(p, "idle")
    /\ "ProcessEventsFromLog" \in Entry[p]
    /\ \E positions \in SUBSET {i \in DOMAIN log : log[i] >= startSeq} :
          DispatchFirst(p, positions)
    /\ UNCHANGED <<shared, hasContext, snapshot, unsaved>>

-----------------------------------------------------------------------------
(* The goroutine of processor q in the dispatch of producer p.             *)

Running(p, q) == At(p, "dispatch") /\ q \in todo[p]

GoroutineDone(p, q) == todo' = Set(todo, p, todo[p] \ {q})

\* Mutant of SkipDuplicate: the next event is taken for a duplicate as well.
SkipNext(p, q) ==
    /\ Running(p, q)
    /\ seq[p] <= offset[q] + 1
    /\ GoroutineDone(p, q)
    /\ UNCHANGED <<shared, pc, seq, hasContext, batch, failed, snapshot, unsaved>>

\* seq <= lastSeq: taken for a duplicate.
SkipDuplicate(p, q) ==
    /\ Running(p, q)
    /\ seq[p] <= offset[q]
    /\ GoroutineDone(p, q)
    /\ UNCHANGED <<shared, pc, seq, hasContext, batch, failed, snapshot, unsaved>>

\* Mutant of ProcessorSucceeds: a duplicate is applied again.
ProcessorSucceedsAgain(p, q) ==
    /\ Running(p, q)
    /\ applied' = [applied EXCEPT ![q] = Append(@, seq[p])]
    /\ offset' = [offset EXCEPT ![q] = seq[p]]
    /\ checkpoints' = IF Checkpointing /\ hasContext[p]
                      THEN [checkpoints EXCEPT ![q] = seq[p]] ELSE checkpoints
    /\ crashed' = (Checkpointing /\ ~hasContext[p])
    /\ GoroutineDone(p, q)
    /\ UNCHANGED <<localSeq, log, saved, returned,
                   pc, seq, hasContext, batch, failed, snapshot, unsaved>>

\* ProcessEvent succeeds, then the offset, then the checkpoint in memory:
\* its arguments are read from eventCtx, which panics when that is nil.
ProcessorSucceeds(p, q) ==
    /\ Running(p, q)
    /\ seq[p] > offset[q]
    /\ applied' = [applied EXCEPT ![q] = Append(@, seq[p])]
    /\ offset' = [offset EXCEPT ![q] = seq[p]]
    /\ checkpoints' = IF Checkpointing /\ hasContext[p]
                      THEN [checkpoints EXCEPT ![q] = seq[p]] ELSE checkpoints
    /\ crashed' = (Checkpointing /\ ~hasContext[p])
    /\ GoroutineDone(p, q)
    /\ UNCHANGED <<localSeq, log, saved, returned,
                   pc, seq, hasContext, batch, failed, snapshot, unsaved>>

\* Mutant of ProcessorFails: the checkpoint is recorded all the same.
ProcessorFailsRecorded(p, q) ==
    /\ Running(p, q)
    /\ MayFail
    /\ seq[p] > offset[q]
    /\ failed' = Set(failed, p, TRUE)
    /\ checkpoints' = [checkpoints EXCEPT ![q] = seq[p]]
    /\ GoroutineDone(p, q)
    /\ UNCHANGED <<localSeq, log, offset, saved, crashed, applied, returned,
                   pc, seq, hasContext, batch, snapshot, unsaved>>

\* ProcessEvent fails: the error goes to errChan, the offset stays.
ProcessorFails(p, q) ==
    /\ Running(p, q)
    /\ MayFail
    /\ seq[p] > offset[q]
    /\ failed' = Set(failed, p, TRUE)
    /\ GoroutineDone(p, q)
    /\ UNCHANGED <<shared, pc, seq, hasContext, batch, snapshot, unsaved>>

-----------------------------------------------------------------------------
(* After wg.Wait().                                                        *)

\* The call is over; ProcessEventsFromLog goes on with its next event
\* whatever became of this one.
NextOrReturn(p) ==
    IF batch[p] = {}
    THEN Return(p) /\ UNCHANGED <<batch, todo>>
    ELSE DispatchFirst(p, batch[p]) /\ UNCHANGED <<hasContext, snapshot, unsaved>>

\* Mutant of DispatchFails: the event is tried again until it succeeds.
DispatchFailsRetries(p) ==
    /\ At(p, "dispatch")
    /\ todo[p] = {}
    /\ failed[p]
    /\ StartDispatch(p)
    /\ UNCHANGED <<shared, seq, hasContext, batch, snapshot, unsaved>>

DispatchFails(p) ==
    /\ At(p, "dispatch")
    /\ todo[p] = {}
    /\ failed[p]
    /\ NextOrReturn(p)
    /\ UNCHANGED shared

ReturnNil(p) ==
    /\ returned' = returned \cup {seq[p]}
    /\ NextOrReturn(p)

\* FlushCheckpoints copies the checkpoints under its lock and releases it.
DispatchSucceeds(p) ==
    /\ At(p, "dispatch")
    /\ todo[p] = {}
    /\ ~failed[p]
    /\ IF Checkpointing
       THEN /\ snapshot' = Set(snapshot, p, checkpoints)
            /\ unsaved' = Set(unsaved, p, {q \in Processor : checkpoints[q] # 0})
            /\ pc' = Set(pc, p, "save")
            /\ UNCHANGED <<returned, seq, hasContext, batch, todo, failed>>
       ELSE ReturnNil(p)
    /\ UNCHANGED <<localSeq, log, offset, checkpoints, saved, crashed, applied>>

\* SaveCheckpoint is an unconditional upsert; the map gives no order.
SaveCheckpoint(p, q) ==
    /\ At(p, "save")
    /\ q \in unsaved[p]
    /\ saved' = [saved EXCEPT ![q] = snapshot[p][q]]
    /\ unsaved' = Set(unsaved, p, unsaved[p] \ {q})
    /\ UNCHANGED <<localSeq, log, offset, checkpoints, crashed, applied, returned,
                   pc, seq, hasContext, batch, todo, failed, snapshot>>

\* The flush ends when all is saved, or at the first error, which is logged.
EndFlush(p) ==
    /\ At(p, "save")
    /\ unsaved[p] = {} \/ MayFail
    /\ ReturnNil(p)
    /\ UNCHANGED <<localSeq, log, offset, checkpoints, saved, crashed, applied>>

-----------------------------------------------------------------------------
Goroutine(p, q) == SkipDuplicate(p, q) \/ ProcessorSucceeds(p, q) \/ ProcessorFails(p, q)

\* What a call does by itself once it has been made.
Progress(p) ==
    \/ AppendEvent(p)
    \/ AppendEventFails(p)
    \/ \E q \in Processor : Goroutine(p, q)
    \/ DispatchFails(p)
    \/ DispatchSucceeds(p)
    \/ \E q \in Processor : SaveCheckpoint(p, q)
    \/ EndFlush(p)

Next ==
    \E p \in Producer :
        \/ \E entry \in Entry[p] : NextGlobalSeq(p, entry)
        \/ \E startSeq \in 1 .. MaxSeq : ProcessEventsFromLog(p, startSeq)
        \/ Progress(p)

Spec == Init /\ [][Next]_vars /\ \A p \in Producer : WF_vars(Progress(p))

-----------------------------------------------------------------------------
(* Properties.                                                             *)

\* Two producers may dispatch at once and a replay may run beside them, yet
\* a processor applies the events of the symbol in the order of their
\* sequence numbers and each at most once: the lock of processor and symbol
\* covers the duplicate check and the update of the offset.
AppliedInOrder ==
    \A q \in Processor : \A i, j \in DOMAIN applied[q] :
        i < j => applied[q][i] < applied[q][j]

\* No processor has applied an event the log does not hold: what a replay
\* reads from the log covers all that took effect, whenever the process dies.
WriteAhead ==
    \A q \in Processor : Range(applied[q]) \subseteq Range(log)

\* A checkpoint in the database names an event its processor has applied, at
\* whatever point flushes of other calls interleave or fail: a recovery from
\* it passes over no event just because the checkpoint ran ahead.
CheckpointNotAhead ==
    \A q \in Processor : saved[q] # 0 => saved[q] \in Range(applied[q])

\* A call that returned nil was applied by every processor, but for those that
\* had applied a later event of the symbol before: nothing else makes an
\* acknowledged event disappear, no failure, replay or interleaving.
ReturnedOrOvertaken ==
    \A q \in Processor : \A e \in returned :
        e \in Range(applied[q]) \/ \E later \in Range(applied[q]) : later > e

\* Every call returns: the wait for the processors ends whichever of them
\* fail, and so do the flush and a replay.
CallReturns ==
    \A p \in Producer : pc[p] # "idle" ~> (pc[p] = "idle" \/ crashed)

-----------------------------------------------------------------------------
(* The inductive invariant behind the first three properties.              *)

\* The offset of a processor bounds what it has applied.
OffsetBoundsApplied ==
    \A q \in Processor : \A i \in DOMAIN applied[q] : applied[q][i] <= offset[q]

\* What a call dispatches, now or later in its batch, is in the log.
DispatchedIsLogged ==
    \A p \in Producer :
        /\ pc[p] = "dispatch" => seq[p] \in Range(log)
        /\ batch[p] \subseteq DOMAIN log

\* A checkpoint names an applied event in memory, in the copy of a flush and
\* in the database.
CheckpointIsApplied ==
    \A q \in Processor :
        /\ checkpoints[q] # 0 => checkpoints[q] \in Range(applied[q])
        /\ saved[q] # 0 => saved[q] \in Range(applied[q])
        /\ \A p \in Producer : snapshot[p][q] # 0 => snapshot[p][q] \in Range(applied[q])

Inv ==
    /\ TypeOK
    /\ AppliedInOrder
    /\ OffsetBoundsApplied
    /\ WriteAhead
    /\ DispatchedIsLogged
    /\ CheckpointIsApplied

(* The one behind ReturnedOrOvertaken.                                     *)

\* Events have positive numbers, and the offset of a processor is that of an
\* event it applied.
NumbersAreEvents ==
    /\ \A i \in DOMAIN log : log[i] > 0
    /\ \A p \in Producer : pc[p] # "idle" => seq[p] > 0
    /\ \A e \in returned : e > 0
    /\ \A q \in Processor : offset[q] # 0 => offset[q] \in Range(applied[q])

\* A goroutine that ended without an error left the offset of its processor at
\* the event or above, and so did all of them once the call goes on to save.
EndedIsCovered ==
    /\ \A p \in Producer : pc[p] = "dispatch" /\ ~failed[p] =>
          \A q \in Processor \ todo[p] : seq[p] <= offset[q]
    /\ \A p \in Producer : pc[p] = "save" => \A q \in Processor : seq[p] <= offset[q]
    /\ \A e \in returned : \A q \in Processor : e <= offset[q]

Covered == NumbersAreEvents /\ EndedIsCovered
=============================================================================
