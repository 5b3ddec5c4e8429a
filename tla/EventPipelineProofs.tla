------------------------ MODULE EventPipelineProofs ------------------------
(***************************************************************************)
(* Proofs about the event pipeline, for any set of producers and           *)
(* processors, any entry points, with failures and with or without a       *)
(* checkpoint manager.                                                     *)
(***************************************************************************)
EXTENDS EventPipeline, TLAPS

-----------------------------------------------------------------------------
(* Appending to a sequence of numbers.                                     *)

\* Append adds one element at the end and keeps the others.
LEMMA AppendExtends ==
    ASSUME NEW s \in Seq(Nat), NEW e \in Nat
    PROVE  /\ Append(s, e) \in Seq(Nat)
           /\ DOMAIN Append(s, e) = DOMAIN s \cup {Len(s) + 1}
           /\ \A i \in DOMAIN s : Append(s, e)[i] = s[i] /\ i < Len(s) + 1
           /\ Append(s, e)[Len(s) + 1] = e
  OBVIOUS

\* The elements of the longer sequence are the old ones and the new one.
LEMMA RangeAppend ==
    ASSUME NEW s \in Seq(Nat), NEW e \in Nat
    PROVE  Range(Append(s, e)) = Range(s) \cup {e}
  <1>. DEFINE t == Append(s, e)
  <1>1. \A i \in DOMAIN s : i \in DOMAIN t /\ t[i] = s[i]
    BY AppendExtends
  <1>2. Len(s) + 1 \in DOMAIN t /\ t[Len(s) + 1] = e
    BY AppendExtends, Zenon
  <1>3. \A i \in DOMAIN t : t[i] = e \/ (i \in DOMAIN s /\ t[i] = s[i])
    BY AppendExtends
  <1>. HIDE DEF t
  <1>4. Range(t) = Range(s) \cup {e}
    BY <1>1, <1>2, <1>3, Zenon DEF Range
  <1>. QED
    BY <1>4, Zenon DEF t

-----------------------------------------------------------------------------
(* The invariant.                                                          *)

\* Nothing is logged, applied or checkpointed in an initial state.
LEMMA InitInv == Init => Inv
  <1>. SUFFICES ASSUME Init PROVE Inv
    BY Zenon
  <1>1. TypeOK
    <2>1. <<>> \in Seq(Nat)
      OBVIOUS
    <2>2. applied \in [Processor -> Seq(Nat)] /\ log \in Seq(Nat)
      BY <2>1, Zenon DEF Init
    <2>3. snapshot \in [Producer -> [Processor -> Nat]]
      BY Zenon DEF Init
    <2>4. pc \in [Producer -> Label] /\ failed \in [Producer -> BOOLEAN]
      BY Zenon DEF Init, Label
    <2>5. hasContext \in [Producer -> BOOLEAN] /\ crashed \in BOOLEAN
      BY Zenon DEF Init
    <2>. QED
      BY <2>2, <2>3, <2>4, <2>5, Zenon DEF Init, TypeOK
  <1>2. \A q \in Processor : applied[q] = <<>> /\ DOMAIN applied[q] = {}
    BY DEF Init
  <1>3. AppliedInOrder /\ OffsetBoundsApplied /\ WriteAhead
    BY <1>2, Zenon DEF AppliedInOrder, OffsetBoundsApplied, WriteAhead, Range
  <1>4. DispatchedIsLogged /\ CheckpointIsApplied
    BY Zenon DEF Init, DispatchedIsLogged, CheckpointIsApplied
  <1>. QED
    BY <1>1, <1>3, <1>4, Zenon DEF Inv

\* A step that leaves the shared state alone keeps the invariant if it keeps
\* the types and what is known of the locals of the calls.
LEMMA SharedUnchanged ==
    ASSUME Inv, UNCHANGED <<offset, applied, saved, checkpoints, log>>, TypeOK',
           DispatchedIsLogged',
           \A p \in Producer, q \in Processor :
               snapshot'[p][q] # 0 => snapshot'[p][q] \in Range(applied[q])
    PROVE  Inv'
  BY Zenon DEF Inv, AppliedInOrder, OffsetBoundsApplied, WriteAhead, CheckpointIsApplied

\* Setting one local of a call.
LEMMA SetLocal ==
    ASSUME NEW D, NEW S, NEW f \in [D -> S], NEW p \in D, NEW v \in S
    PROVE  /\ Set(f, p, v) \in [D -> S]
           /\ Set(f, p, v)[p] = v
           /\ \A o \in D \ {p} : Set(f, p, v)[o] = f[o]
  BY Zenon DEF Set

\* Dispatching the first of some logged events keeps what is known of calls.
LEMMA DispatchFirstInv ==
    ASSUME Inv, NEW p \in Producer, NEW positions \in SUBSET DOMAIN log,
           DispatchFirst(p, positions),
           UNCHANGED <<localSeq, log, offset, checkpoints, saved, crashed, applied>>,
           returned' \subseteq Nat,
           UNCHANGED <<snapshot, unsaved, hasContext>>
    PROVE  TypeOK' /\ DispatchedIsLogged'
  <1>1. PICK i \in positions : DispatchFirst(p, positions)!(i)
    BY Zenon DEF DispatchFirst
  <1>2. log[i] \in Range(log) /\ log[i] \in Nat /\ positions \ {i} \in SUBSET Nat
    BY DEF Inv, TypeOK, Range
  <1>. QED
    BY <1>1, <1>2, Zenon DEF Inv, TypeOK, DispatchedIsLogged, StartDispatch, Set, Label, Range

\* The end of a call keeps what is known of the calls.
LEMMA ReturnInv ==
    ASSUME Inv, NEW p \in Producer, Return(p), UNCHANGED <<log, batch, todo>>,
           UNCHANGED <<localSeq, offset, checkpoints, saved, crashed, applied>>,
           returned' \subseteq Nat
    PROVE  /\ TypeOK' /\ DispatchedIsLogged'
           /\ \A o \in Producer, q \in Processor :
                snapshot'[o][q] # 0 => snapshot'[o][q] \in Range(applied[q])
  <1>. DEFINE none == [q \in Processor |-> 0]
  <1>1. none \in [Processor -> Nat] /\ \A q \in Processor : none[q] = 0
    BY Zenon
  <1>2. snapshot' = Set(snapshot, p, none)
    BY Zenon DEF Return
  <1>. HIDE DEF none
  <1>3. snapshot' \in [Producer -> [Processor -> Nat]]
    BY <1>1, <1>2, Zenon DEF Inv, TypeOK, Set
  <1>4. TypeOK'
    BY <1>3, Zenon DEF Inv, TypeOK, Return, Set, Label
  <1>5. DispatchedIsLogged'
    BY Zenon DEF Inv, TypeOK, DispatchedIsLogged, Return, Set
  <1>6. ASSUME NEW o \in Producer, NEW q \in Processor, snapshot'[o][q] # 0
        PROVE  snapshot'[o][q] \in Range(applied[q])
    BY <1>1, <1>2, <1>6, Zenon DEF Inv, TypeOK, CheckpointIsApplied, Set
  <1>. QED
    BY <1>4, <1>5, <1>6, Zenon

\* Going on with the batch, or returning, keeps the invariant.
LEMMA NextOrReturnInv ==
    ASSUME Inv, NEW p \in Producer, NextOrReturn(p),
           UNCHANGED <<localSeq, log, offset, checkpoints, saved, crashed, applied>>,
           returned' \subseteq Nat
    PROVE  Inv'
  <1>1. CASE batch[p] = {}
    BY <1>1, ReturnInv, SharedUnchanged, Zenon DEF NextOrReturn
  <1>2. CASE batch[p] # {}
    <2>1. /\ DispatchFirst(p, batch[p])
          /\ UNCHANGED <<hasContext, snapshot, unsaved>>
      BY <1>2, Zenon DEF NextOrReturn
    <2>2. batch[p] \in SUBSET DOMAIN log
      BY Zenon DEF Inv, DispatchedIsLogged
    <2>3. TypeOK' /\ DispatchedIsLogged'
      BY <2>1, <2>2, DispatchFirstInv, Zenon
    <2>. QED
      BY <2>1, <2>3, SharedUnchanged, Zenon DEF Inv, CheckpointIsApplied
  <1>. QED
    BY <1>1, <1>2, Zenon

\* A processor that applies an event above its offset extends its history in
\* order, with a logged event, and moves its offset and checkpoint to it.
LEMMA ProcessorSucceedsInv ==
    ASSUME Inv, NEW p \in Producer, NEW q \in Processor, ProcessorSucceeds(p, q)
    PROVE  Inv'
  <1>. DEFINE e == seq[p]
              t == Append(applied[q], e)
  <1>1. applied[q] \in Seq(Nat) /\ e \in Nat /\ e > offset[q] /\ offset[q] \in Nat
    BY Zenon DEF Inv, TypeOK, ProcessorSucceeds
  <1>2. /\ t \in Seq(Nat)
        /\ DOMAIN t = DOMAIN applied[q] \cup {Len(applied[q]) + 1}
        /\ \A i \in DOMAIN applied[q] : t[i] = applied[q][i] /\ i < Len(applied[q]) + 1
        /\ t[Len(applied[q]) + 1] = e
        /\ Range(t) = Range(applied[q]) \cup {e}
    BY <1>1, AppendExtends, RangeAppend, Zenon
  <1>3. /\ applied' = [applied EXCEPT ![q] = t]
        /\ offset' = [offset EXCEPT ![q] = e]
        /\ checkpoints' = [checkpoints EXCEPT ![q] = e] \/ checkpoints' = checkpoints
        /\ crashed' \in BOOLEAN
        /\ UNCHANGED <<localSeq, log, saved, returned,
                       pc, seq, hasContext, batch, failed, snapshot, unsaved>>
    BY Zenon DEF ProcessorSucceeds
  <1>4. \A i \in DOMAIN applied[q] : applied[q][i] < e /\ applied[q][i] \in Nat
    BY <1>1 DEF Inv, TypeOK, OffsetBoundsApplied
  <1>5. e \in Range(log)
    BY Zenon DEF Inv, DispatchedIsLogged, ProcessorSucceeds, Running, At
  <1>6. Len(applied[q]) \in Nat
    BY <1>1
  <1>7. todo' \in [Producer -> SUBSET Processor]
    BY Zenon DEF ProcessorSucceeds, GoroutineDone, Set, Inv, TypeOK
  <1>. HIDE DEF e, t
  <1>8. TypeOK'
    <2>1. applied' \in [Processor -> Seq(Nat)]
      BY <1>2, <1>3, Zenon DEF Inv, TypeOK
    <2>2. offset' \in [Processor -> Nat] /\ checkpoints' \in [Processor -> Nat]
      BY <1>1, <1>3, Zenon DEF Inv, TypeOK
    <2>. QED
      BY <1>3, <1>7, <2>1, <2>2, Zenon DEF Inv, TypeOK
  <1>9. AppliedInOrder'
    <2>1. ASSUME NEW i \in DOMAIN t, NEW j \in DOMAIN t, i < j
          PROVE  t[i] < t[j]
      BY <1>1, <1>2, <1>4, <1>6, <2>1 DEF Inv, AppliedInOrder
    <2>2. applied'[q] = t /\ \A r \in Processor \ {q} : applied'[r] = applied[r]
      BY <1>3, Zenon DEF Inv, TypeOK
    <2>. QED
      BY <2>1, <2>2, Zenon DEF Inv, AppliedInOrder
  <1>10. OffsetBoundsApplied'
    BY <1>1, <1>2, <1>3, <1>4, SMTT(20) DEF Inv, TypeOK, OffsetBoundsApplied
  <1>11. WriteAhead'
    BY <1>2, <1>3, <1>5, Zenon DEF Inv, TypeOK, WriteAhead
  <1>12. DispatchedIsLogged'
    BY <1>3, Zenon DEF Inv, DispatchedIsLogged
  <1>13. CheckpointIsApplied'
    BY <1>1, <1>2, <1>3, Zenon DEF Inv, TypeOK, CheckpointIsApplied
  <1>. QED
    BY <1>8, <1>9, <1>10, <1>11, <1>12, <1>13, Zenon DEF Inv

\* Every step of the pipeline keeps the invariant.
LEMMA NextInv == Inv /\ [Next]_vars => Inv'
  <1>. SUFFICES ASSUME Inv, [Next]_vars PROVE Inv'
    BY Zenon
  <1>1. ASSUME NEW p \in Producer, NEW entry \in Entry[p], NextGlobalSeq(p, entry)
        PROVE  Inv'
    <2>1. TypeOK'
      BY <1>1 DEF NextGlobalSeq, Inv, TypeOK, Set, Label
    <2>2. DispatchedIsLogged'
      BY <1>1, Zenon DEF NextGlobalSeq, Inv, TypeOK, DispatchedIsLogged, Set
    <2>. QED
      BY <1>1, <2>1, <2>2, SharedUnchanged, Zenon DEF NextGlobalSeq, Inv, CheckpointIsApplied
  <1>2. ASSUME NEW p \in Producer, NEW startSeq \in 1 .. MaxSeq, ProcessEventsFromLog(p, startSeq)
        PROVE  Inv'
    <2>1. TypeOK' /\ DispatchedIsLogged'
      BY <1>2, DispatchFirstInv, Zenon DEF ProcessEventsFromLog, shared, Inv, TypeOK
    <2>. QED
      BY <1>2, <2>1, SharedUnchanged, Zenon DEF ProcessEventsFromLog, shared, Inv, CheckpointIsApplied
  <1>3. ASSUME NEW p \in Producer, AppendEvent(p)
        PROVE  Inv'
    <2>1. seq[p] \in Nat /\ log \in Seq(Nat)
      BY Zenon DEF Inv, TypeOK
    <2>2. /\ log' \in Seq(Nat)
          /\ DOMAIN log \subseteq DOMAIN log'
          /\ Range(log') = Range(log) \cup {seq[p]}
      BY <1>3, <2>1, AppendExtends, RangeAppend, Zenon DEF AppendEvent
    <2>3. TypeOK'
      BY <1>3, <2>2, Zenon DEF AppendEvent, StartDispatch, Inv, TypeOK, Set, Label
    <2>4. DispatchedIsLogged'
      BY <1>3, <2>2, Zenon DEF AppendEvent, StartDispatch, Inv, TypeOK, DispatchedIsLogged, Set
    <2>5. WriteAhead'
      BY <1>3, <2>2, Zenon DEF AppendEvent, Inv, WriteAhead
    <2>. QED
      BY <1>3, <2>3, <2>4, <2>5, Zenon
      DEF AppendEvent, Inv, AppliedInOrder, OffsetBoundsApplied, CheckpointIsApplied
  <1>4. ASSUME NEW p \in Producer, AppendEventFails(p)
        PROVE  Inv'
    BY <1>4, ReturnInv, SharedUnchanged, Zenon DEF AppendEventFails, shared, Inv, TypeOK
  <1>5. ASSUME NEW p \in Producer, NEW q \in Processor, Goroutine(p, q)
        PROVE  Inv'
    <2>1. CASE ProcessorSucceeds(p, q)
      BY <2>1, ProcessorSucceedsInv, Zenon
    <2>2. CASE SkipDuplicate(p, q) \/ ProcessorFails(p, q)
      <3>. DEFINE rest == todo[p] \ {q}
      <3>a. /\ todo' = [todo EXCEPT ![p] = rest]
            /\ failed' = [failed EXCEPT ![p] = TRUE] \/ failed' = failed
            /\ UNCHANGED <<shared, pc, seq, hasContext, batch, snapshot, unsaved>>
        BY <2>2, Zenon DEF SkipDuplicate, ProcessorFails, GoroutineDone, Set
      <3>b. rest \in SUBSET Processor
        BY Zenon DEF Inv, TypeOK
      <3>. HIDE DEF rest
      <3>1. TypeOK'
        BY <3>a, <3>b, Zenon DEF shared, Inv, TypeOK
      <3>2. DispatchedIsLogged'
        BY <2>2, Zenon DEF SkipDuplicate, ProcessorFails, shared, Inv, DispatchedIsLogged
      <3>. QED
        BY <2>2, <3>1, <3>2, SharedUnchanged, Zenon
        DEF SkipDuplicate, ProcessorFails, shared, Inv, CheckpointIsApplied
    <2>. QED
      BY <1>5, <2>1, <2>2, Zenon DEF Goroutine
  <1>6. ASSUME NEW p \in Producer, DispatchFails(p) \/ EndFlush(p)
        PROVE  Inv'
    BY <1>6, NextOrReturnInv, Zenon DEF DispatchFails, EndFlush, ReturnNil, shared, Inv, TypeOK
  <1>7. ASSUME NEW p \in Producer, DispatchSucceeds(p)
        PROVE  Inv'
    <2>1. CASE ~Checkpointing
      BY <1>7, <2>1, NextOrReturnInv, Zenon DEF DispatchSucceeds, ReturnNil, Inv, TypeOK
    <2>2. CASE Checkpointing
      <3>. DEFINE recorded == {q \in Processor : checkpoints[q] # 0}
      <3>a. /\ snapshot' = [snapshot EXCEPT ![p] = checkpoints]
            /\ unsaved' = [unsaved EXCEPT ![p] = recorded]
            /\ pc' = [pc EXCEPT ![p] = "save"]
            /\ UNCHANGED <<shared, seq, hasContext, batch, todo, failed>>
        BY <1>7, <2>2, Zenon DEF DispatchSucceeds, Set, shared
      <3>b. recorded \in SUBSET Processor
        BY Zenon
      <3>. HIDE DEF recorded
      <3>1. TypeOK'
        BY <3>a, <3>b, Zenon DEF shared, Label, Inv, TypeOK
      <3>2. DispatchedIsLogged'
        BY <1>7, <2>2, Zenon DEF DispatchSucceeds, Set, Inv, TypeOK, DispatchedIsLogged
      <3>3. \A o \in Producer, q \in Processor :
                snapshot'[o][q] # 0 => snapshot'[o][q] \in Range(applied[q])
        BY <1>7, <2>2 DEF DispatchSucceeds, Set, Inv, TypeOK, CheckpointIsApplied
      <3>. QED
        BY <1>7, <3>1, <3>2, <3>3, SharedUnchanged, Zenon DEF DispatchSucceeds
    <2>. QED
      BY <2>1, <2>2, ParameterAssumption, Zenon
  <1>8. ASSUME NEW p \in Producer, NEW q \in Processor, SaveCheckpoint(p, q)
        PROVE  Inv'
    <2>1. TypeOK'
      BY <1>8 DEF SaveCheckpoint, Set, Inv, TypeOK
    <2>2. CheckpointIsApplied'
      BY <1>8, Zenon DEF SaveCheckpoint, Inv, TypeOK, CheckpointIsApplied
    <2>. QED
      BY <1>8, <2>1, <2>2, Zenon
      DEF SaveCheckpoint, Inv, AppliedInOrder, OffsetBoundsApplied, WriteAhead, DispatchedIsLogged
  <1>9. CASE UNCHANGED vars
    BY <1>9, Zenon
    DEF vars, shared, locals, Inv, TypeOK, AppliedInOrder, OffsetBoundsApplied, WriteAhead,
        DispatchedIsLogged, CheckpointIsApplied
  <1>. QED
    BY <1>1, <1>2, <1>3, <1>4, <1>5, <1>6, <1>7, <1>8, <1>9, Zenon DEF Next, Progress

-----------------------------------------------------------------------------
(* Acknowledged events.                                                    *)

\* No event has a number and no call has ended in an initial state.
LEMMA InitCovered == Init => Covered
  BY DEF Init, Covered, NumbersAreEvents, EndedIsCovered

\* The end of a call that returns nil, or an error, keeps what is known.
LEMMA NextOrReturnCovered ==
    ASSUME Inv, Covered, NEW p \in Producer, NextOrReturn(p),
           UNCHANGED <<log, offset, applied>>,
           \A e \in returned' : e \in returned \/
               (e = seq[p] /\ pc[p] # "idle" /\ \A q \in Processor : e <= offset[q])
    PROVE  Covered'
  <1>1. \A e \in returned' : e > 0 /\ \A q \in Processor : e <= offset'[q]
    BY Zenon DEF Covered, NumbersAreEvents, EndedIsCovered
  <1>2. \A o \in Producer \ {p} :
           UNCHANGED <<pc[o], seq[o], todo[o], failed[o]>>
    BY DEF NextOrReturn, Return, DispatchFirst, StartDispatch, Set, Inv, TypeOK
  <1>3. CASE batch[p] = {}
    <2>1. pc'[p] = "idle"
      BY <1>3 DEF NextOrReturn, Return, Set, Inv, TypeOK
    <2>. QED
      BY <1>1, <1>2, <2>1 DEF Covered, NumbersAreEvents, EndedIsCovered
  <1>4. CASE batch[p] # {}
    <2>1. pc'[p] = "dispatch" /\ todo'[p] = Processor
      BY <1>4, Zenon DEF NextOrReturn, DispatchFirst, StartDispatch, Set, Inv, TypeOK
    <2>2. PICK i \in batch[p] : seq' = Set(seq, p, log[i])
      BY <1>4, Zenon DEF NextOrReturn, DispatchFirst
    <2>3. i \in DOMAIN log /\ seq'[p] = log[i]
      BY <2>2, Zenon DEF Set, Inv, TypeOK, DispatchedIsLogged
    <2>. QED
      BY <1>1, <1>2, <2>1, <2>3 DEF Covered, NumbersAreEvents, EndedIsCovered
  <1>. QED
    BY <1>3, <1>4, Zenon

\* Every step of the pipeline keeps what is known of acknowledged events.
LEMMA NextCovered == Inv /\ Covered /\ [Next]_vars => Covered'
  <1>. SUFFICES ASSUME Inv, Covered, [Next]_vars PROVE Covered'
    BY Zenon
  <1>1. ASSUME NEW p \in Producer, NEW entry \in Entry[p], NextGlobalSeq(p, entry)
        PROVE  Covered'
    BY <1>1 DEF NextGlobalSeq, Set, Inv, TypeOK, Covered, NumbersAreEvents, EndedIsCovered
  <1>2. ASSUME NEW p \in Producer, NEW startSeq \in 1 .. MaxSeq, ProcessEventsFromLog(p, startSeq)
        PROVE  Covered'
    <2>1. PICK i \in DOMAIN log : seq' = Set(seq, p, log[i])
      BY <1>2, Zenon DEF ProcessEventsFromLog, DispatchFirst
    <2>2. StartDispatch(p) /\ UNCHANGED shared
      BY <1>2, Zenon DEF ProcessEventsFromLog, DispatchFirst
    <2>. QED
      BY <2>1, <2>2, Zenon DEF StartDispatch, shared, Set, Inv, TypeOK, Covered, NumbersAreEvents, EndedIsCovered
  <1>3. ASSUME NEW p \in Producer, AppendEvent(p)
        PROVE  Covered'
    <2>1. log' = Append(log, seq[p]) /\ seq[p] \in Nat /\ seq[p] > 0 /\ log \in Seq(Nat)
      BY <1>3, Zenon DEF AppendEvent, At, Inv, TypeOK, Covered, NumbersAreEvents
    <2>2. \A i \in DOMAIN log' : log'[i] > 0
      BY <2>1, AppendExtends DEF Covered, NumbersAreEvents
    <2>. QED
      BY <1>3, <2>2, Zenon DEF AppendEvent, StartDispatch, At, Set, Inv, TypeOK, Covered, NumbersAreEvents, EndedIsCovered
  <1>4. ASSUME NEW p \in Producer, AppendEventFails(p)
        PROVE  Covered'
    BY <1>4, Zenon DEF AppendEventFails, Return, shared, Set, Inv, TypeOK, Covered, NumbersAreEvents, EndedIsCovered
  <1>5. ASSUME NEW p \in Producer, NEW q \in Processor, ProcessorSucceeds(p, q)
        PROVE  Covered'
    <2>1. /\ Range(applied'[q]) = Range(applied[q]) \cup {seq[p]}
          /\ \A r \in Processor \ {q} : applied'[r] = applied[r] /\ offset'[r] = offset[r]
          /\ offset'[q] = seq[p]
          /\ seq[p] > offset[q]
          /\ UNCHANGED <<log, pc, seq, failed, returned>>
      BY <1>5, RangeAppend, Zenon DEF ProcessorSucceeds, Inv, TypeOK
    <2>2. todo'[p] = todo[p] \ {q} /\ \A o \in Producer \ {p} : todo'[o] = todo[o]
      BY <1>5, Zenon DEF ProcessorSucceeds, GoroutineDone, Set, Inv, TypeOK
    <2>3. /\ \A o \in Producer : seq[o] \in Nat
          /\ \A r \in Processor : offset[r] \in Nat
          /\ returned \subseteq Nat
      BY Zenon DEF Inv, TypeOK
    <2>4. \A r \in Processor : offset'[r] \in Nat /\ offset[r] <= offset'[r]
      <3>1. seq[p] \in Nat /\ offset[q] \in Nat /\ offset'[q] = seq[p] /\ seq[p] > offset[q]
        BY <2>1, <2>3, Zenon
      <3>. QED
        BY <2>1, <2>3, <3>1
    <2>5. NumbersAreEvents'
      BY <2>1, Zenon DEF Covered, NumbersAreEvents
    <2>6. EndedIsCovered'
      <3>1. ASSUME NEW o \in Producer, pc'[o] = "dispatch", ~failed'[o],
                   NEW r \in Processor \ todo'[o]
            PROVE  seq'[o] <= offset'[r]
        BY <2>1, <2>2, <2>3, <2>4, <3>1 DEF Covered, EndedIsCovered
      <3>2. ASSUME NEW o \in Producer, pc'[o] = "save", NEW r \in Processor
            PROVE  seq'[o] <= offset'[r]
        BY <2>1, <2>3, <2>4, <3>2 DEF Covered, EndedIsCovered
      <3>3. ASSUME NEW e \in returned', NEW r \in Processor
            PROVE  e <= offset'[r]
        BY <2>1, <2>3, <2>4, <3>3 DEF Covered, EndedIsCovered
      <3>. QED
        BY <3>1, <3>2, <3>3, Zenon DEF EndedIsCovered
    <2>. QED
      BY <2>5, <2>6, Zenon DEF Covered
  <1>6. ASSUME NEW p \in Producer, NEW q \in Processor, SkipDuplicate(p, q) \/ ProcessorFails(p, q)
        PROVE  Covered'
    <2>1. UNCHANGED <<log, offset, applied, returned, pc, seq>>
      BY <1>6, Zenon DEF SkipDuplicate, ProcessorFails, shared
    <2>2. \A o \in Producer \ {p} : todo'[o] = todo[o] /\ failed'[o] = failed[o]
      BY <1>6, Zenon DEF SkipDuplicate, ProcessorFails, GoroutineDone, Set, Inv, TypeOK
    <2>3. todo'[p] = todo[p] \ {q}
      BY <1>6, Zenon DEF SkipDuplicate, ProcessorFails, GoroutineDone, Set, Inv, TypeOK
    <2>4. failed'[p] \/ (failed'[p] = failed[p] /\ seq[p] <= offset[q])
      BY <1>6, Zenon DEF SkipDuplicate, ProcessorFails, Set, Inv, TypeOK
    <2>5. \A o \in Producer : failed[o] \in BOOLEAN /\ failed'[o] \in BOOLEAN
      BY <1>6, Zenon DEF SkipDuplicate, ProcessorFails, Set, Inv, TypeOK
    <2>. QED
      BY <2>1, <2>2, <2>3, <2>4, <2>5, Zenon DEF Covered, NumbersAreEvents, EndedIsCovered
  <1>7. ASSUME NEW p \in Producer, DispatchFails(p)
        PROVE  Covered'
    BY <1>7, NextOrReturnCovered, Zenon DEF DispatchFails, shared
  <1>8. ASSUME NEW p \in Producer, EndFlush(p)
        PROVE  Covered'
    BY <1>8, NextOrReturnCovered, Zenon DEF EndFlush, ReturnNil, At, Covered, EndedIsCovered
  <1>9. ASSUME NEW p \in Producer, DispatchSucceeds(p)
        PROVE  Covered'
    <2>1. \A q \in Processor : seq[p] <= offset[q]
      BY <1>9, Zenon DEF DispatchSucceeds, At, Covered, EndedIsCovered
    <2>2. CASE ~Checkpointing
      BY <1>9, <2>1, <2>2, NextOrReturnCovered, Zenon DEF DispatchSucceeds, ReturnNil, At
    <2>3. CASE Checkpointing
      BY <1>9, <2>1, <2>3, Zenon DEF DispatchSucceeds, At, Set, Inv, TypeOK, Covered, NumbersAreEvents, EndedIsCovered
    <2>. QED
      BY <2>2, <2>3, ParameterAssumption, Zenon
  <1>10. ASSUME NEW p \in Producer, NEW q \in Processor, SaveCheckpoint(p, q)
         PROVE  Covered'
    BY <1>10, Zenon DEF SaveCheckpoint, Covered, NumbersAreEvents, EndedIsCovered
  <1>11. CASE UNCHANGED vars
    BY <1>11, Zenon DEF vars, shared, locals, Covered, NumbersAreEvents, EndedIsCovered
  <1>. QED
    BY <1>1, <1>2, <1>3, <1>4, <1>5, <1>6, <1>7, <1>8, <1>9, <1>10, <1>11, Zenon
    DEF Next, Progress, Goroutine

-----------------------------------------------------------------------------
(* The results.                                                            *)

\* Inv holds in every reachable state of the pipeline.
THEOREM Invariance == Spec => []Inv
  BY InitInv, NextInv, PTL DEF Spec

\* Every processor applies the events of a symbol in the order of their
\* sequence numbers and each at most once, however many goroutines call the
\* pipeline and whichever processors fail.
THEOREM OrderSafety == Spec => []AppliedInOrder
  <1>1. Inv => AppliedInOrder
    BY Zenon DEF Inv
  <1>. QED
    BY <1>1, Invariance, PTL

\* No processor applies an event before AppendEvent has logged it.
THEOREM WriteAheadSafety == Spec => []WriteAhead
  <1>1. Inv => WriteAhead
    BY Zenon DEF Inv
  <1>. QED
    BY <1>1, Invariance, PTL

\* No checkpoint row is ahead of its processor, however flushes interleave.
THEOREM CheckpointSafety == Spec => []CheckpointNotAhead
  <1>1. Inv => CheckpointNotAhead
    BY Zenon DEF Inv, CheckpointIsApplied, CheckpointNotAhead
  <1>. QED
    BY <1>1, Invariance, PTL

\* An acknowledged event is missing at a processor only if a later event of
\* the symbol overtook it on the way to the processor's lock.
THEOREM AcknowledgedSafety == Spec => []ReturnedOrOvertaken
  <1>1. Inv /\ Covered => ReturnedOrOvertaken
    <2>. SUFFICES ASSUME Inv, Covered, NEW q \in Processor, NEW e \in returned
                  PROVE  \/ e \in Range(applied[q])
                         \/ \E later \in Range(applied[q]) : later > e
      BY Zenon DEF ReturnedOrOvertaken
    <2>1. e \in Nat /\ e > 0 /\ e <= offset[q] /\ offset[q] \in Nat
      BY Zenon DEF Inv, TypeOK, Covered, NumbersAreEvents, EndedIsCovered
    <2>2. offset[q] \in Range(applied[q])
      BY <2>1 DEF Covered, NumbersAreEvents
    <2>. QED
      BY <2>1, <2>2
  <1>2. Inv /\ Inv' /\ Covered /\ [Next]_vars => Covered'
    BY NextCovered, Zenon
  <1>. QED
    BY <1>1, <1>2, InitCovered, Invariance, PTL DEF Spec
=============================================================================
