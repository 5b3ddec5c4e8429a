---------------------- MODULE PositionProcessorProofs ----------------------
(***************************************************************************)
(* Proofs about the position processor, for any trades, users, instances   *)
(* and deployments.  The inductive invariant of LegsAtMostOnce is Inv;     *)
(* with TablesSound it gives the soundness of the tables, and with         *)
(* AloneInStep the refinement of AtomicSettlement.  VolumesMatch then adds *)
(* up what the settled trades move, with the sums over finite sets that    *)
(* this needs.                                                             *)
(***************************************************************************)
EXTENDS PositionProcessor, FiniteSetTheorems, NaturalsInduction, WellFoundedInduction, TLAPS

\* A trade has two legs.
LEMMA LegsFacts ==
    ASSUME NEW t
    PROVE  /\ Len(Legs(t)) = 2
           /\ Len(Tail(Legs(t))) = 1
           /\ Tail(Tail(Legs(t))) = <<>>
           /\ Len(<<>>) = 0
  <1>1. ASSUME NEW a, NEW b
        PROVE  Len(<<a, b>>) = 2 /\ Len(Tail(<<a, b>>)) = 1 /\ Tail(Tail(<<a, b>>)) = <<>>
    OBVIOUS
  <1>2. PICK a, b : Legs(t) = <<a, b>>
    BY Zenon DEF Legs
  <1>3. Len(<<>>) = 0
    BY Zenon
  <1>. QED  BY <1>1, <1>2, <1>3, Zenon

\* Counting one entry of a function up keeps its type.
LEMMA CountUp ==
    ASSUME NEW S, NEW f \in [S -> Nat], NEW x
    PROVE  [f EXCEPT ![x] = f[x] + 1] \in [S -> Nat]
  <1>1. ASSUME NEW e \in S PROVE (IF e = x THEN f[x] + 1 ELSE f[e]) \in Nat
    <2>1. f[e] \in Nat /\ f[e] + 1 \in Nat
      OBVIOUS
    <2>. QED  BY <2>1, Zenon
  <1>. QED  BY <1>1, Zenon

\* A step of instance i leaves the others alone.
Alongside(i) ==
    /\ deployment' = deployment
    /\ \A j \in Instance \ {i} :
          /\ pc'[j] = pc[j]
          /\ trade'[j] = trade[j]
          /\ legs'[j] = legs[j]
          /\ processedTrades'[j] = processedTrades[j]

Step(i) ==
    \/ \E t \in Trade : ProcessEvent(i, t)
    \/ Mark(i)
    \/ SkipDuplicate(i)
    \/ ReadPosition(i)
    \/ WritePosition(i)
    \/ Commit(i)
    \/ Fail(i)
    \/ Crash(i)

\* A running instance is one of the instances.
LEMMA ActiveIsInstance ==
    ASSUME ControlType
    PROVE  Active \subseteq Instance /\ Dedup \in {"outbox", "processed", "memory"}
  BY DeploymentAssumption, Zenon DEF ControlType, Active, Dedup

\* The processor starts with no mark, no effect and idle instances.
LEMMA InitInv == Init => Inv
  <1> SUFFICES ASSUME Init PROVE Inv
    BY Zenon
  <1>1. ControlType
    <2>1. \A e \in Trade \X {1, 2} : 0 \in Nat
      BY Zenon
    <2>2. <<>> \in Queue
      BY Zenon DEF Queue
    <2>. QED  BY <2>1, <2>2, Zenon DEF Init, ControlType
  <1>2. \A i \in Instance : pc[i] = "idle"
    BY Zenon DEF Init
  <1>3. LegsLeft
    BY <1>2, Zenon DEF LegsLeft
  <1>4. \A t : \A i \in Active : ~Working(i, t)
    BY <1>1, <1>2, ActiveIsInstance, Zenon DEF Working
  <1>5. \A t \in Trade : NoEffect(t)
    BY Zenon DEF Init, NoEffect
  <1>6. OneWorker /\ ProcessedTells /\ MapTells
    BY <1>4, <1>5, Zenon DEF OneWorker, ProcessedTells, MapTells
  <1>7. RowTells
    BY <1>4, <1>5, Zenon DEF Init, RowTells
  <1>8. OnceSoFar
    <2>1. \A t \in Trade, k \in {1, 2} : effects[<<t, k>>] <= 1
      BY DEF Init
    <2>. QED  BY <1>4, <2>1, Zenon DEF OnceSoFar
  <1>. QED  BY <1>1, <1>3, <1>6, <1>7, <1>8, Zenon DEF Inv

\* Whatever an instance does, the others keep their place, trade and legs.
LEMMA StepAlongside ==
    ASSUME Inv, NEW i \in Active, Step(i)
    PROVE  Alongside(i)
  <1> USE DEF ControlType, tables, Goto, Return
  <1>a. ControlType /\ Active \subseteq Instance
    BY ActiveIsInstance, Zenon DEF Inv
  <1>1. ASSUME NEW t \in Trade, ProcessEvent(i, t) PROVE Alongside(i)
    BY <1>1, <1>a, Zenon DEF ProcessEvent, Alongside
  <1>2. CASE Mark(i)
    BY <1>2, <1>a, Zenon DEF Mark, Alongside
  <1>3. CASE SkipDuplicate(i)
    BY <1>3, <1>a, Zenon DEF SkipDuplicate, Alongside
  <1>4. CASE ReadPosition(i)
    BY <1>4, <1>a, Zenon DEF ReadPosition, Alongside
  <1>5. CASE WritePosition(i)
    BY <1>5, <1>a, Zenon DEF WritePosition, Alongside
  <1>6. CASE Commit(i)
    BY <1>6, <1>a, Zenon DEF Commit, Alongside
  <1>7. CASE Fail(i)
    BY <1>7, <1>a, Zenon DEF Fail, Alongside
  <1>8. CASE Crash(i)
    BY <1>8, <1>a, Zenon DEF Crash, Alongside
  <1>. QED  BY <1>1, <1>2, <1>3, <1>4, <1>5, <1>6, <1>7, <1>8, Zenon DEF Step

\* Every step keeps the types of the control state.
LEMMA TypeStep ==
    ASSUME Inv, NEW i \in Active, Step(i)
    PROVE  ControlType'
  <1> USE DEF ControlType, tables, Goto, Return
  <1>a. ControlType /\ Active \subseteq Instance
    BY ActiveIsInstance, Zenon DEF Inv
  <1>q. <<>> \in Queue /\ \A t \in Trade : Legs(t) \in Queue /\ Tail(Legs(t)) \in Queue
    BY Zenon DEF Queue
  <1>1. ASSUME NEW t \in Trade, ProcessEvent(i, t) PROVE ControlType'
    BY <1>1, <1>a, <1>q, Zenon DEF ProcessEvent
  <1>2. CASE Mark(i)
    BY <1>2, <1>a, Zenon DEF Mark
  <1>3. CASE SkipDuplicate(i)
    BY <1>3, <1>a, <1>q, Zenon DEF SkipDuplicate
  <1>4. CASE ReadPosition(i)
    BY <1>4, <1>a, Zenon DEF ReadPosition
  <1>5. CASE WritePosition(i)
    <2>1. Tail(legs[i]) \in Queue
      <3>1. trade[i] \in Trade /\ legs[i] \in {Legs(trade[i]), Tail(Legs(trade[i]))}
        BY <1>5, <1>a, Zenon DEF Inv, LegsLeft, WritePosition
      <3>. QED  BY <3>1, <1>q, LegsFacts, Zenon
    <2>2. legs' \in [Instance -> Queue]
      BY <1>5, <1>a, <2>1, Zenon DEF WritePosition
    <2>3. effects' \in [Trade \X {1, 2} -> Nat]
      <3> DEFINE e == <<trade[i], 3 - Len(legs[i])>>
      <3>1. effects' = effects \/ effects' = [effects EXCEPT ![e] = effects[e] + 1]
        BY <1>5, Zenon DEF WritePosition
      <3>2. effects \in [Trade \X {1, 2} -> Nat]
        BY <1>a, Zenon
      <3> HIDE DEF e
      <3>3. [effects EXCEPT ![e] = effects[e] + 1] \in [Trade \X {1, 2} -> Nat]
        BY <3>2, CountUp, Zenon
      <3>. QED  BY <3>1, <3>2, <3>3, Zenon
    <2>4. pc' \in [Instance -> {"idle", "mark", "read", "write", "commit"}]
      BY <1>5, <1>a, Zenon DEF WritePosition
    <2>. QED  BY <1>5, <1>a, <2>2, <2>3, <2>4, Zenon DEF WritePosition
  <1>6. CASE Commit(i)
    <2>1. trade[i] \in Trade
      BY <1>6, <1>a, Zenon DEF Inv, LegsLeft, Commit
    <2>2. effects' \in [Trade \X {1, 2} -> Nat]
      BY <1>6, <1>a DEF Commit
    <2>3. processedTrades' \in [Instance -> SUBSET Trade]
      BY <1>6, <1>a, <2>1, Zenon DEF Commit
    <2>. QED  BY <1>6, <1>a, <1>q, <2>2, <2>3, Zenon DEF Commit
  <1>7. CASE Fail(i)
    BY <1>7, <1>a, <1>q, Zenon DEF Fail
  <1>8. CASE Crash(i)
    BY <1>8, <1>a, <1>q, Zenon DEF Crash
  <1>. QED  BY <1>1, <1>2, <1>3, <1>4, <1>5, <1>6, <1>7, <1>8, Zenon DEF Step

\* After ProcessEvent returned the instance is idle.
LEMMA Returned ==
    ASSUME ControlType, NEW i \in Instance, Return(i)
    PROVE  pc'[i] = "idle"
  BY Zenon DEF ControlType, Return, Goto

\* Writing a leg takes it off the legs that are left, and the last one leads to
\* the commit.
LEMMA WritesOne ==
    ASSUME Inv, NEW i \in Instance, WritePosition(i)
    PROVE  /\ pc[i] = "write" /\ trade'[i] = trade[i] /\ trade[i] \in Trade
           /\ \/ legs[i] = Legs(trade[i]) /\ pc'[i] = "read" /\ legs'[i] = Tail(Legs(trade[i]))
              \/ legs[i] = Tail(Legs(trade[i])) /\ pc'[i] = "commit" /\ legs'[i] = <<>>
  <1> USE DEF Inv, ControlType
  <1>1. pc[i] = "write" /\ trade' = trade
    BY Zenon DEF WritePosition
  <1>2. trade[i] \in Trade /\ legs[i] \in {Legs(trade[i]), Tail(Legs(trade[i]))}
    BY <1>1, Zenon DEF LegsLeft
  <1>3. legs'[i] = Tail(legs[i])
    BY Zenon DEF WritePosition
  <1>4. pc'[i] = IF Len(legs[i]) = 1 THEN "commit" ELSE "read"
    BY Zenon DEF WritePosition, Goto
  <1>5. CASE legs[i] = Legs(trade[i])
    <2>1. Len(legs[i]) # 1
      <3>1. 2 # 1
        OBVIOUS
      <3>. QED  BY <1>5, <3>1, LegsFacts, Zenon
    <2>. QED  BY <1>1, <1>2, <1>3, <1>4, <1>5, <2>1, Zenon
  <1>6. CASE legs[i] = Tail(Legs(trade[i]))
    <2>1. Len(legs[i]) = 1 /\ Tail(legs[i]) = <<>>
      BY <1>6, LegsFacts, Zenon
    <2>. QED  BY <1>1, <1>2, <1>3, <1>4, <1>6, <2>1, Zenon
  <1>. QED  BY <1>2, <1>5, <1>6, Zenon

\* Where an instance is tells, after every step, which legs are left.
LEMMA LegsStep ==
    ASSUME Inv, NEW i \in Active, Step(i)
    PROVE  LegsLeft'
  <1> DEFINE Right(j) == /\ pc[j] # "idle" => trade[j] \in Trade
                         /\ pc[j] = "mark" => legs[j] = Legs(trade[j])
                         /\ pc[j] \in {"read", "write"} => legs[j] \in {Legs(trade[j]), Tail(Legs(trade[j]))}
                         /\ pc[j] = "commit" => legs[j] = <<>>
  <1> SUFFICES ASSUME NEW j \in Instance PROVE Right(j)'
    BY Zenon DEF LegsLeft
  <1>a. ControlType /\ i \in Instance
    BY ActiveIsInstance, Zenon DEF Inv
  <1>b. Right(j)
    BY Zenon DEF Inv, LegsLeft
  <1>c. CASE j # i
    <2>1. pc'[j] = pc[j] /\ trade'[j] = trade[j] /\ legs'[j] = legs[j]
      BY <1>c, StepAlongside, Zenon DEF Alongside
    <2>. QED  BY <1>b, <2>1, Zenon
  <1>d. CASE j = i
    <2> USE DEF ControlType, Goto
    <2>1. ASSUME NEW t \in Trade, ProcessEvent(i, t) PROVE Right(i)'
      <3>1. pc'[i] = "mark" /\ trade'[i] = t /\ legs'[i] = Legs(t)
        BY <1>a, <2>1, Zenon DEF ProcessEvent
      <3>. QED  BY <3>1, Zenon
    <2>2. CASE Mark(i)
      <3>1. pc[i] = "mark" /\ pc'[i] = "read" /\ trade'[i] = trade[i] /\ legs'[i] = legs[i]
        BY <1>a, <2>2, Zenon DEF Mark
      <3>. QED  BY <1>b, <1>d, <3>1, Zenon
    <2>3. CASE ReadPosition(i)
      <3>1. pc[i] = "read" /\ pc'[i] = "write" /\ trade'[i] = trade[i] /\ legs'[i] = legs[i]
        BY <1>a, <2>3, Zenon DEF ReadPosition
      <3>. QED  BY <1>b, <1>d, <3>1, Zenon
    <2>4. CASE WritePosition(i)
      <3>1. /\ trade'[i] = trade[i] /\ trade[i] \in Trade
            /\ \/ pc'[i] = "read" /\ legs'[i] = Tail(Legs(trade[i]))
               \/ pc'[i] = "commit" /\ legs'[i] = <<>>
        BY <1>a, <2>4, WritesOne, Zenon
      <3>. QED  BY <1>d, <3>1, Zenon
    <2>5. CASE SkipDuplicate(i) \/ Commit(i) \/ Fail(i) \/ Crash(i)
      <3>1. pc'[i] = "idle"
        BY <1>a, <2>5, Returned, Zenon DEF SkipDuplicate, Commit, Fail, Crash
      <3>. QED  BY <1>d, <3>1, Zenon
    <2>. QED  BY <1>d, <2>1, <2>2, <2>3, <2>4, <2>5, Zenon DEF Step
  <1>. QED  BY <1>c, <1>d, Zenon

\* An unmarked trade is handled by nobody, and unless a mark of it was given up
\* it has had no effect: what the insert into outbox waits for, the row of
\* processed_trades and the map of the only process tell.
LEMMA MarkFree ==
    ASSUME Inv, NEW i \in Active, Mark(i)
    PROVE  /\ pc[i] = "mark" /\ trade[i] \in Trade
           /\ \A j \in Active : ~Working(j, trade[i])
           /\ Dedup = "outbox" => trade[i] \notin outbox
           /\ Dedup # "outbox" /\ trade[i] \notin forgotten => NoEffect(trade[i])
  <1>a. ControlType /\ Active \subseteq Instance /\ Dedup \in {"outbox", "processed", "memory"}
    BY ActiveIsInstance, Zenon DEF Inv
  <1>1. /\ pc[i] = "mark" /\ ~Marked(i, trade[i])
        /\ Dedup = "outbox" => ~Reserved(i, trade[i])
    BY Zenon DEF Mark
  <1>2. trade[i] \in Trade
    BY <1>a, <1>1, Zenon DEF Inv, LegsLeft
  <1>i. ~Working(i, trade[i])
    BY <1>1, Zenon DEF Working
  <1>3. CASE Dedup = "outbox"
    <2>1. trade[i] \notin outbox
      BY <1>1, <1>3, Zenon DEF Marked
    <2>2. ASSUME NEW j \in Active, Working(j, trade[i]) PROVE FALSE
      BY <1>a, <1>1, <1>3, <1>i, <2>2, Zenon DEF Reserved, Working
    <2>. QED  BY <1>1, <1>2, <1>3, <2>1, <2>2, Zenon
  <1>4. CASE Dedup = "processed"
    <2>1. trade[i] \notin processed
      BY <1>1, <1>4, Zenon DEF Marked
    <2>2. Dedup # "outbox"
      BY <1>4, Zenon
    <2>. QED  BY <1>1, <1>2, <1>4, <2>1, <2>2, Zenon DEF Inv, ProcessedTells
  <1>5. CASE Dedup = "memory"
    <2>1. trade[i] \notin processedTrades[i]
      BY <1>1, <1>5, Zenon DEF Marked
    <2>2. Dedup # "outbox"
      BY <1>5, Zenon
    <2>3. \A j \in Active : j = i
      BY <1>5, <1>a, DeploymentAssumption, Zenon DEF ControlType, Active, Dedup
    <2>. QED  BY <1>1, <1>2, <1>5, <1>i, <2>1, <2>2, <2>3, Zenon DEF Inv, MapTells
  <1>. QED  BY <1>a, <1>3, <1>4, <1>5, Zenon

\* Only Mark has an instance begin to work on a trade.
LEMMA WorkBegins ==
    ASSUME Inv, NEW i \in Active, Step(i), NEW j \in Active, NEW t, Working(j, t)'
    PROVE  Working(j, t) \/ (j = i /\ Mark(i) /\ t = trade[i])
  <1>a. ControlType /\ i \in Instance /\ j \in Instance
    BY ActiveIsInstance, Zenon DEF Inv
  <1>1. CASE j # i
    <2>1. pc'[j] = pc[j] /\ trade'[j] = trade[j]
      BY <1>1, <1>a, StepAlongside, Zenon DEF Alongside
    <2>. QED  BY <2>1, Zenon DEF Working
  <1>2. CASE j = i
    <2>0. pc'[i] \in {"read", "write", "commit"} /\ trade'[i] = t
      BY <1>2, Zenon DEF Working
    <2>1. ASSUME NEW u \in Trade, ProcessEvent(i, u) PROVE FALSE
      <3>1. pc'[i] = "mark"
        BY <1>a, <2>1, Zenon DEF ProcessEvent, Goto, ControlType
      <3>. QED  BY <2>0, <3>1, Zenon
    <2>2. CASE Mark(i)
      BY <1>2, <2>0, <2>2, Zenon DEF Mark
    <2>3. CASE ReadPosition(i)
      BY <1>2, <2>0, <2>3, Zenon DEF ReadPosition, Working
    <2>4. CASE WritePosition(i)
      BY <1>2, <1>a, <2>0, <2>4, WritesOne, Zenon DEF Working
    <2>5. CASE SkipDuplicate(i) \/ Commit(i) \/ Fail(i) \/ Crash(i)
      <3>1. pc'[i] = "idle"
        BY <1>a, <2>5, Returned, Zenon DEF SkipDuplicate, Commit, Fail, Crash
      <3>. QED  BY <2>0, <3>1, Zenon
    <2>. QED  BY <2>1, <2>2, <2>3, <2>4, <2>5, Zenon DEF Step
  <1>. QED  BY <1>1, <1>2, Zenon

\* No two instances work on the same trade.
LEMMA OneWorkerStep ==
    ASSUME Inv, NEW i \in Active, Step(i)
    PROVE  OneWorker'
  <1>a. Active' = Active
    BY StepAlongside, Zenon DEF Alongside, Active
  <1> SUFFICES ASSUME NEW j \in Active, NEW k \in Active, NEW t \in Trade,
                      Working(j, t)', Working(k, t)'
               PROVE  j = k
    BY <1>a, Zenon DEF OneWorker
  <1>1. Working(j, t) \/ (j = i /\ Mark(i) /\ t = trade[i])
    BY WorkBegins, Zenon
  <1>2. Working(k, t) \/ (k = i /\ Mark(i) /\ t = trade[i])
    BY WorkBegins, Zenon
  <1>. QED  BY <1>1, <1>2, MarkFree, Zenon DEF Inv, OneWorker

\* A leg takes effect by itself only without a transaction, and then it is the
\* first of those that are left.
LEMMA EffectOfWrite ==
    ASSUME Inv, NEW i \in Active, WritePosition(i)
    PROVE  /\ Working(i, trade[i])
           /\ UNCHANGED <<outbox, processed, forgotten, processedTrades>>
           /\ Dedup = "outbox" => effects' = effects
           /\ Dedup # "outbox" =>
                effects' = [effects EXCEPT ![<<trade[i], 3 - Len(legs[i])>>] =
                                effects[<<trade[i], 3 - Len(legs[i])>>] + 1]
  <1>1. pc[i] = "write"
    BY Zenon DEF WritePosition
  <1>2. Working(i, trade[i])
    BY <1>1, Zenon DEF Working
  <1>. QED  BY <1>2, Zenon DEF WritePosition

\* The steps that change neither effects nor the outbox.
LEMMA SameEffects ==
    ASSUME Inv, NEW i \in Active, Step(i), ~WritePosition(i), ~Commit(i)
    PROVE  effects' = effects /\ outbox' = outbox
  <1> USE DEF tables
  <1>1. ASSUME NEW t \in Trade, ProcessEvent(i, t) PROVE effects' = effects /\ outbox' = outbox
    BY <1>1, Zenon DEF ProcessEvent
  <1>2. CASE Mark(i) \/ SkipDuplicate(i) \/ ReadPosition(i)
    BY <1>2, Zenon DEF Mark, SkipDuplicate, ReadPosition
  <1>3. CASE Fail(i) \/ Crash(i)
    BY <1>3, Zenon DEF Fail, Crash
  <1>. QED  BY <1>1, <1>2, <1>3, Zenon DEF Step

\* An outbox row tells, after every step, that both legs took effect.
LEMMA RowStep ==
    ASSUME Inv, NEW i \in Active, Step(i)
    PROVE  RowTells'
  <1>a. Active' = Active /\ Dedup' = Dedup
    BY StepAlongside, Zenon DEF Alongside, Active, Dedup
  <1> DEFINE Row1(t) == t \in outbox => \A k \in {1, 2} : effects[<<t, k>>] = 1
             Row2(t) == t \notin outbox => NoEffect(t)
             Row3(t) == \A j \in Active : Working(j, t) => t \notin outbox
  <1> SUFFICES ASSUME Dedup = "outbox", NEW t \in Trade
               PROVE  Row1(t)' /\ Row2(t)' /\ Row3(t)'
    BY <1>a, Zenon DEF RowTells
  <1>b. Row1(t) /\ Row2(t) /\ Row3(t)
    BY Zenon DEF Inv, RowTells
  <1>c. \A j \in Active : Working(j, t)' => Working(j, t) \/ (t = trade[i] /\ t \notin outbox)
    BY WorkBegins, MarkFree, Zenon
  <1>1. CASE ~Commit(i)
    <2>1. effects' = effects /\ outbox' = outbox
      BY <1>1, SameEffects, EffectOfWrite, Zenon
    <2>2. Row1(t)' /\ Row2(t)'
      BY <1>b, <2>1, Zenon DEF NoEffect
    <2>3. Row3(t)'
      BY <1>a, <1>b, <1>c, <2>1, Zenon
    <2>. QED  BY <2>2, <2>3, Zenon
  <1>2. CASE Commit(i)
    <2>1. /\ pc[i] = "commit" /\ outbox' = outbox \cup {trade[i]}
          /\ effects' = [e \in Trade \X {1, 2} |->
                            IF e[1] = trade[i] THEN effects[e] + 1 ELSE effects[e]]
      BY <1>2, Zenon DEF Commit
    <2>2. Working(i, trade[i])
      BY <2>1, Zenon DEF Working
    <2>3. ~Mark(i)
      BY <2>1, Zenon DEF Mark
    <2>4. CASE t = trade[i]
      <3>1. t \notin outbox /\ NoEffect(t)
        BY <1>b, <2>2, <2>4, Zenon
      <3>2. \A k \in {1, 2} : effects'[<<t, k>>] = 1
        BY <2>1, <2>4, <3>1 DEF NoEffect
      <3>3. ASSUME NEW j \in Active, Working(j, t)' PROVE FALSE
        <4>1. j = i
          BY <2>2, <2>3, <2>4, <3>3, WorkBegins, Zenon DEF Inv, OneWorker
        <4>2. pc'[i] = "idle"
          BY <1>2, Returned, ActiveIsInstance, Zenon DEF Commit, Inv
        <4>. QED  BY <3>3, <4>1, <4>2, Zenon DEF Working
      <3>. QED  BY <1>a, <2>1, <2>4, <3>2, <3>3, Zenon
    <2>5. CASE t # trade[i]
      <3>1. \A k \in {1, 2} : effects'[<<t, k>>] = effects[<<t, k>>]
        BY <2>1, <2>5, Zenon
      <3>2. Row1(t)' /\ Row2(t)'
        BY <1>b, <2>1, <2>5, <3>1, Zenon DEF NoEffect
      <3>3. Row3(t)'
        BY <1>a, <1>b, <1>c, <2>1, <2>5, Zenon
      <3>. QED  BY <3>2, <3>3, Zenon
    <2>. QED  BY <2>4, <2>5, Zenon
  <1>. QED  BY <1>1, <1>2, Zenon

\* A mark once given up stays known as such.
LEMMA ForgottenGrows ==
    ASSUME NEW i, Step(i)
    PROVE  forgotten \subseteq forgotten'
  <1>1. ASSUME NEW t \in Trade, ProcessEvent(i, t) PROVE forgotten \subseteq forgotten'
    BY <1>1, Zenon DEF ProcessEvent, tables
  <1>2. CASE Mark(i) \/ SkipDuplicate(i) \/ ReadPosition(i) \/ WritePosition(i) \/ Commit(i)
    BY <1>2, Zenon DEF Mark, SkipDuplicate, ReadPosition, WritePosition, Commit, tables
  <1>3. CASE Fail(i) \/ Crash(i)
    BY <1>3, Zenon DEF Fail, Crash
  <1>. QED  BY <1>1, <1>2, <1>3, Zenon DEF Step

\* Without a transaction, each leg takes effect once at most while the mark of
\* its trade is kept: the leg that a write lets take effect was still ahead.
LEMMA OnceStep ==
    ASSUME Inv, NEW i \in Active, Step(i)
    PROVE  OnceSoFar'
  <1>a. Active' = Active /\ Dedup' = Dedup
    BY StepAlongside, Zenon DEF Alongside, Active, Dedup
  <1> DEFINE Once(t) == \A k \in {1, 2} : effects[<<t, k>>] <= 1
             Ahead(t) == \A j \in Active : Working(j, t) => EffectsAhead(j, t)
  <1> SUFFICES ASSUME Dedup # "outbox", NEW t \in Trade, t \notin forgotten'
               PROVE  Once(t)' /\ Ahead(t)'
    BY <1>a, Zenon DEF OnceSoFar
  <1>f. t \notin forgotten
    BY ForgottenGrows, Zenon
  <1>b. Once(t) /\ Ahead(t)
    BY <1>f, Zenon DEF Inv, OnceSoFar
  <1>e. effects \in [Trade \X {1, 2} -> Nat] /\ ControlType /\ Active \subseteq Instance
    BY ActiveIsInstance, Zenon DEF Inv, ControlType
  <1>1. CASE ~WritePosition(i)
    <2>1. effects' = effects
      BY <1>1, SameEffects, Zenon DEF Commit
    <2>2. ASSUME NEW j \in Active, Working(j, t)' PROVE EffectsAhead(j, t)'
      <3>1. CASE Working(j, t)
        <4>1. legs'[j] = legs[j]
          <5>1. CASE j # i
            BY <1>e, <5>1, StepAlongside, Zenon DEF Alongside
          <5>2. CASE j = i
            <6>1. pc[i] \in {"read", "write", "commit"} /\ pc'[i] \in {"read", "write", "commit"}
              BY <2>2, <3>1, <5>2, Zenon DEF Working
            <6>2. ~SkipDuplicate(i) /\ ~Commit(i) /\ ~Fail(i) /\ ~Crash(i)
              <7>1. pc'[i] # "idle"
                BY <6>1, Zenon
              <7>. QED  BY <1>e, <7>1, Returned, Zenon DEF SkipDuplicate, Commit, Fail, Crash
            <6>3. \A u \in Trade : ~ProcessEvent(i, u)
              BY <6>1, Zenon DEF ProcessEvent
            <6>. QED  BY <1>1, <5>2, <6>2, <6>3, Zenon DEF Step, Mark, ReadPosition
          <5>. QED  BY <5>1, <5>2, Zenon
        <4>. QED  BY <1>b, <2>1, <3>1, <4>1, Zenon DEF EffectsAhead
      <3>2. CASE j = i /\ Mark(i) /\ t = trade[i]
        <4>1. NoEffect(t)
          BY <1>f, <3>2, MarkFree, Zenon
        <4>. QED  BY <2>1, <4>1, Zenon DEF NoEffect, EffectsAhead
      <3>. QED  BY <2>2, <3>1, <3>2, WorkBegins, Zenon
    <2>3. Once(t)'
      BY <1>b, <2>1, Zenon
    <2>. QED  BY <1>a, <2>2, <2>3, Zenon
  <1>2. CASE WritePosition(i)
    <2> DEFINE n == 3 - Len(legs[i])
    <2>1. /\ Working(i, trade[i])
          /\ effects' = [effects EXCEPT ![<<trade[i], n>>] = effects[<<trade[i], n>>] + 1]
      BY <1>2, EffectOfWrite, Zenon
    <2>2. ~Mark(i)
      <3>1. pc[i] = "write"
        BY <1>2, Zenon DEF WritePosition
      <3>. QED  BY <3>1, Zenon DEF Mark
    <2>3. CASE t # trade[i]
      <3>1. ASSUME NEW k \in {1, 2} PROVE effects'[<<t, k>>] = effects[<<t, k>>]
        <4>1. <<t, k>> # <<trade[i], n>>
          BY <2>3, Zenon
        <4>2. <<t, k>> \in Trade \X {1, 2}
          BY Zenon
        <4>. QED  BY <1>e, <2>1, <4>1, <4>2, Zenon
      <3>2. ASSUME NEW j \in Active, Working(j, t)' PROVE EffectsAhead(j, t)'
        <4>1. Working(j, t) /\ j # i
          BY <2>2, <2>3, <3>2, <2>1, WorkBegins, Zenon DEF Working
        <4>2. legs'[j] = legs[j]
          BY <1>e, <4>1, StepAlongside, Zenon DEF Alongside
        <4>. QED  BY <1>b, <3>1, <4>1, <4>2, Zenon DEF EffectsAhead
      <3>. QED  BY <1>a, <1>b, <3>1, <3>2, Zenon
    <2>4. CASE t = trade[i]
      <3>1. \/ Len(legs[i]) = 2 /\ Len(legs'[i]) = 1
            \/ Len(legs[i]) = 1 /\ Len(legs'[i]) = 0
        <4>1. \/ legs[i] = Legs(trade[i]) /\ legs'[i] = Tail(Legs(trade[i]))
              \/ legs[i] = Tail(Legs(trade[i])) /\ legs'[i] = <<>>
          BY <1>2, <1>e, WritesOne, Zenon
        <4>2. /\ Len(Legs(trade[i])) = 2 /\ Len(Tail(Legs(trade[i]))) = 1
              /\ Len(<<>>) = 0
          BY LegsFacts, Zenon
        <4>. QED  BY <4>1, <4>2, Zenon
      <3>2. EffectsAhead(i, t)
        BY <1>b, <2>1, <2>4, Zenon
      <3>3. \A k \in {1, 2} : effects'[<<t, k>>] = IF k = n THEN effects[<<t, k>>] + 1 ELSE effects[<<t, k>>]
        BY <1>e, <2>1, <2>4, <3>1, Zenon
      <3>4. Once(t)'
        <4>1. n > 2 - Len(legs[i])
          <5> DEFINE m == Len(legs[i])
          <5>1. m = 2 \/ m = 1
            BY <3>1, Zenon
          <5> HIDE DEF m
          <5>2. 3 - m > 2 - m
            BY <5>1
          <5>. QED  BY <5>2, Zenon DEF m
        <4>2. ASSUME NEW k \in {1, 2}, k = n PROVE effects'[<<t, k>>] = 0 + 1
          BY <3>2, <3>3, <4>1, <4>2, Zenon DEF EffectsAhead
        <4>3. 0 + 1 <= 1
          OBVIOUS
        <4>4. ASSUME NEW k \in {1, 2}, k # n PROVE effects'[<<t, k>>] = effects[<<t, k>>]
          BY <3>3, <4>4, Zenon
        <4>. QED  BY <1>b, <4>2, <4>3, <4>4, Zenon
      <3>5. EffectsAhead(i, t)'
        <4>1. ASSUME NEW k \in {1, 2}, k > 2 - Len(legs'[i]) PROVE effects'[<<t, k>>] = 0
          <5>1. k # n /\ k > 2 - Len(legs[i])
            <6> DEFINE m == Len(legs[i])
                       m1 == Len(legs'[i])
            <6>1. (m = 2 /\ m1 = 1) \/ (m = 1 /\ m1 = 0)
              BY <3>1, Zenon
            <6>2. k > 2 - m1
              BY <4>1, Zenon
            <6> HIDE DEF m, m1
            <6>3. k # 3 - m /\ k > 2 - m
              BY <6>1, <6>2
            <6>. QED  BY <6>3, Zenon DEF m
          <5>2. effects[<<t, k>>] = 0
            BY <3>2, <5>1, Zenon DEF EffectsAhead
          <5>. QED  BY <3>3, <5>1, <5>2, Zenon
        <4>. QED  BY <4>1, Zenon DEF EffectsAhead
      <3>6. \A j \in Active : Working(j, t)' => j = i
        BY <2>1, <2>2, <2>4, WorkBegins, Zenon DEF Inv, OneWorker
      <3>. QED  BY <1>a, <3>4, <3>5, <3>6, Zenon
    <2>. QED  BY <2>3, <2>4, Zenon
  <1>. QED  BY <1>1, <1>2, Zenon

\* A trade of which instance i has still both legs to apply has had no effect,
\* unless a mark of it was given up.
LEMMA NothingDone ==
    ASSUME Inv, NEW i \in Active, pc[i] # "idle", ~HalfDone(i), Dedup # "outbox",
           Working(i, trade[i]), trade[i] \notin forgotten
    PROVE  NoEffect(trade[i])
  <1>1. i \in Instance
    BY ActiveIsInstance, Zenon DEF Inv
  <1>2. trade[i] \in Trade /\ legs[i] \in {Legs(trade[i]), Tail(Legs(trade[i])), <<>>}
    BY <1>1, Zenon DEF Inv, LegsLeft, Working
  <1>3. Len(legs[i]) = 2
    <2>1. ~(Len(legs[i]) < 2)
      BY Zenon DEF HalfDone
    <2>2. ~(1 < 2 => FALSE) /\ ~(0 < 2 => FALSE)
      OBVIOUS
    <2>. QED  BY <1>2, <2>1, <2>2, LegsFacts, Zenon
  <1>4. EffectsAhead(i, trade[i])
    BY <1>2, Zenon DEF Inv, OnceSoFar
  <1>5. \A k \in {1, 2} : k > 2 - 2
    OBVIOUS
  <1>. QED  BY <1>3, <1>4, <1>5, Zenon DEF EffectsAhead, NoEffect

\* Only a write changes the effects of a trade when there is no transaction.
LEMMA EffectsOfOthers ==
    ASSUME Inv, NEW i \in Active, Step(i), Dedup # "outbox",
           NEW t \in Trade, ~(WritePosition(i) /\ t = trade[i])
    PROVE  NoEffect(t) => NoEffect(t)'
  <1>1. CASE ~WritePosition(i)
    <2>1. effects' = effects
      BY <1>1, SameEffects, Zenon DEF Commit
    <2>. QED  BY <2>1, Zenon DEF NoEffect
  <1>2. CASE WritePosition(i)
    <2> DEFINE n == 3 - Len(legs[i])
    <2>1. effects' = [effects EXCEPT ![<<trade[i], n>>] = effects[<<trade[i], n>>] + 1]
      BY <1>2, EffectOfWrite, Zenon
    <2>2. ASSUME NEW k \in {1, 2} PROVE effects'[<<t, k>>] = effects[<<t, k>>]
      <3>1. <<t, k>> # <<trade[i], n>>
        BY <1>2, Zenon
      <3>2. <<t, k>> \in Trade \X {1, 2}
        BY Zenon
      <3>. QED  BY <2>1, <3>1, <3>2, Zenon DEF Inv, ControlType
    <2>. QED  BY <2>2 DEF NoEffect
  <1>. QED  BY <1>1, <1>2, Zenon

\* The row of processed_trades is there, after every step, while the trade is
\* worked on and once it has had an effect: only a failure deletes it, that of
\* the instance that inserted it.
LEMMA ProcessedStep ==
    ASSUME Inv, NEW i \in Active, Step(i)
    PROVE  ProcessedTells'
  <1>a. Active' = Active /\ Dedup' = Dedup
    BY StepAlongside, Zenon DEF Alongside, Active, Dedup
  <1> DEFINE Kept(t) == \A j \in Active : Working(j, t) => t \in processed
             None(t) == t \notin forgotten /\ t \notin processed => NoEffect(t)
  <1> SUFFICES ASSUME Dedup = "processed", NEW t \in Trade
               PROVE  Kept(t)' /\ None(t)'
    BY <1>a, Zenon DEF ProcessedTells
  <1>b. Kept(t) /\ None(t)
    BY Zenon DEF Inv, ProcessedTells
  <1>d. Dedup # "outbox" /\ Dedup # "memory"
    BY Zenon
  <1>e. ControlType /\ i \in Instance
    BY ActiveIsInstance, Zenon DEF Inv
  <1>1. CASE processed \subseteq processed'
    <2>1. Kept(t)'
      <3>1. Mark(i) => trade[i] \in processed'
        BY Zenon DEF Mark
      <3>. QED  BY <1>a, <1>b, <1>1, <3>1, WorkBegins, Zenon
    <2>2. None(t)'
      <3> SUFFICES ASSUME t \notin forgotten', t \notin processed' PROVE NoEffect(t)'
        BY Zenon
      <3>1. NoEffect(t)
        BY <1>b, <1>1, ForgottenGrows, Zenon
      <3>2. ~(WritePosition(i) /\ t = trade[i])
        BY <1>b, <1>1, EffectOfWrite, Zenon
      <3>. QED  BY <1>d, <3>1, <3>2, EffectsOfOthers, Zenon
    <2>. QED  BY <2>1, <2>2, Zenon
  <1>2. CASE ~(processed \subseteq processed')
    <2>1. Fail(i)
      <3>1. ASSUME NEW u \in Trade, ProcessEvent(i, u) PROVE FALSE
        BY <1>2, <3>1, Zenon DEF ProcessEvent, tables
      <3>2. ~SkipDuplicate(i) /\ ~ReadPosition(i) /\ ~WritePosition(i) /\ ~Commit(i) /\ ~Crash(i)
        BY <1>2, Zenon DEF SkipDuplicate, ReadPosition, WritePosition, Commit, Crash, tables
      <3>3. ~Mark(i)
        BY <1>2, Zenon DEF Mark
      <3>. QED  BY <3>1, <3>2, <3>3, Zenon DEF Step
    <2>2. /\ pc[i] # "mark" /\ processed' = processed \ {trade[i]}
          /\ forgotten' = IF HalfDone(i) THEN forgotten \cup {trade[i]} ELSE forgotten
      BY <1>2, <2>1, Zenon DEF Fail
    <2>3. pc[i] \in {"read", "write"} /\ Return(i)
      BY <1>d, <2>1, <2>2, Zenon DEF Fail
    <2>4. Working(i, trade[i]) /\ pc[i] # "idle"
      BY <2>3, Zenon DEF Working
    <2>5. pc'[i] = "idle"
      BY <1>e, <2>3, Returned, Zenon
    <2>6. ~Mark(i) /\ ~WritePosition(i)
      <3>1. pc'[i] # "read" /\ pc'[i] # "commit"
        BY <2>5, Zenon
      <3>2. ~WritePosition(i)
        BY <1>e, <3>1, WritesOne, Zenon
      <3>. QED  BY <2>2, <3>2, Zenon DEF Mark
    <2>7. Kept(t)'
      <3> SUFFICES ASSUME NEW j \in Active, Working(j, t)' PROVE t \in processed'
        BY <1>a, Zenon
      <3>1. Working(j, t) /\ j # i
        <4>1. ~Working(i, t)'
          BY <2>5, Zenon DEF Working
        <4>. QED  BY <2>6, <4>1, WorkBegins, Zenon
      <3>2. t # trade[i]
        BY <2>4, <3>1, Zenon DEF Inv, OneWorker
      <3>. QED  BY <1>b, <2>2, <3>1, <3>2, Zenon
    <2>8. None(t)'
      <3> SUFFICES ASSUME t \notin forgotten', t \notin processed' PROVE NoEffect(t)'
        BY Zenon
      <3>1. t \notin forgotten
        BY ForgottenGrows, Zenon
      <3>2. NoEffect(t)
        <4>1. CASE t = trade[i]
          BY <1>d, <2>2, <2>4, <3>1, <4>1, NothingDone, Zenon
        <4>2. CASE t # trade[i]
          BY <1>b, <2>2, <3>1, <4>2, Zenon
        <4>. QED  BY <4>1, <4>2, Zenon
      <3>. QED  BY <1>d, <2>6, <3>2, EffectsOfOthers, Zenon
    <2>. QED  BY <2>7, <2>8, Zenon
  <1>. QED  BY <1>1, <1>2, Zenon

\* The map of the process tells, after every step, which trades had effects,
\* except for the one being worked on and those a restart made it forget.
LEMMA MapStep ==
    ASSUME Inv, NEW i \in Active, Step(i)
    PROVE  MapTells'
  <1>a. Active' = Active /\ Dedup' = Dedup
    BY StepAlongside, Zenon DEF Alongside, Active, Dedup
  <1>e. ControlType /\ i \in Instance
    BY ActiveIsInstance, Zenon DEF Inv
  <1>s. Dedup = "memory" => \A j \in Active : j = i
    BY <1>e, DeploymentAssumption, Zenon DEF ControlType, Active, Dedup
  <1> SUFFICES ASSUME Dedup = "memory", NEW t \in Trade, t \notin forgotten',
                      t \notin processedTrades'[i], ~Working(i, t)'
               PROVE  NoEffect(t)'
    BY <1>a, <1>s, Zenon DEF MapTells
  <1>d. Dedup # "outbox"
    BY Zenon
  <1>f. t \notin forgotten
    BY ForgottenGrows, Zenon
  <1>w. ~(WritePosition(i) /\ t = trade[i])
    <2> SUFFICES ASSUME WritePosition(i), t = trade[i] PROVE FALSE
      BY Zenon
    <2>1. trade'[i] = t /\ (pc'[i] = "read" \/ pc'[i] = "commit")
      BY <1>e, WritesOne, Zenon
    <2>. QED  BY <2>1, Zenon DEF Working
  <1>p. t \notin processedTrades[i]
    <2>1. CASE Crash(i)
      BY <1>f, <2>1, Zenon DEF Crash
    <2>2. CASE ~Crash(i)
      <3>1. processedTrades[i] \subseteq processedTrades'[i]
        <4>1. ASSUME NEW u \in Trade, ProcessEvent(i, u) PROVE processedTrades' = processedTrades
          BY <4>1, Zenon DEF ProcessEvent
        <4>2. CASE Mark(i) \/ SkipDuplicate(i) \/ ReadPosition(i) \/ WritePosition(i) \/ Fail(i)
          BY <4>2, Zenon DEF Mark, SkipDuplicate, ReadPosition, WritePosition, Fail
        <4>3. CASE Commit(i)
          <5>1. processedTrades' = [processedTrades EXCEPT ![i] = processedTrades[i] \cup {trade[i]}]
            BY <4>3, Zenon DEF Commit
          <5>. QED  BY <1>e, <5>1, Zenon DEF ControlType
        <4>. QED  BY <2>2, <4>1, <4>2, <4>3, Zenon DEF Step
      <3>. QED  BY <3>1, Zenon
    <2>. QED  BY <2>1, <2>2, Zenon
  <1>1. CASE ~Working(i, t)
    <2>1. NoEffect(t)
      BY <1>1, <1>f, <1>p, Zenon DEF Inv, MapTells
    <2>. QED  BY <1>d, <1>w, <2>1, EffectsOfOthers, Zenon
  <1>2. CASE Working(i, t)
    <2>1. t = trade[i] /\ pc[i] \in {"read", "write", "commit"}
      BY <1>2, Zenon DEF Working
    <2>2. pc[i] # "idle" /\ pc[i] # "mark"
      BY <2>1, Zenon
    <2>3. ~Commit(i)
      <3> SUFFICES ASSUME Commit(i) PROVE FALSE
        BY Zenon
      <3>1. processedTrades' = [processedTrades EXCEPT ![i] = processedTrades[i] \cup {trade[i]}]
        BY Zenon DEF Commit
      <3>. QED  BY <1>e, <2>1, <3>1, Zenon DEF ControlType
    <2>4. Fail(i) \/ Crash(i)
      <3>1. \A u \in Trade : ~ProcessEvent(i, u)
        BY <2>2, Zenon DEF ProcessEvent
      <3>2. ~Mark(i) /\ ~SkipDuplicate(i)
        BY <2>2, Zenon DEF Mark, SkipDuplicate
      <3>3. ~ReadPosition(i)
        <4> SUFFICES ASSUME ReadPosition(i) PROVE FALSE
          BY Zenon
        <4>1. pc'[i] = "write" /\ trade'[i] = t
          BY <1>e, <2>1, Zenon DEF ReadPosition, Goto, ControlType
        <4>. QED  BY <4>1, Zenon DEF Working
      <3>. QED  BY <1>w, <2>1, <2>3, <3>1, <3>2, <3>3, Zenon DEF Step
    <2>5. ~HalfDone(i)
      <3>1. CASE Fail(i)
        <4>1. forgotten' = IF HalfDone(i) THEN forgotten \cup {trade[i]} ELSE forgotten
          <5>1. ~(Dedup = "processed" /\ pc[i] # "mark")
            BY Zenon
          <5>. QED  BY <3>1, <5>1, Zenon DEF Fail
        <4>. QED  BY <2>1, <4>1, Zenon
      <3>2. CASE Crash(i)
        BY <2>1, <3>2, Zenon DEF Crash
      <3>. QED  BY <2>4, <3>1, <3>2, Zenon
    <2>6. NoEffect(t)
      BY <1>2, <1>d, <1>f, <2>1, <2>2, <2>5, NothingDone, Zenon
    <2>. QED  BY <1>d, <1>w, <2>6, EffectsOfOthers, Zenon
  <1>. QED  BY <1>1, <1>2, Zenon

\* Every step keeps Inv.
LEMMA InvStep == Inv /\ [Next]_vars => Inv'
  <1> SUFFICES ASSUME Inv, [Next]_vars PROVE Inv'
    BY Zenon
  <1>1. ASSUME NEW i \in Active, Step(i) PROVE Inv'
    BY <1>1, TypeStep, LegsStep, OneWorkerStep, RowStep, OnceStep, ProcessedStep, MapStep, Zenon DEF Inv
  <1>2. CASE UNCHANGED vars
    <2> USE <1>2 DEF Inv, vars, tables, locals, Active, Dedup, Working, NoEffect
    <2>1. ControlType' /\ LegsLeft'
      BY Zenon DEF ControlType, LegsLeft
    <2>2. OneWorker' /\ RowTells'
      BY Zenon DEF OneWorker, RowTells
    <2>3. OnceSoFar'
      BY Zenon DEF OnceSoFar, EffectsAhead
    <2>4. ProcessedTells' /\ MapTells'
      BY Zenon DEF ProcessedTells, MapTells
    <2>. QED  BY <2>1, <2>2, <2>3, <2>4, Zenon
  <1>. QED  BY <1>1, <1>2, Zenon DEF Next, Step

\* In every deployment the mark of a trade tells which of its legs took
\* effect: Inv holds throughout.
THEOREM Invariance == Spec => []Inv
  <1>1. Init => Inv
    BY InitInv, Zenon
  <1>2. Inv /\ [Next]_vars => Inv'
    BY InvStep, Zenon
  <1>. QED  BY <1>1, <1>2, PTL DEF Spec

\* However often and to whichever instances a trade is delivered, no leg of it
\* takes effect twice: with the outbox never, without a transaction only after
\* a failure or a restart gave up the mark of a trade that had an effect.
THEOREM AtMostOnce == Spec => []LegsAtMostOnce
  <1>1. Inv => LegsAtMostOnce
    <2> SUFFICES ASSUME Inv, NEW e \in DOMAIN effects, effects[e] > 1
                 PROVE  Dedup # "outbox" /\ e[1] \in forgotten
      BY Zenon DEF LegsAtMostOnce
    <2>1. PICK t \in Trade, k \in {1, 2} : e = <<t, k>>
      BY DEF Inv, ControlType
    <2>2. effects[<<t, k>>] # 0 /\ effects[<<t, k>>] # 1 /\ ~(effects[<<t, k>>] <= 1)
      BY <2>1 DEF Inv, ControlType
    <2>3. Dedup # "outbox"
      BY <2>2, Zenon DEF Inv, RowTells, NoEffect
    <2>4. t \in forgotten
      BY <2>2, <2>3, Zenon DEF Inv, OnceSoFar
    <2>5. e[1] = t
      BY <2>1, Zenon
    <2>. QED  BY <2>3, <2>4, <2>5, Zenon
  <1>. QED  BY <1>1, Invariance, PTL

-----------------------------------------------------------------------------
(* Numbers and tables.                                                     *)

\* Arithmetic the bounds below need.
LEMMA Sums ==
    \A x, y, z \in Nat : /\ x + y \in Nat /\ y <= x + y
                         /\ z <= x => z <= x + y
                         /\ z < x => z <= x - 1
  OBVIOUS

\* A nonempty set of natural numbers has a least element, which Min returns.
LEMMA MinFacts ==
    ASSUME NEW S \in SUBSET Nat, S # {}
    PROVE  Min(S) \in S /\ \A m \in S : Min(S) <= m
  <1>1. IsWellFoundedOn(OpToRel(<, Nat), Nat)
    BY NatLessThanWellFounded, Zenon
  <1>2. PICK n \in S : \A m \in S : ~(<<m, n>> \in OpToRel(<, Nat))
    BY <1>1, WFMin, Zenon
  <1>3. \A m \in S : ~(m < n)
    BY <1>2, Zenon DEF OpToRel
  <1>4. \A m \in S : n <= m
    BY <1>3
  <1>. QED  BY <1>4, Zenon DEF Min

\* One that is bounded has a greatest one, which Max returns.
LEMMA MaxFacts ==
    ASSUME NEW S \in SUBSET Nat, S # {}, NEW b \in Nat, \A m \in S : m <= b
    PROVE  Max(S) \in S /\ \A m \in S : Max(S) >= m
  <1> DEFINE Above == {n \in Nat : \A m \in S : m <= n}
             top == Min(Above)
  <1>1. top \in Above /\ \A n \in Above : top <= n
    <2>1. b \in Above /\ Above \in SUBSET Nat
      BY Zenon
    <2> HIDE DEF Above
    <2>. QED  BY <2>1, MinFacts, Zenon
  <1> HIDE DEF top
  <1>2. top \in S
    <2> SUFFICES ASSUME top \notin S PROVE FALSE
      BY Zenon
    <2>1. \A m \in S : m < top
      BY <1>1
    <2>2. PICK m \in S : TRUE
      BY Zenon
    <2>3. top - 1 \in Nat
      BY <1>1, <2>1, <2>2
    <2>4. top - 1 \in Above
      <3>1. top \in Nat /\ \A n \in S : n \in Nat
        BY <1>1, Zenon
      <3>2. \A n \in S : n <= top - 1
        BY <2>1, <3>1, Sums, Zenon
      <3>. QED  BY <2>3, <3>2, Zenon
    <2>. QED  BY <1>1, <2>3, <2>4
  <1>3. \A m \in S : top >= m
    BY <1>1, Zenon
  <1>. QED  BY <1>2, <1>3, Zenon DEF Max

\* A finite set of natural numbers is bounded.
LEMMA FiniteBounded ==
    ASSUME NEW S \in SUBSET Nat, IsFiniteSet(S)
    PROVE  \E b \in Nat : \A m \in S : m <= b
  <1>1. PICK N \in Nat : ExistsSurjection(1 .. N, S)
    BY FS_NatSurjection, Zenon
  <1>2. PICK f \in [1 .. N -> S] : \A y \in S : \E i \in 1 .. N : f[i] = y
    BY <1>1, Zenon DEF ExistsSurjection, Surjection
  <1>3. \A i \in 1 .. N : f[i] \in Nat
    BY Zenon
  <1> DEFINE Bounded(k) == \E b \in Nat : \A i \in 1 .. k : f[i] <= b
             Wrong == {k \in 0 .. N : ~Bounded(k)}
  <1>4. Wrong = {}
    <2> SUFFICES ASSUME Wrong # {} PROVE FALSE
      BY Zenon
    <2>1. PICK k \in Wrong : \A m \in Wrong : k <= m
      <3>1. Wrong \in SUBSET Nat
        OBVIOUS
      <3> HIDE DEF Wrong
      <3>. QED  BY <3>1, MinFacts, Zenon
    <2>2. k # 0
      <3>1. \A i \in 1 .. 0 : f[i] <= 0
        OBVIOUS
      <3>. QED  BY <2>1, <3>1, Zenon
    <2>3. k \in 1 .. N /\ k - 1 \in 0 .. N /\ ~(k <= k - 1)
      BY <2>1, <2>2
    <2>4. Bounded(k - 1)
      BY <2>1, <2>3, Zenon
    <2>5. PICK b \in Nat : \A i \in 1 .. k - 1 : f[i] <= b
      BY <2>4, Zenon
    <2>6. \A i \in 1 .. k : i = k \/ i \in 1 .. k - 1
      BY <2>3
    <2>7. b + f[k] \in Nat /\ \A i \in 1 .. k : f[i] <= b + f[k]
      <3>1. f[k] \in Nat
        BY <1>3, <2>3, Zenon
      <3>2. b + f[k] \in Nat /\ f[k] <= b + f[k]
        BY <3>1, Sums, Zenon
      <3>3. ASSUME NEW i \in 1 .. k - 1 PROVE f[i] <= b + f[k]
        <4>1. i \in 1 .. N
          BY <2>3
        <4>2. f[i] \in Nat /\ f[i] <= b
          BY <1>3, <2>5, <4>1, Zenon
        <4>. QED  BY <3>1, <4>2, Sums, Zenon
      <3>. QED  BY <2>6, <3>2, <3>3, Zenon
    <2>. QED  BY <2>1, <2>7, Zenon
  <1>5. Bounded(N)
    <2>1. N \in 0 .. N
      OBVIOUS
    <2>. QED  BY <1>4, <2>1, Zenon
  <1>6. PICK b \in Nat : \A i \in 1 .. N : f[i] <= b
    BY <1>5, Zenon
  <1>. QED  BY <1>2, <1>6, Zenon

\* One table laid over another.
LEMMA Overlay ==
    ASSUME NEW f, NEW g
    PROVE  /\ DOMAIN Over(f, g) = (DOMAIN f) \cup (DOMAIN g)
           /\ \A x \in DOMAIN f : Over(f, g)[x] = f[x]
           /\ \A x \in (DOMAIN g) \ (DOMAIN f) : Over(f, g)[x] = g[x]
  BY Zenon DEF Over

\* Table new is old with the row at id.
HasRow(new, old, id, row) ==
    /\ DOMAIN new = (DOMAIN old) \cup {id}
    /\ new[id] = row
    /\ \A x \in (DOMAIN old) \ {id} : new[x] = old[x]

\* A row laid over a table.
LEMMA RowOver ==
    ASSUME NEW id, NEW row, NEW table
    PROVE  HasRow(Over(Only(id, row), table), table, id, row)
  <1> DEFINE rows == Only(id, row)
  <1>1. DOMAIN rows = {id} /\ rows[id] = row
    BY Zenon DEF Only
  <1> HIDE DEF rows
  <1>2. /\ DOMAIN Over(rows, table) = (DOMAIN rows) \cup (DOMAIN table)
        /\ \A x \in DOMAIN rows : Over(rows, table)[x] = rows[x]
        /\ \A x \in (DOMAIN table) \ (DOMAIN rows) : Over(rows, table)[x] = table[x]
    BY Overlay, Zenon
  <1>3. HasRow(Over(rows, table), table, id, row)
    BY <1>1, <1>2, Zenon DEF HasRow
  <1>. QED  BY <1>3, Zenon DEF rows

IDsOf(table, user) == {id \in DOMAIN table : table[id].User = user}

\* First returns a row of the user if there is one.
LEMMA FirstFacts ==
    ASSUME NEW table, DOMAIN table \subseteq Nat \ {NoRow}, NEW user
    PROVE  /\ FirstID(table, user) = IF IDsOf(table, user) = {} THEN NoRow ELSE Min(IDsOf(table, user))
           /\ FirstID(table, user) = NoRow <=> IDsOf(table, user) = {}
           /\ FirstID(table, user) # NoRow => FirstID(table, user) \in IDsOf(table, user)
  <1>1. FirstID(table, user) = IF IDsOf(table, user) = {} THEN NoRow ELSE Min(IDsOf(table, user))
    BY Zenon DEF FirstID, IDsOf
  <1>2. CASE IDsOf(table, user) = {}
    BY <1>1, <1>2, Zenon
  <1>3. CASE IDsOf(table, user) # {}
    <2>1. IDsOf(table, user) \in SUBSET Nat /\ NoRow \notin IDsOf(table, user)
      BY Zenon DEF IDsOf
    <2>2. Min(IDsOf(table, user)) \in IDsOf(table, user)
      BY <1>3, <2>1, MinFacts, Zenon
    <2>. QED  BY <1>1, <1>3, <2>1, <2>2, Zenon
  <1>. QED  BY <1>2, <1>3, Zenon

\* id is where Save writes the row of a user: the row that First returned, or
\* a new one if there was none.
Target(id, table, user) ==
    \/ id # NoRow /\ id = FirstID(table, user)
    \/ FirstID(table, user) = NoRow /\ id \in Nat \ {NoRow} /\ id \notin DOMAIN table

\* The user of the row holds in new what the row says, the others what they
\* hold in old.
Holds(new, old, row) ==
    \A u : Holding(new, u) = IF u = row.User THEN row.Position ELSE Holding(old, u)

\* A row written there becomes the position of its user and of nobody else.
LEMMA SaveRow ==
    ASSUME NEW table, DOMAIN table \subseteq Nat \ {NoRow}, NEW row,
           NEW id, Target(id, table, row.User)
    PROVE  Holds(Over(Only(id, row), table), table, row)
  <1> DEFINE new == Over(Only(id, row), table)
             user == row.User
  <1> SUFFICES ASSUME NEW u
               PROVE  Holding(new, u) = IF u = user THEN row.Position ELSE Holding(table, u)
    BY Zenon DEF Holds
  <1>0. HasRow(new, table, id, row)
    BY RowOver, Zenon
  <1>1. /\ DOMAIN new = (DOMAIN table) \cup {id}
        /\ new[id] = row
        /\ \A x \in (DOMAIN table) \ {id} : new[x] = table[x]
    BY <1>0, Zenon DEF HasRow
  <1>2. id \in Nat \ {NoRow} /\ (id \in DOMAIN table => table[id].User = user)
    <2>1. FirstID(table, user) # NoRow => FirstID(table, user) \in IDsOf(table, user)
      BY FirstFacts, Zenon
    <2>2. \A x \in IDsOf(table, user) : x \in DOMAIN table /\ x \in Nat \ {NoRow} /\ table[x].User = user
      BY Zenon DEF IDsOf
    <2>. QED  BY <2>1, <2>2, Zenon DEF Target
  <1>3. DOMAIN new \subseteq Nat \ {NoRow}
    BY <1>1, <1>2, Zenon
  <1> HIDE DEF new
  <1>4. CASE u # user
    <2>1. \A x : x \in IDsOf(new, u) <=> x \in IDsOf(table, u)
      BY <1>1, <1>2, <1>4, Zenon DEF IDsOf
    <2>2. IDsOf(new, u) = IDsOf(table, u)
      BY <2>1, Zenon
    <2>3. FirstID(new, u) = FirstID(table, u)
      BY <1>3, <2>2, FirstFacts, Zenon
    <2>4. FirstID(table, u) # NoRow => new[FirstID(table, u)] = table[FirstID(table, u)]
      <3>1. ASSUME NEW x \in IDsOf(table, u) PROVE new[x] = table[x]
        BY <1>1, <1>2, <1>4, Zenon DEF IDsOf
      <3>2. FirstID(table, u) # NoRow => FirstID(table, u) \in IDsOf(table, u)
        BY FirstFacts, Zenon
      <3>. QED  BY <3>1, <3>2, Zenon
    <2>. QED  BY <1>4, <2>3, <2>4, Zenon DEF Holding, new
  <1>5. CASE u = user
    <2>1. FirstID(new, user) = id
      <3>1. CASE id = FirstID(table, user)
        <4>1. id \in DOMAIN table
          BY <1>2, <3>1, FirstFacts, Zenon DEF IDsOf
        <4>2. \A x : x \in IDsOf(new, user) <=> x \in IDsOf(table, user)
          BY <1>1, <1>2, <4>1, Zenon DEF IDsOf
        <4>3. IDsOf(new, user) = IDsOf(table, user)
          BY <4>2, Zenon
        <4>. QED  BY <1>3, <3>1, <4>3, FirstFacts, Zenon
      <3>2. CASE FirstID(table, user) = NoRow /\ id \notin DOMAIN table
        <4>1. IDsOf(table, user) = {}
          BY <3>2, FirstFacts, Zenon
        <4>2. \A x : x \in IDsOf(new, user) <=> x = id
          BY <1>1, <4>1, Zenon DEF IDsOf
        <4>3. FirstID(new, user) \in IDsOf(new, user)
          BY <1>3, <4>2, FirstFacts, Zenon
        <4>. QED  BY <4>2, <4>3, Zenon
      <3>. QED  BY <3>1, <3>2, Zenon DEF Target
    <2>. QED  BY <1>1, <1>2, <1>5, <2>1, Zenon DEF Holding, new
  <1>. QED  BY <1>4, <1>5, Zenon

-----------------------------------------------------------------------------
(* Amounts.                                                                *)

\* The way through a string makes no amount negative and none that is positive
\* zero.
LEMMA ConvertFacts == \A n \in Nat : Convert(n) \in Nat /\ (n # 0 => Convert(n) # 0)
  BY DEF Convert, Truncated

\* The legs of a trade are its two users'.
LEMMA LegFacts ==
    ASSUME NEW t \in Trade
    PROVE  /\ Head(Legs(t)) = Legs(t)[1] /\ Head(Tail(Legs(t))) = Legs(t)[2]
           /\ Legs(t)[1].User \in User /\ Legs(t)[2].User \in User
  <1>1. ASSUME NEW a, NEW b
        PROVE  Head(<<a, b>>) = a /\ Head(Tail(<<a, b>>)) = b /\ <<a, b>>[1] = a /\ <<a, b>>[2] = b
    OBVIOUS
  <1>2. PICK a, b : Legs(t) = <<a, b>> /\ a.User = t.TakerUser /\ b.User = t.MakerUser
    BY DEF Legs
  <1>3. t.TakerUser \in User /\ t.MakerUser \in User
    BY TradeAssumption, Zenon
  <1>4. a.User \in User /\ b.User \in User
    BY <1>2, <1>3, Zenon
  <1>5. Head(Legs(t)) = a /\ Head(Tail(Legs(t))) = b /\ Legs(t)[1] = a /\ Legs(t)[2] = b
    BY <1>1, <1>2
  <1>. QED  BY <1>4, <1>5, Zenon

\* What was paid is bounded.
LEMMA PaidFacts ==
    /\ Paid # {} => Min(Paid) \in Nat /\ Max(Paid) \in Nat
    /\ \A p \in Paid : p \in Nat /\ Min(Paid) <= p /\ p <= Max(Paid)
  <1> DEFINE ofTrade == [t \in Trade |-> Convert(t.Price)]
             Prices == {Convert(t.Price) : t \in Trade}
             ofUser == [u \in Holders |-> InitialPositions[u].AvgPrice]
             Averages == {InitialPositions[u].AvgPrice : u \in Holders}
  <1>1. Prices \subseteq Nat /\ Averages \subseteq Nat
    <2>1. \A t \in Trade : Convert(t.Price) \in Nat
      BY TradeAssumption, ConvertFacts, Zenon
    <2>2. \A u \in Holders : InitialPositions[u].AvgPrice \in Nat
      BY InitialAssumption, Zenon DEF Holders, Position
    <2>. QED  BY <2>1, <2>2, Zenon
  <1>2. IsFiniteSet(Prices)
    <2>1. ofTrade \in Surjection(Trade, Prices)
      BY Zenon DEF Surjection
    <2>2. IsFiniteSet(Trade)
      BY FiniteAssumption, Zenon
    <2> HIDE DEF ofTrade, Prices
    <2>. QED  BY <2>1, <2>2, FS_Surjection, Zenon
  <1>3. IsFiniteSet(Averages)
    <2>1. ofUser \in Surjection(Holders, Averages)
      BY Zenon DEF Surjection
    <2>2. IsFiniteSet(Holders)
      <3>1. Holders \in SUBSET User
        BY Zenon DEF Holders
      <3>. QED  BY <3>1, FiniteAssumption, FS_Subset, Zenon
    <2>. QED  BY <2>1, <2>2, FS_Surjection, Zenon
  <1>4. Paid = Prices \cup Averages
    BY Zenon DEF Paid
  <1> HIDE DEF Prices, Averages, ofTrade, ofUser
  <1>5. IsFiniteSet(Paid) /\ Paid \in SUBSET Nat
    BY <1>1, <1>2, <1>3, <1>4, FS_Union, Zenon
  <1>6. PICK b \in Nat : \A p \in Paid : p <= b
    BY <1>5, FiniteBounded, Zenon
  <1> SUFFICES ASSUME Paid # {}
               PROVE  /\ Min(Paid) \in Nat /\ Max(Paid) \in Nat
                      /\ \A p \in Paid : p \in Nat /\ Min(Paid) <= p /\ p <= Max(Paid)
    BY Zenon
  <1>7. Min(Paid) \in Paid /\ \A p \in Paid : Min(Paid) <= p
    BY <1>5, MinFacts, Zenon
  <1>8. Max(Paid) \in Paid /\ \A p \in Paid : Max(Paid) >= p
    BY <1>5, <1>6, MaxFacts, Zenon
  <1>9. \A p, q \in Nat : p >= q => q <= p
    BY Zenon
  <1>. QED  BY <1>5, <1>7, <1>8, <1>9, Zenon

\* Multiplication keeps the order.
LEMMA Times ==
    \A x, y, z \in Nat : x <= y => z * x <= z * y
  OBVIOUS

\* Rounding down keeps a quotient within the bounds of the dividend.
LEMMA QuotientBetween ==
    ASSUME NEW x \in Nat, NEW s \in Nat, s # 0, NEW lo \in Nat, NEW hi \in Nat,
           s * lo <= x, x <= s * hi
    PROVE  x \div s \in Nat /\ lo <= x \div s /\ x \div s <= hi
  <1> DEFINE d == x \div s
  <1>1. d \in Nat /\ s * d <= x /\ x < s * d + s
    OBVIOUS
  <1> HIDE DEF d
  <1>2. s * d \in Nat /\ s * lo \in Nat /\ s * hi \in Nat
    BY <1>1
  <1>3. lo <= d
    <2> SUFFICES ASSUME d + 1 <= lo PROVE FALSE
      BY <1>1
    <2>1. s * (d + 1) <= s * lo /\ s * (d + 1) = s * d + s
      BY <1>1, Times
    <2>. QED  BY <1>1, <1>2, <2>1
  <1>4. d <= hi
    <2> SUFFICES ASSUME hi + 1 <= d PROVE FALSE
      BY <1>1
    <2>1. s * (hi + 1) <= s * d /\ s * (hi + 1) = s * hi + s
      BY <1>1, Times
    <2>. QED  BY <1>1, <1>2, <2>1
  <1>. QED  BY <1>1, <1>3, <1>4, Zenon DEF d

\* A weighted average lies between its parts.
LEMMA AverageBetween ==
    ASSUME NEW v \in Nat, NEW a \in Nat, NEW q \in Nat, NEW p \in Nat, NEW lo \in Nat, NEW hi \in Nat,
           v # 0 => lo <= a /\ a <= hi, lo <= p, p <= hi, v + q # 0
    PROVE  LET avg == (v * a + q * p) \div (v + q)
           IN  avg \in Nat /\ lo <= avg /\ avg <= hi
  <1>1. v * a \in Nat /\ q * p \in Nat /\ v * lo \in Nat /\ q * lo \in Nat /\ v * hi \in Nat /\ q * hi \in Nat
    OBVIOUS
  <1>2. v * lo <= v * a /\ v * a <= v * hi
    <2>1. CASE v = 0
      BY <2>1
    <2>2. CASE v # 0
      BY <2>2, Times, Zenon
    <2>. QED  BY <2>1, <2>2, Zenon
  <1>3. q * lo <= q * p /\ q * p <= q * hi
    BY Times, Zenon
  <1>4. (v + q) * lo = v * lo + q * lo /\ (v + q) * hi = v * hi + q * hi
    OBVIOUS
  <1>5. (v + q) * lo <= v * a + q * p /\ v * a + q * p <= (v + q) * hi
    BY <1>1, <1>2, <1>3, <1>4
  <1>6. v * a + q * p \in Nat /\ v + q \in Nat
    BY <1>1
  <1>. QED  BY <1>5, <1>6, QuotientBetween, Zenon

\* A leg that can be applied makes a sound position of a sound one.
LEMMA SoundApply ==
    ASSUME NEW t \in Trade, NEW leg, NEW pos, Sound(pos), CanApply(leg, pos, t)
    PROVE  Sound(Apply(leg, pos, t))
  <1> DEFINE q == Convert(t.Quantity)
             p == Convert(t.Price)
             lo == Min(Paid)
             hi == Max(Paid)
             v == pos.Volume
             a == pos.AvgPrice
  <1>1. q \in Nat /\ q # 0 /\ p \in Nat
    BY TradeAssumption, ConvertFacts, Zenon
  <1>2. lo \in Nat /\ hi \in Nat /\ lo <= p /\ p <= hi
    <2>1. p \in Paid
      BY Zenon DEF Paid
    <2> HIDE DEF p
    <2>. QED  BY <2>1, PaidFacts, Zenon
  <1>3. v \in Nat /\ a \in Nat /\ (v = 0 => a = 0) /\ (v # 0 => lo <= a /\ a <= hi)
    <2>1. v \in Nat /\ a \in Nat
      BY Zenon DEF Sound, Position
    <2>2. IF v = 0 THEN a = 0 ELSE a \in lo .. hi
      BY Zenon DEF Sound
    <2> HIDE DEF v, a, lo, hi
    <2>. QED  BY <1>2, <2>1, <2>2
  <1> HIDE DEF lo, hi, p, q
  <1>4. CASE leg.Side = "sell"
    <2>1. v >= q
      BY <1>4, Zenon DEF CanApply, q
    <2>2. Apply(leg, pos, t) = [Volume |-> v - q, AvgPrice |-> IF v = q THEN 0 ELSE a]
      BY <1>4, Zenon DEF Apply, SellPosition, q
    <2> HIDE DEF v, a
    <2>3. v - q \in Nat /\ (v - q = 0 <=> v = q) /\ v # 0
      BY <1>1, <1>3, <2>1
    <2>4. a \in lo .. hi
      BY <1>2, <1>3, <2>3
    <2>. QED  BY <1>3, <2>2, <2>3, <2>4 DEF Sound, Position, lo, hi
  <1>5. CASE leg.Side # "sell"
    <2> DEFINE avg == (v * a + q * p) \div (v + q)
    <2>1. Apply(leg, pos, t) = [Volume |-> v + q, AvgPrice |-> avg]
      BY <1>5, Zenon DEF Apply, BuyPosition, q, p
    <2> HIDE DEF v, a
    <2>2. v + q \in Nat /\ v + q # 0
      BY <1>1, <1>3
    <2>3. avg \in Nat /\ lo <= avg /\ avg <= hi
      BY <1>1, <1>2, <1>3, <2>2, AverageBetween, Zenon
    <2> HIDE DEF avg
    <2>4. avg \in lo .. hi
      BY <1>2, <2>3
    <2>. QED  BY <2>1, <2>2, <2>3, <2>4 DEF Sound, Position, lo, hi
  <1>. QED  BY <1>4, <1>5, Zenon

\* So is having nothing.
LEMMA SoundZero == Sound(ZeroPosition)
  BY Zenon DEF Sound, ZeroPosition, Position

\* IDs are numbers other than NoRow.
LEMMA IDFacts ==
    /\ IDs \subseteq Nat \ {NoRow} /\ Cardinality(Holders) \in Nat
    /\ \E b \in Nat : \A id \in IDs : id <= b
  <1>1. Holders \in SUBSET User
    BY Zenon DEF Holders
  <1>2. Cardinality(Holders) \in Nat
    BY <1>1, FiniteAssumption, FS_Subset, FS_CardinalityType, Zenon
  <1>3. MaxID \in Nat
    BY FiniteAssumption, Zenon
  <1>4. \A id \in IDs : id <= Cardinality(Holders) + MaxID
    BY <1>2, <1>3 DEF IDs
  <1>5. Cardinality(Holders) + MaxID \in Nat
    BY <1>2, <1>3
  <1>6. IDs \subseteq Nat \ {NoRow}
    BY <1>2, <1>3 DEF IDs, NoRow
  <1>. QED  BY <1>2, <1>4, <1>5, <1>6, Zenon

\* What First returns from a sound table.
LEMMA SoundHolding ==
    ASSUME NEW table, SoundTable(table), NEW user
    PROVE  /\ Sound(Holding(table, user))
           /\ FirstID(table, user) \in IDs \cup {NoRow}
           /\ FirstID(table, user) # NoRow => FirstID(table, user) \in DOMAIN table
  <1>1. DOMAIN table \subseteq IDs /\ DOMAIN table \subseteq Nat \ {NoRow}
    BY IDFacts, Zenon DEF SoundTable
  <1>2. FirstID(table, user) # NoRow => FirstID(table, user) \in DOMAIN table
    BY <1>1, FirstFacts, Zenon DEF IDsOf
  <1>3. Sound(Holding(table, user))
    BY <1>2, SoundZero, Zenon DEF Holding, SoundTable
  <1>. QED  BY <1>1, <1>2, <1>3, Zenon

\* Sound tables laid over one another are sound.
LEMMA SoundOver ==
    ASSUME NEW f, NEW g, SoundTable(f), SoundTable(g)
    PROVE  SoundTable(Over(f, g))
  <1> DEFINE new == Over(f, g)
  <1>1. /\ DOMAIN new = (DOMAIN f) \cup (DOMAIN g)
        /\ \A x \in DOMAIN f : new[x] = f[x]
        /\ \A x \in (DOMAIN g) \ (DOMAIN f) : new[x] = g[x]
    BY Overlay, Zenon
  <1> HIDE DEF new
  <1>2. ASSUME NEW x \in DOMAIN new PROVE new[x] \in Row /\ Sound(new[x].Position)
    <2>1. CASE x \in DOMAIN f
      BY <1>1, <2>1, Zenon DEF SoundTable
    <2>2. CASE x \in (DOMAIN g) \ (DOMAIN f)
      BY <1>1, <2>2, Zenon DEF SoundTable
    <2>. QED  BY <1>1, <2>1, <2>2, Zenon
  <1>3. DOMAIN new \subseteq IDs
    BY <1>1, Zenon DEF SoundTable
  <1>4. SoundTable(new)
    BY <1>2, <1>3, Zenon DEF SoundTable
  <1>. QED  BY <1>4, Zenon DEF new

\* So is a sound table with a sound row more.
LEMMA SoundSave ==
    ASSUME NEW table, SoundTable(table), NEW id \in IDs, NEW row \in Row, Sound(row.Position)
    PROVE  SoundTable(Over(Only(id, row), table))
  <1>1. HasRow(Over(Only(id, row), table), table, id, row)
    BY RowOver, Zenon
  <1>. QED  BY <1>1, Zenon DEF SoundTable, HasRow

-----------------------------------------------------------------------------
(* The tables.                                                             *)

\* A new id is the id of no row, committed or written in a transaction.
LEMMA NewIDFacts ==
    ASSUME TablesSound
    PROVE  /\ NewID \in Nat \ {NoRow} /\ NewID \notin DOMAIN positions
           /\ \A i \in Instance : NewID \notin DOMAIN writes[i]
           /\ NewID <= MaxID => NewID \in IDs
  <1> DEFINE used == {0} \cup (DOMAIN positions) \cup (UNION {DOMAIN writes[i] : i \in Instance})
  <1>1. \A x \in used : x = 0 \/ x \in IDs
    BY Zenon DEF TablesSound, SoundTable
  <1>2. PICK b \in Nat : \A id \in IDs : id <= b
    BY IDFacts, Zenon
  <1>3. used \in SUBSET Nat /\ used # {} /\ \A x \in used : x <= b
    <2>1. 0 <= b /\ 0 \in Nat
      OBVIOUS
    <2>. QED  BY <1>1, <1>2, <2>1, IDFacts, Zenon
  <1>4. (DOMAIN positions) \subseteq used /\ \A i \in Instance : (DOMAIN writes[i]) \subseteq used
    BY Zenon
  <1>5. NewID = 1 + Max(used)
    BY Zenon DEF NewID
  <1> HIDE DEF used
  <1>6. Max(used) \in Nat /\ \A x \in used : x \in Nat /\ Max(used) >= x
    BY <1>3, MaxFacts, Zenon
  <1>7. NewID \in Nat \ {0} /\ NewID \notin used
    BY <1>5, <1>6
  <1>8. NewID <= MaxID => NewID \in IDs
    BY <1>7, FiniteAssumption, IDFacts DEF IDs
  <1>. QED  BY <1>4, <1>7, <1>8, Zenon DEF NoRow

\* A step of instance i leaves the rows that the others read or wrote alone.
RowsAlongside(i) ==
    /\ DOMAIN writes' = Instance
    /\ \A j \in Instance \ {i} : writes'[j] = writes[j] /\ read'[j] = read[j]

\* Every step of an instance does.
LEMMA StepRowsAlongside ==
    ASSUME TablesSound, NEW i \in Instance, Step(i)
    PROVE  RowsAlongside(i)
  <1> USE DEF TablesSound, RowsAlongside
  <1>1. ASSUME NEW t \in Trade, ProcessEvent(i, t) PROVE RowsAlongside(i)
    BY <1>1, Zenon DEF ProcessEvent
  <1>2. CASE Mark(i)
    BY <1>2, Zenon DEF Mark
  <1>3. ASSUME Return(i) PROVE RowsAlongside(i)
    <2>1. writes' = [writes EXCEPT ![i] = NoWrites] /\ read' = [read EXCEPT ![i] = NothingRead]
      BY <1>3, Zenon DEF Return
    <2>. QED  BY <2>1, Zenon
  <1>4. CASE ReadPosition(i)
    <2>1. writes' = writes /\ \A j \in Instance \ {i} : read'[j] = read[j]
      BY <1>4, Zenon DEF ReadPosition
    <2>. QED  BY <2>1, Zenon
  <1>5. CASE WritePosition(i)
    <2>1. read' = read /\ \E x : writes' = [writes EXCEPT ![i] = x] \/ writes' = writes
      BY <1>5, Zenon DEF WritePosition
    <2>. QED  BY <2>1, Zenon
  <1>. QED  BY <1>1, <1>2, <1>3, <1>4, <1>5, Zenon DEF Step, SkipDuplicate, Commit, Fail, Crash

\* What instance i has read and written is sound.
InstanceSound(i) ==
    /\ SoundTable(writes[i])
    /\ Sound(read[i].Position)
    /\ pc[i] = "write" => CanApply(Head(legs[i]), read[i].Position, trade[i])

\* An instance that returns keeps nothing.
LEMMA SoundReturn ==
    ASSUME ControlType, TablesSound, NEW i \in Instance, Return(i)
    PROVE  /\ InstanceSound(i)'
           /\ read' \in [Instance -> [id : IDs \cup {NoRow}, Position : Position]]
           /\ writes'[i] = NoWrites
  <1>1. pc'[i] = "idle"
    BY Returned, Zenon
  <1>2. writes'[i] = NoWrites
    <2>1. writes' = [writes EXCEPT ![i] = NoWrites] /\ DOMAIN writes = Instance
      BY Zenon DEF Return, TablesSound
    <2>. QED  BY <2>1, Zenon
  <1>3. NothingRead \in [id : IDs \cup {NoRow}, Position : Position]
    BY Zenon DEF NothingRead, ZeroPosition, Position
  <1>4. /\ read' \in [Instance -> [id : IDs \cup {NoRow}, Position : Position]]
        /\ read'[i] = NothingRead
    BY <1>3, Zenon DEF Return, TablesSound
  <1>5. SoundTable(NoWrites)
    BY Zenon DEF SoundTable, NoWrites
  <1>6. NothingRead.Position = ZeroPosition
    BY Zenon DEF NothingRead
  <1>7. pc'[i] # "write"
    BY <1>1, Zenon
  <1>8. InstanceSound(i)'
    <2>1. SoundTable(writes'[i])
      BY <1>2, <1>5, Zenon
    <2>2. Sound(read'[i].Position)
      BY <1>4, <1>6, SoundZero, Zenon
    <2>. QED  BY <1>7, <2>1, <2>2, Zenon DEF InstanceSound, SoundTable, Sound
  <1>. QED  BY <1>2, <1>4, <1>8, Zenon

\* What a write writes, and where.
Saved(i, id, row) ==
    /\ id = IF read[i].id = NoRow THEN NewID ELSE read[i].id
    /\ row = [User |-> Head(legs[i]).User, Position |-> Apply(Head(legs[i]), read[i].Position, trade[i])]
    /\ IF Dedup = "outbox"
       THEN writes' = [writes EXCEPT ![i] = Over(Only(id, row), writes[i])] /\ positions' = positions
       ELSE writes' = writes /\ positions' = Over(Only(id, row), positions)

\* A write writes a sound row.
LEMMA WriteSaves ==
    ASSUME Inv, TablesSound, NEW i \in Instance, WritePosition(i)
    PROVE  \E id \in IDs, row \in Row : Sound(row.Position) /\ Saved(i, id, row)
  <1> DEFINE id == IF read[i].id = NoRow THEN NewID ELSE read[i].id
             row == [User |-> Head(legs[i]).User, Position |-> Apply(Head(legs[i]), read[i].Position, trade[i])]
  <1>1. pc[i] = "write" /\ id <= MaxID /\ Saved(i, id, row)
    BY Zenon DEF WritePosition, Saved
  <1>2. trade[i] \in Trade /\ Head(legs[i]).User \in User
    <2>1. trade[i] \in Trade /\ legs[i] \in {Legs(trade[i]), Tail(Legs(trade[i]))}
      BY <1>1, Zenon DEF Inv, LegsLeft
    <2>. QED  BY <2>1, LegFacts, Zenon
  <1>3. Sound(Apply(Head(legs[i]), read[i].Position, trade[i]))
    BY <1>1, <1>2, SoundApply, Zenon DEF TablesSound
  <1>4. id \in IDs
    <2>1. read[i].id \in IDs \cup {NoRow}
      BY Zenon DEF TablesSound
    <2>. QED  BY <1>1, <2>1, NewIDFacts, Zenon
  <1>5. row \in Row /\ row.Position = Apply(Head(legs[i]), read[i].Position, trade[i])
    BY <1>2, <1>3, Zenon DEF Row, Sound
  <1> HIDE DEF id, row
  <1>. QED  BY <1>1, <1>3, <1>4, <1>5, Zenon

\* Every step keeps the tables sound.
LEMMA TablesStep ==
    ASSUME Inv, TablesSound, NEW i \in Active, Step(i)
    PROVE  TablesSound'
  <1>a. ControlType /\ i \in Instance
    BY ActiveIsInstance, Zenon DEF Inv
  <1>b. RowsAlongside(i) /\ Alongside(i)
    BY <1>a, StepRowsAlongside, StepAlongside, Zenon
  <1>c. \A j \in Instance : InstanceSound(j)
    BY Zenon DEF TablesSound, InstanceSound
  <1>t. \A j \in Instance : trade[j] \in Trade \/ pc[j] = "idle"
    BY Zenon DEF Inv, LegsLeft
  <1>d. ASSUME NEW j \in Instance \ {i} PROVE InstanceSound(j)'
    <2>1. /\ writes'[j] = writes[j] /\ read'[j] = read[j]
          /\ pc'[j] = pc[j] /\ trade'[j] = trade[j] /\ legs'[j] = legs[j]
      BY <1>b, Zenon DEF RowsAlongside, Alongside
    <2>. QED  BY <1>c, <2>1, Zenon DEF InstanceSound
  <1> DEFINE Reads == [Instance -> [id : IDs \cup {NoRow}, Position : Position]]
             Sets == outbox \subseteq Trade /\ processed \subseteq Trade /\ forgotten \subseteq Trade
  <1>e. Sets /\ SoundTable(positions) /\ read \in Reads /\ processedTrades[i] \subseteq Trade
    BY <1>a, Zenon DEF TablesSound, ControlType
  <1>f. SUFFICES Sets' /\ SoundTable(positions)' /\ (read \in Reads)' /\ InstanceSound(i)'
    BY <1>b, <1>d, Zenon DEF TablesSound, InstanceSound, RowsAlongside
  <1>1. ASSUME NEW t \in Trade, ProcessEvent(i, t) PROVE Sets' /\ SoundTable(positions)' /\ (read \in Reads)' /\ InstanceSound(i)'
    <2>1. UNCHANGED <<tables, read, writes>> /\ pc'[i] = "mark"
      BY <1>a, <1>1, Zenon DEF ProcessEvent, Goto, ControlType
    <2>2. pc'[i] # "write"
      BY <2>1, Zenon
    <2>. QED  BY <1>a, <1>c, <1>e, <2>1, <2>2, Zenon DEF tables, InstanceSound
  <1>2. CASE Mark(i)
    <2>1. UNCHANGED <<positions, outbox, forgotten, read, writes>> /\ pc[i] = "mark" /\ pc'[i] = "read"
      BY <1>a, <1>2, Zenon DEF Mark, Goto, ControlType
    <2>2. pc'[i] # "write" /\ pc[i] # "idle"
      BY <2>1, Zenon
    <2>3. Sets'
      BY <1>a, <1>2, <1>e, <1>t, <2>1, <2>2, Zenon DEF Mark
    <2>. QED  BY <1>a, <1>c, <1>e, <2>1, <2>2, <2>3, Zenon DEF InstanceSound
  <1>3. CASE SkipDuplicate(i)
    <2>1. Return(i) /\ UNCHANGED tables
      BY <1>3, Zenon DEF SkipDuplicate
    <2>. QED  BY <1>a, <1>e, <2>1, SoundReturn, Zenon DEF tables
  <1>4. CASE ReadPosition(i)
    <2> DEFINE leg == Head(legs[i])
               got == [id |-> FirstID(View(i), leg.User), Position |-> Holding(View(i), leg.User)]
    <2>1. /\ UNCHANGED <<tables, writes, legs, trade>>
          /\ read' = [read EXCEPT ![i] = got]
          /\ CanApply(leg, Holding(View(i), leg.User), trade[i])
      BY <1>4, Zenon DEF ReadPosition
    <2>2. SoundTable(View(i))
      BY <1>a, <1>c, <1>e, SoundOver, Zenon DEF View, InstanceSound
    <2>3. Sound(Holding(View(i), leg.User)) /\ FirstID(View(i), leg.User) \in IDs \cup {NoRow}
      BY <2>2, SoundHolding, Zenon
    <2>4. got \in [id : IDs \cup {NoRow}, Position : Position] /\ got.Position = Holding(View(i), leg.User)
      BY <2>3, Zenon DEF Sound
    <2> HIDE DEF got
    <2>5. read' \in Reads /\ read'[i] = got
      BY <1>a, <1>e, <2>1, <2>4, Zenon
    <2>6. InstanceSound(i)'
      <3>1. SoundTable(writes'[i])
        BY <1>a, <1>c, <2>1, Zenon DEF InstanceSound
      <3>2. Sound(read'[i].Position)
        BY <2>3, <2>4, <2>5, Zenon
      <3>3. CanApply(Head(legs'[i]), read'[i].Position, trade'[i])
        BY <2>1, <2>4, <2>5, Zenon
      <3>. QED  BY <3>1, <3>2, <3>3, Zenon DEF InstanceSound, SoundTable, Sound
    <2>. QED  BY <1>e, <2>1, <2>5, <2>6, Zenon DEF tables
  <1>5. CASE WritePosition(i)
    <2>1. PICK id \in IDs, row \in Row : Sound(row.Position) /\ Saved(i, id, row)
      BY <1>a, <1>5, WriteSaves, Zenon
    <2>2. UNCHANGED <<outbox, processed, forgotten, read>>
      BY <1>5, Zenon DEF WritePosition
    <2>3. SoundTable(positions') /\ SoundTable(writes'[i])
      <3>1. SoundTable(Over(Only(id, row), positions)) /\ SoundTable(Over(Only(id, row), writes[i]))
        BY <1>a, <1>c, <1>e, <2>1, SoundSave, Zenon DEF InstanceSound
      <3>2. CASE Dedup = "outbox"
        <4>1. writes' = [writes EXCEPT ![i] = Over(Only(id, row), writes[i])] /\ positions' = positions
          BY <2>1, <3>2, Zenon DEF Saved
        <4>2. DOMAIN writes = Instance
          BY Zenon DEF TablesSound
        <4>3. writes'[i] = Over(Only(id, row), writes[i])
          BY <1>a, <4>1, <4>2, Zenon
        <4>. QED  BY <1>e, <3>1, <4>1, <4>3, Zenon
      <3>3. CASE Dedup # "outbox"
        BY <1>a, <1>c, <2>1, <3>1, <3>3, Zenon DEF Saved, InstanceSound
      <3>. QED  BY <3>2, <3>3, Zenon
    <2>4. pc'[i] # "write"
      <3>1. pc'[i] = "read" \/ pc'[i] = "commit"
        BY <1>a, <1>5, WritesOne, Zenon
      <3>. QED  BY <3>1, Zenon
    <2>5. InstanceSound(i)'
      BY <1>a, <1>c, <2>2, <2>3, <2>4, Zenon DEF InstanceSound, SoundTable, Sound
    <2>. QED  BY <1>e, <2>2, <2>3, <2>5, Zenon DEF SoundTable
  <1>6. CASE Commit(i)
    <2>1. /\ Return(i) /\ UNCHANGED <<processed, forgotten>> /\ pc[i] = "commit"
          /\ positions' = View(i) \/ positions' = positions
          /\ outbox' = outbox \cup {trade[i]} \/ outbox' = outbox
      BY <1>6, Zenon DEF Commit
    <2>2. SoundTable(View(i))
      BY <1>a, <1>c, <1>e, SoundOver, Zenon DEF View, InstanceSound
    <2>3. SoundTable(positions')
      BY <1>e, <2>1, <2>2, Zenon
    <2>4. pc[i] # "idle"
      BY <2>1, Zenon
    <2>5. Sets'
      BY <1>a, <1>e, <1>t, <2>1, <2>4, Zenon
    <2>. QED  BY <1>a, <2>1, <2>3, <2>5, SoundReturn, Zenon DEF SoundTable
  <1>7. CASE Fail(i)
    <2>1. /\ Return(i) /\ UNCHANGED <<positions, outbox>> /\ processed' \subseteq processed
          /\ forgotten' \subseteq forgotten \cup {trade[i]}
          /\ pc[i] \in {"mark", "read", "write", "commit"}
      BY <1>7, Zenon DEF Fail
    <2>2. trade[i] \in Trade
      BY <1>a, <1>t, <2>1, Zenon
    <2>3. Sets'
      BY <1>e, <2>1, <2>2, Zenon
    <2>. QED  BY <1>a, <1>e, <2>1, <2>3, SoundReturn, Zenon
  <1>8. CASE Crash(i)
    <2>1. Return(i) /\ UNCHANGED <<positions, outbox, processed>>
      BY <1>8, Zenon DEF Crash
    <2>2. HalfDone(i) => trade[i] \in Trade
      BY <1>a, <1>t, Zenon DEF HalfDone
    <2>3. forgotten' \subseteq Trade
      BY <1>8, <1>e, <2>2, Zenon DEF Crash
    <2>. QED  BY <1>a, <1>e, <2>1, <2>3, SoundReturn, Zenon
  <1>. QED  BY <1>1, <1>2, <1>3, <1>4, <1>5, <1>6, <1>7, <1>8, Zenon DEF Step

\* The tables are sound at the start.
LEMMA InitTables == Init => TablesSound
  <1> SUFFICES ASSUME Init PROVE TablesSound
    BY Zenon
  <1>1. PICK ids \in Bijection(1 .. Cardinality(Holders), Holders) :
          positions = [id \in DOMAIN ids |-> [User |-> ids[id], Position |-> InitialPositions[ids[id]]]]
    BY Zenon DEF Init
  <1>2. ids \in [1 .. Cardinality(Holders) -> Holders]
    BY Zenon DEF Bijection, Injection
  <1>3. SoundTable(positions)
    <2>1. DOMAIN positions = 1 .. Cardinality(Holders)
      BY <1>1, <1>2, Zenon
    <2>2. ASSUME NEW id \in DOMAIN positions
          PROVE  positions[id] \in Row /\ Sound(positions[id].Position)
      <3> DEFINE u == ids[id]
      <3>1. u \in Holders /\ u \in User /\ InitialPositions[u].Volume > 0
        BY <1>2, <2>1, Zenon DEF Holders
      <3>2. positions[id] = [User |-> u, Position |-> InitialPositions[u]]
        BY <1>1, Zenon
      <3>3. InitialPositions[u].AvgPrice \in Paid
        BY <3>1, Zenon DEF Paid
      <3> HIDE DEF u
      <3>4. InitialPositions[u] \in Position
        BY <3>1, InitialAssumption, Zenon
      <3>5. /\ Min(Paid) \in Nat /\ Max(Paid) \in Nat /\ InitialPositions[u].AvgPrice \in Nat
            /\ Min(Paid) <= InitialPositions[u].AvgPrice /\ InitialPositions[u].AvgPrice <= Max(Paid)
        BY <3>3, PaidFacts, Zenon
      <3>6. InitialPositions[u].AvgPrice \in Min(Paid) .. Max(Paid) /\ InitialPositions[u].Volume # 0
        BY <3>1, <3>4, <3>5 DEF Position
      <3>7. Sound(InitialPositions[u])
        BY <3>4, <3>6, Zenon DEF Sound
      <3>8. positions[id].Position = InitialPositions[u]
        BY <3>2
      <3>9. positions[id] \in Row
        BY <3>1, <3>2, <3>4 DEF Row
      <3>. QED  BY <3>7, <3>8, <3>9, Zenon
    <2>3. DOMAIN positions \subseteq IDs
      BY <2>1, Zenon DEF IDs
    <2>. QED  BY <2>2, <2>3, Zenon DEF SoundTable
  <1>4. NothingRead \in [id : IDs \cup {NoRow}, Position : Position] /\ NothingRead.Position = ZeroPosition
    BY Zenon DEF NothingRead, ZeroPosition, Position
  <1>5. read = [i \in Instance |-> NothingRead] /\ writes = [i \in Instance |-> NoWrites]
    BY Zenon DEF Init
  <1>6. SoundTable(NoWrites)
    BY Zenon DEF SoundTable, NoWrites
  <1>7. \A i \in Instance : pc[i] # "write"
    BY Zenon DEF Init
  <1>8. ASSUME NEW i \in Instance PROVE SoundTable(writes[i]) /\ Sound(read[i].Position)
    BY <1>4, <1>5, <1>6, SoundZero, Zenon
  <1>9. read \in [Instance -> [id : IDs \cup {NoRow}, Position : Position]] /\ DOMAIN writes = Instance
    BY <1>4, <1>5, Zenon
  <1>10. outbox \subseteq Trade /\ processed \subseteq Trade /\ forgotten \subseteq Trade
    BY Zenon DEF Init
  <1>. QED  BY <1>3, <1>7, <1>8, <1>9, <1>10, Zenon DEF TablesSound

\* The tables stay sound.
THEOREM TableInvariance == Spec => []TablesSound
  <1>1. Inv /\ TablesSound /\ [Next]_vars => TablesSound'
    <2> SUFFICES ASSUME Inv, TablesSound, [Next]_vars PROVE TablesSound'
      BY Zenon
    <2>1. ASSUME NEW i \in Active, Step(i) PROVE TablesSound'
      BY <2>1, TablesStep, Zenon
    <2>2. CASE UNCHANGED vars
      BY <2>2, Zenon DEF vars, tables, locals, TablesSound, SoundTable
    <2>. QED  BY <2>1, <2>2, Zenon DEF Next, Step
  <1>. QED  BY <1>1, InitTables, Invariance, PTL DEF Spec

\* No position is ever below zero, and the state has its type, however the
\* processes interleave.
THEOREM TypeCorrectness == Spec => []TypeOK
  <1>1. Inv /\ TablesSound => TypeOK
    <2> SUFFICES ASSUME Inv, TablesSound PROVE TypeOK
      BY Zenon
    <2>1. ASSUME NEW table, SoundTable(table) PROVE IsTable(table)
      BY <2>1, IDFacts, Zenon DEF SoundTable, IsTable, Range
    <2>2. \A i \in Instance : IsTable(writes[i])
      BY <2>1, Zenon DEF TablesSound
    <2>3. IsTable(positions)
      BY <2>1, Zenon DEF TablesSound
    <2>4. read \in [Instance -> [id : Nat, Position : Position]]
      <3>1. IDs \cup {NoRow} \subseteq Nat
        BY IDFacts DEF NoRow
      <3>2. ASSUME NEW S, NEW T, S \subseteq T
            PROVE  [id : S, Position : Position] \subseteq [id : T, Position : Position]
        BY <3>2, Zenon
      <3>3. [id : IDs \cup {NoRow}, Position : Position] \subseteq [id : Nat, Position : Position]
        BY <3>1, <3>2, Zenon
      <3>. QED  BY <3>3, Zenon DEF TablesSound
    <2>5. ASSUME NEW i \in Instance PROVE Len(legs[i]) <= 2
      <3>1. legs[i] \in Queue
        BY Zenon DEF Inv, ControlType
      <3>2. legs[i] = <<>> \/ \E t : legs[i] = Legs(t) \/ legs[i] = Tail(Legs(t))
        BY <3>1, Zenon DEF Queue
      <3>3. Len(legs[i]) = 0 \/ Len(legs[i]) = 1 \/ Len(legs[i]) = 2
        BY <3>2, LegsFacts, Zenon
      <3>4. \A n : n = 0 \/ n = 1 \/ n = 2 => n <= 2
        OBVIOUS
      <3>. QED  BY <3>3, <3>4, Zenon
    <2>6. outbox \subseteq Trade /\ processed \subseteq Trade /\ forgotten \subseteq Trade
      BY Zenon DEF TablesSound
    <2>7. /\ processedTrades \in [Instance -> SUBSET Trade]
          /\ pc \in [Instance -> {"idle", "mark", "read", "write", "commit"}]
          /\ trade \in [Instance -> Trade \cup {NoTrade}]
          /\ effects \in [Trade \X {1, 2} -> Nat]
          /\ deployment \in Deployments
      BY Zenon DEF Inv, ControlType
    <2>8. \A i \in Instance : pc[i] # "idle" => trade[i] \in Trade
      BY Zenon DEF Inv, LegsLeft
    <2>. QED  BY <2>2, <2>3, <2>4, <2>5, <2>6, <2>7, <2>8, Zenon DEF TypeOK
  <1>. QED  BY <1>1, Invariance, TableInvariance, PTL

\* Over any sequence of buys, rounded divisions and sales, by any number of
\* processes that fail and race, an average price stays between the lowest and
\* the highest price anyone paid, and an empty position has none.
THEOREM AverageInRange == Spec => []AveragePriceInRange
  <1>1. TablesSound => AveragePriceInRange
    <2> SUFFICES ASSUME TablesSound, NEW user \in User
                 PROVE  LET held == Holding(positions, user)
                        IN  IF held.Volume = 0 THEN held.AvgPrice = 0
                            ELSE held.AvgPrice \in Min(Paid) .. Max(Paid)
      BY Zenon DEF AveragePriceInRange
    <2>1. Sound(Holding(positions, user))
      BY SoundHolding, Zenon DEF TablesSound
    <2>. QED  BY <2>1, Zenon DEF Sound
  <1>. QED  BY <1>1, TableInvariance, PTL

-----------------------------------------------------------------------------
(* The refinement of AtomicSettlement.                                     *)

\* With one process every step is its own.
LEMMA OneActive ==
    ASSUME ControlType, Alone, NEW i \in Active, NEW j \in Active
    PROVE  i = j
  <1>1. IsFiniteSet(Active) /\ Cardinality(Active) = 1
    BY ActiveIsInstance, FiniteAssumption, FS_Subset, Zenon DEF Alone
  <1>2. PICK x : Active = {x}
    BY <1>1, FS_Singleton, Zenon
  <1>3. i = x /\ j = x
    BY <1>2, Zenon
  <1>. QED  BY <1>3, Zenon

\* Tables with the same rows hold the same positions.
LEMMA SameRows ==
    ASSUME NEW f, NEW g, DOMAIN f = DOMAIN g, DOMAIN g \subseteq Nat \ {NoRow},
           \A x \in DOMAIN g : f[x] = g[x]
    PROVE  Held(f) = Held(g)
  <1>1. ASSUME NEW user \in User PROVE Holding(f, user) = Holding(g, user)
    <2>1. \A x : x \in IDsOf(f, user) <=> x \in IDsOf(g, user)
      BY Zenon DEF IDsOf
    <2>2. IDsOf(f, user) = IDsOf(g, user)
      BY <2>1, Zenon
    <2>3. FirstID(f, user) = FirstID(g, user)
      BY <2>2, FirstFacts, Zenon
    <2>4. FirstID(g, user) # NoRow => FirstID(g, user) \in DOMAIN g
      BY FirstFacts, Zenon DEF IDsOf
    <2>. QED  BY <2>3, <2>4, Zenon DEF Holding
  <1>. QED  BY <1>1, Zenon DEF Held

\* A transaction that wrote nothing sees the table.
LEMMA NothingOver ==
    ASSUME NEW table, DOMAIN table \subseteq Nat \ {NoRow}
    PROVE  Held(Over(NoWrites, table)) = Held(table)
  <1>1. DOMAIN NoWrites = {}
    BY Zenon DEF NoWrites
  <1> DEFINE none == NoWrites
             new == Over(none, table)
  <1> HIDE DEF none
  <1>2. /\ DOMAIN new = (DOMAIN none) \cup (DOMAIN table)
        /\ \A x \in (DOMAIN table) \ (DOMAIN none) : new[x] = table[x]
    BY Overlay, Zenon
  <1> HIDE DEF new
  <1>3. DOMAIN new = DOMAIN table /\ \A x \in DOMAIN table : new[x] = table[x]
    BY <1>1, <1>2, Zenon DEF none
  <1>4. Held(new) = Held(table)
    BY <1>3, SameRows, Zenon
  <1>. QED  BY <1>4, Zenon DEF new, none

SameHeld(f, g) == Held(f) = Held(g)

\* A row that the transaction writes is laid over what it saw.
LEMMA OverOver ==
    ASSUME NEW f, NEW g, NEW h, DOMAIN f \subseteq Nat \ {NoRow},
           DOMAIN g \subseteq Nat \ {NoRow}, DOMAIN h \subseteq Nat \ {NoRow}
    PROVE  SameHeld(Over(Over(f, g), h), Over(f, Over(g, h)))
  <1> DEFINE fg == Over(f, g)
             gh == Over(g, h)
             l == Over(fg, h)
             r == Over(f, gh)
  <1>1. /\ DOMAIN fg = (DOMAIN f) \cup (DOMAIN g)
        /\ \A x \in DOMAIN f : fg[x] = f[x]
        /\ \A x \in (DOMAIN g) \ (DOMAIN f) : fg[x] = g[x]
    BY Overlay, Zenon
  <1>2. /\ DOMAIN gh = (DOMAIN g) \cup (DOMAIN h)
        /\ \A x \in DOMAIN g : gh[x] = g[x]
        /\ \A x \in (DOMAIN h) \ (DOMAIN g) : gh[x] = h[x]
    BY Overlay, Zenon
  <1> HIDE DEF fg, gh
  <1>3. /\ DOMAIN l = (DOMAIN fg) \cup (DOMAIN h)
        /\ \A x \in DOMAIN fg : l[x] = fg[x]
        /\ \A x \in (DOMAIN h) \ (DOMAIN fg) : l[x] = h[x]
    BY Overlay, Zenon
  <1>4. /\ DOMAIN r = (DOMAIN f) \cup (DOMAIN gh)
        /\ \A x \in DOMAIN f : r[x] = f[x]
        /\ \A x \in (DOMAIN gh) \ (DOMAIN f) : r[x] = gh[x]
    BY Overlay, Zenon
  <1> HIDE DEF l, r
  <1>5. \A x : x \in DOMAIN l <=> x \in DOMAIN r
    BY <1>1, <1>2, <1>3, <1>4, Zenon
  <1>6. ASSUME NEW x \in DOMAIN r PROVE l[x] = r[x]
    <2>1. CASE x \in DOMAIN f
      BY <1>1, <1>3, <1>4, <2>1, Zenon
    <2>2. CASE x \in DOMAIN g /\ x \notin DOMAIN f
      BY <1>1, <1>2, <1>3, <1>4, <2>2, Zenon
    <2>3. CASE x \notin DOMAIN g /\ x \notin DOMAIN f
      BY <1>1, <1>2, <1>3, <1>4, <2>3, Zenon
    <2>. QED  BY <2>1, <2>2, <2>3, Zenon
  <1>7. DOMAIN l = DOMAIN r /\ DOMAIN r \subseteq Nat \ {NoRow}
    BY <1>2, <1>4, <1>5, Zenon
  <1>8. SameHeld(l, r)
    BY <1>6, <1>7, SameRows, Zenon DEF SameHeld
  <1>. QED  BY <1>8, Zenon DEF l, r, fg, gh

\* What instance i has read is what its transaction sees.
ReadIsNew(i) ==
    read[i] = [id |-> FirstID(View(i), Head(legs[i]).User),
               Position |-> Holding(View(i), Head(legs[i]).User)]

\* A write in a transaction, of a row it has just read, applies the leg to
\* what the transaction sees.
LEMMA WriteApplies ==
    ASSUME Inv, TablesSound, Dedup = "outbox", NEW i \in Instance, WritePosition(i), ReadIsNew(i)
    PROVE  /\ Held(Over(writes'[i], positions)) = AfterLeg(Held(View(i)), Head(legs[i]), trade[i])
           /\ CanApply(Head(legs[i]), Held(View(i))[Head(legs[i]).User], trade[i])
  <1> DEFINE leg == Head(legs[i])
             user == leg.User
             seen == View(i)
  <1>1. read[i].id = FirstID(seen, user) /\ read[i].Position = Holding(seen, user)
    BY DEF ReadIsNew
  <1>2. user \in User /\ pc[i] = "write"
    <2>1. pc[i] = "write"
      BY Zenon DEF WritePosition
    <2>2. trade[i] \in Trade /\ legs[i] \in {Legs(trade[i]), Tail(Legs(trade[i]))}
      BY <2>1, Zenon DEF Inv, LegsLeft
    <2>. QED  BY <2>1, <2>2, LegFacts, Zenon
  <1>3. CanApply(leg, Holding(seen, user), trade[i])
    BY <1>1, <1>2, Zenon DEF TablesSound
  <1>4. SoundTable(writes[i]) /\ SoundTable(positions) /\ SoundTable(seen)
    BY SoundOver, Zenon DEF TablesSound, View
  <1>5. /\ DOMAIN writes[i] \subseteq Nat \ {NoRow} /\ DOMAIN positions \subseteq Nat \ {NoRow}
        /\ DOMAIN seen \subseteq Nat \ {NoRow}
    BY <1>4, IDFacts, Zenon DEF SoundTable
  <1>6. PICK id \in IDs, row \in Row : Saved(i, id, row)
    BY WriteSaves, Zenon
  <1>7. row.User = user /\ row.Position = Apply(leg, Holding(seen, user), trade[i])
    <2>1. row = [User |-> user, Position |-> Apply(leg, read[i].Position, trade[i])]
      BY <1>6, Zenon DEF Saved
    <2>. QED  BY <1>1, <2>1, Zenon
  <1>8. Target(id, seen, user)
    <2>1. id = IF FirstID(seen, user) = NoRow THEN NewID ELSE FirstID(seen, user)
      BY <1>1, <1>6, Zenon DEF Saved
    <2>2. NewID \in Nat \ {NoRow} /\ NewID \notin DOMAIN seen
      <3>1. DOMAIN seen = (DOMAIN writes[i]) \cup (DOMAIN positions)
        BY Overlay, Zenon DEF View
      <3>2. /\ NewID \in Nat \ {NoRow} /\ NewID \notin DOMAIN positions
            /\ NewID \notin DOMAIN writes[i]
        BY NewIDFacts, Zenon
      <3> HIDE DEF seen
      <3>. QED  BY <3>1, <3>2, Zenon
    <2> HIDE DEF seen, user
    <2>. QED  BY <2>1, <2>2, Zenon DEF Target
  <1>9. writes'[i] = Over(Only(id, row), writes[i])
    <2>1. writes' = [writes EXCEPT ![i] = Over(Only(id, row), writes[i])] /\ DOMAIN writes = Instance
      BY <1>6, Zenon DEF Saved, TablesSound
    <2>. QED  BY <2>1, Zenon
  <1>10. Held(Over(writes'[i], positions)) = Held(Over(Only(id, row), seen))
    <2>1. DOMAIN Only(id, row) \subseteq Nat \ {NoRow}
      BY IDFacts, Zenon DEF Only
    <2>2. SameHeld(Over(Over(Only(id, row), writes[i]), positions),
                   Over(Only(id, row), Over(writes[i], positions)))
      BY <1>5, <2>1, OverOver, Zenon
    <2>. QED  BY <1>9, <2>2, Zenon DEF View, SameHeld
  <1> HIDE DEF leg, user, seen
  <1>11. \A u \in User : Holding(Over(Only(id, row), seen), u) =
             IF u = user THEN row.Position ELSE Holding(seen, u)
    <2>1. Target(id, seen, row.User)
      BY <1>7, <1>8, Zenon
    <2>2. Holds(Over(Only(id, row), seen), seen, row)
      BY <1>5, <2>1, SaveRow, Zenon
    <2>. QED  BY <1>7, <2>2, Zenon DEF Holds
  <1>12. Held(Over(Only(id, row), seen)) = AfterLeg(Held(seen), leg, trade[i])
    <2>1. \A u \in User : Held(seen)[u] = Holding(seen, u)
      BY Zenon DEF Held
    <2>2. Held(Over(Only(id, row), seen)) =
            [u \in User |-> IF u = user THEN row.Position ELSE Holding(seen, u)]
      BY <1>11, Zenon DEF Held
    <2>3. AfterLeg(Held(seen), leg, trade[i]) =
            [u \in User |-> IF u = user THEN Apply(leg, Holding(seen, u), trade[i]) ELSE Holding(seen, u)]
      BY <2>1, Zenon DEF AfterLeg, Held, user
    <2>4. ASSUME NEW u \in User
          PROVE  (IF u = user THEN row.Position ELSE Holding(seen, u)) =
                 (IF u = user THEN Apply(leg, Holding(seen, u), trade[i]) ELSE Holding(seen, u))
      BY <1>7, Zenon
    <2>. QED  BY <2>2, <2>3, <2>4, Zenon
  <1>. QED  BY <1>2, <1>3, <1>10, <1>12, Zenon DEF leg, user, seen, Held

\* The first leg that is left is the first or the second of the trade.
LEMMA HeadFacts ==
    ASSUME NEW t
    PROVE  /\ Head(Legs(t)) = Legs(t)[1]
           /\ Head(Tail(Legs(t))) = Legs(t)[2]
           /\ Legs(t) # Tail(Legs(t)) /\ Legs(t) # <<>>
  <1>1. PICK a, b : Legs(t) = <<a, b>>
    BY Zenon DEF Legs
  <1>2. Legs(t) # Tail(Legs(t)) /\ Legs(t) # <<>>
    BY LegsFacts
  <1>. QED  BY <1>1, <1>2

\* With one process, what its transaction sees stays the table changed by the
\* legs it has applied.
LEMMA ViewStep ==
    ASSUME Inv, TablesSound, Alone, NEW i \in Active, ViewIsApplied(i), Step(i)
    PROVE  ViewIsApplied(i)'
  <1>a. ControlType /\ i \in Instance /\ Dedup = "outbox"
    BY ActiveIsInstance, Zenon DEF Inv, Alone
  <1>b. SoundTable(positions) /\ DOMAIN positions \subseteq Nat \ {NoRow} /\ DOMAIN writes = Instance
    BY IDFacts, Zenon DEF TablesSound, SoundTable
  <1>c. ASSUME pc'[i] = "idle" \/ pc'[i] = "mark", writes'[i] = NoWrites PROVE ViewIsApplied(i)'
    BY <1>c, Zenon DEF ViewIsApplied
  <1>d. ASSUME Return(i) PROVE ViewIsApplied(i)'
    BY <1>a, <1>c, <1>d, Returned, SoundReturn, Zenon
  <1>1. ASSUME NEW t \in Trade, ProcessEvent(i, t) PROVE ViewIsApplied(i)'
    <2>1. pc'[i] = "mark" /\ writes' = writes /\ pc[i] = "idle"
      BY <1>a, <1>1, Zenon DEF ProcessEvent, Goto, ControlType
    <2>2. writes[i] = NoWrites
      BY <2>1, Zenon DEF ViewIsApplied
    <2>. QED  BY <1>c, <2>1, <2>2, Zenon
  <1>2. CASE Mark(i)
    <2>1. /\ pc'[i] = "read" /\ pc[i] = "mark"
          /\ writes' = writes /\ trade' = trade /\ legs' = legs /\ positions' = positions
      BY <1>a, <1>2, Zenon DEF Mark, Goto, ControlType
    <2>2. writes[i] = NoWrites /\ legs[i] = Legs(trade[i])
      BY <1>a, <2>1, Zenon DEF ViewIsApplied, Inv, LegsLeft
    <2>3. legs[i] # Tail(Legs(trade[i]))
      BY <2>2, HeadFacts, Zenon
    <2>4. Held(Over(writes[i], positions)) = Held(positions)
      BY <1>b, <2>2, NothingOver, Zenon
    <2>5. pc'[i] \notin {"idle", "mark"} /\ pc'[i] # "write" /\ pc'[i] # "commit"
      BY <2>1, Zenon
    <2>. QED  BY <2>1, <2>3, <2>4, <2>5, Zenon DEF ViewIsApplied, View
  <1>3. CASE SkipDuplicate(i)
    BY <1>3, <1>d, Zenon DEF SkipDuplicate
  <1>4. CASE ReadPosition(i)
    <2> DEFINE user == Head(legs[i]).User
               got == [id |-> FirstID(View(i), user), Position |-> Holding(View(i), user)]
    <2>1. /\ pc'[i] = "write" /\ pc[i] = "read" /\ read' = [read EXCEPT ![i] = got]
          /\ writes' = writes /\ trade' = trade /\ legs' = legs /\ positions' = positions
      BY <1>a, <1>4, Zenon DEF ReadPosition, Goto, ControlType, tables
    <2>2. read'[i] = got
      BY <1>a, <2>1, Zenon DEF TablesSound
    <2>3. /\ pc'[i] \notin {"idle", "mark"} /\ pc'[i] # "commit"
          /\ pc[i] \in {"read", "write"}
      BY <2>1, Zenon
    <2>. QED  BY <2>1, <2>2, <2>3, Zenon DEF ViewIsApplied, View
  <1>5. CASE WritePosition(i)
    <2> DEFINE t == trade[i]
               first == Legs(t)[1]
               second == Legs(t)[2]
               half == AfterLeg(Held(positions), first, t)
               View2 == Over(writes'[i], positions)
    <2>1. pc[i] = "write" /\ trade' = trade /\ positions' = positions
      BY <1>a, <1>5, Zenon DEF WritePosition
    <2>2. pc[i] \in {"read", "write"} /\ ReadIsNew(i)
      BY <2>1, Zenon DEF ViewIsApplied, ReadIsNew
    <2>3. /\ Held(View2) = AfterLeg(Held(View(i)), Head(legs[i]), t)
          /\ CanApply(Head(legs[i]), Held(View(i))[Head(legs[i]).User], t)
      BY <1>a, <1>5, <2>2, WriteApplies, Zenon
    <2>4. CASE legs[i] = Legs(t)
      <3>1. Held(View(i)) = Held(positions) /\ Head(legs[i]) = first
        BY <2>2, <2>4, HeadFacts, Zenon DEF ViewIsApplied
      <3>2. Held(View2) = half /\ CanApply(first, Held(positions)[first.User], t)
        BY <2>3, <3>1, Zenon
      <3>3. legs'[i] = Tail(Legs(t)) /\ pc'[i] = "read"
        BY <1>a, <1>5, <2>4, WritesOne, LegsFacts
      <3>4. /\ pc'[i] \notin {"idle", "mark"} /\ pc'[i] # "commit" /\ pc'[i] # "write"
            /\ legs'[i] # Legs(t)
        BY <3>3, HeadFacts, Zenon
      <3>. QED  BY <2>1, <3>2, <3>4, Zenon DEF ViewIsApplied, View
    <2>5. CASE legs[i] = Tail(Legs(t))
      <3>1. /\ Held(View(i)) = half /\ Head(legs[i]) = second
            /\ CanApply(first, Held(positions)[first.User], t)
        BY <2>2, <2>5, HeadFacts, Zenon DEF ViewIsApplied
      <3>2. Held(View2) = AfterLeg(half, second, t) /\ CanApply(second, half[second.User], t)
        BY <2>3, <3>1, Zenon
      <3>3. pc'[i] = "commit"
        BY <1>a, <1>5, <2>5, WritesOne, LegsFacts
      <3>4. pc'[i] \notin {"idle", "mark"} /\ pc'[i] \notin {"read", "write"} /\ pc'[i] # "write"
        BY <3>3, Zenon
      <3>. QED  BY <2>1, <3>1, <3>2, <3>4, Zenon DEF ViewIsApplied, View
    <2>. QED  BY <1>a, <2>2, <2>4, <2>5, Zenon DEF Inv, LegsLeft
  <1>6. CASE Commit(i)
    BY <1>6, <1>d, Zenon DEF Commit
  <1>7. CASE Fail(i)
    BY <1>7, <1>d, Zenon DEF Fail
  <1>8. CASE Crash(i)
    BY <1>8, <1>d, Zenon DEF Crash
  <1>. QED  BY <1>1, <1>2, <1>3, <1>4, <1>5, <1>6, <1>7, <1>8, Zenon DEF Step

\* The rows at the start hold the initial positions.
LEMMA InitHeld == Init => Held(positions) = InitialPositions
  <1> SUFFICES ASSUME Init PROVE Held(positions) = InitialPositions
    BY Zenon
  <1>1. PICK ids \in Bijection(1 .. Cardinality(Holders), Holders) :
          positions = [id \in DOMAIN ids |-> [User |-> ids[id], Position |-> InitialPositions[ids[id]]]]
    BY Zenon DEF Init
  <1>2. /\ ids \in [1 .. Cardinality(Holders) -> Holders]
        /\ \A u \in Holders : \E id \in 1 .. Cardinality(Holders) : ids[id] = u
    BY Zenon DEF Bijection, Injection, Surjection
  <1>3. DOMAIN positions = 1 .. Cardinality(Holders) /\ DOMAIN positions \subseteq Nat \ {NoRow}
    <2>1. DOMAIN positions = 1 .. Cardinality(Holders)
      BY <1>1, <1>2, Zenon
    <2>. QED  BY <2>1, IDFacts, Zenon DEF IDs
  <1>4. \A id \in DOMAIN positions : /\ positions[id].User = ids[id]
                                     /\ positions[id].Position = InitialPositions[ids[id]]
    BY <1>1, Zenon
  <1>5. ASSUME NEW u \in User PROVE Holding(positions, u) = InitialPositions[u]
    <2>1. FirstID(positions, u) # NoRow => FirstID(positions, u) \in IDsOf(positions, u)
      BY <1>3, FirstFacts, Zenon
    <2>2. CASE FirstID(positions, u) # NoRow
      <3>1. positions[FirstID(positions, u)].Position = InitialPositions[u]
        BY <1>4, <2>1, <2>2, Zenon DEF IDsOf
      <3>. QED  BY <2>2, <3>1, Zenon DEF Holding
    <2>3. CASE FirstID(positions, u) = NoRow
      <3>1. IDsOf(positions, u) = {}
        BY <1>3, <2>3, FirstFacts, Zenon
      <3>2. u \notin Holders
        <4>1. ASSUME NEW id \in DOMAIN positions PROVE ids[id] # u
          <5>1. positions[id].User # u
            BY <3>1, Zenon DEF IDsOf
          <5>. QED  BY <1>4, <5>1, Zenon
        <4>. QED  BY <1>2, <1>3, <4>1, Zenon
      <3>3. ~(InitialPositions[u].Volume > 0)
        BY <3>2, Zenon DEF Holders
      <3>4. InitialPositions[u] \in Position /\ (InitialPositions[u].Volume = 0 => InitialPositions[u].AvgPrice = 0)
        BY InitialAssumption, Zenon
      <3>5. ASSUME NEW pos \in Position, ~(pos.Volume > 0), pos.Volume = 0 => pos.AvgPrice = 0
            PROVE  pos = ZeroPosition
        BY <3>5 DEF Position, ZeroPosition
      <3>. QED  BY <2>3, <3>3, <3>4, <3>5, Zenon DEF Holding
    <2>. QED  BY <2>2, <2>3, Zenon
  <1>6. InitialPositions = [u \in User |-> InitialPositions[u]]
    BY InitialAssumption, Zenon
  <1>. QED  BY <1>5, <1>6, Zenon DEF Held

\* With one process idle instances have written nothing, and stay as the
\* invariant has them.
LEMMA AloneStep ==
    /\ Init => AloneInStep
    /\ Inv /\ TablesSound /\ AloneInStep /\ [Next]_vars => AloneInStep'
  <1>1. ASSUME Init PROVE AloneInStep
    <2>1. ASSUME Alone, NEW i \in Active PROVE ViewIsApplied(i)
      <3>1. i \in Instance
        BY <1>1, <2>1, InitInv, ActiveIsInstance, Zenon DEF Inv
      <3>2. pc[i] = "idle" /\ writes[i] = NoWrites
        BY <1>1, <3>1, Zenon DEF Init
      <3>. QED  BY <3>2, Zenon DEF ViewIsApplied
    <2>. QED  BY <2>1, Zenon DEF AloneInStep
  <1>2. ASSUME Inv, TablesSound, AloneInStep, NEW i \in Active, Step(i) PROVE AloneInStep'
    <2>1. ControlType /\ i \in Instance
      BY <1>2, ActiveIsInstance, Zenon DEF Inv
    <2>2. deployment' = deployment
      BY <1>2, <2>1, StepAlongside, Zenon DEF Alongside
    <2>3. (Alone' <=> Alone) /\ Active' = Active
      BY <2>2, Zenon DEF Alone, Active, Dedup
    <2>4. ASSUME Alone, NEW j \in Active PROVE ViewIsApplied(j)'
      <3>1. j = i
        BY <2>1, <2>4, OneActive, Zenon
      <3>2. ViewIsApplied(i)
        BY <1>2, <2>4, Zenon DEF AloneInStep
      <3>3. ViewIsApplied(i)'
        BY <1>2, <2>4, <3>2, ViewStep, Zenon
      <3>. QED  BY <3>1, <3>3, Zenon
    <2>. QED  BY <2>3, <2>4, Zenon DEF AloneInStep
  <1>3. ASSUME AloneInStep, UNCHANGED vars PROVE AloneInStep'
    <2>1. (Alone' <=> Alone) /\ Active' = Active
      BY <1>3, Zenon DEF vars, tables, Alone, Active, Dedup
    <2>2. ASSUME NEW j, ViewIsApplied(j) PROVE ViewIsApplied(j)'
      BY <1>3, <2>2, Zenon DEF vars, tables, locals, ViewIsApplied, View
    <2>. QED  BY <1>3, <2>1, <2>2, Zenon DEF AloneInStep
  <1>. QED  BY <1>1, <1>2, <1>3, Zenon DEF Next, Step

\* What the commit of the one process does to the positions and the outbox.
LEMMA CommitSettles ==
    ASSUME Inv, TablesSound, Alone, NEW i \in Active, ViewIsApplied(i), Commit(i)
    PROVE  LET t == trade[i]
               first == Legs(t)[1]
               second == Legs(t)[2]
               held == Held(positions)
               half == AfterLeg(held, first, t)
           IN  /\ t \in Trade /\ t \notin outbox
               /\ CanApply(first, held[first.User], t)
               /\ CanApply(second, half[second.User], t)
               /\ Held(positions') = AfterLeg(half, second, t)
               /\ outbox' = outbox \cup {t}
  <1>1. ControlType /\ i \in Instance /\ Dedup = "outbox"
    BY ActiveIsInstance, Zenon DEF Inv, Alone
  <1>2. pc[i] = "commit" /\ positions' = View(i) /\ outbox' = outbox \cup {trade[i]}
    BY <1>1, Zenon DEF Commit
  <1>3. trade[i] \in Trade
    BY <1>1, <1>2, Zenon DEF Inv, LegsLeft
  <1>4. Working(i, trade[i])
    BY <1>2, Zenon DEF Working
  <1>5. trade[i] \notin outbox
    BY <1>1, <1>3, <1>4, Zenon DEF Inv, RowTells
  <1>. QED  BY <1>2, <1>3, <1>5, Zenon DEF ViewIsApplied

\* Of one process, only a commit changes a table.
LEMMA OthersStutter ==
    ASSUME Inv, Alone, NEW i \in Active, Step(i)
    PROVE  Commit(i) \/ (positions' = positions /\ outbox' = outbox)
  <1>1. Dedup = "outbox"
    BY Zenon DEF Alone
  <1>. QED  BY <1>1, Zenon DEF Step, ProcessEvent, Mark, SkipDuplicate, ReadPosition,
                                WritePosition, Fail, Crash, tables

\* One process, with failures, crashes and redelivery, settles each trade in
\* one atomic step, at most once: the commit of its transaction is the step of
\* AtomicSettlement and everything else is invisible there.
THEOREM Settlement == Spec => SettlesAtomically
  <1> DEFINE Shown == IF Alone THEN Held(positions) ELSE InitialPositions
             Rows == IF Alone THEN outbox ELSE {}
  <1>1. /\ \A t : Atomic!Legs(t) = Legs(t)
        /\ \A leg, pos, t : Atomic!CanApply(leg, pos, t) <=> CanApply(leg, pos, t)
        /\ \A leg, pos, t : Atomic!Apply(leg, pos, t) = Apply(leg, pos, t)
    <2>1. \A t : Atomic!Legs(t) = Legs(t)
      BY Zenon DEF Atomic!Legs, Legs
    <2>2. \A x : Atomic!Convert(x) = Convert(x)
      BY Zenon DEF Atomic!Convert, Convert, Atomic!Truncated, Truncated
    <2>3. \A leg, pos, t : Atomic!CanApply(leg, pos, t) <=> CanApply(leg, pos, t)
      BY <2>2, Zenon DEF Atomic!CanApply, CanApply
    <2>4. \A leg, pos, t : Atomic!Apply(leg, pos, t) = Apply(leg, pos, t)
      BY <2>2, Zenon DEF Atomic!Apply, Apply, Atomic!SellPosition, SellPosition,
                         Atomic!BuyPosition, BuyPosition
    <2>. QED  BY <2>1, <2>3, <2>4, Zenon
  <1>2. Init => Atomic!Init
    BY InitHeld, Zenon DEF Atomic!Init, Held, Init
  <1>3. TableInv /\ [Next]_vars => [Atomic!Next]_Atomic!vars
    <2> SUFFICES ASSUME TableInv, [Next]_vars PROVE Atomic!Next \/ UNCHANGED <<Shown, Rows>>
      BY Zenon DEF Atomic!vars, Held
    <2>1. CASE UNCHANGED vars
      BY <2>1, Zenon DEF vars, tables, Alone, Active, Dedup, Held, Holding, FirstID
    <2>2. ASSUME NEW i \in Active, Step(i) PROVE Atomic!Next \/ UNCHANGED <<Shown, Rows>>
      <3>1. ControlType /\ i \in Instance /\ Inv /\ TablesSound /\ AloneInStep
        BY ActiveIsInstance, Zenon DEF TableInv, Inv
      <3>2. deployment' = deployment
        BY <2>2, <3>1, StepAlongside, Zenon DEF Alongside
      <3>3. Alone' <=> Alone
        BY <3>2, Zenon DEF Alone, Active, Dedup
      <3>4. CASE ~Alone
        BY <3>3, <3>4, Zenon
      <3>5. CASE Alone /\ positions' = positions /\ outbox' = outbox
        BY <3>3, <3>5, Zenon DEF Held, Holding, FirstID
      <3>6. CASE Alone /\ Commit(i)
        <4> DEFINE t == trade[i]
                   first == Legs(t)[1]
                   second == Legs(t)[2]
                   half == AfterLeg(Held(positions), first, t)
        <4>1. /\ t \in Trade /\ t \notin outbox
              /\ CanApply(first, Held(positions)[first.User], t)
              /\ CanApply(second, half[second.User], t)
              /\ Held(positions') = AfterLeg(half, second, t)
              /\ outbox' = outbox \cup {t}
          BY <3>1, <3>6, CommitSettles, Zenon DEF AloneInStep
        <4>2. Shown = Held(positions) /\ Shown' = Held(positions') /\ Rows = outbox /\ Rows' = outbox'
          BY <3>3, <3>6, Zenon
        <4>3. /\ t \notin Rows
              /\ CanApply(first, Shown[first.User], t)
              /\ CanApply(second, [Shown EXCEPT ![first.User] = Apply(first, @, t)][second.User], t)
              /\ Shown' = [[Shown EXCEPT ![first.User] = Apply(first, @, t)]
                             EXCEPT ![second.User] = Apply(second, @, t)]
              /\ Rows' = Rows \cup {t}
          BY <4>1, <4>2, Zenon DEF AfterLeg
        <4>4. Atomic!Settle(t)
          BY <1>1, <4>3, Zenon DEF Atomic!Settle, Held
        <4>. QED  BY <4>1, <4>4, Zenon DEF Atomic!Next
      <3>. QED  BY <2>2, <3>1, <3>4, <3>5, <3>6, OthersStutter, Zenon
    <2>. QED  BY <2>1, <2>2, Zenon DEF Next, Step
  <1>4. Spec => []TableInv
    BY Invariance, TableInvariance, AloneStep, PTL DEF Spec, TableInv
  <1>. QED  BY <1>2, <1>3, <1>4, PTL DEF Spec, SettlesAtomically, Atomic!Spec

-----------------------------------------------------------------------------
(* Sums over finite sets.  SumFunctionOnSet is defined by a recursion over *)
(* the subsets of the set, which removes an element that CHOOSE picks; the *)
(* recursion has a solution, the solution is unique, and its value does    *)
(* not depend on the element that is picked.                               *)

\* The element removed from s, and what it is for g to be such a recursion.
Some(s) == CHOOSE x \in s : TRUE
Adds(f, T, g) ==
    g = [s \in SUBSET T |-> IF s = {} THEN 0 ELSE f[Some(s)] + g[s \ {Some(s)}]]

\* The sum is the value of a recursion.
LEMMA SumIs ==
    ASSUME NEW f, NEW T
    PROVE  SumFunctionOnSet(f, T) = (CHOOSE g : Adds(f, T, g))[T]
  BY Zenon DEF SumFunctionOnSet, FoldFunctionOnSet, MapThenFoldSet, Adds, Some

\* Induction over the subsets of a finite set: a property, given as the set
\* Good of those that have it, which a set has when all smaller ones have it.
LEMMA SubsetsBySize ==
    ASSUME NEW S, IsFiniteSet(S), NEW Good \in SUBSET (SUBSET S),
           \A T \in SUBSET S :
              (\A U \in SUBSET T : U # T => U \in Good) => T \in Good
    PROVE  Good = SUBSET S
  <1> DEFINE Bad == (SUBSET S) \ Good
             sizes == {Cardinality(T) : T \in Bad}
  <1>1. SUFFICES ASSUME Bad # {} PROVE FALSE
    BY Zenon
  <1>2. \A T \in SUBSET S : IsFiniteSet(T) /\ Cardinality(T) \in Nat
    BY FS_Subset, FS_CardinalityType, Zenon
  <1>3. sizes \in SUBSET Nat /\ sizes # {}
    BY <1>1, <1>2
  <1>4. PICK n \in sizes : \A m \in sizes : n <= m
    <2> HIDE DEF sizes
    <2>. QED  BY <1>3, MinFacts, Zenon
  <1>5. PICK T \in Bad : n = Cardinality(T)
    BY <1>4, Zenon
  <1>6. ASSUME NEW U \in SUBSET T, U # T
        PROVE  U \in Good
    <2>1. Cardinality(U) < Cardinality(T)
      BY <1>2, <1>5, <1>6, FS_Subset
    <2>2. U \in SUBSET S /\ (U \in Bad => n <= Cardinality(U))
      BY <1>4, <1>5
    <2>3. Cardinality(U) \in Nat /\ Cardinality(T) \in Nat
      BY <1>2, <1>5, <2>2, Zenon
    <2>. QED  BY <1>5, <2>1, <2>2, <2>3
  <1>. QED  BY <1>5, <1>6, Zenon

\* There is an element to remove.
LEMMA SomeIn ==
    ASSUME NEW s, s # {}
    PROVE  Some(s) \in s
  BY Zenon DEF Some

\* Two recursions agree on the sets they share.
LEMMA SumsAgree ==
    ASSUME NEW f, NEW T, NEW U, IsFiniteSet(T), NEW g, Adds(f, T, g),
           NEW h, Adds(f, U, h), NEW s \in SUBSET (T \cap U)
    PROVE  g[s] = h[s]
  <1> DEFINE Good == {w \in SUBSET (T \cap U) : g[w] = h[w]}
  <1>1. IsFiniteSet(T \cap U)
    BY FS_Intersection, Zenon
  <1>2. ASSUME NEW w \in SUBSET (T \cap U),
               \A v \in SUBSET w : v # w => v \in Good
        PROVE  w \in Good
    <2>1. CASE w = {}
      BY <2>1, Zenon DEF Adds
    <2>2. CASE w # {}
      <3>1. g[w] = f[Some(w)] + g[w \ {Some(w)}]
        BY <2>2, Zenon DEF Adds
      <3>2. h[w] = f[Some(w)] + h[w \ {Some(w)}]
        BY <2>2, Zenon DEF Adds
      <3>3. g[w \ {Some(w)}] = h[w \ {Some(w)}]
        BY <1>2, <2>2, SomeIn, Zenon
      <3>. QED  BY <3>1, <3>2, <3>3, Zenon
    <2>. QED  BY <2>1, <2>2, Zenon
  <1> HIDE DEF Good
  <1>3. Good \in SUBSET (SUBSET (T \cap U))
    BY Zenon DEF Good
  <1>4. Good = SUBSET (T \cap U)
    BY <1>1, <1>2, <1>3, SubsetsBySize, Zenon
  <1>. QED  BY <1>4, Zenon DEF Good

\* There is a recursion for every finite set.
LEMMA SumsExist ==
    ASSUME NEW f, NEW S, IsFiniteSet(S)
    PROVE  \A T \in SUBSET S : \E g : Adds(f, T, g)
  <1> DEFINE Good == {T \in SUBSET S : \E g : Adds(f, T, g)}
             Total(T) == (CHOOSE g : Adds(f, T, g))[T]
  <1>1. ASSUME NEW T \in SUBSET S, \A U \in SUBSET T : U # T => U \in Good
        PROVE  T \in Good
    <2> DEFINE h == [s \in SUBSET T |->
                       IF s = {} THEN 0 ELSE f[Some(s)] + Total(s \ {Some(s)})]
    <2>1. ASSUME NEW u \in SUBSET T, u # T
          PROVE  h[u] = Total(u)
      <3>1. PICK g : g = (CHOOSE x : Adds(f, u, x)) /\ Adds(f, u, g)
        BY <1>1, <2>1, Zenon
      <3>2. CASE u = {}
        BY <3>1, <3>2, Zenon DEF Adds
      <3>3. CASE u # {}
        <4> DEFINE w == u \ {Some(u)}
        <4>1. w \in SUBSET u /\ w # T /\ w \in SUBSET T
          BY <3>3, SomeIn, Zenon
        <4>2. PICK k : k = (CHOOSE x : Adds(f, w, x)) /\ Adds(f, w, k)
          BY <1>1, <4>1
        <4>3. g[w] = k[w]
          <5>1. IsFiniteSet(u)
            BY FS_Subset, Zenon
          <5>2. w \in SUBSET (u \cap w)
            BY <4>1, Zenon
          <5> HIDE DEF w
          <5>. QED  BY <3>1, <4>2, <5>1, <5>2, SumsAgree
        <4>4. g[u] = f[Some(u)] + g[w]
          BY <3>1, <3>3, Zenon DEF Adds
        <4>5. h[u] = f[Some(u)] + Total(w)
          BY <3>3, Zenon
        <4>6. Total(w) = k[w] /\ Total(u) = g[u]
          BY <3>1, <4>2, Zenon
        <4>. QED  BY <4>3, <4>4, <4>5, <4>6, Zenon
      <3>. QED  BY <3>2, <3>3, Zenon
    <2>2. ASSUME NEW s \in SUBSET T, s # {}
          PROVE  h[s] = f[Some(s)] + h[s \ {Some(s)}]
      <3>1. s \ {Some(s)} \in SUBSET T /\ s \ {Some(s)} # T
        BY <2>2, SomeIn, Zenon
      <3>2. h[s \ {Some(s)}] = Total(s \ {Some(s)})
        BY <2>1, <3>1, Zenon
      <3>. QED  BY <2>2, <3>2, Zenon
    <2>3. h[{}] = 0
      BY Zenon
    <2>4. h = [s \in SUBSET T |-> h[s]]
      OBVIOUS
    <2> HIDE DEF h
    <2>5. Adds(f, T, h)
      BY <2>2, <2>3, <2>4, Zenon DEF Adds
    <2>. QED  BY <2>5, Zenon
  <1> HIDE DEF Good
  <1>2. Good \in SUBSET (SUBSET S)
    BY Zenon DEF Good
  <1>3. Good = SUBSET S
    BY <1>1, <1>2, SubsetsBySize, Zenon
  <1>. QED  BY <1>3, Zenon DEF Good

\* So the sum obeys it.
LEMMA SumRecursion ==
    ASSUME NEW f, NEW S, IsFiniteSet(S)
    PROVE  /\ SumFunctionOnSet(f, {}) = 0
           /\ S # {} => SumFunctionOnSet(f, S)
                           = f[Some(S)] + SumFunctionOnSet(f, S \ {Some(S)})
  <1>1. PICK g : g = (CHOOSE x : Adds(f, {}, x)) /\ Adds(f, {}, g)
    BY SumsExist, Zenon
  <1>2. SumFunctionOnSet(f, {}) = 0
    BY <1>1, SumIs, Zenon DEF Adds
  <1>3. ASSUME S # {}
        PROVE  SumFunctionOnSet(f, S)
                 = f[Some(S)] + SumFunctionOnSet(f, S \ {Some(S)})
    <2> DEFINE w == S \ {Some(S)}
    <2>1. PICK h : h = (CHOOSE x : Adds(f, S, x)) /\ Adds(f, S, h)
      BY SumsExist, Zenon
    <2>2. PICK k : k = (CHOOSE x : Adds(f, w, x)) /\ Adds(f, w, k)
      BY SumsExist, Zenon
    <2>3. h[S] = f[Some(S)] + h[w]
      BY <1>3, <2>1, Zenon DEF Adds
    <2>4. w \in SUBSET (S \cap w)
      BY Zenon
    <2>5. h[w] = k[w]
      <3> HIDE DEF w
      <3>. QED  BY <2>1, <2>2, <2>4, SumsAgree
    <2>6. SumFunctionOnSet(f, S) = h[S]
      BY <2>1, SumIs, Zenon
    <2>7. SumFunctionOnSet(f, w) = k[w]
      BY <2>2, SumIs, Zenon
    <2>. QED  BY <2>3, <2>5, <2>6, <2>7, Zenon
  <1>. QED  BY <1>2, <1>3, Zenon

\* A sum of integers is an integer.
LEMMA SumType ==
    ASSUME NEW S, IsFiniteSet(S), NEW f \in [S -> Int]
    PROVE  \A T \in SUBSET S : SumFunctionOnSet(f, T) \in Int
  <1> DEFINE Good == {T \in SUBSET S : SumFunctionOnSet(f, T) \in Int}
  <1>1. ASSUME NEW T \in SUBSET S, \A U \in SUBSET T : U # T => U \in Good
        PROVE  T \in Good
    <2>1. CASE T = {}
      <3>1. SumFunctionOnSet(f, {}) = 0
        BY SumRecursion, Zenon
      <3>. QED  BY <2>1, <3>1
    <2>2. CASE T # {}
      <3>1. IsFiniteSet(T)
        BY FS_Subset, Zenon
      <3>2. Some(T) \in T /\ f[Some(T)] \in Int
        BY <2>2, SomeIn, Zenon
      <3>3. T \ {Some(T)} \in Good
        BY <1>1, <3>2, Zenon
      <3>4. SumFunctionOnSet(f, T)
              = f[Some(T)] + SumFunctionOnSet(f, T \ {Some(T)})
        BY <2>2, <3>1, SumRecursion, Zenon
      <3>. QED  BY <3>2, <3>3, <3>4
    <2>. QED  BY <2>1, <2>2, Zenon
  <1> HIDE DEF Good
  <1>2. Good \in SUBSET (SUBSET S)
    BY Zenon DEF Good
  <1>3. Good = SUBSET S
    BY <1>1, <1>2, SubsetsBySize, Zenon
  <1>. QED  BY <1>3, Zenon DEF Good

\* Any element may be taken out first.
LEMMA SumWithout ==
    ASSUME NEW S, IsFiniteSet(S), NEW f \in [S -> Int]
    PROVE  \A T \in SUBSET S : \A x \in T :
              SumFunctionOnSet(f, T) = f[x] + SumFunctionOnSet(f, T \ {x})
  <1> DEFINE Sum(T) == SumFunctionOnSet(f, T)
             Good == {T \in SUBSET S : \A x \in T : Sum(T) = f[x] + Sum(T \ {x})}
  <1>1. ASSUME NEW T \in SUBSET S, \A U \in SUBSET T : U # T => U \in Good,
               NEW x \in T
        PROVE  Sum(T) = f[x] + Sum(T \ {x})
    <2> DEFINE c == Some(T)
    <2>1. c \in T
      BY SomeIn, Zenon
    <2>2. Sum(T) = f[c] + Sum(T \ {c})
      BY FS_Subset, SumRecursion, Zenon
    <2>3. CASE x = c
      BY <2>2, <2>3, Zenon
    <2>4. CASE x # c
      <3>1. Sum(T \ {c}) = f[x] + Sum((T \ {c}) \ {x})
        BY <1>1, <2>1, <2>4, Zenon
      <3>2. Sum(T \ {x}) = f[c] + Sum((T \ {x}) \ {c})
        BY <1>1, <2>1, <2>4, Zenon
      <3>3. (T \ {c}) \ {x} = (T \ {x}) \ {c}
        BY Zenon
      <3>4. f[x] \in Int /\ f[c] \in Int /\ Sum((T \ {x}) \ {c}) \in Int
        BY <2>1, SumType, Zenon
      <3>5. Sum(T \ {c}) = f[x] + Sum((T \ {x}) \ {c})
        BY <3>1, <3>3, Zenon
      <3> HIDE DEF Sum, c
      <3>. QED  BY <2>2, <3>2, <3>4, <3>5
    <2>. QED  BY <2>3, <2>4, Zenon
  <1> HIDE DEF Good
  <1>2. Good \in SUBSET (SUBSET S)
    BY Zenon DEF Good
  <1>3. \A T \in SUBSET S :
          (\A U \in SUBSET T : U # T => U \in Good) => T \in Good
    BY <1>1, Zenon DEF Good
  <1>4. Good = SUBSET S
    BY <1>2, <1>3, SubsetsBySize, Zenon
  <1>. QED  BY <1>4, Zenon DEF Good

-----------------------------------------------------------------------------
(* The volumes and the outbox.                                             *)

\* The change of a user's volume by each trade, and by one leg of it.
MovesOf(user) ==
    [t \in Trade |->
        LET n == Cardinality({k \in {1, 2} : Legs(t)[k] = [User |-> user, Side |-> "buy"]})
            m == Cardinality({k \in {1, 2} : Legs(t)[k] = [User |-> user, Side |-> "sell"]})
        IN  (n - m) * Convert(t.Quantity)]
By(leg, user, qty) ==
    IF leg.User # user THEN 0 ELSE IF leg.Side = "sell" THEN -qty ELSE qty

\* PositionsMatchOutbox in terms of them.
VolumesMatch ==
    \A user \in User :
        Held(positions)[user].Volume =
            InitialPositions[user].Volume + SumFunctionOnSet(MovesOf(user), outbox)

\* It implies what the run checks.
LEMMA MatchIs == VolumesMatch => PositionsMatchOutbox
  <1>1. ASSUME NEW user \in User
        PROVE  Change(user, outbox, LAMBDA t : Convert(t.Quantity))
                 = SumFunctionOnSet(MovesOf(user), outbox)
    BY Zenon DEF Change, MovesOf
  <1>2. \A user \in User : Held(positions)[user] = Holding(positions, user)
    BY Zenon DEF Held
  <1>. QED  BY <1>1, <1>2, Zenon DEF VolumesMatch, PositionsMatchOutbox

\* What a trade changes is what its legs change.
LEMMA MoveIsLegs ==
    ASSUME NEW t \in Trade, NEW user
    PROVE  /\ MovesOf(user)[t] = By(Legs(t)[1], user, Convert(t.Quantity))
                                   + By(Legs(t)[2], user, Convert(t.Quantity))
           /\ MovesOf(user)[t] \in Int
  <1> DEFINE q == Convert(t.Quantity)
             a == Legs(t)[1]
             b == Legs(t)[2]
             Bought == {k \in {1, 2} : Legs(t)[k] = [User |-> user, Side |-> "buy"]}
             Sold == {k \in {1, 2} : Legs(t)[k] = [User |-> user, Side |-> "sell"]}
             Leg(who, side) == [User |-> who, Side |-> side]
  <1>1. q \in Nat
    BY TradeAssumption, ConvertFacts, Zenon
  <1>2. MovesOf(user)[t] = (Cardinality(Bought) - Cardinality(Sold)) * q
    BY Zenon DEF MovesOf
  <1>3. Cardinality({}) = 0 /\ Cardinality({1}) = 1 /\ Cardinality({2}) = 1
    BY FS_EmptySet, FS_Singleton, Zenon
  <1>4. \/ a = Leg(t.TakerUser, "buy") /\ b = Leg(t.MakerUser, "sell")
        \/ a = Leg(t.TakerUser, "sell") /\ b = Leg(t.MakerUser, "buy")
    BY Zenon DEF Legs
  <1>5. CASE a = Leg(t.TakerUser, "buy") /\ b = Leg(t.MakerUser, "sell")
    <2>1. Bought = (IF t.TakerUser = user THEN {1} ELSE {})
      BY <1>5
    <2>2. Sold = (IF t.MakerUser = user THEN {2} ELSE {})
      BY <1>5
    <2>3. /\ Cardinality(Bought) = IF t.TakerUser = user THEN 1 ELSE 0
          /\ Cardinality(Sold) = IF t.MakerUser = user THEN 1 ELSE 0
      BY <1>3, <2>1, <2>2, Zenon
    <2>4. /\ By(a, user, q) = IF t.TakerUser = user THEN q ELSE 0
          /\ By(b, user, q) = IF t.MakerUser = user THEN -q ELSE 0
      BY <1>5, SMTT(20) DEF By
    <2> HIDE DEF q, a, b, Bought, Sold
    <2>5. MovesOf(user)[t] = By(a, user, q) + By(b, user, q) /\ MovesOf(user)[t] \in Int
      BY <1>1, <1>2, <2>3, <2>4, SMTT(20)
    <2>. QED  BY <2>5, Zenon DEF q, a, b
  <1>6. CASE a = Leg(t.TakerUser, "sell") /\ b = Leg(t.MakerUser, "buy")
    <2>1. Bought = (IF t.MakerUser = user THEN {2} ELSE {})
      BY <1>6
    <2>2. Sold = (IF t.TakerUser = user THEN {1} ELSE {})
      BY <1>6
    <2>3. /\ Cardinality(Bought) = IF t.MakerUser = user THEN 1 ELSE 0
          /\ Cardinality(Sold) = IF t.TakerUser = user THEN 1 ELSE 0
      BY <1>3, <2>1, <2>2, Zenon
    <2>4. /\ By(a, user, q) = IF t.TakerUser = user THEN -q ELSE 0
          /\ By(b, user, q) = IF t.MakerUser = user THEN q ELSE 0
      BY <1>6, SMTT(20) DEF By
    <2> HIDE DEF q, a, b, Bought, Sold
    <2>5. MovesOf(user)[t] = By(a, user, q) + By(b, user, q) /\ MovesOf(user)[t] \in Int
      BY <1>1, <1>2, <2>3, <2>4, SMTT(20)
    <2>. QED  BY <2>5, Zenon DEF q, a, b
  <1>. QED  BY <1>4, <1>5, <1>6, Zenon

\* A leg changes one volume.
LEMMA LegMoves ==
    ASSUME NEW held, DOMAIN held = User, NEW t \in Trade, NEW leg, NEW user \in User,
           held[user].Volume \in Int
    PROVE  AfterLeg(held, leg, t)[user].Volume = held[user].Volume + By(leg, user, Convert(t.Quantity))
  <1> DEFINE q == Convert(t.Quantity)
  <1>1. q \in Nat
    BY TradeAssumption, ConvertFacts, Zenon
  <1>2. AfterLeg(held, leg, t)[user] = IF user = leg.User THEN Apply(leg, held[user], t) ELSE held[user]
    BY Zenon DEF AfterLeg
  <1>3. Apply(leg, held[user], t).Volume
          = IF leg.Side = "sell" THEN held[user].Volume - q ELSE held[user].Volume + q
    BY Zenon DEF Apply, SellPosition, BuyPosition
  <1> HIDE DEF q
  <1>4. CASE user = leg.User
    <2>1. AfterLeg(held, leg, t)[user].Volume
            = IF leg.Side = "sell" THEN held[user].Volume - q ELSE held[user].Volume + q
      BY <1>2, <1>3, <1>4, Zenon
    <2>2. By(leg, user, q) = IF leg.Side = "sell" THEN -q ELSE q
      BY <1>4, Zenon DEF By
    <2>3. AfterLeg(held, leg, t)[user].Volume = held[user].Volume + By(leg, user, q)
      BY <1>1, <2>1, <2>2, Zenon
    <2>. QED  BY <2>3, Zenon DEF q
  <1>5. CASE user # leg.User
    <2>1. AfterLeg(held, leg, t)[user].Volume = held[user].Volume /\ By(leg, user, q) = 0
      BY <1>2, <1>5, Zenon DEF By
    <2>2. AfterLeg(held, leg, t)[user].Volume = held[user].Volume + By(leg, user, q)
      BY <2>1
    <2>. QED  BY <2>2, Zenon DEF q
  <1>. QED  BY <1>4, <1>5, Zenon

\* The commit of the one process adds to the volumes what it adds to the sums.
LEMMA CommitMoves ==
    ASSUME TypeOK, TableInv, Alone, VolumesMatch, NEW i \in Active, Commit(i)
    PROVE  VolumesMatch'
  <1> DEFINE t == trade[i]
             q == Convert(t.Quantity)
             first == Legs(t)[1]
             second == Legs(t)[2]
             held == Held(positions)
             half == AfterLeg(held, first, t)
  <1>1. /\ t \in Trade /\ t \notin outbox
        /\ Held(positions') = AfterLeg(half, second, t)
        /\ outbox' = outbox \cup {t}
    BY CommitSettles, Zenon DEF TableInv, AloneInStep
  <1>2. DOMAIN held = User /\ DOMAIN half = User
    BY Zenon DEF Held, AfterLeg
  <1>3. q \in Nat
    BY <1>1, TradeAssumption, ConvertFacts, Zenon
  <1>4. Held(positions)' = Held(positions')
    BY Zenon DEF Held, Holding, FirstID
  <1>5. IsFiniteSet(Trade) /\ outbox \in SUBSET Trade
    BY FiniteAssumption, Zenon DEF TypeOK
  <1>6. ASSUME NEW h, DOMAIN h = User, NEW leg, NEW user \in User, h[user].Volume \in Int
        PROVE  AfterLeg(h, leg, t)[user].Volume = h[user].Volume + By(leg, user, q)
    <2> HIDE DEF t
    <2>. QED  BY <1>1, <1>6, LegMoves, Zenon
  <1>7. ASSUME NEW user \in User
        PROVE  Held(positions)'[user].Volume
                 = InitialPositions[user].Volume + SumFunctionOnSet(MovesOf(user), outbox')
    <2> DEFINE moves == MovesOf(user)
    <2>1. moves \in [Trade -> Int]
      <3>1. \A x \in Trade : moves[x] \in Int
        BY MoveIsLegs, Zenon
      <3>2. moves = [x \in Trade |-> moves[x]]
        BY Zenon DEF MovesOf
      <3> HIDE DEF moves
      <3>. QED  BY <3>1, <3>2, Zenon
    <2>2. InitialPositions[user].Volume \in Int
      BY InitialAssumption DEF Position
    <2> HIDE DEF moves
    <2>3. SumFunctionOnSet(moves, outbox) \in Int
      BY <1>5, <2>1, SumType, Zenon
    <2>4. held[user].Volume = InitialPositions[user].Volume + SumFunctionOnSet(moves, outbox)
      BY Zenon DEF VolumesMatch, moves
    <2>5. SumFunctionOnSet(moves, outbox') = moves[t] + SumFunctionOnSet(moves, outbox)
      <3>1. outbox' \in SUBSET Trade /\ t \in outbox' /\ outbox' \ {t} = outbox
        BY <1>1, <1>5, Zenon
      <3> HIDE DEF t
      <3>. QED  BY <1>5, <2>1, <3>1, SumWithout
    <2>6. moves[t] = By(first, user, q) + By(second, user, q)
      BY <1>1, MoveIsLegs, Zenon DEF moves
    <2>7. By(first, user, q) \in Int /\ By(second, user, q) \in Int
      BY <1>3, SMTT(20) DEF By
    <2>8. held[user].Volume \in Int
      BY <2>2, <2>3, <2>4, SMTT(20)
    <2>9. half[user].Volume = held[user].Volume + By(first, user, q)
      <3> HIDE DEF held, first, t, q
      <3>. QED  BY <1>2, <1>6, <2>8, Zenon
    <2>10. half[user].Volume \in Int
      <3> HIDE DEF half, held, first, q
      <3>. QED  BY <2>7, <2>8, <2>9
    <2>11. AfterLeg(half, second, t)[user].Volume = half[user].Volume + By(second, user, q)
      <3> HIDE DEF half, second, t, q
      <3>. QED  BY <1>2, <1>6, <2>10, Zenon
    <2>12. Held(positions)'[user].Volume = half[user].Volume + By(second, user, q)
      BY <1>1, <1>4, <2>11, Zenon
    <2> HIDE DEF half, held, first, second, q, t
    <2>13. Held(positions)'[user].Volume
             = InitialPositions[user].Volume + SumFunctionOnSet(moves, outbox')
      BY <2>2, <2>3, <2>4, <2>5, <2>6, <2>7, <2>9, <2>12, SMTT(20)
    <2>. QED  BY <2>13, Zenon DEF moves
  <1>8. \A user \in User : MovesOf(user)' = MovesOf(user)
    BY Zenon DEF MovesOf
  <1>. QED  BY <1>7, <1>8, Zenon DEF VolumesMatch

\* "业务数据更新和 outbox 条目在同一数据库事务内提交 ... 都持久化": with one process, the
\* volumes are at any moment the initial ones changed by exactly the trades
\* that have an outbox row, whatever failed, crashed or was delivered again,
\* for every finite set of trades and every table to start from.
THEOREM MatchesOutbox == Spec => []AlonePositionsMatchOutbox
  <1> DEFINE Matches == Alone => VolumesMatch
  <1>1. Init => Matches
    <2> SUFFICES ASSUME Init, NEW user \in User
                 PROVE  Held(positions)[user].Volume
                          = InitialPositions[user].Volume + SumFunctionOnSet(MovesOf(user), outbox)
      BY Zenon DEF VolumesMatch
    <2>1. Held(positions) = InitialPositions /\ outbox = {}
      BY InitHeld, Zenon DEF Init
    <2>2. SumFunctionOnSet(MovesOf(user), outbox) = 0
      BY <2>1, FS_EmptySet, SumRecursion, Zenon
    <2>3. InitialPositions[user].Volume \in Int
      BY InitialAssumption DEF Position
    <2>. QED  BY <2>1, <2>2, <2>3
  <1>2. TypeOK /\ TableInv /\ Matches /\ [Next]_vars => Matches'
    <2> SUFFICES ASSUME TypeOK, TableInv, Matches, [Next]_vars PROVE Matches'
      BY Zenon
    <2>1. ASSUME positions' = positions, outbox' = outbox, Alone' <=> Alone PROVE Matches'
      BY <2>1, Zenon DEF VolumesMatch, MovesOf, Held, Holding, FirstID
    <2>2. CASE UNCHANGED vars
      BY <2>1, <2>2, Zenon DEF vars, tables, Alone, Active, Dedup
    <2>3. ASSUME NEW i \in Active, Step(i) PROVE Matches'
      <3>1. ControlType /\ i \in Instance /\ Inv
        BY ActiveIsInstance, Zenon DEF TableInv, Inv
      <3>2. deployment' = deployment
        BY <2>3, <3>1, StepAlongside, Zenon DEF Alongside
      <3>3. Alone' <=> Alone
        BY <3>2, Zenon DEF Alone, Active, Dedup
      <3>4. CASE Alone /\ Commit(i)
        BY <3>4, CommitMoves, Zenon
      <3>5. CASE Alone /\ ~Commit(i)
        BY <2>1, <2>3, <3>1, <3>3, <3>5, OthersStutter, Zenon
      <3>. QED  BY <3>3, <3>4, <3>5, Zenon
    <2>. QED  BY <2>2, <2>3, Zenon DEF Next, Step
  <1>3. Matches => AlonePositionsMatchOutbox
    BY MatchIs, Zenon DEF AlonePositionsMatchOutbox
  <1>4. Spec => []TableInv
    BY Invariance, TableInvariance, AloneStep, PTL DEF Spec, TableInv
  <1>. QED  BY <1>1, <1>2, <1>3, <1>4, TypeCorrectness, PTL DEF Spec
=============================================================================
