------------------------- MODULE MatchEngineProofs -------------------------
(***************************************************************************)
(* Proofs about the path of an order through the engine, for any orders,   *)
(* symbols and queue sizes.  The inductive invariant is Inv.               *)
(***************************************************************************)
EXTENDS MatchEngine, TLAPS

\* The engine starts with no channel, no worker and no order.
LEMMA InitInv == Init => Inv
  <1> SUFFICES ASSUME Init PROVE Inv
    BY Zenon
  <1>1. TypeOK
    <2>1. worker \in [Order -> [state : {"none", "idle", "received", "trading"},
                               order : Order \cup {None}, trade : Seq(Order)]]
      BY DEF Init, NoWorker
    <2>2. items \in [Order -> Seq(Order)] /\ \A o \in Order : Len(items[o]) <= QueueSize
      BY BoundAssumption DEF Init
    <2>3. sent \in [Symbol -> Seq(Order)] /\ matched \in [Symbol -> Seq(Order)]
      BY DEF Init
    <2>4. NumbersOK
      BY DEF Init, NumbersOK
    <2>. QED  BY <2>1, <2>2, <2>3, <2>4, Zenon DEF Init, TypeOK
  <1>2. OneChannelOneWorker
    BY Zenon DEF Init, OneChannelOneWorker, Running, NoWorker
  <1>3. SentIsMatchedHeldQueued
    BY Zenon DEF Init, SentIsMatchedHeldQueued, InLine, InHand, NoWorker
  <1>4. OnlyAcceptedGoOn
    BY DEF Init, OnlyAcceptedGoOn, Submitting, InHand, NoWorker
  <1>5. NumbersApart
    BY DEF Init, NumbersApart, Symbol
  <1>. QED  BY <1>1, <1>2, <1>3, <1>4, <1>5, Zenon DEF Inv

\* Every step keeps the types of the state.
LEMMA TypeStep ==
    ASSUME Inv, [Next]_vars
    PROVE  TypeOK'
  <1> USE DEF Inv, TypeOK, client, queues, books, numbers
  <1>s. \A o \in Order : SymbolOf[o] \in Symbol
    BY Zenon DEF Symbol
  <1>n. numbers' = numbers => NumbersOK'
    BY Zenon DEF NumbersOK
  <1>1. ASSUME NEW o \in Order, CreateOrder(o) PROVE TypeOK'
    BY <1>1, <1>n, Zenon DEF CreateOrder, Respond
  <1>14. ASSUME NEW o \in Order, SubmitOrder(o) PROVE TypeOK'
    <2>1. NumbersOK'
      <3> HIDE DEF Inv, TypeOK
      <3>1. NumbersOK
        BY Zenon DEF Inv, TypeOK
      <3>2. CASE UNCHANGED numbers
        BY <3>1, <3>2, Zenon DEF NumbersOK, numbers
      <3>3. CASE /\ drawn' = [drawn EXCEPT ![SymbolOf[o]] = @ + 1]
                 /\ seq' = [seq EXCEPT ![o] = drawn[SymbolOf[o]] + 1]
                 /\ UNCHANGED <<tradeSeq, lastSeq>>
        BY <1>s, <3>1, <3>3 DEF NumbersOK
      <3>. QED  BY <1>14, <3>2, <3>3, Zenon DEF SubmitOrder, numbers
    <2>. QED  BY <1>14, <2>1, Zenon DEF SubmitOrder, Respond
  <1>2. ASSUME NEW o \in Order, ProcessEvent(o) PROVE TypeOK'
    <2>1. /\ row' \in [Order -> {"none", "submitted", "active", "cancelled"}]
          /\ NumbersOK'
      <3>1. CASE UNCHANGED <<row, lastSeq>>
        BY <1>2, <3>1, Zenon DEF ProcessEvent, NumbersOK
      <3>2. CASE Inserts(o)
        <4>1. row' \in [Order -> {"none", "submitted", "active", "cancelled"}]
          BY <3>2, Zenon DEF Inserts, HandleOrderSubmitted
        <4>2. lastSeq' \in [Symbol -> Nat]
          BY <1>s, <3>2, Zenon DEF Inserts, NumbersOK
        <4>. QED  BY <1>2, <4>1, <4>2, Zenon DEF ProcessEvent, NumbersOK
      <3>. QED  BY <1>2, <3>1, <3>2, Zenon DEF ProcessEvent, SkipsDuplicate
    <2>. QED  BY <1>2, <2>1, Zenon DEF ProcessEvent, Respond
  <1>15. ASSUME NEW o \in Order, AppendEventFails(o) \/ ProcessEventPanics(o) PROVE TypeOK'
    BY <1>15, <1>n, Zenon DEF AppendEventFails, ProcessEventPanics, Respond
  <1>3. ASSUME NEW o \in Order, LoadQueue(o) PROVE TypeOK'
    BY <1>3, <1>n, <1>s, Zenon DEF LoadQueue
  <1>4. ASSUME NEW o \in Order, LoadBook(o) PROVE TypeOK'
    BY <1>4, <1>n, <1>s DEF LoadBook, Idle
  <1>5. ASSUME NEW o \in Order, EnqueueOrder(o) PROVE TypeOK'
    <2>1. queue[o] \in Order
      BY <1>5 DEF EnqueueOrder, OneChannelOneWorker
    <2>2. CASE UNCHANGED <<items, sent>>
      BY <1>5, <1>n, <2>2, Zenon DEF EnqueueOrder, Respond
    <2>3. CASE /\ Len(items[queue[o]]) < QueueSize
               /\ items' = [items EXCEPT ![queue[o]] = Append(@, o)]
               /\ sent' = [sent EXCEPT ![SymbolOf[o]] = Append(@, o)]
      <3>1. items' \in [Order -> Seq(Order)] /\ sent' \in [Symbol -> Seq(Order)]
        BY <1>s, <2>1, <2>3
      <3>2. \A q \in Order : Len(items'[q]) <= QueueSize
        BY <2>1, <2>3, BoundAssumption
      <3>. QED  BY <1>5, <1>n, <3>1, <3>2, Zenon DEF EnqueueOrder, Respond
    <2>. QED  BY <1>5, <2>2, <2>3, Zenon DEF EnqueueOrder
  <1>6. ASSUME NEW o \in Order, CancelOrder(o) PROVE TypeOK'
    BY <1>6, <1>n, Zenon DEF CancelOrder
  <1>7. ASSUME NEW w \in Order, Receive(w) PROVE TypeOK'
    <2>1. queue[w] \in Order /\ items[queue[w]] # <<>> /\ items[queue[w]] \in Seq(Order)
      BY <1>7 DEF Receive, OneChannelOneWorker, Running
    <2>2. Head(items[queue[w]]) \in Order /\ Tail(items[queue[w]]) \in Seq(Order)
          /\ Len(Tail(items[queue[w]])) <= QueueSize
      BY <2>1, BoundAssumption
    <2>3. worker' \in [Order -> [state : {"none", "idle", "received", "trading"},
                                order : Order \cup {None}, trade : Seq(Order)]]
      BY <1>7, <2>2 DEF Receive
    <2>4. items' \in [Order -> Seq(Order)] /\ \A q \in Order : Len(items'[q]) <= QueueSize
      BY <1>7, <2>1, <2>2, Zenon DEF Receive
    <2>. QED  BY <1>7, <1>n, <2>3, <2>4, Zenon DEF Receive
  <1>8. ASSUME NEW w \in Order, ProcessOrder(w) PROVE TypeOK'
    <2> DEFINE o == worker[w].order
    <2>1. o \in Order /\ SymbolOf[o] \in Symbol
      BY <1>8, <1>s, Zenon DEF ProcessOrder, OnlyAcceptedGoOn, InHand, Accepted
    <2>2. matched' \in [Symbol -> Seq(Order)]
      BY <1>8, <2>1 DEF ProcessOrder
    <2>3. /\ book' \subseteq Order /\ trades' \subseteq Order \X Order /\ trades \subseteq trades'
          /\ worker' \in [Order -> [state : {"none", "idle", "received", "trading"},
                                   order : Order \cup {None}, trade : Seq(Order)]]
      <3>1. CASE /\ book' = book \cup {o}
                 /\ worker' = [worker EXCEPT ![w] = Idle]
                 /\ UNCHANGED trades
        BY <2>1, <3>1 DEF Idle
      <3>2. ASSUME NEW m \in book,
                   trades' = trades \cup {<<m, o>>},
                   book' \in {book, book \ {m}, (book \ {m}) \cup {o}},
                   worker' = [worker EXCEPT ![w] =
                                [state |-> "trading", order |-> o, trade |-> <<m, o>>]]
            PROVE  <2>3!:
        <4> HIDE DEF o
        <4>1. m \in Order /\ <<m, o>> \in Order \X Order /\ <<m, o>> \in Seq(Order)
          BY <2>1, <3>2
        <4>2. book' \subseteq Order
          BY <2>1, <3>2, Zenon
        <4>. QED  BY <2>1, <3>2, <4>1, <4>2, Zenon
      <3>. QED  BY <1>8, <3>1, <3>2, Zenon DEF ProcessOrder
    <2>4. NumbersOK'
      <3>1. \/ UNCHANGED <<drawn, tradeSeq>>
            \/ /\ drawn' = [drawn EXCEPT ![SymbolOf[o]] = @ + 1]
               /\ tradeSeq' = [tradeSeq EXCEPT ![SymbolOf[o]] = drawn[SymbolOf[o]] + 1]
        BY <1>8, Zenon DEF ProcessOrder
      <3> HIDE DEF Inv, TypeOK, o
      <3>2. NumbersOK /\ UNCHANGED <<seq, lastSeq>>
        BY <1>8, Zenon DEF Inv, TypeOK, ProcessOrder
      <3>. QED  BY <2>1, <3>1, <3>2 DEF NumbersOK
    <2>. QED  BY <1>8, <2>2, <2>3, <2>4, Zenon DEF ProcessOrder
  <1>9. ASSUME NEW w \in Order, ReportTrade(w) PROVE TypeOK'
    <2>1. worker' \in [Order -> [state : {"none", "idle", "received", "trading"},
                                order : Order \cup {None}, trade : Seq(Order)]]
      BY <1>9 DEF ReportTrade, Idle
    <2>2. NumbersOK'
      <3>1. \/ lastSeq' = lastSeq
            \/ lastSeq' = [lastSeq EXCEPT ![SymbolOf[w]] = tradeSeq[SymbolOf[w]]]
        BY <1>9, Zenon DEF ReportTrade
      <3>2. NumbersOK /\ UNCHANGED <<drawn, seq, tradeSeq>>
        BY <1>9, Zenon DEF ReportTrade
      <3> HIDE DEF Inv, TypeOK
      <3>3. lastSeq' \in [Symbol -> Nat]
        BY <1>s, <3>1, <3>2 DEF NumbersOK
      <3>. QED  BY <3>2, <3>3, Zenon DEF NumbersOK
    <2>. QED  BY <1>9, <2>1, <2>2, Zenon DEF ReportTrade
  <1>10. ASSUME NEW w \in Order, WorkerStops(w) PROVE TypeOK'
    BY <1>10, <1>n DEF WorkerStops, NoWorker
  <1>11. ASSUME NEW s \in Moving, WatchPartitionChange(s) PROVE TypeOK'
    BY <1>11, <1>n, MovingAssumption, Zenon DEF WatchPartitionChange
  <1>12. CASE Shutdown
    BY <1>12, <1>n, Zenon DEF Shutdown
  <1>13. CASE UNCHANGED vars
    BY <1>13, <1>n, Zenon DEF vars
  <1>. QED
    BY <1>1, <1>2, <1>3, <1>4, <1>5, <1>6, <1>7, <1>8, <1>9, <1>10, <1>11, <1>12, <1>13,
       <1>14, <1>15, Zenon
    DEF Next, Submission, Worker

\* However submissions race for the first channel and the first book of a
\* symbol, they get one channel and one worker.
LEMMA ChannelStep ==
    ASSUME Inv, [Next]_vars
    PROVE  OneChannelOneWorker'
  <1> USE DEF Inv, OneChannelOneWorker, Running
  <1>t. TypeOK
    BY Zenon
  <1>s. \A o \in Order : SymbolOf[o] \in Symbol
    BY Zenon DEF Symbol
  <1>1. ASSUME NEW o \in Order, CreateOrder(o) \/ SubmitOrder(o) \/ ProcessEvent(o)
                                \/ AppendEventFails(o) \/ ProcessEventPanics(o)
                                \/ EnqueueOrder(o)
        PROVE  OneChannelOneWorker'
    <2>1. UNCHANGED <<orderQueues, queue, worker, orderBooks>>
      BY <1>1, Zenon DEF CreateOrder, SubmitOrder, ProcessEvent, AppendEventFails,
                         ProcessEventPanics, EnqueueOrder, queues
    <2>2. \A u \in Order : pc'[u] \in {"book", "send"} => pc[u] \in {"book", "send"}
      <3>1. pc' = pc \/ \E v \in {"event", "queue", "done"} : pc' = [pc EXCEPT ![o] = v]
        BY <1>1, Zenon DEF CreateOrder, SubmitOrder, ProcessEvent, AppendEventFails,
                           ProcessEventPanics, EnqueueOrder, Respond
      <3>2. pc \in [Order -> {"new", "event", "queue", "book", "send", "done"}]
        BY <1>t, Zenon DEF TypeOK
      <3>. QED  BY <3>1, <3>2
    <2>3. \A u \in Order : items'[u] # <<>> => items[u] # <<>> \/ u = orderQueues[SymbolOf[u]]
      <3>1. CASE items' = items
        BY <3>1, Zenon
      <3>2. CASE pc[o] = "send" /\ items' = [items EXCEPT ![queue[o]] = Append(@, o)]
        <4>1. /\ queue[o] = orderQueues[SymbolOf[o]] /\ queue[o] # None
              /\ SymbolOf[queue[o]] = SymbolOf[o]
          BY <1>s, <3>2, Zenon
        <4>2. \A u \in Order : items'[u] = items[u] \/ u = queue[o]
          BY <1>t, <3>2, Zenon DEF TypeOK
        <4>. QED  BY <4>1, <4>2, Zenon
      <3>. QED  BY <1>1, <3>1, <3>2, Zenon
                DEF CreateOrder, SubmitOrder, ProcessEvent, AppendEventFails,
                    ProcessEventPanics, EnqueueOrder, queues
    <2>. QED  BY <2>1, <2>2, <2>3, Zenon
  <1>2. ASSUME NEW o \in Order, LoadQueue(o) PROVE OneChannelOneWorker'
    <2> DEFINE s == SymbolOf[o]
    <2>1. /\ worker' = worker /\ orderBooks' = orderBooks /\ items' = items
          /\ pc' = [pc EXCEPT ![o] = "book"]
          /\ orderQueues' = [orderQueues EXCEPT ![s] = IF @ = None THEN o ELSE @]
          /\ queue' = [queue EXCEPT ![o] = orderQueues'[s]]
      BY <1>2, Zenon DEF LoadQueue
    <2>2. /\ orderQueues'[s] # None /\ SymbolOf[orderQueues'[s]] = s
          /\ queue'[o] = orderQueues'[s]
          /\ \A r \in Symbol : orderQueues[r] # None \/ r # s => orderQueues'[r] = orderQueues[r]
          /\ \A u \in Order \ {o} : queue'[u] = queue[u] /\ pc'[u] = pc[u]
      BY <1>s, <1>t, <2>1, NoneAssumption DEF TypeOK
    <2>3. \A u \in Order : items'[u] # <<>> => u = orderQueues'[SymbolOf[u]]
      BY <1>s, <2>1, <2>2, NoneAssumption DEF Symbol
    <2>. QED  BY <1>s, <2>1, <2>2, <2>3
  <1>3. ASSUME NEW o \in Order, LoadBook(o) PROVE OneChannelOneWorker'
    <2>1. /\ orderQueues' = orderQueues /\ queue' = queue /\ items' = items /\ queue[o] # None
          /\ orderBooks' = orderBooks \cup {SymbolOf[o]}
          /\ \A u \in Order : pc'[u] \in {"book", "send"} => pc[u] \in {"book", "send"}
      BY <1>3, <1>t, Zenon DEF LoadBook, queues, TypeOK
    <2>2. CASE SymbolOf[o] \in orderBooks
      BY <1>3, <2>1, <2>2, Zenon DEF LoadBook
    <2>3. CASE SymbolOf[o] \notin orderBooks
      <3>1. \A w \in Order : Running(w)' => w = o \/ Running(w)
        BY <1>3, <1>t, <2>3, Zenon DEF LoadBook, TypeOK
      <3>2. \A w \in Order : Running(w) => SymbolOf[w] # SymbolOf[o]
        BY <2>3, Zenon
      <3>. QED  BY <2>1, <3>1, <3>2
    <2>. QED  BY <2>2, <2>3, Zenon
  <1>4. ASSUME NEW w \in Order, Receive(w) \/ ProcessOrder(w) \/ ReportTrade(w)
                                \/ WorkerStops(w)
        PROVE  OneChannelOneWorker'
    <2>1. UNCHANGED <<orderQueues, queue, orderBooks, pc>>
      BY <1>4, Zenon DEF Receive, ProcessOrder, ReportTrade, WorkerStops, queues, client
    <2>2. \A u \in Order : Running(u)' => Running(u)
      <3>1. Running(w)
        BY <1>4, Zenon DEF Receive, ProcessOrder, ReportTrade, WorkerStops, Running
      <3>2. \E r : worker' = [worker EXCEPT ![w] = r]
        BY <1>4, Zenon DEF Receive, ProcessOrder, ReportTrade, WorkerStops
      <3>3. \A u \in Order : u # w => worker'[u] = worker[u]
        BY <1>t, <3>2, Zenon DEF TypeOK
      <3>. QED  BY <3>1, <3>3, Zenon DEF Running
    <2>3. \A u \in Order : items'[u] # <<>> => items[u] # <<>>
      <3>1. CASE items' = items
        BY <3>1, Zenon
      <3>2. CASE Receive(w)
        BY <3>2, <1>t, Zenon DEF Receive, TypeOK
      <3>. QED  BY <1>4, <3>1, <3>2, Zenon DEF ProcessOrder, ReportTrade, WorkerStops, queues
    <2>. QED  BY <2>1, <2>2, <2>3, Zenon
  <1>5. ASSUME UNCHANGED <<orderQueues, queue, items, orderBooks, pc, worker>>
        PROVE  OneChannelOneWorker'
    BY <1>5, Zenon
  <1>6. ASSUME NEW o \in Order, CancelOrder(o) PROVE OneChannelOneWorker'
    BY <1>5, <1>6, Zenon DEF CancelOrder, queues
  <1>7. CASE Shutdown \/ (\E s \in Moving : WatchPartitionChange(s)) \/ UNCHANGED vars
    BY <1>5, <1>7, Zenon DEF Shutdown, WatchPartitionChange, vars, queues, client
  <1>. QED
    BY <1>1, <1>2, <1>3, <1>4, <1>6, <1>7, Zenon DEF Next, Submission, Worker

\* The sequencer and DatabaseProcessor go up: the last number processed is never
\* lowered, and a submission under way keeps its number.
LEMMA NumbersGrow ==
    ASSUME Inv, [Next]_vars
    PROVE  /\ \A s \in Symbol : lastSeq[s] <= lastSeq'[s]
           /\ \A o \in Order : pc[o] # "new" => seq'[o] = seq[o]
  <1>t. TypeOK
    BY Zenon DEF Inv
  <1>0. /\ \A s \in Symbol : lastSeq[s] \in Nat
        /\ seq \in [Order -> Nat] /\ lastSeq \in [Symbol -> Nat]
        /\ \A o \in Order : SymbolOf[o] \in Symbol
    BY <1>t, Zenon DEF TypeOK, NumbersOK, Symbol
  <1>1. ASSUME NEW o \in Order, SubmitOrder(o) 
        PROVE  /\ \A s \in Symbol : lastSeq[s] <= lastSeq'[s]
               /\ \A u \in Order : pc[u] # "new" => seq'[u] = seq[u]
    <2>1. lastSeq' = lastSeq /\ pc[o] = "new" /\ \A u \in Order \ {o} : seq'[u] = seq[u]
      BY <1>0, <1>1, Zenon DEF SubmitOrder
    <2>. QED  BY <1>0, <2>1
  <1>2. ASSUME NEW o \in Order, ProcessEvent(o)
        PROVE  /\ \A s \in Symbol : lastSeq[s] <= lastSeq'[s]
               /\ seq' = seq
    <2>1. CASE UNCHANGED lastSeq
      BY <1>0, <1>2, <2>1 DEF ProcessEvent
    <2>2. CASE Inserts(o)
      BY <1>0, <1>2, <2>2 DEF ProcessEvent, Inserts
    <2>. QED  BY <1>2, <2>1, <2>2, Zenon DEF ProcessEvent, SkipsDuplicate
  <1>3. ASSUME NEW w \in Order, ReportTrade(w)
        PROVE  /\ \A s \in Symbol : lastSeq[s] <= lastSeq'[s]
               /\ seq' = seq
    <2>1. tradeSeq[SymbolOf[w]] \in Nat
      BY <1>0, <1>t, Zenon DEF TypeOK, NumbersOK
    <2>. QED  BY <1>0, <1>3, <2>1 DEF ReportTrade
  <1>4. CASE UNCHANGED <<lastSeq, seq>>
    BY <1>0, <1>4
  <1>. QED  BY <1>1, <1>2, <1>3, <1>4, Zenon
            DEF Next, Submission, Worker, vars, numbers, CreateOrder, AppendEventFails,
                ProcessEventPanics, LoadQueue, LoadBook, EnqueueOrder, CancelOrder, Receive,
                ProcessOrder, WorkerStops, WatchPartitionChange, Shutdown

\* Every number is drawn once, by an order or a trade.
LEMMA NumbersStep ==
    ASSUME Inv, [Next]_vars
    PROVE  NumbersApart'
  <1>t. TypeOK /\ TypeOK' /\ NumbersApart
    BY TypeStep, Zenon DEF Inv
  <1>0. /\ drawn \in [Symbol -> Nat] /\ seq \in [Order -> Nat]
        /\ tradeSeq \in [Symbol -> Nat] /\ lastSeq \in [Symbol -> Nat]
        /\ pc \in [Order -> {"new", "event", "queue", "book", "send", "done"}]
        /\ \A o \in Order : SymbolOf[o] \in Symbol
    BY <1>t, Zenon DEF TypeOK, NumbersOK, Symbol
  <1> USE DEF NumbersApart
  <1>1. ASSUME UNCHANGED <<drawn, seq, tradeSeq, lastSeq>>,
               \A o \in Order : pc'[o] = "event" => pc[o] = "event"
        PROVE  NumbersApart'
    BY <1>1, <1>t, Zenon
  <1>2. ASSUME NEW o \in Order, CreateOrder(o) \/ AppendEventFails(o) \/ ProcessEventPanics(o)
                                \/ LoadQueue(o) \/ LoadBook(o) \/ EnqueueOrder(o)
        PROVE  NumbersApart'
    <2>1. UNCHANGED <<drawn, seq, tradeSeq, lastSeq>>
      BY <1>2, Zenon DEF CreateOrder, AppendEventFails, ProcessEventPanics, LoadQueue, LoadBook,
                         EnqueueOrder, numbers
    <2>2. \A u \in Order : pc'[u] = "event" => pc[u] = "event"
      BY <1>0, <1>2, Zenon DEF CreateOrder, AppendEventFails, ProcessEventPanics, LoadQueue,
                               LoadBook, EnqueueOrder, Respond
    <2>. QED  BY <1>1, <2>1, <2>2, Zenon
  <1>3. ASSUME NEW o \in Order, SubmitOrder(o) PROVE NumbersApart'
    <2>1. CASE SymbolOf[o] \notin watched
      <3>1. UNCHANGED <<drawn, seq, tradeSeq, lastSeq>>
        BY <1>3, <2>1, Zenon DEF SubmitOrder
      <3>2. \A u \in Order : pc'[u] = "event" => pc[u] = "event"
        BY <1>0, <1>3, <2>1, Zenon DEF SubmitOrder, Respond
      <3>. QED  BY <1>1, <3>1, <3>2, Zenon
    <2>2. CASE SymbolOf[o] \in watched
      <3>1. /\ drawn' = [drawn EXCEPT ![SymbolOf[o]] = @ + 1]
            /\ seq' = [seq EXCEPT ![o] = drawn[SymbolOf[o]] + 1]
            /\ pc' = [pc EXCEPT ![o] = "event"]
            /\ UNCHANGED <<tradeSeq, lastSeq>>
        BY <1>3, <2>2, Zenon DEF SubmitOrder
      <3>2. /\ seq'[o] = drawn[SymbolOf[o]] + 1
            /\ \A u \in Order \ {o} : seq'[u] = seq[u] /\ pc'[u] = pc[u]
            /\ drawn'[SymbolOf[o]] = drawn[SymbolOf[o]] + 1
            /\ \A s \in Symbol \ {SymbolOf[o]} : drawn'[s] = drawn[s]
        BY <1>0, <3>1, Zenon
      <3>3. \A s \in Symbol : /\ drawn[s] \in Nat /\ drawn'[s] >= drawn[s]
                              /\ lastSeq[s] \in Nat /\ tradeSeq[s] \in Nat
        BY <1>0, <3>2
      <3>4. \A u \in Order : seq[u] \in Nat
        BY <1>0, Zenon
      <3>5. /\ \A s \in Symbol : lastSeq'[s] <= drawn'[s] /\ tradeSeq'[s] <= drawn'[s]
            /\ \A u \in Order : SymbolOf[u] = SymbolOf[o] => seq[u] < seq'[o]
            /\ lastSeq[SymbolOf[o]] < seq'[o] /\ tradeSeq[SymbolOf[o]] < seq'[o]
        BY <1>0, <1>t, <3>1, <3>2, <3>3, <3>4
      <3>6. \A u \in Order : seq'[u] <= drawn'[SymbolOf[u]]
        BY <1>0, <1>t, <3>2, <3>3, <3>4
      <3>7. ASSUME NEW u \in Order, pc'[u] = "event"
            PROVE  /\ seq'[u] # lastSeq'[SymbolOf[u]] /\ seq'[u] # tradeSeq'[SymbolOf[u]]
                   /\ \A p \in Order \ {u} : SymbolOf[p] = SymbolOf[u] => seq'[p] # seq'[u]
        <4>1. CASE u = o
          BY <1>0, <3>1, <3>2, <3>3, <3>4, <3>5, <4>1
        <4>2. CASE u # o
          BY <1>0, <1>t, <3>1, <3>2, <3>3, <3>4, <3>5, <3>7, <4>2
        <4>. QED  BY <4>1, <4>2, Zenon
      <3>. QED  BY <3>5, <3>6, <3>7, Zenon
    <2>. QED  BY <2>1, <2>2, Zenon
  <1>4. ASSUME NEW o \in Order, ProcessEvent(o) PROVE NumbersApart'
    <2>1. /\ pc[o] = "event" /\ pc'[o] # "event"
          /\ \A u \in Order \ {o} : pc'[u] = pc[u]
          /\ UNCHANGED <<drawn, seq, tradeSeq>>
      BY <1>0, <1>4 DEF ProcessEvent, Respond
    <2>2. CASE UNCHANGED lastSeq
      BY <1>1, <2>1, <2>2, Zenon
    <2>3. CASE Inserts(o)
      <3>1. /\ lastSeq'[SymbolOf[o]] = seq[o]
            /\ \A s \in Symbol \ {SymbolOf[o]} : lastSeq'[s] = lastSeq[s]
        BY <1>0, <2>3, Zenon DEF Inserts
      <3>2. \A u \in Order : pc'[u] = "event" => u # o /\ pc[u] = "event"
        BY <2>1, Zenon
      <3>3. \A u \in Order : pc'[u] = "event" => seq[u] # lastSeq'[SymbolOf[u]]
        <4> SUFFICES ASSUME NEW u \in Order, pc'[u] = "event"
                     PROVE  seq[u] # lastSeq'[SymbolOf[u]]
          BY Zenon
        <4>1. CASE SymbolOf[u] = SymbolOf[o]
          <5>1. pc[u] = "event" /\ o \in Order \ {u}
            BY <3>2, Zenon
          <5>2. seq[o] # seq[u]
            BY <1>t, <4>1, <5>1, Zenon
          <5>. QED  BY <3>1, <4>1, <5>2, Zenon
        <4>2. CASE SymbolOf[u] # SymbolOf[o]
          BY <1>0, <1>t, <3>1, <3>2, <4>2, Zenon
        <4>. QED  BY <4>1, <4>2, Zenon
      <3>4. \A s \in Symbol : lastSeq'[s] <= drawn[s]
        BY <1>0, <1>t, <3>1, Zenon
      <3>. QED  BY <1>t, <2>1, <3>2, <3>3, <3>4, Zenon
    <2>. QED  BY <1>4, <2>2, <2>3, Zenon DEF ProcessEvent, SkipsDuplicate
  <1>5. ASSUME NEW w \in Order, ProcessOrder(w) PROVE NumbersApart'
    <2> DEFINE s == SymbolOf[worker[w].order]
    <2>1. UNCHANGED <<seq, lastSeq, pc>>
      BY <1>5, Zenon DEF ProcessOrder, client
    <2>2. CASE UNCHANGED <<drawn, tradeSeq>>
      BY <1>1, <2>1, <2>2, Zenon
    <2>3. CASE /\ drawn' = [drawn EXCEPT ![s] = @ + 1]
               /\ tradeSeq' = [tradeSeq EXCEPT ![s] = drawn[s] + 1]
      <3>1. s \in Symbol
        BY <1>0, <1>5, Zenon DEF ProcessOrder, Inv, OnlyAcceptedGoOn, InHand, Accepted, TypeOK
      <3> HIDE DEF s
      <3>2. /\ drawn'[s] = drawn[s] + 1 /\ tradeSeq'[s] = drawn[s] + 1
            /\ \A r \in Symbol \ {s} : drawn'[r] = drawn[r] /\ tradeSeq'[r] = tradeSeq[r]
        BY <1>0, <2>3, <3>1, Zenon
      <3>3. \A r \in Symbol : drawn[r] \in Nat /\ lastSeq[r] \in Nat /\ tradeSeq[r] \in Nat
        BY <1>0, Zenon
      <3>4. \A u \in Order : seq[u] \in Nat
        BY <1>0, Zenon
      <3>5. \A r \in Symbol : lastSeq[r] <= drawn'[r] /\ tradeSeq'[r] <= drawn'[r]
        BY <1>t, <3>1, <3>2, <3>3
      <3>6. \A u \in Order : /\ seq[u] <= drawn'[SymbolOf[u]]
                             /\ pc[u] = "event" => seq[u] # tradeSeq'[SymbolOf[u]]
        BY <1>0, <1>t, <3>1, <3>2, <3>3, <3>4
      <3>. QED  BY <1>t, <2>1, <3>5, <3>6, Zenon
    <2>. QED  BY <1>5, <2>2, <2>3, Zenon DEF ProcessOrder
  <1>6. ASSUME NEW w \in Order, ReportTrade(w) PROVE NumbersApart'
    <2>1. UNCHANGED <<drawn, seq, tradeSeq, pc>>
      BY <1>6, Zenon DEF ReportTrade, client
    <2>2. \A s \in Symbol : lastSeq'[s] = lastSeq[s] \/ lastSeq'[s] = tradeSeq[s]
      BY <1>0, <1>6, Zenon DEF ReportTrade
    <2>. QED  BY <1>0, <1>t, <2>1, <2>2, Zenon
  <1>7. ASSUME UNCHANGED <<numbers, pc>> PROVE NumbersApart'
    BY <1>1, <1>7, Zenon DEF numbers
  <1>. QED  BY <1>2, <1>3, <1>4, <1>5, <1>6, <1>7, Zenon
            DEF Next, Submission, Worker, vars, client, CancelOrder, Receive, WorkerStops,
                WatchPartitionChange, Shutdown

\* A row is never taken back, and an order that was overtaken stays overtaken.
LEMMA RowStep ==
    ASSUME Inv, [Next]_vars, NEW a \in Order, pc[a] # "new", HasRow(a)
    PROVE  HasRow(a)'
  <1>1. /\ SymbolOf[a] \in Symbol /\ seq[a] \in Nat /\ seq'[a] = seq[a]
        /\ lastSeq[SymbolOf[a]] \in Nat /\ lastSeq'[SymbolOf[a]] \in Nat
        /\ lastSeq[SymbolOf[a]] <= lastSeq'[SymbolOf[a]]
    BY NumbersGrow, TypeStep, Zenon DEF Inv, TypeOK, NumbersOK, Symbol
  <1>2. Overtaken(a) => Overtaken(a)'
    BY <1>1 DEF Overtaken
  <1>3. row[a] # "none" => row'[a] # "none"
    <2>1. row \in [Order -> {"none", "submitted", "active", "cancelled"}]
      BY Zenon DEF Inv, TypeOK
    <2>2. ASSUME NEW o \in Order, row' = [row EXCEPT ![o] = "active"] \/ HandleOrderSubmitted(o)
                                      \/ row' = [row EXCEPT ![o] = "cancelled"]
          PROVE  row[a] # "none" => row'[a] # "none"
      BY <2>1, <2>2, Zenon DEF HandleOrderSubmitted
    <2>3. \/ row' = row
          \/ \E o \in Order : \/ row' = [row EXCEPT ![o] = "active"]
                             \/ HandleOrderSubmitted(o)
                             \/ row' = [row EXCEPT ![o] = "cancelled"]
      BY Zenon DEF Next, Submission, Worker, vars, client, CreateOrder, SubmitOrder, ProcessEvent,
             SkipsDuplicate, Inserts, AppendEventFails, ProcessEventPanics, LoadQueue, LoadBook,
             EnqueueOrder, CancelOrder, Receive, ProcessOrder, ReportTrade, WorkerStops,
             WatchPartitionChange, Shutdown
    <2>. QED  BY <2>2, <2>3, Zenon
  <1>. QED  BY <1>2, <1>3, Zenon DEF HasRow

\* An accepted order stays accepted: its submission is over, the log grows and
\* a row is never taken back.
LEMMA AcceptedStep ==
    ASSUME Inv, [Next]_vars
    PROVE  Accepted \subseteq Accepted'
  <1> SUFFICES ASSUME NEW a \in Accepted PROVE a \in Accepted'
    BY Zenon
  <1>t. TypeOK
    BY Zenon DEF Inv
  <1>a. a \in Order /\ a \in logged /\ pc[a] = "done" /\ answer[a] = "submitted"
    BY <1>t, Zenon DEF Accepted, TypeOK
  <1>h. HasRow(a)'
    BY <1>a, RowStep, Zenon DEF Accepted
  <1>1. pc'[a] = pc[a] /\ answer'[a] = answer[a] /\ logged \subseteq logged'
    <2>1. ASSUME NEW o \in Order, Submission(o) 
          PROVE  pc'[a] = pc[a] /\ answer'[a] = answer[a] /\ logged \subseteq logged'
      <3>1. o # a
        BY <1>a, <2>1, Zenon DEF Submission, CreateOrder, SubmitOrder, ProcessEvent,
               AppendEventFails, ProcessEventPanics, LoadQueue, LoadBook, EnqueueOrder
      <3>. QED
        BY <1>a, <1>t, <2>1, <3>1, Zenon DEF TypeOK, Submission, CreateOrder, SubmitOrder,
           ProcessEvent, AppendEventFails, ProcessEventPanics, LoadQueue, LoadBook, EnqueueOrder,
           Respond
    <2>2. CASE ~(\E o \in Order : Submission(o))
      BY <2>2, Zenon DEF Next, Worker, Receive, ProcessOrder, ReportTrade, WorkerStops, Shutdown,
                  WatchPartitionChange, CancelOrder, vars, client
    <2>. QED  BY <2>1, <2>2, Zenon
  <1>. QED  BY <1>1, <1>a, <1>h, Zenon DEF Accepted

\* Every order on the way to a trade was accepted: EnqueueOrder is reached only
\* after ProcessEvent succeeded, and it answers "submitted".
LEMMA AcceptedOnlyStep ==
    ASSUME Inv, [Next]_vars
    PROVE  OnlyAcceptedGoOn'
  <1>t. TypeOK /\ TypeOK' /\ OnlyAcceptedGoOn
    BY TypeStep, Zenon DEF Inv
  <1>a. Accepted \subseteq Accepted'
    BY AcceptedStep, Zenon
  <1>0. ASSUME UNCHANGED <<items, worker, book, trades>>,
               \A o \in Order : pc'[o] \in Submitting => o \in logged' /\ HasRow(o)'
        PROVE  OnlyAcceptedGoOn'
    BY <1>0, <1>a, <1>t, Zenon DEF OnlyAcceptedGoOn, InHand
  <1>h. ASSUME NEW u \in Order, pc[u] \in Submitting, logged \subseteq logged'
        PROVE  u \in logged' /\ HasRow(u)'
    BY <1>h, <1>t, RowStep, Zenon DEF OnlyAcceptedGoOn, Submitting
  <1>1. ASSUME NEW o \in Order, CreateOrder(o) \/ SubmitOrder(o) \/ AppendEventFails(o)
                                \/ ProcessEventPanics(o) \/ LoadQueue(o)
        PROVE  OnlyAcceptedGoOn'
    <2>1. UNCHANGED <<items, worker, book, trades>> /\ logged \subseteq logged'
      BY <1>1, Zenon DEF CreateOrder, SubmitOrder, AppendEventFails, ProcessEventPanics, LoadQueue,
                         queues, books
    <2>2. \A u \in Order : pc'[u] \in Submitting => pc[u] \in Submitting
      <3>1. \/ pc' = pc
            \/ \E v \in {"event", "done"} : pc' = [pc EXCEPT ![o] = v]
            \/ pc[o] = "queue" /\ pc' = [pc EXCEPT ![o] = "book"]
        BY <1>1, Zenon DEF CreateOrder, SubmitOrder, AppendEventFails, ProcessEventPanics,
                           LoadQueue, Respond
      <3>2. pc \in [Order -> {"new", "event", "queue", "book", "send", "done"}]
        BY <1>t, Zenon DEF TypeOK
      <3>. QED  BY <3>1, <3>2 DEF Submitting
    <2>. QED  BY <1>0, <1>h, <2>1, <2>2, Zenon
  <1>9. ASSUME NEW o \in Order, ProcessEvent(o) PROVE OnlyAcceptedGoOn'
    <2>1. UNCHANGED <<items, worker, book, trades>> /\ logged' = logged \cup {o}
      BY <1>9, Zenon DEF ProcessEvent, queues, books
    <2>2. \A u \in Order \ {o} : pc'[u] = pc[u]
      BY <1>9, <1>t, Zenon DEF ProcessEvent, Respond, TypeOK
    <2>3. pc'[o] \in Submitting => HasRow(o)'
      <3>0. /\ pc \in [Order -> {"new", "event", "queue", "book", "send", "done"}]
            /\ row \in [Order -> {"none", "submitted", "active", "cancelled"}]
        BY <1>t, Zenon DEF TypeOK
      <3>1. CASE Respond(o, "refused")
        BY <3>0, <3>1, Zenon DEF Respond, Submitting
      <3>2. CASE SkipsDuplicate(o)
        <4>1. /\ SymbolOf[o] \in Symbol /\ seq[o] \in Nat /\ lastSeq[SymbolOf[o]] \in Nat
              /\ seq[o] # lastSeq[SymbolOf[o]] /\ seq' = seq
          BY <1>9, <1>t, Zenon DEF ProcessEvent, Inv, NumbersApart, TypeOK, NumbersOK, Symbol
        <4>. QED  BY <3>2, <4>1 DEF SkipsDuplicate, HasRow, Overtaken
      <3>3. CASE Inserts(o)
        BY <3>0, <3>3, Zenon DEF Inserts, HandleOrderSubmitted, HasRow
      <3>. QED  BY <1>9, <3>1, <3>2, <3>3, Zenon DEF ProcessEvent
    <2>4. \A u \in Order : pc'[u] \in Submitting => u \in logged' /\ HasRow(u)'
      BY <1>h, <2>1, <2>2, <2>3, Zenon
    <2>. QED  BY <1>0, <2>1, <2>4, Zenon
  <1>2. ASSUME NEW o \in Order, LoadBook(o) PROVE OnlyAcceptedGoOn'
    <2>1. UNCHANGED <<items, book, trades, logged, row>>
      BY <1>2, Zenon DEF LoadBook, queues, books
    <2>2. \A u \in Order : pc'[u] \in Submitting => pc[u] \in Submitting
      BY <1>2, <1>t, Zenon DEF LoadBook, Submitting, TypeOK
    <2>3. \A w \in Order : worker'[w] = worker[w] \/ worker'[w] = Idle
      BY <1>2, <1>t DEF LoadBook, TypeOK
    <2>. QED  BY <1>a, <1>h, <1>t, <2>1, <2>2, <2>3 DEF OnlyAcceptedGoOn, InHand, Idle
  <1>3. ASSUME NEW o \in Order, EnqueueOrder(o) PROVE OnlyAcceptedGoOn'
    <2>1. UNCHANGED <<worker, book, trades, logged, row>>
      BY <1>3, Zenon DEF EnqueueOrder, books
    <2>2. \A u \in Order : pc'[u] \in Submitting => pc[u] \in Submitting
      BY <1>3, <1>t, Zenon DEF EnqueueOrder, Respond, Submitting, TypeOK
    <2>3. o \in Accepted'
      <3>1. o \in logged' /\ HasRow(o)'
        BY <1>3, <1>h, <2>1, Zenon DEF EnqueueOrder, Submitting
      <3>. QED  BY <1>3, <1>t, <3>1, Zenon DEF EnqueueOrder, Respond, TypeOK, Accepted
    <2>4. queue[o] \in Order /\ SymbolOf[queue[o]] = SymbolOf[o]
      <3>1. queue[o] \in Order /\ queue[o] = orderQueues[SymbolOf[o]]
        BY <1>3, <1>t DEF EnqueueOrder, OneChannelOneWorker, TypeOK, Inv
      <3>. QED  BY <3>1, NoneAssumption, Zenon DEF OneChannelOneWorker, Inv, Symbol
    <2>5. ASSUME NEW q \in Order, NEW i \in 1 .. Len(items'[q])
          PROVE  \/ items'[q][i] = o /\ q = queue[o]
                 \/ i \in 1 .. Len(items[q]) /\ items'[q][i] = items[q][i]
      <3>1. items[q] \in Seq(Order)
        BY <1>t, Zenon DEF TypeOK
      <3>2. items' = items \/ items' = [items EXCEPT ![queue[o]] = Append(@, o)]
        BY <1>3, Zenon DEF EnqueueOrder
      <3>3. items'[q] = items[q] \/ (q = queue[o] /\ items'[q] = Append(items[q], o))
        <4>1. items \in [Order -> Seq(Order)]
          BY <1>t, Zenon DEF TypeOK
        <4>. QED  BY <3>2, <4>1, Zenon
      <3>. QED  BY <2>5, <3>1, <3>3
    <2>6. ASSUME NEW q \in Order, NEW i \in 1 .. Len(items'[q])
          PROVE  items'[q][i] \in Accepted' /\ SymbolOf[items'[q][i]] = SymbolOf[q]
      BY <1>a, <1>t, <2>3, <2>4, <2>5, <2>6 DEF OnlyAcceptedGoOn
    <2>. QED  BY <1>a, <1>h, <1>t, <2>1, <2>2, <2>6 DEF OnlyAcceptedGoOn, InHand
  <1>4. ASSUME NEW w \in Order, Receive(w) PROVE OnlyAcceptedGoOn'
    <2>1. UNCHANGED <<book, trades, logged, row, pc>>
      BY <1>4, Zenon DEF Receive, books, client
    <2>2. /\ queue[w] \in Order /\ SymbolOf[queue[w]] = SymbolOf[w]
          /\ items[queue[w]] \in Seq(Order) /\ items[queue[w]] # <<>>
      <3>1. queue[w] \in Order /\ queue[w] = orderQueues[SymbolOf[w]]
        BY <1>4, <1>t DEF Receive, OneChannelOneWorker, TypeOK, Inv, Running
      <3>2. SymbolOf[queue[w]] = SymbolOf[w]
        BY <3>1, NoneAssumption, Zenon DEF OneChannelOneWorker, Inv, Symbol
      <3>. QED  BY <1>4, <1>t, <3>1, <3>2, Zenon DEF Receive, TypeOK
    <2>3. ASSUME NEW q \in Order, NEW i \in 1 .. Len(items'[q])
          PROVE  \E j \in 1 .. Len(items[q]) : items'[q][i] = items[q][j]
      <3>1. items[q] \in Seq(Order)
        BY <1>t, Zenon DEF TypeOK
      <3>2. CASE q = queue[w]
        <4>1. items'[q] = Tail(items[q])
          BY <1>4, <1>t, <3>2, Zenon DEF Receive, TypeOK
        <4>2. i + 1 \in 1 .. Len(items[q]) /\ items'[q][i] = items[q][i + 1]
          BY <2>2, <2>3, <3>1, <3>2, <4>1
        <4>. QED  BY <4>2, Zenon
      <3>3. CASE q # queue[w]
        BY <1>4, <1>t, <2>3, <3>3 DEF Receive, TypeOK
      <3>. QED  BY <3>2, <3>3, Zenon
    <2>4. ASSUME NEW q \in Order, NEW i \in 1 .. Len(items'[q])
          PROVE  items'[q][i] \in Accepted' /\ SymbolOf[items'[q][i]] = SymbolOf[q]
      BY <1>a, <1>t, <2>3, <2>4, SMTT(20) DEF OnlyAcceptedGoOn
    <2>5. /\ worker'[w].state = "received" /\ worker'[w].order = items[queue[w]][1]
          /\ 1 \in 1 .. Len(items[queue[w]])
          /\ \A u \in Order \ {w} : worker'[u] = worker[u]
      BY <1>4, <1>t, <2>2 DEF Receive, TypeOK
    <2>6. items[queue[w]][1] \in Accepted /\ SymbolOf[items[queue[w]][1]] = SymbolOf[w]
      BY <1>t, <2>2, <2>5, Zenon DEF OnlyAcceptedGoOn
    <2>7. \A u \in Order : InHand(u)' =>
             worker'[u].order \in Accepted' /\ SymbolOf[worker'[u].order] = SymbolOf[u]
      <3> SUFFICES ASSUME NEW u \in Order, InHand(u)'
                   PROVE  worker'[u].order \in Accepted' /\ SymbolOf[worker'[u].order] = SymbolOf[u]
        BY Zenon
      <3>1. CASE u = w
        BY <1>a, <2>5, <2>6, <3>1, Zenon
      <3>2. CASE u # w
        BY <1>a, <1>t, <2>5, <3>2, Zenon DEF OnlyAcceptedGoOn, InHand
      <3>. QED  BY <3>1, <3>2, Zenon
    <2>. QED  BY <1>a, <1>h, <1>t, <2>1, <2>4, <2>5, <2>7 DEF OnlyAcceptedGoOn
  <1>5. ASSUME NEW w \in Order, ProcessOrder(w) PROVE OnlyAcceptedGoOn'
    <2> DEFINE o == worker[w].order
    <2>1. UNCHANGED <<items, logged, row, pc>>
      BY <1>5, Zenon DEF ProcessOrder, queues, client
    <2>2. o \in Accepted
      BY <1>5, <1>t, Zenon DEF ProcessOrder, OnlyAcceptedGoOn, InHand
    <2>p. \/ book' = book \cup {o} /\ worker' = [worker EXCEPT ![w] = Idle] /\ trades' = trades
          \/ \E m \in book :
               /\ trades' = trades \cup {<<m, o>>}
               /\ book' \in {book, book \ {m}, (book \ {m}) \cup {o}}
               /\ worker' = [worker EXCEPT ![w] =
                     [state |-> "trading", order |-> o, trade |-> <<m, o>>]]
      BY <1>5, Zenon DEF ProcessOrder
    <2>w. worker \in [Order -> [state : {"none", "idle", "received", "trading"},
                               order : Order \cup {None}, trade : Seq(Order)]]
      BY <1>t, Zenon DEF TypeOK
    <2>3. book' \subseteq book \cup {o}
      BY <1>5, Zenon DEF ProcessOrder
    <2>4. /\ \A u \in Order \ {w} : worker'[u] = worker[u]
          /\ worker'[w].state # "received"
          /\ worker'[w].state = "trading" => worker'[w].trade \in trades'
      BY <2>p, <2>w DEF Idle
    <2>5. trades \subseteq trades' /\ trades' \subseteq trades \cup (book \X {o})
      BY <2>p
    <2> HIDE DEF o
    <2>6. trades' \subseteq Accepted' \X Accepted' /\ book' \subseteq Accepted'
      BY <1>a, <1>t, <2>2, <2>3, <2>5 DEF OnlyAcceptedGoOn
    <2>. QED  BY <1>a, <1>h, <1>t, <2>1, <2>4, <2>5, <2>6, Zenon DEF OnlyAcceptedGoOn, InHand
  <1>6. ASSUME NEW w \in Order, ReportTrade(w) \/ WorkerStops(w) PROVE OnlyAcceptedGoOn'
    <2>1. UNCHANGED <<items, book, trades, logged, row, pc>>
      BY <1>6, Zenon DEF ReportTrade, WorkerStops, queues, books, client
    <2>2. \A u \in Order : worker'[u] = worker[u] \/ worker'[u] \in {Idle, NoWorker}
      BY <1>6, <1>t DEF ReportTrade, WorkerStops, TypeOK
    <2>. QED
      BY <1>a, <1>h, <1>t, <2>1, <2>2 DEF OnlyAcceptedGoOn, InHand, Idle, NoWorker
  <1>7. ASSUME NEW o \in Order, CancelOrder(o) PROVE OnlyAcceptedGoOn'
    <2>1. UNCHANGED <<items, worker, book, trades, logged, pc>>
      BY <1>7, Zenon DEF CancelOrder, queues, books
    <2>. QED  BY <1>0, <1>h, <2>1, Zenon
  <1>8. CASE Shutdown \/ (\E s \in Moving : WatchPartitionChange(s)) \/ UNCHANGED vars
    <2>1. UNCHANGED <<items, worker, book, trades, logged, row, pc>>
      BY <1>8, Zenon DEF Shutdown, WatchPartitionChange, vars, queues, books, client
    <2>. QED  BY <1>0, <1>h, <2>1, Zenon
  <1>. QED
    BY <1>1, <1>2, <1>3, <1>4, <1>5, <1>6, <1>7, <1>8, <1>9, Zenon DEF Next, Submission, Worker

\* line is head, then n - Len(head) orders, then waiting.
EndsWith(line, head, n, waiting) ==
    /\ Len(line) = n + Len(waiting)
    /\ \A i \in 1 .. Len(head) : line[i] = head[i]
    /\ \A i \in 1 .. Len(waiting) : line[n + i] = waiting[i]

\* An order queued behind a line is the last of the line.
LEMMA Enqueued ==
    ASSUME NEW S, NEW line \in Seq(S), NEW head \in Seq(S), NEW waiting \in Seq(S), NEW e \in S,
           NEW n \in Nat, Len(head) <= n, EndsWith(line, head, n, waiting)
    PROVE  /\ EndsWith(Append(line, e), head, n, Append(waiting, e))
           /\ \A i \in 1 .. Len(line) : Append(line, e)[i] = line[i]
  <1>0. /\ Len(line) = n + Len(waiting)
        /\ \A i \in 1 .. Len(head) : line[i] = head[i]
        /\ \A i \in 1 .. Len(waiting) : line[n + i] = waiting[i]
    BY Zenon DEF EndsWith
  <1>1. Len(Append(line, e)) = Len(line) + 1 /\ Len(Append(waiting, e)) = Len(waiting) + 1
    OBVIOUS
  <1>2. \A i \in 1 .. Len(line) : Append(line, e)[i] = line[i]
    OBVIOUS
  <1>3. \A i \in 1 .. Len(waiting) : Append(waiting, e)[i] = waiting[i]
    OBVIOUS
  <1>4. Append(line, e)[Len(line) + 1] = e /\ Append(waiting, e)[Len(waiting) + 1] = e
    OBVIOUS
  <1>5. ASSUME NEW i \in 1 .. Len(waiting) + 1
        PROVE  Append(line, e)[n + i] = Append(waiting, e)[i]
    <2>1. CASE i = Len(waiting) + 1
      <3>1. n + i = Len(line) + 1
        BY <1>0, <2>1
      <3>. QED  BY <1>4, <2>1, <3>1, Zenon
    <2>2. CASE i \in 1 .. Len(waiting)
      <3>1. n + i \in 1 .. Len(line)
        BY <1>0, <2>2
      <3>. QED  BY <1>0, <1>2, <1>3, <2>2, <3>1, Zenon
    <2>3. i = Len(waiting) + 1 \/ i \in 1 .. Len(waiting)
      OBVIOUS
    <2>. QED  BY <2>1, <2>2, <2>3, Zenon
  <1>6. \A i \in 1 .. Len(head) : i \in 1 .. Len(line)
    BY <1>0
  <1>7. \A i \in 1 .. Len(head) : Append(line, e)[i] = head[i]
    BY <1>0, <1>2, <1>6, Zenon
  <1>8. Len(Append(line, e)) = n + Len(Append(waiting, e))
    BY <1>0, <1>1
  <1>9. \A i \in 1 .. Len(Append(waiting, e)) : Append(line, e)[n + i] = Append(waiting, e)[i]
    BY <1>1, <1>5, Zenon
  <1>. QED  BY <1>2, <1>7, <1>8, <1>9, Zenon DEF EndsWith

\* The first of the waiting orders is the next of the line, the others follow it.
LEMMA Received ==
    ASSUME NEW S, NEW line \in Seq(S), NEW waiting \in Seq(S), waiting # <<>>,
           NEW n \in Nat, Len(line) = n + Len(waiting),
           \A i \in 1 .. Len(waiting) : line[n + i] = waiting[i]
    PROVE  /\ line[n + 1] = Head(waiting)
           /\ Len(line) = n + 1 + Len(Tail(waiting))
           /\ \A i \in 1 .. Len(Tail(waiting)) : line[n + 1 + i] = Tail(waiting)[i]
  <1>1. /\ Len(waiting) \in Nat /\ Len(waiting) >= 1
        /\ Head(waiting) = waiting[1] /\ Len(Tail(waiting)) = Len(waiting) - 1
    OBVIOUS
  <1>2. ASSUME NEW i \in 1 .. Len(Tail(waiting))
        PROVE  line[n + 1 + i] = Tail(waiting)[i]
    <2>1. i + 1 \in 1 .. Len(waiting) /\ Tail(waiting)[i] = waiting[i + 1]
      BY <1>1
    <2>2. n + 1 + i = n + (i + 1)
      BY <1>1
    <2>. QED  BY <2>1, <2>2, Zenon
  <1>. QED  BY <1>1, <1>2

\* An order that is matched when it is the next of the line extends the head.
LEMMA Matched ==
    ASSUME NEW S, NEW line \in Seq(S), NEW head \in Seq(S), NEW e \in S,
           \A i \in 1 .. Len(head) : line[i] = head[i], line[Len(head) + 1] = e
    PROVE  /\ Len(Append(head, e)) = Len(head) + 1
           /\ \A i \in 1 .. Len(Append(head, e)) : line[i] = Append(head, e)[i]
  <1>1. Len(Append(head, e)) = Len(head) + 1
    OBVIOUS
  <1>2. \A i \in 1 .. Len(head) : Append(head, e)[i] = head[i]
    OBVIOUS
  <1>3. Append(head, e)[Len(head) + 1] = e
    OBVIOUS
  <1>. QED  BY <1>1, <1>2, <1>3

\* Queueing, receiving and matching move an order along the line and keep the
\* line as it is.
LEMMA SentStep ==
    ASSUME Inv, [Next]_vars
    PROVE  SentIsMatchedHeldQueued'
  <1>t. TypeOK /\ TypeOK' /\ OneChannelOneWorker
    BY TypeStep, Zenon DEF Inv
  <1>s. \A o \in Order : SymbolOf[o] \in Symbol
    BY Zenon DEF Symbol
  <1>i. items \in [Order -> Seq(Order)]
    BY <1>t, Zenon DEF TypeOK
  <1>l. \A s \in Symbol : InLine(s)
    BY Zenon DEF Inv, SentIsMatchedHeldQueued
  <1>0. ASSUME UNCHANGED <<items, sent, matched, orderQueues>>,
               \A w \in Order : InHand(w)' <=> InHand(w),
               \A w \in Order : InHand(w) => worker'[w].order = worker[w].order
        PROVE  SentIsMatchedHeldQueued'
    <2>1. \A s \in Symbol : Taken(s)' = Taken(s)
      BY <1>0, Zenon DEF Taken
    <2>. QED  BY <1>0, <1>l, <2>1, SMTT(20) DEF SentIsMatchedHeldQueued, InLine
  <1>1. ASSUME NEW o \in Order, LoadQueue(o) PROVE SentIsMatchedHeldQueued'
    <2>1. /\ UNCHANGED <<items, sent, matched, worker>>
          /\ orderQueues' = [orderQueues EXCEPT ![SymbolOf[o]] = IF @ = None THEN o ELSE @]
      BY <1>1, Zenon DEF LoadQueue, books
    <2>2. \A s \in Symbol : Taken(s)' = Taken(s)
      BY <2>1, Zenon DEF Taken, InHand
    <2> SUFFICES ASSUME NEW s \in Symbol PROVE InLine(s)'
      BY Zenon DEF SentIsMatchedHeldQueued
    <2>3. CASE orderQueues'[s] = orderQueues[s]
      BY <1>l, <2>1, <2>2, <2>3 DEF InLine, InHand
    <2>4. CASE s = SymbolOf[o] /\ orderQueues[s] = None /\ orderQueues'[s] = o
      <3>1. sent[s] = <<>> /\ matched[s] = <<>>
        BY <1>l, <2>4, Zenon DEF InLine
      <3>2. items[o] = <<>>
        BY <1>t, <2>4, NoneAssumption, Zenon DEF OneChannelOneWorker
      <3>3. \A w \in Order : SymbolOf[w] = s => ~InHand(w)
        BY <1>t, <2>4 DEF OneChannelOneWorker, InHand, Running
      <3>4. Taken(s)' = 0 /\ \A w \in Order : SymbolOf[w] = s => ~InHand(w)'
        BY <2>1, <3>3, Zenon DEF Taken, InHand
      <3>5. orderQueues'[s] # None /\ items'[orderQueues'[s]] = <<>>
        BY <2>1, <2>4, <3>2, NoneAssumption, Zenon
      <3>. QED  BY <2>1, <3>1, <3>4, <3>5 DEF InLine
    <2>. QED  BY <1>t, <2>1, <2>3, <2>4, Zenon DEF TypeOK
  <1>2. ASSUME NEW o \in Order, LoadBook(o) PROVE SentIsMatchedHeldQueued'
    <2>1. UNCHANGED <<items, sent, matched, orderQueues>>
      BY <1>2, Zenon DEF LoadBook, queues, books
    <2>2. \A w \in Order : worker'[w] = worker[w] \/ (worker'[w] = Idle
                                                     /\ SymbolOf[w] \notin orderBooks)
      BY <1>2, <1>t DEF LoadBook, TypeOK
    <2>3. \A w \in Order : SymbolOf[w] \notin orderBooks => ~InHand(w)
      BY <1>t, Zenon DEF OneChannelOneWorker, Running, InHand
    <2>4. \A w \in Order : (InHand(w)' <=> InHand(w))
                        /\ (InHand(w) => worker'[w].order = worker[w].order)
      BY <2>2, <2>3 DEF InHand, Idle
    <2>. QED  BY <1>0, <2>1, <2>4, Zenon
  <1>3. ASSUME NEW o \in Order, EnqueueOrder(o) PROVE SentIsMatchedHeldQueued'
    <2>1. UNCHANGED <<matched, orderQueues, worker>> /\ pc[o] = "send"
      BY <1>3, Zenon DEF EnqueueOrder, books
    <2>2. CASE UNCHANGED <<items, sent>>
      BY <1>0, <2>1, <2>2, Zenon DEF InHand
    <2>3. CASE /\ items' = [items EXCEPT ![queue[o]] = Append(@, o)]
               /\ sent' = [sent EXCEPT ![SymbolOf[o]] = Append(@, o)]
      <3> SUFFICES ASSUME NEW s \in Symbol PROVE InLine(s)'
        BY Zenon DEF SentIsMatchedHeldQueued
      <3>1. /\ queue[o] = orderQueues[SymbolOf[o]] /\ queue[o] # None /\ queue[o] \in Order
            /\ SymbolOf[queue[o]] = SymbolOf[o]
        BY <1>s, <1>t, <2>1, SMTT(20) DEF OneChannelOneWorker, TypeOK
      <3>2. Taken(s)' = Taken(s) /\ Taken(s) \in {0, 1}
        BY <2>1, Zenon DEF Taken, InHand
      <3>3. matched[s] \in Seq(Order) /\ sent[s] \in Seq(Order)
        BY <1>t, Zenon DEF TypeOK
      <3>4. CASE s # SymbolOf[o]
        <4>1. sent'[s] = sent[s]
          BY <1>t, <2>3, <3>4, Zenon DEF TypeOK
        <4>2. orderQueues[s] # None => items'[orderQueues[s]] = items[orderQueues[s]]
          <5>1. orderQueues[s] # None => orderQueues[s] \in Order /\ SymbolOf[orderQueues[s]] = s
            BY <1>t, SMTT(20) DEF OneChannelOneWorker, TypeOK
          <5>. QED  BY <1>i, <2>3, <3>1, <3>4, <5>1, Zenon
        <4>. QED  BY <1>l, <2>1, <3>2, <4>1, <4>2 DEF InLine, InHand
      <3>5. CASE s = SymbolOf[o]
        <4> DEFINE waiting == items[queue[o]]
                   n == Len(matched[s]) + Taken(s)
        <4>1. waiting \in Seq(Order)
          BY <1>t, <3>1, Zenon DEF TypeOK
        <4>2. items'[queue[o]] = Append(waiting, o)
          BY <1>i, <2>3, <3>1, Zenon
        <4>3. sent'[s] = Append(sent[s], o)
          BY <1>t, <2>3, <3>5, Zenon DEF TypeOK
        <4>4. /\ Len(sent[s]) = n + Len(waiting)
              /\ \A i \in 1 .. Len(matched[s]) : sent[s][i] = matched[s][i]
              /\ \A i \in 1 .. Len(waiting) : sent[s][n + i] = waiting[i]
          BY <1>l, <3>1, <3>5, SMTT(20) DEF InLine
        <4>5. n \in Nat /\ Len(matched[s]) \in Nat /\ Len(matched[s]) <= n /\ Len(waiting) \in Nat
          BY <3>2, <3>3, <4>1
        <4>w. ASSUME NEW w \in Order, SymbolOf[w] = s, InHand(w)'
              PROVE  /\ sent[s][Len(matched[s]) + 1] = worker'[w].order
                     /\ Len(matched[s]) + 1 <= n
          <5>1. InHand(w) /\ worker'[w] = worker[w]
            BY <2>1, <4>w, Zenon DEF InHand
          <5>2. Taken(s) = 1
            BY <4>w, <5>1, Zenon DEF Taken
          <5>3. sent[s][Len(matched[s]) + 1] = worker[w].order
            BY <1>l, <4>w, <5>1, Zenon DEF InLine
          <5>. QED  BY <3>3, <5>1, <5>2, <5>3
        <4> HIDE DEF waiting, n
        <4>6. /\ Len(sent'[s]) = n + Len(items'[queue[o]])
              /\ \A i \in 1 .. Len(matched[s]) : sent'[s][i] = matched[s][i]
              /\ \A i \in 1 .. Len(items'[queue[o]]) : sent'[s][n + i] = items'[queue[o]][i]
              /\ \A i \in 1 .. Len(sent[s]) : sent'[s][i] = sent[s][i]
          <5>1. EndsWith(sent[s], matched[s], n, waiting)
            BY <4>4, Zenon DEF EndsWith
          <5>2. /\ EndsWith(Append(sent[s], o), matched[s], n, Append(waiting, o))
                /\ \A i \in 1 .. Len(sent[s]) : Append(sent[s], o)[i] = sent[s][i]
            BY <3>3, <4>1, <4>5, <5>1, Enqueued
          <5>. QED  BY <4>2, <4>3, <5>2, Zenon DEF EndsWith
        <4>7. ASSUME NEW w \in Order, SymbolOf[w] = s, InHand(w)'
              PROVE  sent'[s][Len(matched[s]) + 1] = worker'[w].order
          <5>1. Len(matched[s]) + 1 \in 1 .. Len(sent[s])
            BY <4>4, <4>5, <4>7, <4>w
          <5>. QED  BY <4>6, <4>7, <4>w, <5>1, Zenon
        <4>. QED  BY <2>1, <3>1, <3>2, <3>5, <4>6, <4>7, SMTT(20) DEF InLine, n
      <3>. QED  BY <3>4, <3>5, Zenon
    <2>. QED  BY <1>3, <2>2, <2>3, Zenon DEF EnqueueOrder
  <1>4. ASSUME NEW w \in Order, Receive(w) PROVE SentIsMatchedHeldQueued'
    <2>1. UNCHANGED <<sent, matched, orderQueues>> /\ worker[w].state = "idle"
      BY <1>4, Zenon DEF Receive, books
    <2>2. /\ queue[w] = orderQueues[SymbolOf[w]] /\ queue[w] # None /\ queue[w] \in Order
          /\ SymbolOf[queue[w]] = SymbolOf[w]
      BY <1>s, <1>t, <2>1 DEF OneChannelOneWorker, Running, TypeOK
    <2> DEFINE waiting == items[queue[w]]
    <2>3. waiting \in Seq(Order) /\ waiting # <<>>
      BY <1>4, <1>t, <2>2, Zenon DEF Receive, TypeOK
    <2>4. items'[queue[w]] = Tail(waiting)
      BY <1>4, <1>t, <2>2, Zenon DEF Receive, TypeOK
    <2>5. worker'[w] = [state |-> "received", order |-> Head(waiting), trade |-> <<>>]
      BY <1>4, <1>t, SMTT(20) DEF Receive, TypeOK
    <2>6. \A v \in Order : v # w => worker'[v] = worker[v]
      BY <1>4, <1>t DEF Receive, TypeOK
    <2>7. \A v \in Order : SymbolOf[v] = SymbolOf[w] /\ v # w => ~InHand(v)
      BY <1>t, <2>1, Zenon DEF OneChannelOneWorker, Running, InHand
    <2> HIDE DEF waiting
    <2> SUFFICES ASSUME NEW s \in Symbol PROVE InLine(s)'
      BY Zenon DEF SentIsMatchedHeldQueued
    <2>8. CASE s # SymbolOf[w]
      <3>1. \A v \in Order : SymbolOf[v] = s => worker'[v] = worker[v]
        BY <2>6, <2>8, Zenon
      <3>2. Taken(s)' = Taken(s)
        BY <3>1, Zenon DEF Taken, InHand
      <3>3. orderQueues[s] # None => items'[orderQueues[s]] = items[orderQueues[s]]
        <4>1. orderQueues[s] # None => orderQueues[s] \in Order /\ SymbolOf[orderQueues[s]] = s
          <5>1. orderQueues[s] \in Order \cup {None}
            BY <1>t, Zenon DEF TypeOK
          <5>. QED  BY <1>t, <5>1, Zenon DEF OneChannelOneWorker
        <4>. QED  BY <1>4, <1>i, <2>2, <2>8, <4>1, Zenon DEF Receive
      <3>. QED  BY <1>l, <2>1, <3>1, <3>2, <3>3 DEF InLine, InHand
    <2>9. CASE s = SymbolOf[w]
      <3>1. Taken(s) = 0 /\ Taken(s)' = 1
        BY <2>1, <2>5, <2>7, <2>9 DEF Taken, InHand
      <3>2. matched[s] \in Seq(Order) /\ sent[s] \in Seq(Order)
        BY <1>t, Zenon DEF TypeOK
      <3>3. /\ Len(sent[s]) = Len(matched[s]) + Taken(s) + Len(waiting)
            /\ \A i \in 1 .. Len(matched[s]) : sent[s][i] = matched[s][i]
            /\ \A i \in 1 .. Len(waiting) : sent[s][Len(matched[s]) + Taken(s) + i] = waiting[i]
        BY <1>l, <2>2, <2>9, SMTT(20) DEF InLine, waiting
      <3>4. \A v \in Order : SymbolOf[v] = s /\ InHand(v)' => v = w
        BY <2>6, <2>7, <2>9, Zenon DEF InHand
      <3>5. Len(matched[s]) \in Nat /\ Len(matched[s]) + Taken(s) = Len(matched[s])
        BY <3>1, <3>2
      <3>6. /\ sent[s][Len(matched[s]) + 1] = Head(waiting)
            /\ Len(sent[s]) = Len(matched[s]) + 1 + Len(Tail(waiting))
            /\ \A i \in 1 .. Len(Tail(waiting)) :
                  sent[s][Len(matched[s]) + 1 + i] = Tail(waiting)[i]
        <4>1. /\ Len(sent[s]) = Len(matched[s]) + Len(waiting)
              /\ \A i \in 1 .. Len(waiting) : sent[s][Len(matched[s]) + i] = waiting[i]
          BY <3>3, <3>5, Zenon
        <4>. QED  BY <2>3, <3>2, <3>5, <4>1, Received
      <3>7. \A v \in Order : SymbolOf[v] = s /\ InHand(v)' =>
                sent'[s][Len(matched'[s]) + 1] = worker'[v].order
        BY <2>1, <2>5, <3>4, <3>6
      <3>8. orderQueues'[s] = queue[w] /\ items'[orderQueues'[s]] = Tail(waiting)
        BY <2>1, <2>2, <2>4, <2>9, Zenon
      <3>. QED  BY <2>1, <2>2, <3>1, <3>3, <3>6, <3>7, <3>8, Zenon DEF InLine
    <2>. QED  BY <2>8, <2>9, Zenon
  <1>5. ASSUME NEW w \in Order, ProcessOrder(w) PROVE SentIsMatchedHeldQueued'
    <2> DEFINE o == worker[w].order
    <2>1. /\ UNCHANGED <<items, sent, orderQueues>> /\ InHand(w)
          /\ matched' = [matched EXCEPT ![SymbolOf[o]] = Append(@, o)]
      BY <1>5, Zenon DEF ProcessOrder, InHand, queues
    <2>p. \/ book' = book \cup {o} /\ worker' = [worker EXCEPT ![w] = Idle] /\ trades' = trades
          \/ \E m \in book :
               /\ trades' = trades \cup {<<m, o>>}
               /\ book' \in {book, book \ {m}, (book \ {m}) \cup {o}}
               /\ worker' = [worker EXCEPT ![w] =
                     [state |-> "trading", order |-> o, trade |-> <<m, o>>]]
      BY <1>5, Zenon DEF ProcessOrder
    <2>w. worker \in [Order -> [state : {"none", "idle", "received", "trading"},
                               order : Order \cup {None}, trade : Seq(Order)]]
      BY <1>t, Zenon DEF TypeOK
    <2>2. /\ worker'[w].state # "received"
          /\ \A v \in Order : v # w => worker'[v] = worker[v]
      BY <2>p, <2>w DEF Idle
    <2>3. o \in Order /\ SymbolOf[o] = SymbolOf[w]
      BY <1>t, <2>1, Zenon DEF Inv, OnlyAcceptedGoOn, Accepted, TypeOK
    <2>4. \A v \in Order : SymbolOf[v] = SymbolOf[w] /\ v # w => ~InHand(v)
      BY <1>t, <2>1, Zenon DEF OneChannelOneWorker, Running, InHand
    <2> HIDE DEF o
    <2> SUFFICES ASSUME NEW s \in Symbol PROVE InLine(s)'
      BY Zenon DEF SentIsMatchedHeldQueued
    <2>5. CASE s # SymbolOf[w]
      <3>1. \A v \in Order : SymbolOf[v] = s => worker'[v] = worker[v]
        BY <2>2, <2>5, Zenon
      <3>2. Taken(s)' = Taken(s)
        BY <3>1, Zenon DEF Taken, InHand
      <3>3. matched'[s] = matched[s]
        BY <1>t, <2>1, <2>3, <2>5, Zenon DEF TypeOK
      <3>4. \A v \in Order : SymbolOf[v] = s /\ InHand(v)' => InHand(v) /\ worker'[v] = worker[v]
        BY <3>1, Zenon DEF InHand
      <3>5. InLine(s) /\ UNCHANGED <<sent[s], matched[s], orderQueues[s], items, Taken(s)>>
        BY <1>l, <2>1, <3>2, <3>3, Zenon
      <3>. QED  BY <3>4, <3>5 DEF InLine
    <2>6. CASE s = SymbolOf[w]
      <3>1. matched[s] \in Seq(Order) /\ sent[s] \in Seq(Order)
        BY <1>t, Zenon DEF TypeOK
      <3>2. matched'[s] = Append(matched[s], o)
        BY <1>t, <2>1, <2>3, <2>6, Zenon DEF TypeOK
      <3>3. Taken(s) = 1 /\ Taken(s)' = 0 /\ \A v \in Order : SymbolOf[v] = s => ~InHand(v)'
        BY <2>1, <2>2, <2>4, <2>6, Zenon DEF Taken, InHand
      <3>4. orderQueues[s] # None
        BY <1>t, <2>1, <2>6, Zenon DEF OneChannelOneWorker, InHand, Running
      <3>5. /\ Len(sent[s]) = Len(matched[s]) + Taken(s) + Len(items[orderQueues[s]])
            /\ \A i \in 1 .. Len(matched[s]) : sent[s][i] = matched[s][i]
            /\ \A i \in 1 .. Len(items[orderQueues[s]]) :
                  sent[s][Len(matched[s]) + Taken(s) + i] = items[orderQueues[s]][i]
            /\ sent[s][Len(matched[s]) + 1] = o
        <4>1. InLine(s)
          BY <1>l, Zenon
        <4>. QED  BY <2>1, <2>6, <3>4, <4>1, Zenon DEF InLine, o
      <3>6. /\ Len(matched'[s]) = Len(matched[s]) + 1
            /\ \A i \in 1 .. Len(matched'[s]) : sent[s][i] = matched'[s][i]
        BY <2>3, <3>1, <3>2, <3>5, Matched
      <3>7. Len(matched'[s]) + Taken(s)' = Len(matched[s]) + Taken(s)
        BY <3>1, <3>3, <3>6
      <3>. QED  BY <2>1, <3>3, <3>4, <3>5, <3>6, <3>7, Zenon DEF InLine
    <2>. QED  BY <2>5, <2>6, Zenon
  <1>6. ASSUME NEW w \in Order, ReportTrade(w) \/ WorkerStops(w) PROVE SentIsMatchedHeldQueued'
    <2>1. UNCHANGED <<items, sent, matched, orderQueues>>
      BY <1>6, Zenon DEF ReportTrade, WorkerStops, queues, books
    <2>2. \A v \in Order : worker'[v] = worker[v] \/ (~InHand(v) /\ ~InHand(v)')
      <3>1. /\ worker[w].state # "received"
            /\ worker' \in {[worker EXCEPT ![w] = Idle], [worker EXCEPT ![w] = NoWorker]}
        BY <1>6, Zenon DEF ReportTrade, WorkerStops
      <3>2. worker \in [Order -> [state : {"none", "idle", "received", "trading"},
                                 order : Order \cup {None}, trade : Seq(Order)]]
        BY <1>t, Zenon DEF TypeOK
      <3>. QED  BY <3>1, <3>2 DEF Idle, NoWorker, InHand
    <2>. QED  BY <1>0, <2>1, <2>2, Zenon DEF InHand
  <1>7. ASSUME UNCHANGED <<queues, books, worker>> PROVE SentIsMatchedHeldQueued'
    BY <1>0, <1>7, Zenon DEF queues, books, InHand
  <1>. QED  BY <1>1, <1>2, <1>3, <1>4, <1>5, <1>6, <1>7, Zenon
            DEF Next, vars, client, queues, books, Submission, Worker, CreateOrder, SubmitOrder,
                ProcessEvent, AppendEventFails, ProcessEventPanics, CancelOrder,
                WatchPartitionChange, Shutdown

\* The channels and workers of the engine keep their line: in every reachable
\* state the invariant above holds, for any orders, symbols and queue size.
THEOREM Invariance == Spec => []Inv
  <1>1. Init => Inv
    BY InitInv, Zenon
  <1>2. Inv /\ [Next]_vars => Inv'
    BY TypeStep, ChannelStep, SentStep, NumbersStep, AcceptedOnlyStep, Zenon DEF Inv
  <1>. QED  BY <1>1, <1>2, PTL DEF Spec

\* matchWorker and EnqueueOrder: the orders of a symbol are matched in the order
\* in which they were queued, however the submissions race for the first queue
\* and book and whenever the engine is shut down.
THEOREM QueueOrder == Spec => []MatchedInQueueOrder
  <1>1. Inv => MatchedInQueueOrder
    <2> SUFFICES ASSUME Inv, NEW s \in Symbol 
                   PROVE  /\ Len(matched[s]) <= Len(sent[s])
                          /\ matched[s] = SubSeq(sent[s], 1, Len(matched[s]))
      BY Zenon DEF MatchedInQueueOrder
    <2>1. matched[s] \in Seq(Order) /\ sent[s] \in Seq(Order) /\ InLine(s)
      BY Zenon DEF Inv, TypeOK, SentIsMatchedHeldQueued
    <2>2. /\ Len(matched[s]) <= Len(sent[s])
          /\ \A i \in 1 .. Len(matched[s]) : sent[s][i] = matched[s][i]
      <3>1. CASE orderQueues[s] = None
        BY <2>1, <3>1 DEF InLine
      <3>2. CASE orderQueues[s] # None
        <4>1. orderQueues[s] \in Order
          BY <3>2, Zenon DEF Inv, TypeOK
        <4>2. Len(items[orderQueues[s]]) \in Nat
          BY <4>1 DEF Inv, TypeOK
        <4>3. Taken(s) \in Nat
          BY Zenon DEF Taken
        <4>4. Len(sent[s]) = Len(matched[s]) + Taken(s) + Len(items[orderQueues[s]])
          BY <2>1, <3>2, Zenon DEF InLine
        <4>5. \A i \in 1 .. Len(matched[s]) : sent[s][i] = matched[s][i]
          BY <2>1, <3>2, Zenon DEF InLine
        <4>6. Len(matched[s]) \in Nat /\ Len(sent[s]) \in Nat
          BY <2>1
        <4>7. Len(matched[s]) <= Len(sent[s])
          BY <4>2, <4>3, <4>4, <4>6
        <4>. QED  BY <4>5, <4>7, Zenon
      <3>. QED  BY <3>1, <3>2, Zenon
    <2>. QED  BY <2>1, <2>2
  <1>. QED  BY <1>1, Invariance, PTL

\* SubmitOrder: an order whose client was told that it failed is never in a book
\* or a trade, and every order that is has its event in the log and its row,
\* unless a later event of its symbol was processed before it.
THEOREM NoRefusedTrades == Spec => []RefusedNeverTrades
  <1>1. Inv => RefusedNeverTrades
    BY DEF Inv, OnlyAcceptedGoOn, Accepted, HasRow, RefusedNeverTrades
  <1>. QED  BY <1>1, Invariance, PTL
=============================================================================
