----------------------------- MODULE MatchEngine -----------------------------
(***************************************************************************)
(* The path of an order from the HTTP handler (biz/handler/order.go)       *)
(* through the engine of a node (biz/service/match_engine.go,              *)
(* biz/service/partition_aware_match_engine.go) to its symbol's worker,    *)
(* with the rows of the orders (biz/service/event_processor_db.go).        *)
(*                                                                         *)
(* The matching itself is OrderBook's and the pipeline is EventPipeline's: *)
(* here an order trades with at most one order of the book, and an event   *)
(* is processed or fails in one step.  A channel and a worker are named by *)
(* the order whose submission made them.                                   *)
(*                                                                         *)
(* The numbers the sequencer gives are counted per symbol: only numbers of *)
(* events of one symbol are compared.                                      *)
(***************************************************************************)
EXTENDS Naturals, Sequences, FiniteSets

CONSTANTS
    Order,
    SymbolOf,   \* symbol of each order
    None,       \* no order
    QueueSize,  \* capacity of a channel: 10000 in the code
    Moving,     \* bound: the symbols whose partition comes and goes
    MaxCancels  \* bound on the rows cancelled at a time

ASSUME NoneAssumption == None \notin Order
ASSUME BoundAssumption == QueueSize \in Nat /\ MaxCancels \in Nat

Symbol == {SymbolOf[o] : o \in Order}
ASSUME MovingAssumption == Moving \subseteq Symbol

VARIABLES
    engine,     \* GlobalMatchEngine: "none" when it is not set, "built" as
                \* NewPartitionAwareMatchEngine builds it, without a database and
                \* with checkpoints, "wired" with a database and without them;
                \* "dead" once the process is
    watched,    \* watchedSymbols
    stopped,    \* ctx is done
    pc,         \* where the submission of each order is
    answer,     \* what its client was told
    logged,     \* orders whose OrderSubmittedEvent is in the log
    row,        \* status of each order in the database
    orderQueues, \* channel of each symbol
    queue,      \* the channel each submission loaded
    items,      \* contents of the channels
    orderBooks, \* symbols with a book
    worker,     \* what the worker started by each submission does
    book,       \* resting orders
    trades,     \* trades made, as <<maker, taker>>
    drawn,      \* how many numbers the sequencer gave to events of each symbol
    seq,        \* number of the OrderSubmittedEvent of each order
    tradeSeq,   \* number of the last TradeExecutedEvent of each symbol
    lastSeq,    \* processorOffsets of DatabaseProcessor
    sent,       \* history: the orders of each symbol in the order they were queued
    matched     \* history: in the order they were matched

client == <<pc, answer, row, logged>>
queues == <<orderQueues, queue, items, sent>>
books == <<book, trades, matched>>
numbers == <<drawn, seq, tradeSeq, lastSeq>>
vars == <<engine, watched, stopped, client, queues, orderBooks, worker, books, numbers>>

NoWorker == [state |-> "none", order |-> None, trade |-> <<>>]
Idle == [state |-> "idle", order |-> None, trade |-> <<>>]

NumbersOK ==
    /\ drawn \in [Symbol -> Nat]
    /\ seq \in [Order -> Nat]
    /\ tradeSeq \in [Symbol -> Nat]
    /\ lastSeq \in [Symbol -> Nat]

TypeOK ==
    /\ engine \in {"none", "built", "wired", "dead"}
    /\ watched \subseteq Symbol
    /\ stopped \in BOOLEAN
    /\ pc \in [Order -> {"new", "event", "queue", "book", "send", "done"}]
    /\ answer \in [Order -> {"none", "refused", "submitted", "received"}]
    /\ logged \subseteq Order
    /\ row \in [Order -> {"none", "submitted", "active", "cancelled"}]
    /\ orderQueues \in [Symbol -> Order \cup {None}]
    /\ queue \in [Order -> Order \cup {None}]
    /\ items \in [Order -> Seq(Order)]
    /\ \A o \in Order : Len(items[o]) <= QueueSize
    /\ orderBooks \subseteq Symbol
    /\ worker \in [Order -> [state : {"none", "idle", "received", "trading"},
                             order : Order \cup {None}, trade : Seq(Order)]]
    /\ book \subseteq Order
    /\ trades \subseteq Order \X Order
    /\ NumbersOK
    /\ sent \in [Symbol -> Seq(Order)]
    /\ matched \in [Symbol -> Seq(Order)]

Init ==
    /\ engine \in {"none", "built", "wired"}
    /\ watched = Symbol
    /\ stopped = FALSE
    /\ pc = [o \in Order |-> "new"]
    /\ answer = [o \in Order |-> "none"]
    /\ logged = {}
    /\ row = [o \in Order |-> "none"]
    /\ orderQueues = [s \in Symbol |-> None]
    /\ queue = [o \in Order |-> None]
    /\ items = [o \in Order |-> <<>>]
    /\ orderBooks = {}
    /\ worker = [o \in Order |-> NoWorker]
    /\ book = {}
    /\ trades = {}
    /\ drawn = [s \in Symbol |-> 0]
    /\ seq = [o \in Order |-> 0]
    /\ tradeSeq = [s \in Symbol |-> 0]
    /\ lastSeq = [s \in Symbol |-> 0]
    /\ sent = [s \in Symbol |-> <<>>]
    /\ matched = [s \in Symbol |-> <<>>]

-----------------------------------------------------------------------------
(* SubmitOrder.                                                            *)

Respond(o, a) ==
    /\ pc' = [pc EXCEPT ![o] = "done"]
    /\ answer' = [answer EXCEPT ![o] = a]

\* Without an engine the order only becomes a row.
CreateOrder(o) ==
    /\ pc[o] = "new"
    /\ engine = "none"
    /\ \/ row' = [row EXCEPT ![o] = "active"] /\ Respond(o, "received")
       \/ UNCHANGED row /\ Respond(o, "refused")
    /\ UNCHANGED <<engine, watched, stopped, logged, queues, orderBooks, worker, books, numbers>>

\* The symbol is looked up in watchedSymbols, once, and the event numbered.
SubmitOrder(o) ==
    /\ pc[o] = "new"
    /\ engine \in {"built", "wired"}
    /\ \/ /\ SymbolOf[o] \in watched
          /\ drawn' = [drawn EXCEPT ![SymbolOf[o]] = @ + 1]
          /\ seq' = [seq EXCEPT ![o] = drawn[SymbolOf[o]] + 1]
          /\ pc' = [pc EXCEPT ![o] = "event"]
          /\ UNCHANGED answer
       \/ /\ SymbolOf[o] \notin watched
          /\ Respond(o, "refused")
          /\ UNCHANGED <<drawn, seq>>
    /\ UNCHANGED <<engine, watched, stopped, row, logged, queues, orderBooks, worker, books, tradeSeq, lastSeq>>

HandleOrderSubmitted(o) == row' = [row EXCEPT ![o] = "submitted"]

\* DatabaseProcessor gets an event in its turn for the symbol: it skips one whose
\* number is not above the last it processed, and that is no error.
SkipsDuplicate(o) ==
    /\ seq[o] <= lastSeq[SymbolOf[o]]
    /\ UNCHANGED <<row, lastSeq>>
Inserts(o) ==
    /\ seq[o] > lastSeq[SymbolOf[o]]
    /\ HandleOrderSubmitted(o)
    /\ lastSeq' = [lastSeq EXCEPT ![SymbolOf[o]] = seq[o]]

\* Mutant of ProcessEvent: the order is queued although its event failed.
ProcessEventGoesOn(o) ==
    /\ pc[o] = "event" /\ engine = "wired"
    /\ logged' = logged \cup {o}
    /\ SkipsDuplicate(o) \/ Inserts(o) \/ UNCHANGED <<row, lastSeq>>
    /\ pc' = [pc EXCEPT ![o] = "queue"]
    /\ UNCHANGED <<answer, engine, watched, stopped, queues, orderBooks, worker, books, drawn, seq, tradeSeq>>

\* The OrderSubmittedEvent is logged and goes through the processors; one of them
\* may fail, DatabaseProcessor or another.
ProcessEvent(o) ==
    /\ pc[o] = "event" /\ engine = "wired"
    /\ logged' = logged \cup {o}
    /\ \/ /\ SkipsDuplicate(o) \/ Inserts(o)
          /\ pc' = [pc EXCEPT ![o] = "queue"]
          /\ UNCHANGED answer
       \/ /\ SkipsDuplicate(o) \/ Inserts(o) \/ UNCHANGED <<row, lastSeq>>
          /\ Respond(o, "refused")
    /\ UNCHANGED <<engine, watched, stopped, queues, orderBooks, worker, books, drawn, seq, tradeSeq>>

\* AppendEvent fails.
AppendEventFails(o) ==
    /\ pc[o] = "event" /\ engine \in {"built", "wired"}
    /\ Respond(o, "refused")
    /\ UNCHANGED <<engine, watched, stopped, row, logged, queues, orderBooks, worker, books, numbers>>

\* The processors of the engine as it is built: DatabaseProcessor calls a database
\* it does not have, and what another processor has done is recorded in a
\* checkpoint from a context that is nil.  The panic ends the process.
ProcessEventPanics(o) ==
    /\ pc[o] = "event" /\ engine = "built"
    /\ logged' = logged \cup {o}
    /\ engine' = "dead"
    /\ UNCHANGED <<pc, answer, row, watched, stopped, queues, orderBooks, worker, books, numbers>>

\* orderQueues.LoadOrStore.
LoadQueue(o) ==
    /\ pc[o] = "queue"
    /\ orderQueues' = [orderQueues EXCEPT ![SymbolOf[o]] = IF @ = None THEN o ELSE @]
    /\ queue' = [queue EXCEPT ![o] = orderQueues'[SymbolOf[o]]]
    /\ pc' = [pc EXCEPT ![o] = "book"]
    /\ UNCHANGED <<items, sent, engine, watched, stopped, answer, row, logged, orderBooks, worker, books, numbers>>

\* Mutant of LoadBook: every submission starts a worker.
LoadBookAlwaysStarts(o) ==
    /\ pc[o] = "book"
    /\ orderBooks' = orderBooks \cup {SymbolOf[o]}
    /\ worker' = [worker EXCEPT ![o] = Idle]
    /\ pc' = [pc EXCEPT ![o] = "send"]
    /\ UNCHANGED <<engine, watched, stopped, answer, row, logged, queues, books, numbers>>

\* orderBooks.LoadOrStore: who stores the book starts the worker, on the channel
\* it has loaded.
LoadBook(o) ==
    /\ pc[o] = "book"
    /\ orderBooks' = orderBooks \cup {SymbolOf[o]}
    /\ worker' = IF SymbolOf[o] \in orderBooks THEN worker ELSE [worker EXCEPT ![o] = Idle]
    /\ pc' = [pc EXCEPT ![o] = "send"]
    /\ UNCHANGED <<engine, watched, stopped, answer, row, logged, queues, books, numbers>>

\* Mutant of EnqueueOrder: an order that finds the queue full is dropped.
EnqueueOrderDrops(o) ==
    /\ pc[o] = "send"
    /\ \/ /\ Len(items[queue[o]]) < QueueSize
          /\ items' = [items EXCEPT ![queue[o]] = Append(@, o)]
          /\ sent' = [sent EXCEPT ![SymbolOf[o]] = Append(@, o)]
       \/ Len(items[queue[o]]) = QueueSize /\ UNCHANGED <<items, sent>>
    /\ Respond(o, "submitted")
    /\ UNCHANGED <<orderQueues, queue, engine, watched, stopped, row, logged, orderBooks, worker, books, numbers>>

\* The item is queued when there is room; after Shutdown it may be dropped, and
\* the client is told the same.
EnqueueOrder(o) ==
    /\ pc[o] = "send"
    /\ \/ /\ Len(items[queue[o]]) < QueueSize
          /\ items' = [items EXCEPT ![queue[o]] = Append(@, o)]
          /\ sent' = [sent EXCEPT ![SymbolOf[o]] = Append(@, o)]
       \/ stopped /\ UNCHANGED <<items, sent>>
    /\ Respond(o, "submitted")
    /\ UNCHANGED <<orderQueues, queue, engine, watched, stopped, row, logged, orderBooks, worker, books, numbers>>

\* CancelOrder: the row is all that is changed.
CancelOrder(o) ==
    /\ row[o] \in {"submitted", "active"}
    /\ Cardinality({p \in Order : row[p] = "cancelled"}) < MaxCancels
    /\ row' = [row EXCEPT ![o] = "cancelled"]
    /\ UNCHANGED <<engine, watched, stopped, pc, answer, logged, queues, orderBooks, worker, books, numbers>>

-----------------------------------------------------------------------------
(* matchWorker.                                                            *)

Receive(w) ==
    /\ worker[w].state = "idle"
    /\ items[queue[w]] # <<>>
    /\ worker' = [worker EXCEPT ![w] =
          [state |-> "received", order |-> Head(items[queue[w]]), trade |-> <<>>]]
    /\ items' = [items EXCEPT ![queue[w]] = Tail(@)]
    /\ UNCHANGED <<orderQueues, queue, sent, engine, watched, stopped, client, orderBooks, books, numbers>>

\* MatchOrder: no trade, and the order rests; or a trade that fills the order, the
\* resting one or both.
ProcessOrder(w) ==
    /\ worker[w].state = "received"
    /\ LET o == worker[w].order IN
       /\ matched' = [matched EXCEPT ![SymbolOf[o]] = Append(@, o)]
       /\ \/ /\ book' = book \cup {o}
             /\ worker' = [worker EXCEPT ![w] = Idle]
             /\ UNCHANGED trades
             /\ UNCHANGED <<drawn, tradeSeq>>
          \/ \E m \in book :
                /\ SymbolOf[m] = SymbolOf[o]
                /\ drawn' = [drawn EXCEPT ![SymbolOf[o]] = @ + 1]
                /\ tradeSeq' = [tradeSeq EXCEPT ![SymbolOf[o]] = drawn[SymbolOf[o]] + 1]
                /\ trades' = trades \cup {<<m, o>>}
                /\ book' \in {book, book \ {m}, (book \ {m}) \cup {o}}
                /\ worker' = [worker EXCEPT ![w] =
                      [state |-> "trading", order |-> o, trade |-> <<m, o>>]]
    /\ UNCHANGED <<engine, watched, stopped, client, queues, orderBooks, seq, lastSeq>>

\* The TradeExecutedEvent goes through the pipeline: DatabaseProcessor processes,
\* skips or fails it.  The trade stands and is broadcast all the same (its row and
\* the messages are left out).
ReportTrade(w) ==
    /\ worker[w].state = "trading"
    /\ \/ UNCHANGED lastSeq
       \/ /\ tradeSeq[SymbolOf[w]] > lastSeq[SymbolOf[w]]
          /\ lastSeq' = [lastSeq EXCEPT ![SymbolOf[w]] = tradeSeq[SymbolOf[w]]]
    /\ worker' = [worker EXCEPT ![w] = Idle]
    /\ UNCHANGED <<engine, watched, stopped, client, queues, orderBooks, books, drawn, seq, tradeSeq>>

WorkerStops(w) ==
    /\ worker[w].state = "idle"
    /\ stopped
    /\ worker' = [worker EXCEPT ![w] = NoWorker]
    /\ UNCHANGED <<engine, watched, stopped, client, queues, orderBooks, books, numbers>>

-----------------------------------------------------------------------------
Shutdown ==
    /\ ~stopped /\ engine # "dead"
    /\ stopped' = TRUE
    /\ UNCHANGED <<engine, watched, client, queues, orderBooks, worker, books, numbers>>

\* watchPartitionChange: orders on their way, queued or resting stay.
WatchPartitionChange(s) ==
    /\ engine # "dead"
    /\ watched' = IF s \in watched THEN watched \ {s} ELSE watched \cup {s}
    /\ UNCHANGED <<engine, stopped, client, queues, orderBooks, worker, books, numbers>>

Submission(o) ==
    \/ CreateOrder(o)
    \/ SubmitOrder(o)
    \/ ProcessEvent(o)
    \/ AppendEventFails(o)
    \/ ProcessEventPanics(o)
    \/ LoadQueue(o)
    \/ LoadBook(o)
    \/ EnqueueOrder(o)

Worker(w) == Receive(w) \/ ProcessOrder(w) \/ ReportTrade(w)

Next ==
    \/ \E o \in Order : Submission(o) \/ CancelOrder(o) \/ Worker(o) \/ WorkerStops(o)
    \/ \E s \in Moving : WatchPartitionChange(s)
    \/ Shutdown

\* A request that has arrived and a worker go on: the pipeline answers, and the
\* Broadcast of a trade returns (see Stuck of WebSocket for when it does not).
Fairness ==
    \A o \in Order :
        /\ WF_vars(pc[o] # "new" /\ Submission(o))
        /\ WF_vars(Worker(o))

Spec == Init /\ [][Next]_vars /\ Fairness

-----------------------------------------------------------------------------
(* Properties.                                                             *)

\* The orders of a symbol are matched in the order in which they were queued,
\* one by one: however submissions race for the first queue and book, there is
\* one channel and one worker.
MatchedInQueueOrder ==
    \A s \in Symbol :
        /\ Len(matched[s]) <= Len(sent[s])
        /\ matched[s] = SubSeq(sent[s], 1, Len(matched[s]))

\* An order whose client was told that it failed is never in a book or a trade,
\* and every order that is has its event in the log and its row: the exception
\* is an order that DatabaseProcessor skipped, because an event of its symbol that
\* was numbered later was processed before it.  event_pipeline.go:203
Overtaken(o) == seq[o] < lastSeq[SymbolOf[o]]
RefusedNeverTrades ==
    \A o \in Order :
        o \in book \/ (\E t \in trades : o \in {t[1], t[2]}) =>
            answer[o] # "refused" /\ o \in logged /\ (row[o] # "none" \/ Overtaken(o))

\* An order answered with "submitted" is matched, unless the engine is shut down:
\* also when its symbol is no longer watched, the queue was full or its row is
\* cancelled.
SubmittedIsMatched ==
    \A o \in Order :
        answer[o] = "submitted" ~> (stopped \/ \E i \in DOMAIN matched[SymbolOf[o]] : matched[SymbolOf[o]][i] = o)
-----------------------------------------------------------------------------
(* The inductive invariant.                                                *)

Submitting == {"queue", "book", "send"}
Running(w) == worker[w].state # "none"
InHand(w) == worker[w].state = "received"

\* A symbol has one channel, which every submission that got past LoadOrStore
\* holds, and at most one worker ever, which reads that channel.
OneChannelOneWorker ==
    /\ \A s \in Symbol : orderQueues[s] # None => SymbolOf[orderQueues[s]] = s
    /\ \A o \in Order :
        /\ queue[o] # None => queue[o] = orderQueues[SymbolOf[o]]
        /\ items[o] # <<>> => o = orderQueues[SymbolOf[o]]
        /\ pc[o] \in {"book", "send"} => queue[o] # None
        /\ Running(o) => queue[o] # None /\ SymbolOf[o] \in orderBooks
    /\ \A v, w \in Order :
        Running(v) /\ Running(w) /\ SymbolOf[v] = SymbolOf[w] => v = w

\* The number of orders of a symbol that its worker has received and not
\* matched yet.
Taken(s) == IF \E w \in Order : SymbolOf[w] = s /\ InHand(w) THEN 1 ELSE 0

\* What was queued for a symbol is what was matched, then what the worker has
\* in hand, then what is in the channel.
InLine(s) ==
    /\ orderQueues[s] = None => sent[s] = <<>> /\ matched[s] = <<>>
    /\ orderQueues[s] # None =>
        LET waiting == items[orderQueues[s]]
            n == Len(matched[s]) + Taken(s)
        IN  /\ Len(sent[s]) = n + Len(waiting)
            /\ \A i \in 1 .. Len(matched[s]) : sent[s][i] = matched[s][i]
            /\ \A i \in 1 .. Len(waiting) : sent[s][n + i] = waiting[i]
    /\ \A w \in Order :
        SymbolOf[w] = s /\ InHand(w) => sent[s][Len(matched[s]) + 1] = worker[w].order

SentIsMatchedHeldQueued == \A s \in Symbol : InLine(s)

\* An order that waits for the pipeline has a number of its own: what
\* DatabaseProcessor skips was overtaken, not processed.
NumbersApart ==
    /\ \A s \in Symbol : lastSeq[s] <= drawn[s] /\ tradeSeq[s] <= drawn[s]
    /\ \A o \in Order : seq[o] <= drawn[SymbolOf[o]]
    /\ \A o \in Order : pc[o] = "event" =>
        /\ seq[o] # lastSeq[SymbolOf[o]] /\ seq[o] # tradeSeq[SymbolOf[o]]
        /\ \A p \in Order \ {o} : SymbolOf[p] = SymbolOf[o] => seq[p] # seq[o]

HasRow(o) == row[o] # "none" \/ Overtaken(o)

\* The orders whose client was told "submitted", after their event was logged
\* and their row written, or skipped.
Accepted ==
    {o \in logged : pc[o] = "done" /\ answer[o] = "submitted" /\ HasRow(o)}

\* Only accepted orders are past EnqueueOrder, each on its own symbol's path.
OnlyAcceptedGoOn ==
    /\ \A o \in Order : pc[o] \in Submitting => o \in logged /\ HasRow(o)
    /\ \A q \in Order : \A i \in 1 .. Len(items[q]) :
        items[q][i] \in Accepted /\ SymbolOf[items[q][i]] = SymbolOf[q]
    /\ \A w \in Order : InHand(w) =>
        worker[w].order \in Accepted /\ SymbolOf[worker[w].order] = SymbolOf[w]
    /\ book \subseteq Accepted
    /\ trades \subseteq Accepted \X Accepted
    /\ \A w \in Order : worker[w].state = "trading" => worker[w].trade \in trades

Inv ==
    /\ TypeOK
    /\ OneChannelOneWorker
    /\ SentIsMatchedHeldQueued
    /\ NumbersApart
    /\ OnlyAcceptedGoOn
=============================================================================
