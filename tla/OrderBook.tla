----------------------------- MODULE OrderBook -----------------------------
(***************************************************************************)
(* The order book of one symbol (biz/service/orderbook.go).                *)
(*                                                                         *)
(* MatchOrder holds ob.mu from its first line to its last; its loop is     *)
(* modelled one iteration per step, and while an order is being matched    *)
(* no other operation is enabled, as the mutex has it.  A price level is a *)
(* FIFO queue; a level with an empty queue is a key the skiplist does not  *)
(* have.  Prices and quantities are integers, as in the code.              *)
(***************************************************************************)
EXTENDS Integers, Sequences, FiniteSets

CONSTANTS
    Price,     \* the prices orders may have
    MaxQty,    \* bound on the quantity of an order
    MaxOrders  \* bound on the number of orders submitted

\* Prices are fixed-width integers: there are finitely many.
ASSUME PriceAssumption == Price \subseteq Int /\ IsFiniteSet(Price)

ASSUME BoundAssumption == MaxQty \in Nat /\ MaxOrders \in Nat

VARIABLES
    book,         \* book[side][price]: ob.buys and ob.sells
    orders,       \* ob.orders, the orders recorded for CancelOrder
    taker,        \* the order MatchOrder is working on, or NoOrder
    remainingQty, \* of the taker
    submitted,    \* history: every order given to MatchOrder, by SequenceNum
    trades,       \* history: every TradeExecutedEvent, in order
    cancelled     \* history: SequenceNums of the orders CancelOrder dropped

vars == <<book, orders, taker, remainingQty, submitted, trades, cancelled>>

Side == {"buy", "sell"}
Opposite(side) == IF side = "buy" THEN "sell" ELSE "buy"

OrderBookEntry ==
    [OrderID : Nat, SequenceNum : Nat, Side : Side, Price : Price,
     Quantity : Nat, FilledQty : Nat]

NoOrder == [OrderID |-> 0]

TradeExecuted ==
    [TradeID : Nat \X Nat, Taker : Nat, Maker : Nat, Price : Price, Quantity : Nat]

TypeOK ==
    /\ book \in [Side -> [Price -> Seq(OrderBookEntry)]]
    /\ orders \subseteq OrderBookEntry
    /\ taker \in OrderBookEntry \cup {NoOrder}
    /\ remainingQty \in Nat
    /\ submitted \in Seq(OrderBookEntry)
    /\ trades \in Seq(TradeExecuted)
    /\ cancelled \subseteq Nat

Init ==
    /\ book = [side \in Side |-> [price \in Price |-> <<>>]]
    /\ orders = {}
    /\ taker = NoOrder
    /\ remainingQty = 0
    /\ submitted = <<>>
    /\ trades = <<>>
    /\ cancelled = {}

-----------------------------------------------------------------------------
(* The skiplist (an external library): Front is its first key.             *)

Levels(side) == {price \in Price : book[side][price] # <<>>}

\* PriceComparatorDesc.Compare ranks buys from the highest price down and
\* PriceComparatorAsc.Compare sells from the lowest up.
Compare(side, a, b) == IF side = "buy" THEN a >= b ELSE a <= b

\* CalcScore of the same comparators ranks them the other way round.
CalcScore(side, a) == IF side = "buy" THEN a ELSE -a

\* The skiplist sorts by score and asks Compare only about equal scores.  A score
\* is a float64, exact for the prices below 2^53.
Ranks(side, a, b) ==
    \/ CalcScore(side, a) < CalcScore(side, b)
    \/ CalcScore(side, a) = CalcScore(side, b) /\ Compare(side, a, b)

Front(side) ==
    CHOOSE price \in Levels(side) : \A other \in Levels(side) : Ranks(side, price, other)

-----------------------------------------------------------------------------
(* MatchOrder                                                              *)

\* The loop condition and the price check of matchBuyOrder and matchSellOrder.
CanMatch ==
    /\ remainingQty > 0
    /\ Levels(Opposite(taker.Side)) # {}
    /\ LET price == Front(Opposite(taker.Side))
       IN  IF taker.Side = "buy" THEN taker.Price >= price ELSE taker.Price <= price

\* Lock, and start with the whole quantity.  processOrder numbers the order.
\* The back end generates a fresh OrderID unless the client sends one, which
\* may be one sent before.
BeginMatch(id, side, price, qty) ==
    LET order == [OrderID |-> id, SequenceNum |-> Len(submitted) + 1, Side |-> side,
                  Price |-> price, Quantity |-> qty, FilledQty |-> 0]
    IN  /\ taker = NoOrder
        /\ Len(submitted) < MaxOrders
        /\ id \in 1 .. Len(submitted) + 1
        /\ taker' = order
        /\ remainingQty' = qty
        /\ submitted' = Append(submitted, order)
        /\ UNCHANGED <<book, orders, trades, cancelled>>

\* The minimum of what the taker wants and what the maker has left.
TradeQty(open) == IF remainingQty < open THEN remainingQty ELSE open

Filled(entry) == entry.FilledQty >= entry.Quantity

\* Mutant of TradeID: the index is left out.
TradeIDByTaker == <<taker.OrderID, 0>>

\* The taker's OrderID with the number of trades it has made so far.
TradeID ==
    <<taker.OrderID, Cardinality({i \in DOMAIN trades : trades[i].Taker = taker.SequenceNum})>>

\* One iteration of the loop: trade with the head of the first level at the
\* maker's price, and drop the head once it is filled.  A head with nothing
\* left would be dropped without a trade.
MatchOne ==
    LET side == Opposite(taker.Side)
        price == Front(side)
        queue == book[side][price]
        maker == Head(queue)
        tradeQty == TradeQty(maker.Quantity - maker.FilledQty)
        updated == [maker EXCEPT !.FilledQty = @ + tradeQty]
        rest == IF Filled(updated) THEN Tail(queue) ELSE [queue EXCEPT ![1] = updated]
    IN  /\ taker # NoOrder
        /\ CanMatch
        /\ book' = [book EXCEPT ![side][price] = rest]
        /\ remainingQty' = remainingQty - (IF tradeQty > 0 THEN tradeQty ELSE 0)
        /\ trades' = IF tradeQty <= 0 THEN trades
                     ELSE Append(trades, [TradeID |-> TradeID, Taker |-> taker.SequenceNum,
                                          Maker |-> maker.SequenceNum, Price |-> price,
                                          Quantity |-> tradeQty])
        /\ UNCHANGED <<orders, taker, submitted, cancelled>>

\* Mutant of Rested: the whole order goes to the book.
RestedWhole == [taker EXCEPT !.FilledQty = 0]

\* addOrderToBook: a copy of the order, with what is left as its quantity,
\* goes to the end of its level.
Rested == [taker EXCEPT !.Quantity = remainingQty, !.FilledQty = 0]

\* Mutant of EndMatch: the order goes to the front of its level.
EndMatchAtFront ==
    /\ taker # NoOrder
    /\ ~CanMatch
    /\ book' = IF remainingQty > 0
               THEN [book EXCEPT ![taker.Side][taker.Price] = <<Rested>> \o @]
               ELSE book
    /\ orders' = {o \in orders : o.OrderID # taker.OrderID} \cup {taker}
    /\ taker' = NoOrder
    /\ remainingQty' = 0
    /\ UNCHANGED <<submitted, trades, cancelled>>

\* Mutant of EndMatch: the return for a filled order does not unlock.
EndMatchKeepsLock ==
    /\ taker # NoOrder
    /\ ~CanMatch
    /\ remainingQty > 0
    /\ book' = [book EXCEPT ![taker.Side][taker.Price] = Append(@, Rested)]
    /\ orders' = {o \in orders : o.OrderID # taker.OrderID} \cup {taker}
    /\ taker' = NoOrder
    /\ remainingQty' = 0
    /\ UNCHANGED <<submitted, trades, cancelled>>

\* The loop is over: rest what is left, record the order, unlock.
EndMatch ==
    /\ taker # NoOrder
    /\ ~CanMatch
    /\ book' = IF remainingQty > 0
               THEN [book EXCEPT ![taker.Side][taker.Price] = Append(@, Rested)]
               ELSE book
    /\ orders' = {o \in orders : o.OrderID # taker.OrderID} \cup {taker}
    /\ taker' = NoOrder
    /\ remainingQty' = 0
    /\ UNCHANGED <<submitted, trades, cancelled>>

-----------------------------------------------------------------------------
\* Mutant of CancelOrder: the order is forgotten and stays in the book.
CancelOrderKeepsEntry(order) ==
    /\ taker = NoOrder
    /\ order \in orders
    /\ order.FilledQty = 0
    /\ orders' = orders \ {order}
    /\ cancelled' = cancelled \cup {order.SequenceNum}
    /\ UNCHANGED <<book, taker, remainingQty, submitted, trades>>

\* The loop that copies a level without the entries of an id.
Without(queue, id) ==
    LET kept[i \in 0 .. Len(queue)] ==
            IF i = 0 THEN <<>>
            ELSE IF queue[i].OrderID = id THEN kept[i - 1]
            ELSE Append(kept[i - 1], queue[i])
    IN  kept[Len(queue)]

\* CancelOrder: the entry recorded under the id, if it shows no fill, decides
\* at which level the id is filtered out.
CancelOrder(order) ==
    LET queue == book[order.Side][order.Price]
        same == {i \in DOMAIN queue : queue[i].OrderID = order.OrderID}
    IN  /\ taker = NoOrder
        /\ order \in orders
        /\ order.FilledQty = 0
        /\ book' = [book EXCEPT ![order.Side][order.Price] = Without(queue, order.OrderID)]
        /\ orders' = orders \ {order}
        /\ cancelled' = cancelled \cup {order.SequenceNum}
                                  \cup {queue[i].SequenceNum : i \in same}
        /\ UNCHANGED <<taker, remainingQty, submitted, trades>>

Next ==
    \/ \E id \in 1 .. MaxOrders, side \in Side, price \in Price, qty \in 0 .. MaxQty :
            BeginMatch(id, side, price, qty)
    \/ MatchOne
    \/ EndMatch
    \/ \E order \in orders : CancelOrder(order)

Spec == Init /\ [][Next]_vars /\ WF_vars(MatchOne \/ EndMatch)

-----------------------------------------------------------------------------
(* Properties                                                              *)

Resting(side) ==
    UNION {{book[side][price][i] : i \in DOMAIN book[side][price]} : price \in Price}

\* The quantity of the trades of a sequence in which order n is taker or maker.
QuantityIn(seq, n) ==
    LET sum[i \in 0 .. Len(seq)] ==
            IF i = 0 THEN 0
            ELSE sum[i - 1] + (IF n \in {seq[i].Taker, seq[i].Maker} THEN seq[i].Quantity ELSE 0)
    IN  sum[Len(seq)]

Traded(n) == QuantityIn(trades, n)

\* What an order that has been submitted and not cancelled still wants: in the
\* book, or in the hands of MatchOrder.
Open(n) ==
    IF taker # NoOrder /\ taker.SequenceNum = n THEN remainingQty
    ELSE LET mine == {e \in Resting("buy") \cup Resting("sell") : e.SequenceNum = n}
         IN  IF mine = {} THEN 0
             ELSE LET e == CHOOSE e \in mine : TRUE IN e.Quantity - e.FilledQty

\* No quantity is created or lost: at every iteration of MatchOrder, what an
\* order has traded, as taker and as maker, and what it still wants add up to
\* what was submitted, and for a cancelled order to no more than that.
QuantityConserved ==
    \A n \in 1 .. Len(submitted) :
        /\ Traded(n) + Open(n) <= submitted[n].Quantity
        /\ n \notin cancelled => Traded(n) + Open(n) = submitted[n].Quantity

\* Between two orders the book is not crossed, with ob.buys "价格降序"
\* (descending) and ob.sells "价格升序" (ascending) as they are documented: the
\* loop stops when the first level no longer matches, and no other level does.
BookUncrossed ==
    taker = NoOrder =>
        \A bid \in Levels("buy"), ask \in Levels("sell") : bid < ask

WithinLimit(order, price) ==
    IF order.Side = "buy" THEN price <= order.Price ELSE price >= order.Price

\* Whatever partial fills, cancellations and reused ids came before: the entry
\* that trades as maker arrived before every other entry at its price, and the
\* trade is at its own price and within the limit of the taker.
TimePriority ==
    [][trades' # trades =>
        LET trade == trades'[Len(trades')]
            maker == submitted[trade.Maker]
        IN  /\ trade.Price = maker.Price
            /\ WithinLimit(submitted[trade.Taker], trade.Price)
            /\ \A e \in Resting(maker.Side) :
                    e.Price = maker.Price => e.SequenceNum >= trade.Maker]_vars

\* Once CancelOrder has returned without error, the order does not trade.
CancelStopsTrading ==
    [][trades' # trades => trades'[Len(trades')].Maker \notin cancelled]_vars

\* MatchOrder returns: its loop ends for every order and every book.
MatchOrderReturns == (taker # NoOrder) ~> (taker = NoOrder)

\* The TradeID is what the database, the position processor and the outbox
\* recognise a trade by: no two trades share one, unless a client gave two
\* orders the same OrderID.
TradeIDsUnique ==
    \A i, j \in DOMAIN trades :
        trades[i].TradeID = trades[j].TradeID /\ i # j =>
            /\ trades[i].Taker # trades[j].Taker
            /\ submitted[trades[i].Taker].OrderID = submitted[trades[j].Taker].OrderID

-----------------------------------------------------------------------------
(* The inductive invariant.                                                *)

\* SequenceNum counts the orders, the map of CancelOrder holds them as they
\* came, and the one in the hands of MatchOrder is the last.
Numbered ==
    /\ \A n \in 1 .. Len(submitted) : submitted[n].SequenceNum = n
    /\ \A order \in orders :
        order.SequenceNum \in 1 .. Len(submitted) /\ order = submitted[order.SequenceNum]
    /\ cancelled \subseteq 1 .. Len(submitted)
    /\ taker # NoOrder =>
        /\ Len(submitted) # 0
        /\ taker = submitted[Len(submitted)]
        /\ Len(submitted) \notin cancelled

\* The orders MatchOrder is done with and CancelOrder has not dropped.
MayRest ==
    {n \in 1 .. Len(submitted) : n \notin cancelled /\ (taker # NoOrder => n # taker.SequenceNum)}

\* What may rest at a level: a copy of one of those orders that is not filled.
EntriesAt(side, price) ==
    {e \in OrderBookEntry :
        /\ e.SequenceNum \in MayRest
        /\ e.OrderID = submitted[e.SequenceNum].OrderID
        /\ e.Side = side /\ submitted[e.SequenceNum].Side = side
        /\ e.Price = price /\ submitted[e.SequenceNum].Price = price
        /\ e.FilledQty < e.Quantity}

\* A level holds its own orders, from the oldest to the youngest.
LevelsInOrder ==
    \A side \in Side, price \in Price :
        /\ \A i \in 1 .. Len(book[side][price]) : book[side][price][i] \in EntriesAt(side, price)
        /\ \A i, j \in 1 .. Len(book[side][price]) :
            i < j => book[side][price][i].SequenceNum < book[side][price][j].SequenceNum

\* The trades of a taker carry its OrderID and ascending indexes.
TradesNumbered ==
    /\ \A i \in 1 .. Len(trades) :
        /\ trades[i].Taker \in 1 .. Len(submitted)
        /\ trades[i].Maker \in 1 .. Len(submitted)
        /\ trades[i].TradeID[1] = submitted[trades[i].Taker].OrderID
    /\ \A i, j \in 1 .. Len(trades) :
        i < j /\ trades[i].Taker = trades[j].Taker => trades[i].TradeID[2] < trades[j].TradeID[2]
    /\ taker # NoOrder =>
        \A i \in 1 .. Len(trades) :
            trades[i].Taker = taker.SequenceNum => trades[i].TradeID[2] < TradeID[2]

Inv ==
    /\ TypeOK /\ Numbered /\ LevelsInOrder
    /\ TradesNumbered /\ QuantityConserved
=============================================================================
