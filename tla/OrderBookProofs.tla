-------------------------- MODULE OrderBookProofs --------------------------
(***************************************************************************)
(* The safety of OrderBook, for any finite set of prices, any quantities,  *)
(* any number of orders and either ranking of the skiplist.                *)
(***************************************************************************)
EXTENDS OrderBook, FiniteSetTheorems, NaturalsInduction, WellFoundedInduction, TLAPS

-----------------------------------------------------------------------------
(* Numbers and recursive functions.                                        *)

\* A nonempty set of natural numbers has a least element: what induction over
\* the iterations of a loop comes down to.
LEMMA LeastNumber ==
    ASSUME NEW T \in SUBSET Nat, T # {}
    PROVE  \E n \in T : \A m \in T : n <= m
  <1>1. IsWellFoundedOn(OpToRel(<, Nat), Nat)
    BY NatLessThanWellFounded, Zenon
  <1>2. PICK n \in T : \A m \in T : ~(<<m, n>> \in OpToRel(<, Nat))
    BY <1>1, WFMin, Zenon
  <1>3. \A m \in T : ~(m < n)
    BY <1>2, Zenon DEF OpToRel
  <1>. QED  BY <1>3

\* What holds of 0 and passes from every number below N to its successor holds
\* up to N.
LEMMA UpTo ==
    ASSUME NEW N \in Nat, NEW T, 0 \in T, \A k \in 1 .. N : k - 1 \in T => k \in T
    PROVE  \A k \in 0 .. N : k \in T
  <1> SUFFICES ASSUME {k \in 0 .. N : k \notin T} # {} PROVE FALSE
    BY Zenon
  <1>1. PICK n \in {k \in 0 .. N : k \notin T} : \A m \in {k \in 0 .. N : k \notin T} : n <= m
    <2>1. {k \in 0 .. N : k \notin T} \in SUBSET Nat
      OBVIOUS
    <2>. QED  BY <2>1, LeastNumber, Zenon
  <1>2. n \in 1 .. N /\ n - 1 \in 0 .. N /\ ~(n <= n - 1)
    BY <1>1
  <1>3. n - 1 \in T
    BY <1>1, <1>2, Zenon
  <1>. QED  BY <1>1, <1>2, <1>3, Zenon

\* f holds what a loop of N iterations has computed before the first iteration,
\* v, and after each of them.
Iterates(f, N, V, v, step) ==
    f \in [0 .. N -> V] /\ f[0] = v /\ \A i \in 1 .. N : f[i] = step[i][f[i - 1]]

Steps(N, V) == [1 .. N -> [V -> V]]

\* A function may be defined by recursion on the iterations of a loop.
LEMMA RecursionUpTo ==
    ASSUME NEW N \in Nat, NEW V, NEW v \in V, NEW step \in Steps(N, V)
    PROVE  \E f : Iterates(f, N, V, v, step)
  <1>0. step \in [1 .. N -> [V -> V]]
    BY Zenon DEF Steps
  <1> DEFINE Good(k, f) == f[0] = v /\ \A i \in 1 .. k : f[i] = step[i][f[i - 1]]
             T == {k \in Nat : \E f \in [0 .. N -> V] : Good(k, f)}
  <1>1. 0 \in T
    <2>1. [i \in 0 .. N |-> v] \in [0 .. N -> V]
      BY Zenon
    <2>2. Good(0, [i \in 0 .. N |-> v])
      OBVIOUS
    <2>. QED  BY <2>1, <2>2, Zenon
  <1>2. ASSUME NEW k \in 1 .. N, k - 1 \in T PROVE k \in T
    <2>1. PICK f \in [0 .. N -> V] : Good(k - 1, f)
      BY <1>2, Zenon
    <2>2. f[k - 1] \in V /\ step[k][f[k - 1]] \in V
      BY <1>0
    <2> DEFINE g == [f EXCEPT ![k] = step[k][f[k - 1]]]
    <2>3. g \in [0 .. N -> V]
      BY <2>2, Zenon
    <2>4. g[0] = v /\ g[k] = step[k][g[k - 1]]
      BY <2>1
    <2>5. ASSUME NEW i \in 1 .. k - 1 PROVE g[i] = step[i][g[i - 1]]
      BY <2>1
    <2> HIDE DEF g
    <2>6. \A i \in 1 .. k : i = k \/ i \in 1 .. k - 1
      OBVIOUS
    <2>7. Good(k, g)
      BY <2>4, <2>5, <2>6, Zenon
    <2>. QED  BY <2>3, <2>7
  <1> HIDE DEF T
  <1>3. N \in T
    <2>1. \A k \in 1 .. N : k - 1 \in T => k \in T
      BY <1>2, Zenon
    <2>2. \A k \in 0 .. N : k \in T
      BY <1>1, <2>1, UpTo, Zenon
    <2>. QED  BY <2>2
  <1>4. PICK f \in [0 .. N -> V] : Good(N, f)
    BY <1>3, Zenon DEF T
  <1>. QED  BY <1>4, Zenon DEF Iterates

-----------------------------------------------------------------------------
(* The operators of the model.                                             *)

\* kept[i] is what the loop of CancelOrder has copied after i entries.
CopyLoop(kept, S, queue, id) ==
    /\ kept \in [0 .. Len(queue) -> Seq(S)]
    /\ kept[0] = <<>>
    /\ \A i \in 1 .. Len(queue) :
        kept[i] = IF queue[i].OrderID = id THEN kept[i - 1] ELSE Append(kept[i - 1], queue[i])
    /\ Without(queue, id) = kept[Len(queue)]

\* Without is computed by such a loop.
LEMMA WithoutLoop ==
    ASSUME NEW S, NEW queue \in Seq(S), NEW id
    PROVE  \E kept : CopyLoop(kept, S, queue, id)
  <1> DEFINE N == Len(queue)
             Loop(f) == f = [i \in 0 .. N |->
                               IF i = 0 THEN <<>>
                               ELSE IF queue[i].OrderID = id THEN f[i - 1]
                               ELSE Append(f[i - 1], queue[i])]
             step == [i \in 1 .. N |-> [v \in Seq(S) |->
                        IF queue[i].OrderID = id THEN v ELSE Append(v, queue[i])]]
             kept == CHOOSE f : Loop(f)
  <1>1. N \in Nat /\ <<>> \in Seq(S) /\ \A i \in 1 .. N : queue[i] \in S
    OBVIOUS
  <1>2. step \in [1 .. N -> [Seq(S) -> Seq(S)]]
    BY <1>1
  <1>3. ASSUME NEW i \in 1 .. N, NEW v \in Seq(S)
        PROVE  step[i][v] = IF queue[i].OrderID = id THEN v ELSE Append(v, queue[i])
    BY Zenon
  <1>n. Without(queue, id) = kept[N]
    BY Zenon DEF Without
  <1> HIDE DEF step, N
  <1>4. PICK f \in [0 .. N -> Seq(S)] :
            f[0] = <<>> /\ \A i \in 1 .. N : f[i] = step[i][f[i - 1]]
    <2>1. step \in Steps(N, Seq(S))
      BY <1>2, Zenon DEF Steps
    <2>2. \E f : Iterates(f, N, Seq(S), <<>>, step)
      BY <1>1, <2>1, RecursionUpTo, Zenon
    <2>. QED  BY <2>2, Zenon DEF Iterates
  <1>5. \A i \in 0 .. N : i # 0 => i \in 1 .. N /\ f[i - 1] \in Seq(S)
    BY <1>1
  <1>6. Loop(f)
    <2> DEFINE g == [i \in 0 .. N |-> IF i = 0 THEN <<>>
                                     ELSE IF queue[i].OrderID = id THEN f[i - 1]
                                     ELSE Append(f[i - 1], queue[i])]
    <2>1. \A i \in 0 .. N : f[i] = g[i]
      BY <1>3, <1>4, <1>5, Zenon
    <2>2. f = g
      BY <2>1, Zenon
    <2>. QED  BY <2>2, Zenon
  <1>7. Loop(kept)
    BY <1>6, Zenon
  <1> HIDE DEF kept
  <1>8. kept[0] = <<>> /\ \A i \in 1 .. N : kept[i] = IF queue[i].OrderID = id THEN kept[i - 1]
                                                     ELSE Append(kept[i - 1], queue[i])
    <2>1. 0 \in 0 .. N /\ \A i \in 1 .. N : i \in 0 .. N /\ i # 0
      BY <1>1
    <2>. QED  BY <1>7, <2>1, Zenon
  <1>9. \A i \in 0 .. N : kept[i] \in Seq(S)
    <2> DEFINE T == {i \in 0 .. N : kept[i] \in Seq(S)}
    <2>1. 0 \in T
      <3>1. 0 \in 0 .. N
        BY <1>1
      <3>. QED  BY <1>1, <1>8, <3>1, Zenon
    <2>2. ASSUME NEW i \in 1 .. N, i - 1 \in T PROVE i \in T
      <3>1. i \in 0 .. N /\ queue[i] \in S /\ kept[i - 1] \in Seq(S)
        BY <1>1, <2>2
      <3>2. Append(kept[i - 1], queue[i]) \in Seq(S)
        BY <3>1
      <3>. QED  BY <1>8, <3>1, <3>2, Zenon
    <2> HIDE DEF T
    <2>3. \A i \in 1 .. N : i - 1 \in T => i \in T
      BY <2>2, Zenon
    <2>4. \A i \in 0 .. N : i \in T
      BY <1>1, <2>1, <2>3, UpTo, Zenon
    <2>. QED  BY <2>4, Zenon DEF T
  <1>10. kept \in [0 .. N -> Seq(S)]
    BY <1>7, <1>9, Zenon
  <1>. QED  BY <1>8, <1>10, <1>n, Zenon DEF N, CopyLoop

\* A level in the order of arrival.
Ordered(queue) ==
    \A i, j \in 1 .. Len(queue) : i < j => queue[i].SequenceNum < queue[j].SequenceNum

\* rest holds the first n entries of queue without those of id.
Copies(rest, queue, n, id) ==
    /\ \A i \in 1 .. Len(rest) :
        \E j \in 1 .. n : rest[i] = queue[j] /\ queue[j].OrderID # id
    /\ \A j \in 1 .. n :
        queue[j].OrderID # id => \E i \in 1 .. Len(rest) : rest[i] = queue[j]
    /\ Ordered(rest)

\* CancelOrder drops the entries of the id and nothing else, and what it keeps
\* stays in order.
LEMMA WithoutFacts ==
    ASSUME NEW queue \in Seq(OrderBookEntry), Ordered(queue), NEW id
    PROVE  /\ Without(queue, id) \in Seq(OrderBookEntry)
           /\ Copies(Without(queue, id), queue, Len(queue), id)
  <1> DEFINE N == Len(queue)
  <1>0. PICK kept : CopyLoop(kept, OrderBookEntry, queue, id)
    BY WithoutLoop, Zenon
  <1>1. /\ kept \in [0 .. N -> Seq(OrderBookEntry)]
        /\ kept[0] = <<>>
        /\ \A i \in 1 .. N : kept[i] = IF queue[i].OrderID = id THEN kept[i - 1]
                                       ELSE Append(kept[i - 1], queue[i])
        /\ Without(queue, id) = kept[N]
    BY <1>0, Zenon DEF CopyLoop
  <1>2. N \in Nat /\ \A i \in 1 .. N : queue[i] \in OrderBookEntry
    OBVIOUS
  <1> DEFINE T == {k \in 0 .. N : Copies(kept[k], queue, k, id)}
  <1>3. 0 \in T
    <2>1. 0 \in 0 .. N
      BY <1>2
    <2>2. Copies(<<>>, queue, 0, id)
      BY DEF Copies, Ordered
    <2>. QED  BY <1>1, <2>1, <2>2, Zenon
  <1>4. ASSUME NEW k \in 1 .. N, k - 1 \in T PROVE k \in T
    <2> DEFINE r == kept[k - 1]
               e == queue[k]
    <2>1. r \in Seq(OrderBookEntry) /\ e \in OrderBookEntry /\ k \in 0 .. N
      <3>1. k - 1 \in 0 .. N /\ k \in 0 .. N
        BY <1>2
      <3>. QED  BY <1>1, <1>2, <3>1, Zenon
    <2>2. Copies(r, queue, k - 1, id)
      BY <1>4, Zenon
    <2>3. \A i \in 1 .. k - 1 : queue[i].SequenceNum < e.SequenceNum /\ i \in 1 .. k
      BY <1>2 DEF Ordered
    <2>4. \A i \in 1 .. k : i \in 1 .. k - 1 \/ i = k
      BY <1>2
    <2>5. kept[k] = IF e.OrderID = id THEN r ELSE Append(r, e)
      BY <1>1, Zenon
    <2> HIDE DEF r, e
    <2>6. CASE e.OrderID = id
      <3>1. Copies(r, queue, k, id)
        BY <2>2, <2>3, <2>4, <2>6, Zenon DEF Copies, e
      <3>. QED  BY <2>1, <2>5, <2>6, <3>1, Zenon
    <2>7. CASE e.OrderID # id
      <3> DEFINE s == Append(r, e)
      <3>1. /\ Len(s) = Len(r) + 1 /\ s[Len(r) + 1] = e /\ Len(r) \in Nat
            /\ \A i \in 1 .. Len(r) : s[i] = r[i]
        BY <2>1
      <3> HIDE DEF s
      <3>2. \A i \in 1 .. Len(s) : i \in 1 .. Len(r) \/ i = Len(r) + 1
        BY <3>1
      <3>3. \A i \in 1 .. Len(r) : i \in 1 .. Len(s) /\ Len(r) + 1 \in 1 .. Len(s)
                                  /\ i < Len(r) + 1
        BY <3>1
      <3>3a. Len(r) + 1 \in 1 .. Len(s) /\ k \in 1 .. k
        BY <3>1
      <3>4. \A i \in 1 .. Len(s) : \E j \in 1 .. k : s[i] = queue[j] /\ queue[j].OrderID # id
        <4> TAKE i \in 1 .. Len(s)
        <4>1. CASE i = Len(r) + 1
          BY <2>7, <3>1, <3>3a, <4>1, Zenon DEF e
        <4>2. CASE i \in 1 .. Len(r)
          <5>1. PICK j \in 1 .. k - 1 : r[i] = queue[j] /\ queue[j].OrderID # id
            BY <2>2, <4>2, Zenon DEF Copies
          <5>. QED  BY <2>3, <3>1, <4>2, <5>1, Zenon
        <4>. QED  BY <3>2, <4>1, <4>2, Zenon
      <3>5. \A j \in 1 .. k : queue[j].OrderID # id => \E i \in 1 .. Len(s) : s[i] = queue[j]
        <4> TAKE j \in 1 .. k
        <4>1. CASE j = k
          BY <3>1, <3>3a, <4>1, Zenon DEF e
        <4>2. CASE j \in 1 .. k - 1 /\ queue[j].OrderID # id
          <5>1. PICK i \in 1 .. Len(r) : r[i] = queue[j]
            BY <2>2, <4>2, Zenon DEF Copies
          <5>. QED  BY <3>1, <3>3, <5>1, Zenon
        <4>. QED  BY <2>4, <4>1, <4>2, Zenon
      <3>6. \A i \in 1 .. Len(r) : r[i].SequenceNum < e.SequenceNum
        BY <2>2, <2>3, Zenon DEF Copies
      <3>7. ASSUME NEW i \in 1 .. Len(s), NEW j \in 1 .. Len(s), i < j
            PROVE  s[i].SequenceNum < s[j].SequenceNum
        <4>1. i \in 1 .. Len(r)
          BY <3>1, <3>7
        <4>2. CASE j = Len(r) + 1
          BY <3>1, <3>6, <4>1, <4>2, Zenon
        <4>3. CASE j \in 1 .. Len(r)
          BY <2>2, <3>1, <3>7, <4>1, <4>3, Zenon DEF Copies, Ordered
        <4>. QED  BY <3>2, <4>2, <4>3, Zenon
      <3>8. Copies(s, queue, k, id)
        BY <3>4, <3>5, <3>7, Zenon DEF Copies, Ordered
      <3>. QED  BY <2>1, <2>5, <2>7, <3>8, Zenon DEF s
    <2>. QED  BY <2>6, <2>7, Zenon
  <1> HIDE DEF T
  <1>5. \A k \in 1 .. N : k - 1 \in T => k \in T
    BY <1>4, Zenon
  <1>6. \A k \in 0 .. N : k \in T
    BY <1>2, <1>3, <1>5, UpTo, Zenon
  <1>7. N \in 0 .. N
    BY <1>2
  <1>. QED  BY <1>1, <1>6, <1>7, Zenon DEF T

\* What a trade adds to the quantity order n has traded.
Share(trade, n) == IF n \in {trade.Taker, trade.Maker} THEN trade.Quantity ELSE 0

\* sum[i] is the quantity order n has traded in the first i trades.
SumLoop(sum, seq, n) ==
    /\ sum \in [0 .. Len(seq) -> Nat]
    /\ sum[0] = 0
    /\ \A i \in 1 .. Len(seq) : sum[i] = sum[i - 1] + Share(seq[i], n)
    /\ QuantityIn(seq, n) = sum[Len(seq)]

LEMMA ShareType ==
    ASSUME NEW trade \in TradeExecuted, NEW n
    PROVE  Share(trade, n) \in Nat
  BY Zenon DEF Share, TradeExecuted

\* QuantityIn is computed by such a loop.
LEMMA QuantityLoop ==
    ASSUME NEW seq \in Seq(TradeExecuted), NEW n
    PROVE  \E sum : SumLoop(sum, seq, n)
  <1> DEFINE N == Len(seq)
             Loop(f) == f = [i \in 0 .. N |->
                               IF i = 0 THEN 0
                               ELSE f[i - 1] + (IF n \in {seq[i].Taker, seq[i].Maker}
                                                THEN seq[i].Quantity ELSE 0)]
             step == [i \in 1 .. N |-> [v \in Nat |-> v + Share(seq[i], n)]]
             sum == CHOOSE f : Loop(f)
  <1>1. N \in Nat /\ \A i \in 1 .. N : Share(seq[i], n) \in Nat
    BY ShareType
  <1>2. step \in Steps(N, Nat)
    BY <1>1 DEF Steps
  <1>3. ASSUME NEW i \in 1 .. N, NEW v \in Nat
        PROVE  step[i][v] = v + Share(seq[i], n)
    BY Zenon
  <1>n. QuantityIn(seq, n) = sum[N]
    BY Zenon DEF QuantityIn
  <1> HIDE DEF step, N
  <1>4. PICK f : Iterates(f, N, Nat, 0, step)
    BY <1>1, <1>2, RecursionUpTo, Zenon
  <1>5. /\ f \in [0 .. N -> Nat] /\ f[0] = 0
        /\ \A i \in 1 .. N : f[i] = f[i - 1] + Share(seq[i], n)
    <2>1. /\ f \in [0 .. N -> Nat] /\ f[0] = 0
          /\ \A i \in 1 .. N : f[i] = step[i][f[i - 1]]
      BY <1>4, Zenon DEF Iterates
    <2>2. \A i \in 1 .. N : f[i - 1] \in Nat
      BY <1>1, <2>1
    <2>. QED  BY <1>3, <2>1, <2>2, Zenon
  <1>6. Loop(f)
    <2> DEFINE g == [i \in 0 .. N |-> IF i = 0 THEN 0
                                     ELSE f[i - 1] + (IF n \in {seq[i].Taker, seq[i].Maker}
                                                      THEN seq[i].Quantity ELSE 0)]
    <2>1. \A i \in 0 .. N : i # 0 => i \in 1 .. N
      BY <1>1
    <2>2. \A i \in 0 .. N : f[i] = g[i]
      BY <1>5, <2>1, Zenon DEF Share
    <2>3. f = g
      BY <1>5, <2>2, Zenon
    <2>. QED  BY <2>3, Zenon
  <1>7. Loop(sum)
    BY <1>6, Zenon
  <1> HIDE DEF sum
  <1>8. sum[0] = 0 /\ \A i \in 1 .. N : sum[i] = sum[i - 1] + Share(seq[i], n)
    <2>1. 0 \in 0 .. N /\ \A i \in 1 .. N : i \in 0 .. N /\ i # 0
      BY <1>1
    <2>. QED  BY <1>7, <2>1, Zenon DEF Share
  <1>9. \A i \in 0 .. N : sum[i] \in Nat
    <2> DEFINE T == {i \in 0 .. N : sum[i] \in Nat}
    <2>1. 0 \in T
      BY <1>1, <1>8
    <2>2. ASSUME NEW i \in 1 .. N, i - 1 \in T PROVE i \in T
      <3>1. i \in 0 .. N /\ sum[i - 1] + Share(seq[i], n) \in Nat
        BY <1>1, <2>2
      <3>. QED  BY <1>8, <3>1, Zenon
    <2> HIDE DEF T
    <2>3. \A i \in 1 .. N : i - 1 \in T => i \in T
      BY <2>2, Zenon
    <2>4. \A i \in 0 .. N : i \in T
      BY <1>1, <2>1, <2>3, UpTo, Zenon
    <2>. QED  BY <2>4, Zenon DEF T
  <1>10. sum \in [0 .. N -> Nat]
    BY <1>7, <1>9, Zenon
  <1>. QED  BY <1>8, <1>10, <1>n, Zenon DEF N, SumLoop

\* A trade adds its share to what an order has traded.
LEMMA QuantityAppend ==
    ASSUME NEW seq \in Seq(TradeExecuted), NEW trade \in TradeExecuted, NEW n
    PROVE  /\ QuantityIn(seq, n) \in Nat
           /\ QuantityIn(Append(seq, trade), n) = QuantityIn(seq, n) + Share(trade, n)
  <1> DEFINE longer == Append(seq, trade)
             N == Len(seq)
  <1>1. /\ longer \in Seq(TradeExecuted) /\ N \in Nat /\ Len(longer) = N + 1
        /\ longer[N + 1] = trade /\ \A i \in 1 .. N : longer[i] = seq[i]
    OBVIOUS
  <1> HIDE DEF longer
  <1>2. PICK f : SumLoop(f, seq, n)
    BY QuantityLoop, Zenon
  <1>3. PICK g : SumLoop(g, longer, n)
    BY <1>1, QuantityLoop, Zenon
  <1> DEFINE T == {k \in 0 .. N : f[k] = g[k]}
  <1>4. f[0] = 0 /\ \A i \in 1 .. N : f[i] = f[i - 1] + Share(seq[i], n)
    BY <1>2, Zenon DEF SumLoop
  <1>5. g[0] = 0 /\ \A i \in 1 .. N + 1 : g[i] = g[i - 1] + Share(longer[i], n)
    BY <1>1, <1>3, Zenon DEF SumLoop
  <1>6. 0 \in T
    BY <1>1, <1>4, <1>5
  <1>7. ASSUME NEW k \in 1 .. N, k - 1 \in T PROVE k \in T
    <2>1. k \in 0 .. N /\ k \in 1 .. N + 1 /\ f[k - 1] = g[k - 1]
      BY <1>1, <1>7
    <2>. QED  BY <1>1, <1>4, <1>5, <2>1, Zenon
  <1> HIDE DEF T
  <1>8. \A k \in 1 .. N : k - 1 \in T => k \in T
    BY <1>7, Zenon
  <1>9. \A k \in 0 .. N : k \in T
    BY <1>1, <1>6, <1>8, UpTo, Zenon
  <1>10. N \in 0 .. N /\ N + 1 \in 1 .. N + 1 /\ N + 1 - 1 = N
    BY <1>1
  <1>11. f[N] = g[N] /\ g[N + 1] = g[N] + Share(trade, n)
    <2>1. g[N + 1] = g[N + 1 - 1] + Share(longer[N + 1], n)
      BY <1>5, <1>10
    <2>2. f[N] = g[N]
      BY <1>9, <1>10, Zenon DEF T
    <2>. QED  BY <1>1, <1>10, <2>1, <2>2, Zenon
  <1>12. QuantityIn(seq, n) = f[N] /\ f[N] \in Nat /\ QuantityIn(longer, n) = g[N + 1]
    BY <1>1, <1>2, <1>3, <1>10, Zenon DEF SumLoop
  <1>. QED  BY <1>11, <1>12, Zenon DEF longer

\* A finite set of integers that is not empty has a least and a greatest
\* element.
LEMMA FiniteBest ==
    ASSUME NEW S \in SUBSET Int, IsFiniteSet(S), S # {}
    PROVE  /\ \E x \in S : \A y \in S : x >= y
           /\ \E x \in S : \A y \in S : x <= y
  <1>1. PICK N \in Nat : ExistsSurjection(1 .. N, S)
    BY FS_NatSurjection, Zenon
  <1>2. PICK f \in [1 .. N -> S] : \A y \in S : \E i \in 1 .. N : f[i] = y
    BY <1>1, Zenon DEF ExistsSurjection, Surjection
  <1>2a. \A i \in 1 .. N : f[i] \in Int
    BY Zenon
  <1> DEFINE Best(k) == /\ \E m \in 1 .. k : \A i \in 1 .. k : f[m] >= f[i]
                        /\ \E m \in 1 .. k : \A i \in 1 .. k : f[m] <= f[i]
             T == {k \in 0 .. N : k = 0 \/ Best(k)}
  <1>3. 0 \in T
    OBVIOUS
  <1>4. ASSUME NEW k \in 1 .. N, k - 1 \in T PROVE k \in T
    <2>0. \A i \in 1 .. k : i \in 1 .. N
      OBVIOUS
    <2>1. k \in 1 .. k /\ \A i \in 1 .. k : f[i] \in Int
      BY <1>2a, <2>0
    <2>2. \A i \in 1 .. k - 1 : i \in 1 .. k
      OBVIOUS
    <2>3. \A i \in 1 .. k : i = k \/ i \in 1 .. k - 1
      OBVIOUS
    <2>4. k \in 0 .. N
      OBVIOUS
    <2>5. CASE k - 1 = 0
      BY <2>1, <2>3, <2>4, <2>5
    <2>6. CASE Best(k - 1)
      <3>1. \E m \in 1 .. k : \A i \in 1 .. k : f[m] >= f[i]
        <4>1. PICK m \in 1 .. k - 1 : \A i \in 1 .. k - 1 : f[m] >= f[i]
          BY <2>6, Zenon
        <4>2. CASE f[m] >= f[k]
          BY <2>2, <2>3, <4>1, <4>2, Zenon
        <4>3. CASE f[k] >= f[m]
          <5>1. \A i \in 1 .. k - 1 : f[k] >= f[i]
            BY <2>1, <2>2, <4>1, <4>3
          <5>2. f[k] >= f[k]
            BY <2>1
          <5>. QED  BY <2>1, <2>3, <5>1, <5>2, Zenon
        <4>. QED  BY <2>1, <2>2, <4>2, <4>3
      <3>2. \E m \in 1 .. k : \A i \in 1 .. k : f[m] <= f[i]
        <4>1. PICK m \in 1 .. k - 1 : \A i \in 1 .. k - 1 : f[m] <= f[i]
          BY <2>6, Zenon
        <4>2. CASE f[m] <= f[k]
          BY <2>2, <2>3, <4>1, <4>2, Zenon
        <4>3. CASE f[k] <= f[m]
          <5>1. \A i \in 1 .. k - 1 : f[k] <= f[i]
            BY <2>1, <2>2, <4>1, <4>3
          <5>2. f[k] <= f[k]
            BY <2>1
          <5>. QED  BY <2>1, <2>3, <5>1, <5>2, Zenon
        <4>. QED  BY <2>1, <2>2, <4>2, <4>3
      <3>. QED  BY <2>4, <3>1, <3>2, Zenon
    <2>. QED  BY <1>4, <2>5, <2>6, Zenon
  <1> HIDE DEF T
  <1>5. \A k \in 1 .. N : k - 1 \in T => k \in T
    BY <1>4, Zenon
  <1>6. \A k \in 0 .. N : k \in T
    BY <1>3, <1>5, UpTo, Zenon
  <1>7. N # 0 /\ N \in 0 .. N
    <2>1. PICK y \in S : TRUE
      BY Zenon
    <2>2. PICK i \in 1 .. N : f[i] = y
      BY <1>2, Zenon
    <2>. QED  BY <2>2
  <1>8. Best(N)
    BY <1>6, <1>7, Zenon DEF T
  <1>9. PICK a \in 1 .. N, b \in 1 .. N :
            \A i \in 1 .. N : f[a] >= f[i] /\ f[b] <= f[i]
    BY <1>8, Zenon
  <1>10. f[a] \in S /\ f[b] \in S /\ \A y \in S : f[a] >= y /\ f[b] <= y
    BY <1>2, <1>9, Zenon
  <1>. QED  BY <1>10, Zenon

\* Front is a level of the side, and the first in the order of the skiplist.
LEMMA FrontRanks ==
    ASSUME NEW side \in Side, Levels(side) # {}
    PROVE  /\ Front(side) \in Levels(side)
           /\ \A other \in Levels(side) : Ranks(side, Front(side), other)
  <1> DEFINE S == Levels(side)
  <1>1. S \in SUBSET Price /\ S \in SUBSET Int /\ IsFiniteSet(Price)
    BY PriceAssumption, Zenon DEF Levels
  <1> HIDE DEF S
  <1>2. IsFiniteSet(S)
    BY <1>1, FS_Subset, Zenon
  <1>3. /\ \E x \in S : \A y \in S : x >= y
        /\ \E x \in S : \A y \in S : x <= y
    BY <1>1, <1>2, FiniteBest, Zenon DEF S
  <1>4. \E price \in S : \A other \in S : Ranks(side, price, other)
    <2>1. \A a \in S : Compare(side, a, a)
      BY <1>1 DEF Compare
    <2>2. CASE side = "buy"
      <3>1. \A a, b \in S : a <= b => a = b \/ CalcScore(side, a) < CalcScore(side, b)
        BY <1>1, <2>2 DEF CalcScore
      <3>. QED  BY <1>3, <2>1, <3>1, Zenon DEF Ranks
    <2>3. CASE side # "buy"
      <3>1. \A a, b \in S : a >= b => a = b \/ CalcScore(side, a) < CalcScore(side, b)
        BY <1>1, <2>3 DEF CalcScore
      <3>. QED  BY <1>3, <2>1, <3>1, Zenon DEF Ranks
    <2>. QED  BY <2>2, <2>3, Zenon
  <1>. QED  BY <1>4, Zenon DEF Front, S

\* An order no trade mentions has traded nothing.
LEMMA QuantityZero ==
    ASSUME NEW seq \in Seq(TradeExecuted), NEW n,
           \A i \in 1 .. Len(seq) : seq[i].Taker # n /\ seq[i].Maker # n
    PROVE  QuantityIn(seq, n) = 0
  <1>1. PICK f : SumLoop(f, seq, n)
    BY QuantityLoop, Zenon
  <1> DEFINE N == Len(seq)
             T == {k \in 0 .. N : f[k] = 0}
  <1>2. N \in Nat
    OBVIOUS
  <1>3. f[0] = 0 /\ \A i \in 1 .. N : f[i] = f[i - 1] + Share(seq[i], n)
    BY <1>1, Zenon DEF SumLoop
  <1>4. \A i \in 1 .. N : Share(seq[i], n) = 0
    BY Zenon DEF Share
  <1>5. 0 \in T
    BY <1>2, <1>3
  <1>6. ASSUME NEW k \in 1 .. N, k - 1 \in T PROVE k \in T
    <2>1. k \in 0 .. N /\ f[k - 1] = 0
      BY <1>2, <1>6
    <2>2. f[k] = 0 + 0
      BY <1>3, <1>4, <2>1, Zenon
    <2>. QED  BY <2>1, <2>2
  <1> HIDE DEF T
  <1>7. \A k \in 1 .. N : k - 1 \in T => k \in T
    BY <1>6, Zenon
  <1>8. \A k \in 0 .. N : k \in T
    BY <1>2, <1>5, <1>7, UpTo, Zenon
  <1>9. N \in 0 .. N
    BY <1>2
  <1>. QED  BY <1>1, <1>8, <1>9, Zenon DEF SumLoop, T

-----------------------------------------------------------------------------
(* Entries and levels.                                                     *)

\* The entries of a level.
Items(queue) == {queue[i] : i \in 1 .. Len(queue)}

\* Two entries that stand for the same order.
SameOrder(e, f) ==
    /\ e.OrderID = f.OrderID /\ e.SequenceNum = f.SequenceNum
    /\ e.Side = f.Side /\ e.Price = f.Price

LEMMA NoOrderIsNone == NoOrder \notin OrderBookEntry
  <1>1. \A e \in OrderBookEntry : "Price" \in DOMAIN e
    BY Zenon DEF OrderBookEntry
  <1>2. "Price" \notin DOMAIN NoOrder
    BY Zenon DEF NoOrder
  <1>. QED  BY <1>1, <1>2, Zenon

\* MatchOne changes nothing of the maker but what is filled.
LEMMA UpdatedEntry ==
    ASSUME NEW e \in OrderBookEntry, NEW q \in Nat,
           NEW u, u = [e EXCEPT !.FilledQty = @ + q]
    PROVE  /\ u \in OrderBookEntry /\ SameOrder(u, e)
           /\ u.Quantity = e.Quantity /\ u.FilledQty = e.FilledQty + q
  BY DEF OrderBookEntry, SameOrder

\* addOrderToBook changes nothing of the taker but the quantities.
LEMMA RestedEntry ==
    ASSUME taker \in OrderBookEntry, remainingQty \in Nat
    PROVE  /\ Rested \in OrderBookEntry /\ SameOrder(Rested, taker)
           /\ Rested.Quantity = remainingQty /\ Rested.FilledQty = 0
  BY Zenon DEF OrderBookEntry, SameOrder, Rested

\* A level that is copied without an id.
LEMMA WithoutItems ==
    ASSUME NEW queue \in Seq(OrderBookEntry), Ordered(queue), NEW id
    PROVE  /\ Without(queue, id) \in Seq(OrderBookEntry)
           /\ Ordered(Without(queue, id))
           /\ Items(Without(queue, id)) = {e \in Items(queue) : e.OrderID # id}
  <1> DEFINE rest == Without(queue, id)
  <1>1. rest \in Seq(OrderBookEntry) /\ Copies(rest, queue, Len(queue), id)
    BY WithoutFacts, Zenon
  <1> HIDE DEF rest
  <1>2. ASSUME NEW e \in Items(rest) PROVE e \in Items(queue) /\ e.OrderID # id
    <2>1. PICK i \in 1 .. Len(rest) : e = rest[i]
      BY Zenon DEF Items
    <2>2. PICK j \in 1 .. Len(queue) : rest[i] = queue[j] /\ queue[j].OrderID # id
      BY <1>1, Zenon DEF Copies
    <2>. QED  BY <2>1, <2>2, Zenon DEF Items
  <1>3. ASSUME NEW e \in Items(queue), e.OrderID # id PROVE e \in Items(rest)
    <2>1. PICK j \in 1 .. Len(queue) : e = queue[j]
      BY Zenon DEF Items
    <2>2. PICK i \in 1 .. Len(rest) : rest[i] = queue[j]
      BY <1>1, <1>3, <2>1, Zenon DEF Copies
    <2>. QED  BY <2>1, <2>2, Zenon DEF Items
  <1>4. Items(rest) = {e \in Items(queue) : e.OrderID # id}
    BY <1>2, <1>3, Zenon
  <1>. QED  BY <1>1, <1>4, Zenon DEF Copies, rest

\* A level to which an entry is appended.
LEMMA AppendItems ==
    ASSUME NEW queue \in Seq(OrderBookEntry), Ordered(queue), NEW e \in OrderBookEntry,
           \A f \in Items(queue) : f.SequenceNum < e.SequenceNum
    PROVE  /\ Append(queue, e) \in Seq(OrderBookEntry)
           /\ Ordered(Append(queue, e))
           /\ Items(Append(queue, e)) = Items(queue) \cup {e}
  <1> DEFINE longer == Append(queue, e)
             N == Len(queue)
  <1>1. /\ longer \in Seq(OrderBookEntry) /\ N \in Nat /\ Len(longer) = N + 1
        /\ longer[N + 1] = e /\ \A i \in 1 .. N : longer[i] = queue[i]
    OBVIOUS
  <1> HIDE DEF longer, N
  <1>2. /\ \A i \in 1 .. N + 1 : i \in 1 .. N \/ i = N + 1
        /\ \A i \in 1 .. N : i \in 1 .. N + 1
        /\ N + 1 \in 1 .. N + 1
        /\ \A i, j \in 1 .. N + 1 : i < j => i \in 1 .. N
    BY <1>1
  <1>3. Items(longer) = Items(queue) \cup {e}
    BY <1>1, <1>2, Zenon DEF Items, N
  <1>4. ASSUME NEW i \in 1 .. N + 1, NEW j \in 1 .. N + 1, i < j
        PROVE  longer[i].SequenceNum < longer[j].SequenceNum
    <2>1. i \in 1 .. N /\ longer[i] = queue[i]
      BY <1>1, <1>2, <1>4, Zenon
    <2>2. CASE j = N + 1
      BY <1>1, <2>1, <2>2, Zenon DEF Items, N
    <2>3. CASE j \in 1 .. N
      BY <1>1, <1>4, <2>1, <2>3, Zenon DEF Ordered, N
    <2>. QED  BY <1>2, <2>2, <2>3, Zenon
  <1>5. Ordered(longer)
    BY <1>1, <1>4, Zenon DEF Ordered
  <1>. QED  BY <1>1, <1>3, <1>5, Zenon DEF longer

\* A level after its head has traded q: what MatchOne leaves of it.
After(queue, q) ==
    LET updated == [queue[1] EXCEPT !.FilledQty = @ + q]
    IN  IF Filled(updated) THEN Tail(queue) ELSE [queue EXCEPT ![1] = updated]

\* The other entries of a level.
Others(queue) == {e \in Items(queue) : e.SequenceNum # queue[1].SequenceNum}

LEMMA AfterItems ==
    ASSUME NEW queue \in Seq(OrderBookEntry), Ordered(queue), queue # <<>>, NEW q \in Nat,
           NEW u, u = [queue[1] EXCEPT !.FilledQty = @ + q]
    PROVE  /\ After(queue, q) \in Seq(OrderBookEntry)
           /\ Ordered(After(queue, q))
           /\ Items(After(queue, q)) = Others(queue) \cup (IF Filled(u) THEN {} ELSE {u})
  <1> DEFINE N == Len(queue)
  <1>1. N \in Nat /\ 1 \in 1 .. N /\ \A i \in 1 .. N : queue[i] \in OrderBookEntry
    OBVIOUS
  <1>2. u \in OrderBookEntry /\ u.SequenceNum = queue[1].SequenceNum
    BY <1>1, UpdatedEntry DEF SameOrder
  <1>3. \A i \in 1 .. N : queue[i].SequenceNum \in Nat
    BY <1>1, Zenon DEF OrderBookEntry
  <1>4. \A i \in 2 .. N : i \in 1 .. N /\ 1 < i
    BY <1>1
  <1>5. \A i \in 1 .. N : i = 1 \/ i \in 2 .. N
    BY <1>1
  <1>6. \A i \in 2 .. N : queue[i].SequenceNum # queue[1].SequenceNum
    <2>1. \A i \in 2 .. N : queue[1].SequenceNum < queue[i].SequenceNum
      BY <1>1, <1>4, Zenon DEF Ordered
    <2>. QED  BY <1>1, <1>3, <1>4, <2>1
  <1>7. Others(queue) = {queue[i] : i \in 2 .. N}
    BY <1>4, <1>5, <1>6, Zenon DEF Others, Items
  <1>8. CASE Filled(u)
    <2> DEFINE rest == Tail(queue)
    <2>1. /\ rest \in Seq(OrderBookEntry) /\ Len(rest) = N - 1
          /\ \A i \in 1 .. N - 1 : rest[i] = queue[i + 1]
      OBVIOUS
    <2>2. After(queue, q) = rest
      BY <1>8, Zenon DEF After
    <2> HIDE DEF rest
    <2>3. Ordered(rest)
      BY <1>1, <2>1, SMTT(20) DEF Ordered
    <2>4. /\ \A i \in 1 .. N - 1 : i + 1 \in 2 .. N
          /\ \A i \in 2 .. N : i - 1 \in 1 .. N - 1 /\ (i - 1) + 1 = i
      BY <1>1
    <2>5. ASSUME NEW e \in Items(rest) PROVE e \in {queue[i] : i \in 2 .. N}
      BY <2>1, <2>4, <2>5, Zenon DEF Items
    <2>6. ASSUME NEW i \in 2 .. N PROVE queue[i] \in Items(rest)
      <3>1. queue[i] = rest[i - 1] /\ i - 1 \in 1 .. Len(rest)
        BY <2>1, <2>4, Zenon
      <3>. QED  BY <3>1, Zenon DEF Items
    <2>7. Items(rest) = {queue[i] : i \in 2 .. N}
      BY <2>5, <2>6, Zenon
    <2>. QED  BY <1>7, <1>8, <2>1, <2>2, <2>3, <2>7, Zenon
  <1>9. CASE ~Filled(u)
    <2> DEFINE rest == [queue EXCEPT ![1] = u]
    <2>1. rest \in Seq(OrderBookEntry) /\ Len(rest) = N
      BY <1>1, <1>2
    <2>2. rest[1] = u /\ \A i \in 2 .. N : rest[i] = queue[i]
      BY <1>1
    <2>3. After(queue, q) = rest
      BY <1>9, Zenon DEF After
    <2> HIDE DEF rest
    <2>4. \A i \in 1 .. N : rest[i].SequenceNum = queue[i].SequenceNum
      BY <1>2, <1>5, <2>2, Zenon
    <2>5. Ordered(rest)
      <3>1. ASSUME NEW i \in 1 .. N, NEW j \in 1 .. N, i < j
            PROVE  rest[i].SequenceNum < rest[j].SequenceNum
        BY <2>4, <3>1, Zenon DEF Ordered
      <3>. QED  BY <2>1, <3>1, Zenon DEF Ordered
    <2>6. Items(rest) = {queue[i] : i \in 2 .. N} \cup {u}
      <3>1. Items(rest) = {rest[i] : i \in 1 .. N}
        BY <2>1, Zenon DEF Items
      <3>2. ASSUME NEW i \in 1 .. N PROVE rest[i] \in {queue[j] : j \in 2 .. N} \cup {u}
        BY <1>5, <2>2, Zenon
      <3>3. ASSUME NEW i \in 2 .. N PROVE queue[i] \in {rest[j] : j \in 1 .. N}
        BY <1>4, <2>2, Zenon
      <3>4. u \in {rest[j] : j \in 1 .. N}
        BY <1>1, <2>2, Zenon
      <3>5. ASSUME NEW x \in {rest[i] : i \in 1 .. N}
            PROVE  x \in {queue[j] : j \in 2 .. N} \cup {u}
        BY <3>2, Zenon
      <3>6. ASSUME NEW x \in {queue[j] : j \in 2 .. N} \cup {u}
            PROVE  x \in {rest[i] : i \in 1 .. N}
        BY <3>3, <3>4, Zenon
      <3>7. {rest[i] : i \in 1 .. N} = {queue[j] : j \in 2 .. N} \cup {u}
        BY <3>5, <3>6, Zenon
      <3>. QED  BY <3>1, <3>7, Zenon
    <2>. QED  BY <1>7, <1>9, <2>1, <2>3, <2>5, <2>6, Zenon
  <1>. QED  BY <1>8, <1>9, Zenon

-----------------------------------------------------------------------------
(* The book, level by level.                                               *)

Books == [Side -> [Price -> Seq(OrderBookEntry)]]

\* c is the book b with another queue at one level.
Replaces(c, b, side, price, queue) ==
    /\ c[side][price] = queue
    /\ \A s \in Side, p \in Price : s # side \/ p # price => c[s][p] = b[s][p]

LEMMA OneLevel ==
    ASSUME NEW b \in Books, NEW side \in Side, NEW price \in Price,
           NEW queue \in Seq(OrderBookEntry),
           NEW c, c = [b EXCEPT ![side][price] = queue]
    PROVE  c \in Books /\ Replaces(c, b, side, price, queue)
  <1>1. c \in Books
    BY Zenon DEF Books
  <1>2. Replaces(c, b, side, price, queue)
    BY Zenon DEF Books, Replaces
  <1>. QED  BY <1>1, <1>2, Zenon

\* One iteration of the loop: q is traded with the head of the first level.
Trade(side, price, q) ==
    [TradeID |-> TradeID, Taker |-> taker.SequenceNum,
     Maker |-> book[side][price][1].SequenceNum, Price |-> price, Quantity |-> q]

Trades(side, price, q) ==
    LET maker == book[side][price][1]
    IN  /\ taker \in OrderBookEntry /\ taker # NoOrder
        /\ side \in Side /\ side # taker.Side
        /\ price \in Levels(side)
        /\ WithinLimit(taker, price)
        /\ maker \in EntriesAt(side, price)
        /\ q \in Nat /\ 0 < q /\ q <= remainingQty /\ q <= maker.Quantity - maker.FilledQty
        /\ book' = [book EXCEPT ![side][price] = After(book[side][price], q)]
        /\ remainingQty' = remainingQty - q
        /\ trades' = Append(trades, Trade(side, price, q))
        /\ UNCHANGED <<orders, taker, submitted, cancelled>>

LEMMA MatchOneTrades ==
    ASSUME TypeOK, LevelsInOrder, MatchOne
    PROVE  \E side, price, q : Trades(side, price, q)
  <1> DEFINE side == Opposite(taker.Side)
             price == Front(side)
             queue == book[side][price]
             maker == Head(queue)
             q == TradeQty(maker.Quantity - maker.FilledQty)
  <1>1. taker \in OrderBookEntry /\ taker # NoOrder /\ CanMatch
    BY Zenon DEF TypeOK, MatchOne
  <1>2. taker.Side \in Side
    BY <1>1, Zenon DEF OrderBookEntry
  <1>3. side \in Side /\ side # taker.Side
    BY <1>2, Zenon DEF Side, Opposite
  <1>4. remainingQty > 0 /\ Levels(side) # {}
    BY <1>1, Zenon DEF CanMatch
  <1> HIDE DEF side
  <1>5. price \in Levels(side)
    BY <1>3, <1>4, FrontRanks, Zenon
  <1>5a. WithinLimit(taker, price)
    <2>1. IF taker.Side = "buy" THEN taker.Price >= price ELSE taker.Price <= price
      BY <1>1, Zenon DEF CanMatch, side
    <2>2. price \in Int /\ taker.Price \in Int
      BY <1>1, <1>5, PriceAssumption, Zenon DEF Levels, OrderBookEntry
    <2> HIDE DEF price
    <2>. QED  BY <2>1, <2>2 DEF WithinLimit
  <1> HIDE DEF price
  <1>6. price \in Price /\ queue # <<>>
    BY <1>5, Zenon DEF Levels
  <1>7. queue \in Seq(OrderBookEntry)
    BY <1>3, <1>6, Zenon DEF TypeOK
  <1>8. maker = queue[1] /\ 1 \in 1 .. Len(queue)
    BY <1>6, <1>7
  <1>9. queue[1] \in EntriesAt(side, price)
    BY <1>3, <1>6, <1>8, Zenon DEF LevelsInOrder
  <1>10. /\ queue[1] \in OrderBookEntry
         /\ queue[1].FilledQty < queue[1].Quantity
    BY <1>9, Zenon DEF EntriesAt
  <1>11. queue[1].FilledQty \in Nat /\ queue[1].Quantity \in Nat /\ remainingQty \in Nat
    BY <1>10, Zenon DEF OrderBookEntry, TypeOK
  <1>12. q = TradeQty(queue[1].Quantity - queue[1].FilledQty)
    BY <1>8, Zenon
  <1> HIDE DEF q, maker, queue
  <1>13. q \in Nat /\ 0 < q /\ q <= remainingQty /\ q <= queue[1].Quantity - queue[1].FilledQty
    BY <1>4, <1>10, <1>11, <1>12 DEF TradeQty
  <1> DEFINE updated == [maker EXCEPT !.FilledQty = @ + q]
  <1>14. /\ book' = [book EXCEPT ![side][price] =
                        IF Filled(updated) THEN Tail(queue) ELSE [queue EXCEPT ![1] = updated]]
         /\ remainingQty' = remainingQty - (IF q > 0 THEN q ELSE 0)
         /\ trades' = IF q <= 0 THEN trades
                      ELSE Append(trades, [TradeID |-> TradeID, Taker |-> taker.SequenceNum,
                                           Maker |-> maker.SequenceNum, Price |-> price,
                                           Quantity |-> q])
         /\ UNCHANGED <<orders, taker, submitted, cancelled>>
    BY Zenon DEF MatchOne, side, price, queue, maker, q
  <1>15. book' = [book EXCEPT ![side][price] = After(queue, q)]
    BY <1>8, <1>14, Zenon DEF After
  <1>16. q > 0 /\ ~(q <= 0)
    BY <1>13
  <1>17. trades' = Append(trades, Trade(side, price, q))
    BY <1>8, <1>14, <1>16, Zenon DEF Trade, queue
  <1>18. remainingQty' = remainingQty - q
    BY <1>14, <1>16, Zenon
  <1>19. Trades(side, price, q)
    BY <1>1, <1>3, <1>5, <1>5a, <1>9, <1>13, <1>14, <1>15, <1>17, <1>18, Zenon DEF Trades, queue
  <1>. QED  BY <1>19, Zenon

\* What the invariant says of a level.
LEMMA LevelFacts ==
    ASSUME TypeOK, LevelsInOrder, NEW side \in Side, NEW price \in Price
    PROVE  /\ book \in Books
           /\ book[side][price] \in Seq(OrderBookEntry)
           /\ Ordered(book[side][price])
           /\ Items(book[side][price]) \subseteq EntriesAt(side, price)
  <1>1. book \in Books
    BY Zenon DEF TypeOK, Books
  <1>2. book[side][price] \in Seq(OrderBookEntry)
    BY <1>1, Zenon DEF Books
  <1>3. Ordered(book[side][price])
    BY Zenon DEF LevelsInOrder, Ordered
  <1>4. Items(book[side][price]) \subseteq EntriesAt(side, price)
    BY Zenon DEF LevelsInOrder, Items
  <1>. QED  BY <1>1, <1>2, <1>3, <1>4, Zenon

\* The maker with q more filled.
Updated(side, price, q) == [book[side][price][1] EXCEPT !.FilledQty = @ + q]

\* The book after a trade.
LEMMA TradesBook ==
    ASSUME TypeOK, LevelsInOrder, NEW side, NEW price, NEW q, Trades(side, price, q)
    PROVE  LET queue == book[side][price]
               rest == After(queue, q)
           IN  /\ price \in Price
               /\ book' \in Books
               /\ Replaces(book', book, side, price, rest)
               /\ Ordered(rest)
               /\ Items(rest) = Others(queue) \cup (IF Filled(Updated(side, price, q)) THEN {}
                                                    ELSE {Updated(side, price, q)})
  <1>1. side \in Side /\ price \in Levels(side) /\ q \in Nat
    BY Zenon DEF Trades
  <1>2. price \in Price /\ book[side][price] # <<>>
    BY <1>1, Zenon DEF Levels
  <1>3. /\ book \in Books
        /\ book[side][price] \in Seq(OrderBookEntry)
        /\ Ordered(book[side][price])
    BY <1>1, <1>2, LevelFacts, Zenon
  <1> DEFINE queue == book[side][price]
             u == Updated(side, price, q)
             rest == After(queue, q)
  <1>4. u = [queue[1] EXCEPT !.FilledQty = @ + q]
    BY Zenon DEF Updated
  <1>5. book' = [book EXCEPT ![side][price] = rest]
    BY Zenon DEF Trades
  <1> HIDE DEF queue, u
  <1>6. /\ rest \in Seq(OrderBookEntry)
        /\ Ordered(rest)
        /\ Items(rest) = Others(queue) \cup (IF Filled(u) THEN {} ELSE {u})
    <2>1. queue \in Seq(OrderBookEntry) /\ Ordered(queue) /\ queue # <<>>
      BY <1>2, <1>3, Zenon DEF queue
    <2>. QED  BY <1>1, <1>4, <2>1, AfterItems, Zenon
  <1> HIDE DEF rest
  <1>7. book' \in Books /\ Replaces(book', book, side, price, rest)
    BY <1>1, <1>2, <1>3, <1>5, <1>6, OneLevel, Zenon
  <1>. QED  BY <1>2, <1>6, <1>7, Zenon DEF rest, queue, u

\* The loop is over and the order goes to its level, or is filled.
LEMMA EndMatchBook ==
    ASSUME TypeOK, LevelsInOrder, Numbered, EndMatch
    PROVE  LET queue == book[taker.Side][taker.Price]
           IN  /\ taker \in OrderBookEntry /\ taker.SequenceNum = Len(submitted)
               /\ taker.Side \in Side /\ taker.Price \in Price
               /\ book' \in Books
               /\ remainingQty = 0 => book' = book
               /\ remainingQty # 0 =>
                    /\ Replaces(book', book, taker.Side, taker.Price, Append(queue, Rested))
                    /\ Ordered(Append(queue, Rested))
                    /\ Items(Append(queue, Rested)) = Items(queue) \cup {Rested}
  <1>1. taker # NoOrder
    BY Zenon DEF EndMatch
  <1>2. taker \in OrderBookEntry /\ remainingQty \in Nat /\ submitted \in Seq(OrderBookEntry)
    BY <1>1, Zenon DEF TypeOK
  <1>3. taker.Side \in Side /\ taker.Price \in Price
    BY <1>2, Zenon DEF OrderBookEntry
  <1>4. Len(submitted) \in 1 .. Len(submitted) /\ taker = submitted[Len(submitted)]
    BY <1>1, <1>2 DEF Numbered
  <1>5. taker.SequenceNum = Len(submitted)
    BY <1>4, Zenon DEF Numbered
  <1> DEFINE side == taker.Side
             price == taker.Price
             queue == book[side][price]
  <1> HIDE DEF side, price
  <1>6. side \in Side /\ price \in Price
    BY <1>3, Zenon DEF side, price
  <1>7. /\ book \in Books /\ queue \in Seq(OrderBookEntry) /\ Ordered(queue)
        /\ Items(queue) \subseteq EntriesAt(side, price)
    BY <1>6, LevelFacts, Zenon
  <1> HIDE DEF queue
  <1>8. CASE remainingQty = 0
    <2>1. book' = book
      BY <1>8 DEF EndMatch
    <2>. QED  BY <1>2, <1>3, <1>5, <1>7, <1>8, <2>1, Zenon
  <1>9. CASE remainingQty # 0
    <2>1. remainingQty > 0
      BY <1>2, <1>9
    <2>2. Rested \in OrderBookEntry /\ SameOrder(Rested, taker)
      BY <1>2, RestedEntry, Zenon
    <2>3. Rested.SequenceNum = Len(submitted)
      BY <1>5, <2>2, Zenon DEF SameOrder
    <2>4. \A e \in Items(queue) : e.SequenceNum \in 1 .. Len(submitted)
                                  /\ e.SequenceNum # Len(submitted)
      BY <1>1, <1>5, <1>7, Zenon DEF EntriesAt, MayRest
    <2>5. \A e \in Items(queue) : e.SequenceNum < Rested.SequenceNum
      BY <1>2, <2>3, <2>4
    <2>6. /\ Append(queue, Rested) \in Seq(OrderBookEntry)
          /\ Ordered(Append(queue, Rested))
          /\ Items(Append(queue, Rested)) = Items(queue) \cup {Rested}
      BY <1>7, <2>2, <2>5, AppendItems, Zenon
    <2>7. book' = [book EXCEPT ![side][price] = Append(queue, Rested)]
      BY <2>1, Zenon DEF EndMatch, side, price, queue
    <2>8. /\ book' \in Books
          /\ Replaces(book', book, side, price, Append(queue, Rested))
      BY <1>6, <1>7, <2>6, <2>7, OneLevel, Zenon
    <2>. QED  BY <1>2, <1>3, <1>5, <1>9, <2>6, <2>8, Zenon DEF side, price, queue
  <1>. QED  BY <1>8, <1>9, Zenon

\* A cancelled order's id is filtered out of its level.
LEMMA CancelOrderBook ==
    ASSUME TypeOK, LevelsInOrder, NEW order \in orders, CancelOrder(order)
    PROVE  LET queue == book[order.Side][order.Price]
               rest == Without(queue, order.OrderID)
           IN  /\ order \in OrderBookEntry /\ order.Side \in Side /\ order.Price \in Price
               /\ book' \in Books
               /\ Replaces(book', book, order.Side, order.Price, rest)
               /\ Ordered(rest)
               /\ Items(rest) = {e \in Items(queue) : e.OrderID # order.OrderID}
               /\ cancelled' = cancelled \cup {order.SequenceNum}
                                 \cup {e.SequenceNum : e \in {f \in Items(queue) :
                                                               f.OrderID = order.OrderID}}
  <1>1. order \in OrderBookEntry
    BY Zenon DEF TypeOK
  <1>2. order.Side \in Side /\ order.Price \in Price
    BY <1>1, Zenon DEF OrderBookEntry
  <1> DEFINE queue == book[order.Side][order.Price]
             rest == Without(queue, order.OrderID)
             same == {i \in DOMAIN queue : queue[i].OrderID = order.OrderID}
             gone == {f \in Items(queue) : f.OrderID = order.OrderID}
  <1>3. book \in Books /\ queue \in Seq(OrderBookEntry) /\ Ordered(queue)
    BY <1>2, LevelFacts, Zenon
  <1>4. /\ book' = [book EXCEPT ![order.Side][order.Price] = rest]
        /\ cancelled' = cancelled \cup {order.SequenceNum} \cup {queue[i].SequenceNum : i \in same}
    BY Zenon DEF CancelOrder
  <1> HIDE DEF queue
  <1>5. /\ rest \in Seq(OrderBookEntry) /\ Ordered(rest)
        /\ Items(rest) = {e \in Items(queue) : e.OrderID # order.OrderID}
    BY <1>3, WithoutItems, Zenon
  <1> HIDE DEF rest
  <1>6. book' \in Books /\ Replaces(book', book, order.Side, order.Price, rest)
    BY <1>2, <1>3, <1>4, <1>5, OneLevel, Zenon
  <1>7. DOMAIN queue = 1 .. Len(queue)
    BY <1>3
  <1>8. {queue[i].SequenceNum : i \in same} = {e.SequenceNum : e \in gone}
    BY <1>7, Zenon DEF Items
  <1>. QED  BY <1>1, <1>2, <1>4, <1>5, <1>6, <1>8, Zenon DEF queue, rest

\* An order is taken up.
Begins(order) ==
    /\ taker = NoOrder
    /\ order \in OrderBookEntry
    /\ order.SequenceNum = Len(submitted) + 1
    /\ taker' = order
    /\ remainingQty' \in Nat /\ order.Quantity = remainingQty'
    /\ submitted' = Append(submitted, order)
    /\ UNCHANGED <<book, orders, trades, cancelled>>

LEMMA BeginMatchBegins ==
    ASSUME TypeOK, NEW id, NEW side \in Side, NEW price \in Price, NEW qty \in 0 .. MaxQty,
           BeginMatch(id, side, price, qty)
    PROVE  \E order : Begins(order)
  <1> DEFINE order == [OrderID |-> id, SequenceNum |-> Len(submitted) + 1, Side |-> side,
                       Price |-> price, Quantity |-> qty, FilledQty |-> 0]
  <1>1. id \in 1 .. Len(submitted) + 1 /\ submitted \in Seq(OrderBookEntry)
    BY Zenon DEF BeginMatch, TypeOK
  <1>2. id \in Nat /\ Len(submitted) + 1 \in Nat /\ qty \in Nat
    BY <1>1, BoundAssumption
  <1>3. /\ order \in OrderBookEntry
        /\ order.SequenceNum = Len(submitted) + 1 /\ order.Quantity = qty
    BY <1>2, Zenon DEF OrderBookEntry
  <1>4. /\ taker = NoOrder /\ taker' = order /\ remainingQty' = qty
        /\ submitted' = Append(submitted, order)
        /\ UNCHANGED <<book, orders, trades, cancelled>>
    BY Zenon DEF BeginMatch
  <1> HIDE DEF order
  <1>5. Begins(order)
    BY <1>2, <1>3, <1>4, Zenon DEF Begins
  <1>. QED  BY <1>5, Zenon

\* The history of the orders given to MatchOrder.
LEMMA BeginsFacts ==
    ASSUME TypeOK, NEW order, Begins(order)
    PROVE  /\ submitted' \in Seq(OrderBookEntry)
           /\ Len(submitted) \in Nat /\ Len(submitted') = Len(submitted) + 1
           /\ submitted'[Len(submitted) + 1] = order
           /\ \A n \in 1 .. Len(submitted) : submitted'[n] = submitted[n]
  <1>1. /\ submitted \in Seq(OrderBookEntry) /\ order \in OrderBookEntry
        /\ submitted' = Append(submitted, order)
    BY Zenon DEF TypeOK, Begins
  <1>. QED  BY <1>1

\* A step takes up an order, trades, rests an order, cancels one, or changes
\* nothing.
LEMMA StepCases ==
    ASSUME TypeOK, LevelsInOrder, [Next]_vars
    PROVE  \/ \E order : Begins(order)
           \/ \E side, price, q : Trades(side, price, q)
           \/ EndMatch
           \/ \E order \in orders : CancelOrder(order)
           \/ UNCHANGED vars
  <1>1. CASE \E id \in 1 .. MaxOrders, side \in Side, price \in Price, qty \in 0 .. MaxQty :
                BeginMatch(id, side, price, qty)
    <2>1. PICK id \in 1 .. MaxOrders, side \in Side, price \in Price, qty \in 0 .. MaxQty :
                BeginMatch(id, side, price, qty)
      BY <1>1, Zenon
    <2>2. \E order : Begins(order)
      BY <2>1, BeginMatchBegins, Zenon
    <2>. QED  BY <2>2, Zenon
  <1>2. CASE MatchOne
    <2>1. \E side, price, q : Trades(side, price, q)
      BY <1>2, MatchOneTrades, Zenon
    <2>. QED  BY <2>1, Zenon
  <1>. QED  BY <1>1, <1>2, Zenon DEF Next

-----------------------------------------------------------------------------
(* The types.                                                              *)

\* The index of a trade counts the trades its taker has made.
Made(seq, n) == {i \in DOMAIN seq : seq[i].Taker = n}

LEMMA MadeFinite ==
    ASSUME NEW seq \in Seq(TradeExecuted), NEW n
    PROVE  IsFiniteSet(Made(seq, n)) /\ Cardinality(Made(seq, n)) \in Nat
  <1>1. Len(seq) \in Nat /\ DOMAIN seq = 1 .. Len(seq)
    OBVIOUS
  <1>2. IsFiniteSet(1 .. Len(seq))
    BY <1>1, FS_Interval
  <1>3. Made(seq, n) \in SUBSET (1 .. Len(seq))
    BY <1>1, Zenon DEF Made
  <1>4. IsFiniteSet(Made(seq, n))
    BY <1>2, <1>3, FS_Subset, Zenon
  <1>. QED  BY <1>4, FS_CardinalityType, Zenon

LEMMA TradeType ==
    ASSUME TypeOK, NEW side, NEW price, NEW q, Trades(side, price, q)
    PROVE  /\ Trade(side, price, q) \in TradeExecuted
           /\ TradeID \in Nat \X Nat
  <1>1. /\ taker \in OrderBookEntry /\ book[side][price][1] \in OrderBookEntry
        /\ price \in Price /\ q \in Nat
    BY Zenon DEF Trades, Levels, EntriesAt
  <1>2. taker.SequenceNum \in Nat /\ taker.OrderID \in Nat
        /\ book[side][price][1].SequenceNum \in Nat
    BY <1>1, Zenon DEF OrderBookEntry
  <1>3. TradeID = <<taker.OrderID, Cardinality(Made(trades, taker.SequenceNum))>>
    BY Zenon DEF TradeID, Made
  <1>4. Cardinality(Made(trades, taker.SequenceNum)) \in Nat
    <2>1. trades \in Seq(TradeExecuted)
      BY Zenon DEF TypeOK
    <2>. QED  BY <2>1, MadeFinite, Zenon
  <1>5. TradeID \in Nat \X Nat
    BY <1>2, <1>3, <1>4, Zenon
  <1>. QED  BY <1>1, <1>2, <1>5, Zenon DEF Trade, TradeExecuted

LEMMA TypeStep ==
    ASSUME TypeOK, LevelsInOrder, Numbered, [Next]_vars
    PROVE  TypeOK'
  <1>1. CASE \E order : Begins(order)
    <2>1. PICK order : Begins(order)
      BY <1>1, Zenon
    <2>2. submitted' \in Seq(OrderBookEntry)
      BY <2>1, BeginsFacts, Zenon
    <2>. QED  BY <2>1, <2>2, Zenon DEF TypeOK, Begins
  <1>2. CASE \E side, price, q : Trades(side, price, q)
    <2>1. PICK side, price, q : Trades(side, price, q)
      BY <1>2, Zenon
    <2>2. Trade(side, price, q) \in TradeExecuted /\ trades \in Seq(TradeExecuted)
      BY <2>1, TradeType, Zenon DEF TypeOK
    <2>3. trades' \in Seq(TradeExecuted)
      <3>1. trades' = Append(trades, Trade(side, price, q))
        BY <2>1, Zenon DEF Trades
      <3>. QED  BY <2>2, <3>1
    <2>4. book' \in Books
      BY <2>1, TradesBook, Zenon
    <2>5. remainingQty' \in Nat
      <3>1. /\ remainingQty \in Nat /\ q \in Nat /\ q <= remainingQty
            /\ remainingQty' = remainingQty - q
        BY <2>1, Zenon DEF Trades, TypeOK
      <3>. QED  BY <3>1
    <2>. QED  BY <2>1, <2>3, <2>4, <2>5, Zenon DEF TypeOK, Trades, Books
  <1>3. CASE EndMatch
    <2>1. book' \in Books /\ taker \in OrderBookEntry
      BY <1>3, EndMatchBook, Zenon
    <2>2. remainingQty' \in Nat
      BY <1>3, Zenon DEF EndMatch
    <2>. QED  BY <1>3, <2>1, <2>2, Zenon DEF TypeOK, EndMatch, Books
  <1>4. CASE \E order \in orders : CancelOrder(order)
    <2>1. PICK order \in orders : CancelOrder(order)
      BY <1>4, Zenon
    <2>2. /\ book' \in Books
          /\ order \in OrderBookEntry
          /\ cancelled' = cancelled \cup {order.SequenceNum}
                            \cup {e.SequenceNum : e \in {f \in Items(book[order.Side][order.Price]) :
                                                          f.OrderID = order.OrderID}}
      BY <2>1, CancelOrderBook, Zenon
    <2>3. cancelled' \subseteq Nat
      <3>1. order.Side \in Side /\ order.Price \in Price
        BY <2>2, Zenon DEF OrderBookEntry
      <3>2. Items(book[order.Side][order.Price]) \subseteq OrderBookEntry
        BY <3>1, LevelFacts, Zenon DEF EntriesAt
      <3>3. \A e \in OrderBookEntry : e.SequenceNum \in Nat
        BY Zenon DEF OrderBookEntry
      <3>4. cancelled \subseteq Nat
        BY Zenon DEF TypeOK
      <3>. QED  BY <2>2, <3>2, <3>3, <3>4, Zenon
    <2>. QED  BY <2>1, <2>2, <2>3, Zenon DEF TypeOK, CancelOrder, Books
  <1>5. CASE UNCHANGED vars
    BY <1>5, Zenon DEF vars, TypeOK
  <1>. QED  BY <1>1, <1>2, <1>3, <1>4, <1>5, StepCases, Zenon

-----------------------------------------------------------------------------
(* The orders and their numbers.                                           *)

LEMMA NumberedStep ==
    ASSUME TypeOK, LevelsInOrder, Numbered, [Next]_vars
    PROVE  Numbered'
  <1>1. CASE \E order : Begins(order)
    <2>1. PICK order : Begins(order)
      BY <1>1, Zenon
    <2> DEFINE N == Len(submitted)
    <2>2. /\ N \in Nat /\ Len(submitted') = N + 1
          /\ submitted'[N + 1] = order
          /\ \A n \in 1 .. N : submitted'[n] = submitted[n]
      BY <2>1, BeginsFacts, Zenon
    <2>3. order.SequenceNum = N + 1 /\ taker' = order /\ UNCHANGED <<orders, cancelled>>
      BY <2>1, Zenon DEF Begins
    <2> HIDE DEF N
    <2>4. /\ \A n \in 1 .. N + 1 : n \in 1 .. N \/ n = N + 1
          /\ \A n \in 1 .. N : n \in 1 .. N + 1
          /\ N + 1 \notin 1 .. N /\ N + 1 # 0
      BY <2>2
    <2>5. \A n \in 1 .. N + 1 : submitted'[n].SequenceNum = n
      <3>1. \A n \in 1 .. N : submitted[n].SequenceNum = n
        BY Zenon DEF Numbered, N
      <3>. QED  BY <2>2, <2>3, <2>4, <3>1, Zenon
    <2>6. \A o \in orders : o.SequenceNum \in 1 .. N + 1 /\ o = submitted'[o.SequenceNum]
      <3>1. \A o \in orders : o.SequenceNum \in 1 .. N /\ o = submitted[o.SequenceNum]
        BY Zenon DEF Numbered, N
      <3>. QED  BY <2>2, <2>4, <3>1, Zenon
    <2>7. cancelled \subseteq 1 .. N + 1 /\ N + 1 \notin cancelled
      <3>1. cancelled \subseteq 1 .. N
        BY Zenon DEF Numbered, N
      <3>. QED  BY <2>4, <3>1, Zenon
    <2>. QED  BY <2>2, <2>3, <2>4, <2>5, <2>6, <2>7, Zenon DEF Numbered
  <1>2. CASE \E side, price, q : Trades(side, price, q)
    <2>1. UNCHANGED <<orders, taker, submitted, cancelled>>
      BY <1>2, Zenon DEF Trades
    <2>. QED  BY <2>1, Zenon DEF Numbered
  <1>3. CASE EndMatch
    <2>1. /\ taker # NoOrder /\ taker' = NoOrder /\ UNCHANGED <<submitted, cancelled>>
          /\ \A o \in orders' : o \in orders \/ o = taker
      BY <1>3, Zenon DEF EndMatch
    <2>2. taker = submitted[taker.SequenceNum]
      BY <1>3, <2>1, EndMatchBook, Zenon DEF Numbered
    <2>3. taker.SequenceNum \in 1 .. Len(submitted)
      <3>1. Len(submitted) # 0
        BY <2>1, Zenon DEF Numbered
      <3>2. Len(submitted) \in Nat
        BY DEF TypeOK
      <3>3. taker.SequenceNum = Len(submitted)
        BY <1>3, EndMatchBook, Zenon
      <3>. QED  BY <3>1, <3>2, <3>3
    <2>. QED  BY <2>1, <2>2, <2>3, Zenon DEF Numbered
  <1>4. CASE \E order \in orders : CancelOrder(order)
    <2>1. PICK order \in orders : CancelOrder(order)
      BY <1>4, Zenon
    <2> DEFINE queue == book[order.Side][order.Price]
    <2>2. /\ order.Side \in Side /\ order.Price \in Price
          /\ cancelled' = cancelled \cup {order.SequenceNum}
                            \cup {e.SequenceNum : e \in {f \in Items(queue) :
                                                          f.OrderID = order.OrderID}}
      BY <2>1, CancelOrderBook, Zenon
    <2>3. Items(queue) \subseteq EntriesAt(order.Side, order.Price)
      BY <2>2, LevelFacts, Zenon
    <2>4. \A e \in Items(queue) : e.SequenceNum \in 1 .. Len(submitted)
      BY <2>3, Zenon DEF EntriesAt, MayRest
    <2>5. order.SequenceNum \in 1 .. Len(submitted) /\ cancelled \subseteq 1 .. Len(submitted)
      BY Zenon DEF Numbered
    <2>6. cancelled' \subseteq 1 .. Len(submitted)
      BY <2>2, <2>4, <2>5, Zenon
    <2>7. taker = NoOrder /\ UNCHANGED <<taker, submitted>> /\ orders' \subseteq orders
      BY <2>1, Zenon DEF CancelOrder
    <2>. QED  BY <2>6, <2>7, Zenon DEF Numbered
  <1>5. CASE UNCHANGED vars
    BY <1>5, Zenon DEF vars, Numbered
  <1>. QED  BY <1>1, <1>2, <1>3, <1>4, <1>5, StepCases, Zenon

-----------------------------------------------------------------------------
(* The levels.                                                             *)

\* A level the step does not touch, or touches as the action says.
LEMMA LevelsFromItems ==
    ASSUME \A s \in Side, p \in Price :
                Items(book'[s][p]) \subseteq EntriesAt(s, p)' /\ Ordered(book'[s][p])
    PROVE  LevelsInOrder'
  <1> SUFFICES ASSUME NEW s \in Side, NEW p \in Price
               PROVE  /\ \A i \in 1 .. Len(book'[s][p]) : book'[s][p][i] \in EntriesAt(s, p)'
                      /\ \A i, j \in 1 .. Len(book'[s][p]) :
                            i < j => book'[s][p][i].SequenceNum < book'[s][p][j].SequenceNum
    BY Zenon DEF LevelsInOrder
  <1>1. Items(book'[s][p]) \subseteq EntriesAt(s, p)' /\ Ordered(book'[s][p])
    BY Zenon
  <1>2. \A i \in 1 .. Len(book'[s][p]) : book'[s][p][i] \in Items(book'[s][p])
    BY Zenon DEF Items
  <1>. QED  BY <1>1, <1>2, Zenon DEF Ordered

LEMMA LevelsBegin ==
    ASSUME TypeOK, LevelsInOrder, Numbered, NEW order, Begins(order)
    PROVE  LevelsInOrder'
  <1>1. UNCHANGED <<book, cancelled>> /\ taker = NoOrder /\ taker' = order
        /\ order.SequenceNum = Len(submitted) + 1
    BY Zenon DEF Begins
  <1>2. /\ Len(submitted) \in Nat /\ Len(submitted') = Len(submitted) + 1
        /\ \A n \in 1 .. Len(submitted) : submitted'[n] = submitted[n]
    BY BeginsFacts, Zenon
  <1>3. \A n \in 1 .. Len(submitted) : n \in 1 .. Len(submitted') /\ n # order.SequenceNum
    BY <1>1, <1>2
  <1>4. \A n \in MayRest : n \in MayRest' /\ submitted'[n] = submitted[n]
    BY <1>1, <1>2, <1>3, Zenon DEF MayRest
  <1>5. ASSUME NEW s \in Side, NEW p \in Price
        PROVE  Items(book'[s][p]) \subseteq EntriesAt(s, p)' /\ Ordered(book'[s][p])
    <2>1. Items(book[s][p]) \subseteq EntriesAt(s, p) /\ Ordered(book[s][p])
      BY LevelFacts, Zenon
    <2>2. ASSUME NEW e \in EntriesAt(s, p) PROVE e \in EntriesAt(s, p)'
      BY <1>4, Zenon DEF EntriesAt
    <2>. QED  BY <1>1, <2>1, <2>2, Zenon
  <1>. QED  BY <1>5, LevelsFromItems, Zenon

LEMMA LevelsTrade ==
    ASSUME TypeOK, LevelsInOrder, NEW side, NEW price, NEW q, Trades(side, price, q)
    PROVE  LevelsInOrder'
  <1> DEFINE queue == book[side][price]
             rest == After(queue, q)
             u == Updated(side, price, q)
  <1>1. /\ price \in Price /\ Replaces(book', book, side, price, rest)
        /\ Ordered(rest) /\ Items(rest) = Others(queue) \cup (IF Filled(u) THEN {} ELSE {u})
    BY TradesBook, Zenon
  <1>2. UNCHANGED <<taker, submitted, cancelled>> /\ q \in Nat /\ side \in Side
        /\ queue[1] \in EntriesAt(side, price)
    BY Zenon DEF Trades
  <1>3. \A s, p : EntriesAt(s, p)' = EntriesAt(s, p)
    BY <1>2, Zenon DEF EntriesAt, MayRest
  <1>4. ~Filled(u) => u \in EntriesAt(side, price)
    <2>1. queue[1] \in OrderBookEntry
      BY <1>2, Zenon DEF EntriesAt
    <2>2. u = [queue[1] EXCEPT !.FilledQty = @ + q]
      BY Zenon DEF Updated
    <2> HIDE DEF u, queue
    <2>3. u \in OrderBookEntry /\ SameOrder(u, queue[1])
      BY <1>2, <2>1, <2>2, UpdatedEntry, Zenon
    <2>4. u.FilledQty \in Nat /\ u.Quantity \in Nat
      BY <2>3, Zenon DEF OrderBookEntry
    <2>5. ~Filled(u) => u.FilledQty < u.Quantity
      BY <2>4 DEF Filled
    <2>. QED  BY <1>2, <2>3, <2>5, Zenon DEF EntriesAt, SameOrder
  <1>5. Items(rest) \subseteq EntriesAt(side, price)
    <2>1. Others(queue) \subseteq EntriesAt(side, price)
      BY <1>1, <1>2, LevelFacts, Zenon DEF Others
    <2>. QED  BY <1>1, <1>4, <2>1, Zenon
  <1> HIDE DEF rest
  <1>6. ASSUME NEW s \in Side, NEW p \in Price
        PROVE  Items(book'[s][p]) \subseteq EntriesAt(s, p)' /\ Ordered(book'[s][p])
    <2>1. CASE s = side /\ p = price
      BY <1>1, <1>3, <1>5, <2>1, Zenon DEF Replaces
    <2>2. CASE s # side \/ p # price
      <3>1. book'[s][p] = book[s][p]
        BY <1>1, <2>2, Zenon DEF Replaces
      <3>2. Items(book[s][p]) \subseteq EntriesAt(s, p) /\ Ordered(book[s][p])
        BY LevelFacts, Zenon
      <3>. QED  BY <1>3, <3>1, <3>2, Zenon
    <2>. QED  BY <2>1, <2>2, Zenon
  <1>. QED  BY <1>6, LevelsFromItems, Zenon

LEMMA LevelsEnd ==
    ASSUME TypeOK, LevelsInOrder, Numbered, EndMatch
    PROVE  LevelsInOrder'
  <1> DEFINE queue == book[taker.Side][taker.Price]
             longer == Append(queue, Rested)
  <1>1. /\ taker \in OrderBookEntry /\ taker.SequenceNum = Len(submitted)
        /\ taker.Side \in Side /\ taker.Price \in Price
        /\ remainingQty = 0 => book' = book
        /\ remainingQty # 0 =>
            /\ Replaces(book', book, taker.Side, taker.Price, longer)
            /\ Ordered(longer) /\ Items(longer) = Items(queue) \cup {Rested}
    BY EndMatchBook, Zenon
  <1>2. taker # NoOrder /\ taker' = NoOrder /\ UNCHANGED <<submitted, cancelled>>
    BY Zenon DEF EndMatch
  <1>3. \A n \in MayRest : n \in MayRest'
    BY <1>2, Zenon DEF MayRest
  <1>4. ASSUME NEW s \in Side, NEW p \in Price
        PROVE  EntriesAt(s, p) \subseteq EntriesAt(s, p)'
    BY <1>2, <1>3, Zenon DEF EntriesAt
  <1>5. taker = submitted[taker.SequenceNum]
    BY <1>1, <1>2, Zenon DEF Numbered
  <1>6. taker.SequenceNum \in MayRest'
    <2>1. Len(submitted) \in 1 .. Len(submitted)
      <3>1. Len(submitted) # 0
        BY <1>2, Zenon DEF Numbered
      <3>2. Len(submitted) \in Nat
        BY DEF TypeOK
      <3>. QED  BY <3>1, <3>2
    <2>2. Len(submitted) \notin cancelled
      BY <1>2, Zenon DEF Numbered
    <2>. QED  BY <1>1, <1>2, <2>1, <2>2, Zenon DEF MayRest
  <1>7. ASSUME NEW s, NEW p, s = taker.Side, p = taker.Price, remainingQty # 0
        PROVE  Rested \in EntriesAt(s, p)'
    <2>1. remainingQty \in Nat
      BY Zenon DEF TypeOK
    <2>2. /\ Rested \in OrderBookEntry /\ SameOrder(Rested, taker)
          /\ Rested.Quantity = remainingQty /\ Rested.FilledQty = 0
      BY <1>1, <2>1, RestedEntry, Zenon
    <2>3. Rested.FilledQty < Rested.Quantity
      BY <1>7, <2>1, <2>2
    <2> DEFINE e == Rested
               m == taker.SequenceNum
    <2>4. /\ e.SequenceNum = m /\ e.OrderID = submitted'[m].OrderID
          /\ e.Side = s /\ submitted'[m].Side = s
          /\ e.Price = p /\ submitted'[m].Price = p
      BY <1>2, <1>5, <1>7, <2>2, Zenon DEF SameOrder
    <2> HIDE DEF e, m
    <2>5. e \in OrderBookEntry /\ e.FilledQty < e.Quantity /\ m \in MayRest'
      BY <1>6, <2>2, <2>3, Zenon DEF e, m
    <2>6. e \in EntriesAt(s, p)'
      BY <2>4, <2>5, Zenon DEF EntriesAt
    <2>. QED  BY <2>6, Zenon DEF e
  <1>8. ASSUME NEW s \in Side, NEW p \in Price
        PROVE  Items(book'[s][p]) \subseteq EntriesAt(s, p)' /\ Ordered(book'[s][p])
    <2>1. Items(book[s][p]) \subseteq EntriesAt(s, p)' /\ Ordered(book[s][p])
      BY <1>4, LevelFacts, Zenon
    <2>2. CASE remainingQty = 0
      BY <1>1, <2>1, <2>2, Zenon
    <2>3. CASE remainingQty # 0 /\ s = taker.Side /\ p = taker.Price
      <3>1. book'[s][p] = longer /\ Ordered(longer)
        BY <1>1, <2>3, Zenon DEF Replaces
      <3>2. Items(longer) = Items(book[s][p]) \cup {Rested}
        BY <1>1, <2>3, Zenon
      <3>3. Rested \in EntriesAt(s, p)'
        BY <1>7, <2>3, Zenon
      <3> HIDE DEF longer
      <3>. QED  BY <2>1, <3>1, <3>2, <3>3, Zenon
    <2>4. CASE remainingQty # 0 /\ (s # taker.Side \/ p # taker.Price)
      BY <1>1, <2>1, <2>4, Zenon DEF Replaces
    <2>. QED  BY <2>2, <2>3, <2>4, Zenon
  <1>. QED  BY <1>8, LevelsFromItems, Zenon

\* No entry CancelOrder leaves in the book belongs to an order it has dropped:
\* an order's entry is at the order's level, under the order's id.
LEMMA LevelsCancel ==
    ASSUME TypeOK, LevelsInOrder, Numbered, NEW order \in orders, CancelOrder(order)
    PROVE  LevelsInOrder'
  <1> DEFINE queue == book[order.Side][order.Price]
             rest == Without(queue, order.OrderID)
             gone == {f \in Items(queue) : f.OrderID = order.OrderID}
  <1>1. /\ order.Side \in Side /\ order.Price \in Price
        /\ Replaces(book', book, order.Side, order.Price, rest)
        /\ Ordered(rest) /\ Items(rest) = {e \in Items(queue) : e.OrderID # order.OrderID}
        /\ cancelled' = cancelled \cup {order.SequenceNum} \cup {e.SequenceNum : e \in gone}
    BY CancelOrderBook, Zenon
  <1>2. taker = NoOrder /\ UNCHANGED <<taker, submitted>>
    BY Zenon DEF CancelOrder
  <1>3. order = submitted[order.SequenceNum]
    BY Zenon DEF Numbered
  <1>4. Items(queue) \subseteq EntriesAt(order.Side, order.Price)
    BY <1>1, LevelFacts, Zenon
  <1>5. \A n \in cancelled' : n \in cancelled \/ (/\ submitted[n].OrderID = order.OrderID
                                                 /\ submitted[n].Side = order.Side
                                                 /\ submitted[n].Price = order.Price)
    <2> TAKE n \in cancelled'
    <2>1. CASE n = order.SequenceNum
      BY <1>3, <2>1, Zenon
    <2>2. ASSUME NEW e \in gone, n = e.SequenceNum
          PROVE  /\ submitted[n].OrderID = order.OrderID
                 /\ submitted[n].Side = order.Side
                 /\ submitted[n].Price = order.Price
      BY <1>4, <2>2, Zenon DEF EntriesAt
    <2>. QED  BY <1>1, <2>1, <2>2, Zenon
  <1>6. ASSUME NEW s \in Side, NEW p \in Price, NEW e \in EntriesAt(s, p),
               e.OrderID # order.OrderID \/ s # order.Side \/ p # order.Price
        PROVE  e \in EntriesAt(s, p)'
    <2>1. e.SequenceNum \notin cancelled'
      BY <1>5, <1>6, Zenon DEF EntriesAt, MayRest
    <2>. QED  BY <1>2, <2>1, Zenon DEF EntriesAt, MayRest
  <1> HIDE DEF rest
  <1>7. ASSUME NEW s \in Side, NEW p \in Price
        PROVE  Items(book'[s][p]) \subseteq EntriesAt(s, p)' /\ Ordered(book'[s][p])
    <2>1. Items(book[s][p]) \subseteq EntriesAt(s, p) /\ Ordered(book[s][p])
      BY LevelFacts, Zenon
    <2>2. CASE s = order.Side /\ p = order.Price
      <3>1. book'[s][p] = rest
        BY <1>1, <2>2, Zenon DEF Replaces
      <3>2. \A e \in Items(rest) : e \in EntriesAt(s, p)'
        BY <1>1, <1>6, <2>1, <2>2, Zenon
      <3>. QED  BY <1>1, <3>1, <3>2, Zenon
    <2>3. CASE s # order.Side \/ p # order.Price
      <3>1. book'[s][p] = book[s][p]
        BY <1>1, <2>3, Zenon DEF Replaces
      <3>2. \A e \in Items(book[s][p]) : e \in EntriesAt(s, p)'
        BY <1>6, <2>1, <2>3, Zenon
      <3>. QED  BY <2>1, <3>1, <3>2, Zenon
    <2>. QED  BY <2>2, <2>3, Zenon
  <1>. QED  BY <1>7, LevelsFromItems, Zenon

LEMMA LevelsStep ==
    ASSUME TypeOK, LevelsInOrder, Numbered, [Next]_vars
    PROVE  LevelsInOrder'
  <1>1. CASE \E order : Begins(order)
    BY <1>1, LevelsBegin, Zenon
  <1>2. CASE \E side, price, q : Trades(side, price, q)
    BY <1>2, LevelsTrade, Zenon
  <1>3. CASE EndMatch
    BY <1>3, LevelsEnd, Zenon
  <1>4. CASE \E order \in orders : CancelOrder(order)
    BY <1>4, LevelsCancel, Zenon
  <1>5. CASE UNCHANGED vars
    <2>1. UNCHANGED <<book, taker, submitted, cancelled>>
      BY <1>5, Zenon DEF vars
    <2>2. \A s, p : EntriesAt(s, p)' = EntriesAt(s, p)
      BY <2>1, Zenon DEF EntriesAt, MayRest
    <2>. QED  BY <2>1, <2>2, Zenon DEF LevelsInOrder
  <1>. QED  BY <1>1, <1>2, <1>3, <1>4, <1>5, StepCases, Zenon

-----------------------------------------------------------------------------
(* The trades and their ids.                                               *)

LEMMA TradesBegin ==
    ASSUME TypeOK, TradesNumbered, NEW order, Begins(order)
    PROVE  TradesNumbered'
  <1>1. /\ Len(submitted) \in Nat /\ Len(submitted') = Len(submitted) + 1
        /\ \A n \in 1 .. Len(submitted) : submitted'[n] = submitted[n]
    BY BeginsFacts, Zenon
  <1>2. trades' = trades /\ taker'.SequenceNum = Len(submitted) + 1
    BY Zenon DEF Begins
  <1>3. \A n \in 1 .. Len(submitted) :
            n \in 1 .. Len(submitted') /\ n # taker'.SequenceNum
    BY <1>1, <1>2
  <1>4. \A i \in 1 .. Len(trades) : /\ trades[i].Taker \in 1 .. Len(submitted)
                                    /\ trades[i].Maker \in 1 .. Len(submitted)
                                    /\ trades[i].TradeID[1] = submitted[trades[i].Taker].OrderID
    BY Zenon DEF TradesNumbered
  <1>5. \A i \in 1 .. Len(trades) : /\ trades[i].Taker \in 1 .. Len(submitted')
                                    /\ trades[i].Maker \in 1 .. Len(submitted')
                                    /\ trades[i].TradeID[1] = submitted'[trades[i].Taker].OrderID
                                    /\ trades[i].Taker # taker'.SequenceNum
    BY <1>1, <1>3, <1>4, Zenon
  <1>6. \A i, j \in 1 .. Len(trades) :
            i < j /\ trades[i].Taker = trades[j].Taker => trades[i].TradeID[2] < trades[j].TradeID[2]
    BY Zenon DEF TradesNumbered
  <1>. QED  BY <1>2, <1>5, <1>6, Zenon DEF TradesNumbered

\* A trade takes the index after the last one of its taker.
LEMMA NextIndex ==
    ASSUME TypeOK, NEW side, NEW price, NEW q, Trades(side, price, q)
    PROVE  /\ TradeID[1] = taker.OrderID /\ TradeID[2] \in Nat
           /\ TradeID'[2] = TradeID[2] + 1
  <1> DEFINE n == taker.SequenceNum
             N == Len(trades)
             trade == Trade(side, price, q)
  <1>1. trades \in Seq(TradeExecuted) /\ trade \in TradeExecuted
    BY TradeType, Zenon DEF TypeOK
  <1>2. trade.Taker = n /\ UNCHANGED taker /\ trades' = Append(trades, trade)
    BY Zenon DEF Trades, Trade
  <1>3. /\ TradeID = <<taker.OrderID, Cardinality(Made(trades, n))>>
        /\ TradeID' = <<taker.OrderID, Cardinality(Made(trades', n))>>
    BY <1>2, Zenon DEF TradeID, Made
  <1> HIDE DEF trade, n
  <1>4. /\ N \in Nat /\ DOMAIN trades = 1 .. N /\ DOMAIN trades' = 1 .. N + 1
        /\ trades'[N + 1] = trade /\ \A i \in 1 .. N : trades'[i] = trades[i]
    BY <1>1, <1>2
  <1>5. /\ \A i \in 1 .. N + 1 : i \in 1 .. N \/ i = N + 1
        /\ \A i \in 1 .. N : i \in 1 .. N + 1
        /\ N + 1 \in 1 .. N + 1 /\ N + 1 \notin 1 .. N
    BY <1>4
  <1>6. Made(trades', n) = Made(trades, n) \cup {N + 1} /\ N + 1 \notin Made(trades, n)
    BY <1>2, <1>4, <1>5, Zenon DEF Made
  <1>7. IsFiniteSet(Made(trades, n)) /\ Cardinality(Made(trades, n)) \in Nat
    BY <1>1, MadeFinite, Zenon
  <1>8. Cardinality(Made(trades', n)) = Cardinality(Made(trades, n)) + 1
    BY <1>6, <1>7, FS_AddElement, Zenon
  <1>. QED  BY <1>3, <1>7, <1>8, Zenon

LEMMA TradesTrade ==
    ASSUME TypeOK, LevelsInOrder, Numbered, TradesNumbered,
           NEW side, NEW price, NEW q, Trades(side, price, q)
    PROVE  TradesNumbered'
  <1> DEFINE trade == Trade(side, price, q)
             N == Len(trades)
             m == Len(submitted)
  <1>1. trades \in Seq(TradeExecuted) /\ trade \in TradeExecuted /\ submitted \in Seq(OrderBookEntry)
    BY TradeType, Zenon DEF TypeOK
  <1>2. /\ UNCHANGED <<taker, submitted>> /\ taker # NoOrder /\ taker \in OrderBookEntry
        /\ trades' = Append(trades, trade)
        /\ book[side][price][1] \in EntriesAt(side, price)
    BY Zenon DEF Trades
  <1>3. /\ trade.Taker = taker.SequenceNum /\ trade.TradeID = TradeID
        /\ trade.Maker = book[side][price][1].SequenceNum
    BY Zenon DEF Trade
  <1>4. trade.Maker \in 1 .. m
    BY <1>2, <1>3, Zenon DEF EntriesAt, MayRest
  <1>5. m \in 1 .. m /\ taker = submitted[m]
    <2>1. m # 0 /\ taker = submitted[m]
      BY <1>2, Zenon DEF Numbered
    <2>2. m \in Nat
      BY <1>1
    <2>. QED  BY <2>1, <2>2
  <1>6. taker.SequenceNum = m
    BY <1>5, Zenon DEF Numbered
  <1>7. TradeID[1] = taker.OrderID /\ TradeID[2] \in Nat /\ TradeID'[2] = TradeID[2] + 1
    BY NextIndex, Zenon
  <1> HIDE DEF trade
  <1>8. /\ N \in Nat /\ Len(trades') = N + 1
        /\ trades'[N + 1] = trade /\ \A i \in 1 .. N : trades'[i] = trades[i]
    BY <1>1, <1>2
  <1>9. /\ \A i \in 1 .. N + 1 : i \in 1 .. N \/ i = N + 1
        /\ \A i, j \in 1 .. N + 1 : i < j => i \in 1 .. N
    BY <1>8
  <1>10. \A i \in 1 .. N : trades[i].TradeID[2] \in Nat
    <2>1. \A i \in 1 .. N : trades[i] \in TradeExecuted
      BY <1>1
    <2>2. \A t \in TradeExecuted : t.TradeID \in Nat \X Nat
      BY Zenon DEF TradeExecuted
    <2>3. \A x \in Nat \X Nat : x[2] \in Nat
      BY Zenon
    <2>. QED  BY <2>1, <2>2, <2>3, Zenon
  <1>11. \A i \in 1 .. N + 1 : /\ trades'[i].Taker \in 1 .. m
                               /\ trades'[i].Maker \in 1 .. m
                               /\ trades'[i].TradeID[1] = submitted[trades'[i].Taker].OrderID
    <2>1. \A i \in 1 .. N : /\ trades[i].Taker \in 1 .. m
                            /\ trades[i].Maker \in 1 .. m
                            /\ trades[i].TradeID[1] = submitted[trades[i].Taker].OrderID
      BY Zenon DEF TradesNumbered
    <2>2. trade.Taker \in 1 .. m /\ trade.TradeID[1] = submitted[trade.Taker].OrderID
      BY <1>3, <1>5, <1>6, <1>7, Zenon
    <2>. QED  BY <1>4, <1>8, <1>9, <2>1, <2>2, Zenon
  <1>12. \A i \in 1 .. N : trades[i].Taker = taker.SequenceNum => trades[i].TradeID[2] < TradeID[2]
    BY <1>2, Zenon DEF TradesNumbered
  <1>13. ASSUME NEW i \in 1 .. N + 1, NEW j \in 1 .. N + 1, i < j,
                trades'[i].Taker = trades'[j].Taker
         PROVE  trades'[i].TradeID[2] < trades'[j].TradeID[2]
    <2>1. i \in 1 .. N /\ trades'[i] = trades[i]
      BY <1>8, <1>9, <1>13, Zenon
    <2>2. CASE j = N + 1
      BY <1>3, <1>8, <1>12, <1>13, <2>1, <2>2, Zenon
    <2>3. CASE j \in 1 .. N
      BY <1>8, <1>13, <2>1, <2>3, Zenon DEF TradesNumbered
    <2>. QED  BY <1>9, <2>2, <2>3, Zenon
  <1>14. ASSUME NEW i \in 1 .. N + 1, trades'[i].Taker = taker.SequenceNum
         PROVE  trades'[i].TradeID[2] < TradeID'[2]
    <2>1. CASE i = N + 1
      <3>1. trades'[i].TradeID[2] = TradeID[2]
        BY <1>3, <1>8, <2>1, Zenon
      <3>. QED  BY <1>7, <3>1
    <2>2. CASE i \in 1 .. N
      <3>1. trades[i].TradeID[2] < TradeID[2] /\ trades'[i] = trades[i]
        BY <1>8, <1>12, <1>14, <2>2, Zenon
      <3>. QED  BY <1>7, <1>10, <2>2, <3>1
    <2>. QED  BY <1>9, <2>1, <2>2, Zenon
  <1>. QED  BY <1>2, <1>8, <1>11, <1>13, <1>14, Zenon DEF TradesNumbered

LEMMA TradesStep ==
    ASSUME TypeOK, LevelsInOrder, Numbered, TradesNumbered, [Next]_vars
    PROVE  TradesNumbered'
  <1>1. CASE \E order : Begins(order)
    BY <1>1, TradesBegin, Zenon
  <1>2. CASE \E side, price, q : Trades(side, price, q)
    BY <1>2, TradesTrade, Zenon
  <1>3. CASE EndMatch
    <2>1. UNCHANGED <<trades, submitted>> /\ taker' = NoOrder
      BY <1>3, Zenon DEF EndMatch
    <2>. QED  BY <2>1, Zenon DEF TradesNumbered
  <1>4. CASE \E order \in orders : CancelOrder(order)
    <2>1. UNCHANGED <<trades, submitted>> /\ taker' = NoOrder
      BY <1>4, Zenon DEF CancelOrder
    <2>. QED  BY <2>1, Zenon DEF TradesNumbered
  <1>5. CASE UNCHANGED vars
    BY <1>5, Zenon DEF vars, TradesNumbered, TradeID
  <1>. QED  BY <1>1, <1>2, <1>3, <1>4, <1>5, StepCases, Zenon

-----------------------------------------------------------------------------
(* The quantities.                                                         *)

\* Entry e is somewhere in the book b.
Holds(b, e) == \E s \in Side, p \in Price : e \in Items(b[s][p])

\* Every level holds entries of its own, in order.
Placed(b) ==
    \A s \in Side, p \in Price :
        /\ Ordered(b[s][p])
        /\ \A e \in Items(b[s][p]) : e.Side = s /\ e.Price = p

\* Open, for any book b, taker t and remaining quantity r.
RestingIn(b, side) ==
    UNION {{b[side][price][i] : i \in DOMAIN b[side][price]} : price \in Price}

OpenIn(b, t, r, n) ==
    IF t # NoOrder /\ t.SequenceNum = n THEN r
    ELSE LET mine == {e \in RestingIn(b, "buy") \cup RestingIn(b, "sell") : e.SequenceNum = n}
         IN  IF mine = {} THEN 0
             ELSE LET e == CHOOSE e \in mine : TRUE IN e.Quantity - e.FilledQty

LEMMA OpenIs ==
    ASSUME NEW n
    PROVE  /\ Open(n) = OpenIn(book, taker, remainingQty, n)
           /\ Open(n)' = OpenIn(book', taker', remainingQty', n)
  BY Zenon DEF Open, OpenIn, Resting, RestingIn

LEMMA LevelsPlaced ==
    /\ LevelsInOrder => Placed(book)
    /\ LevelsInOrder' => Placed(book')
  <1>1. ASSUME LevelsInOrder, NEW s \in Side, NEW p \in Price
        PROVE  Ordered(book[s][p]) /\ \A e \in Items(book[s][p]) : e.Side = s /\ e.Price = p
    <2>1. Ordered(book[s][p])
      BY <1>1, Zenon DEF LevelsInOrder, Ordered
    <2>2. Items(book[s][p]) \subseteq EntriesAt(s, p)
      BY <1>1, Zenon DEF LevelsInOrder, Items
    <2>. QED  BY <2>1, <2>2, Zenon DEF EntriesAt
  <1>2. ASSUME LevelsInOrder', NEW s \in Side, NEW p \in Price
        PROVE  Ordered(book'[s][p]) /\ \A e \in Items(book'[s][p]) : e.Side = s /\ e.Price = p
    <2>1. Ordered(book'[s][p])
      BY <1>2, Zenon DEF LevelsInOrder, Ordered
    <2>2. Items(book'[s][p]) \subseteq EntriesAt(s, p)'
      BY <1>2, Zenon DEF LevelsInOrder, Items
    <2>. QED  BY <2>1, <2>2, Zenon DEF EntriesAt
  <1>. QED  BY <1>1, <1>2, Zenon DEF Placed

\* An order has at most one entry.
LEMMA OneEntry ==
    ASSUME NEW b \in Books, Placed(b), NEW e, NEW f, Holds(b, e), Holds(b, f),
           e.SequenceNum = f.SequenceNum, e.Side = f.Side, e.Price = f.Price
    PROVE  e = f
  <1>1. PICK s \in Side, p \in Price : e \in Items(b[s][p])
    BY Zenon DEF Holds
  <1>2. f \in Items(b[s][p])
    <2>1. PICK t \in Side, q \in Price : f \in Items(b[t][q])
      BY Zenon DEF Holds
    <2>2. \A a \in Side, d \in Price : \A g \in Items(b[a][d]) : g.Side = a /\ g.Price = d
      BY Zenon DEF Placed
    <2>3. s = t /\ p = q
      BY <1>1, <2>1, <2>2
    <2>. QED  BY <2>1, <2>3, Zenon
  <1>3. PICK i \in 1 .. Len(b[s][p]), j \in 1 .. Len(b[s][p]) :
            e = b[s][p][i] /\ f = b[s][p][j]
    BY <1>1, <1>2, Zenon DEF Items
  <1>4. b[s][p] \in Seq(OrderBookEntry) /\ Ordered(b[s][p])
    BY Zenon DEF Books, Placed
  <1>5. e.SequenceNum \in Nat
    <2>1. e \in OrderBookEntry
      BY <1>3, <1>4
    <2>. QED  BY <2>1, Zenon DEF OrderBookEntry
  <1>6. ~(e.SequenceNum < f.SequenceNum) /\ ~(f.SequenceNum < e.SequenceNum)
    BY <1>5
  <1>7. ~(i < j) /\ ~(j < i)
    BY <1>3, <1>4, <1>6, Zenon DEF Ordered
  <1>8. i = j
    BY <1>7
  <1>. QED  BY <1>3, <1>8, Zenon

LEMMA RestingHolds ==
    ASSUME NEW b \in Books, NEW e
    PROVE  e \in RestingIn(b, "buy") \cup RestingIn(b, "sell") <=> Holds(b, e)
  <1>1. \A s \in Side, p \in Price : DOMAIN b[s][p] = 1 .. Len(b[s][p])
    <2>1. \A s \in Side, p \in Price : b[s][p] \in Seq(OrderBookEntry)
      BY Zenon DEF Books
    <2>. QED  BY <2>1
  <1>2. \A s \in Side : e \in RestingIn(b, s) <=> \E p \in Price : e \in Items(b[s][p])
    <2> TAKE s \in Side
    <2>1. ASSUME NEW p \in Price
          PROVE  {b[s][p][i] : i \in DOMAIN b[s][p]} = Items(b[s][p])
      BY <1>1, Zenon DEF Items
    <2>2. e \in RestingIn(b, s) <=> \E p \in Price : e \in {b[s][p][i] : i \in DOMAIN b[s][p]}
      BY Zenon DEF RestingIn
    <2>. QED  BY <2>1, <2>2, Zenon
  <1>3. Side = {"buy", "sell"}
    BY Zenon DEF Side
  <1>. QED  BY <1>2, <1>3, Zenon DEF Holds

\* Order n is not the one MatchOrder is working on.
Aside(t, n) == ~(t # NoOrder /\ t.SequenceNum = n)

\* The orders a placed book may hold entries of have one side and one price.
Faithful(b) ==
    /\ Placed(b)
    /\ \A e, f : Holds(b, e) /\ Holds(b, f) /\ e.SequenceNum = f.SequenceNum =>
            e.Side = f.Side /\ e.Price = f.Price

\* Entry e of book b stands for order n.
HeldAs(b, e, n) == Holds(b, e) /\ e.SequenceNum = n

Unfilled(e) == e.Quantity - e.FilledQty

\* What an order with an entry still wants is what is open of that entry.
LEMMA OpenHeld ==
    ASSUME NEW b \in Books, Faithful(b), NEW t, NEW r, NEW n, Aside(t, n),
           NEW e, HeldAs(b, e, n)
    PROVE  OpenIn(b, t, r, n) = Unfilled(e)
  <1> DEFINE mine == {f \in RestingIn(b, "buy") \cup RestingIn(b, "sell") : f.SequenceNum = n}
  <1>0. Holds(b, e) /\ e.SequenceNum = n
    BY Zenon DEF HeldAs
  <1>1. e \in mine
    BY <1>0, RestingHolds, Zenon
  <1>2. ASSUME NEW f \in mine PROVE f = e
    <2>1. Holds(b, f) /\ f.SequenceNum = e.SequenceNum
      BY <1>0, RestingHolds, Zenon
    <2>2. f.Side = e.Side /\ f.Price = e.Price /\ Placed(b)
      BY <1>0, <2>1, Zenon DEF Faithful
    <2>. QED  BY <1>0, <2>1, <2>2, OneEntry, Zenon
  <1>3. OpenIn(b, t, r, n) = LET g == CHOOSE g \in mine : TRUE IN g.Quantity - g.FilledQty
    BY <1>1, Zenon DEF OpenIn, Aside
  <1> HIDE DEF mine
  <1>4. (CHOOSE g \in mine : TRUE) = e
    BY <1>1, <1>2, Zenon
  <1>. QED  BY <1>3, <1>4, Zenon DEF Unfilled

\* An order with no entry wants nothing.
LEMMA OpenGone ==
    ASSUME NEW b \in Books, NEW t, NEW r, NEW n, Aside(t, n),
           \A e : Holds(b, e) => e.SequenceNum # n
    PROVE  OpenIn(b, t, r, n) = 0
  <1> DEFINE mine == {f \in RestingIn(b, "buy") \cup RestingIn(b, "sell") : f.SequenceNum = n}
  <1>1. mine = {}
    BY RestingHolds, Zenon
  <1>. QED  BY <1>1, Zenon DEF OpenIn, Aside

\* Two books with the same entries of order n.
SameHeld(b, c, n) == \A e : e.SequenceNum = n => (Holds(b, e) <=> Holds(c, e))

\* An order whose entries stay wants what it wanted.
LEMMA OpenSame ==
    ASSUME NEW b \in Books, NEW c \in Books, NEW t, NEW u, NEW r, NEW q, NEW n,
           Aside(t, n), Aside(u, n), SameHeld(b, c, n)
    PROVE  OpenIn(b, t, r, n) = OpenIn(c, u, q, n)
  <1> DEFINE mine(a) == {f \in RestingIn(a, "buy") \cup RestingIn(a, "sell") : f.SequenceNum = n}
  <1>1. \A e : e \in mine(b) <=> e \in mine(c)
    BY RestingHolds, Zenon DEF SameHeld
  <1>2. mine(b) = mine(c)
    BY <1>1, Zenon
  <1> DEFINE wants(m) == IF m = {} THEN 0
                         ELSE LET e == CHOOSE e \in m : TRUE IN e.Quantity - e.FilledQty
  <1>3. OpenIn(b, t, r, n) = wants(mine(b)) /\ OpenIn(c, u, q, n) = wants(mine(c))
    BY Zenon DEF OpenIn, Aside
  <1> HIDE DEF mine, wants
  <1>. QED  BY <1>2, <1>3, Zenon

\* The invariant makes a book faithful.
LEMMA LevelsFaithful ==
    /\ LevelsInOrder => Faithful(book)
    /\ LevelsInOrder' => Faithful(book')
  <1>1. ASSUME LevelsInOrder PROVE Faithful(book)
    <2>1. ASSUME NEW e, Holds(book, e)
          PROVE  e.Side = submitted[e.SequenceNum].Side /\ e.Price = submitted[e.SequenceNum].Price
      <3>1. PICK s \in Side, p \in Price : e \in Items(book[s][p])
        BY <2>1, Zenon DEF Holds
      <3>2. Items(book[s][p]) \subseteq EntriesAt(s, p)
        BY <1>1, Zenon DEF LevelsInOrder, Items
      <3>. QED  BY <3>1, <3>2, Zenon DEF EntriesAt
    <2>. QED  BY <1>1, <2>1, LevelsPlaced, Zenon DEF Faithful
  <1>2. ASSUME LevelsInOrder' PROVE Faithful(book')
    <2>1. ASSUME NEW e, Holds(book', e)
          PROVE  e.Side = submitted'[e.SequenceNum].Side /\ e.Price = submitted'[e.SequenceNum].Price
      <3>1. PICK s \in Side, p \in Price : e \in Items(book'[s][p])
        BY <2>1, Zenon DEF Holds
      <3>2. Items(book'[s][p]) \subseteq EntriesAt(s, p)'
        BY <1>2, Zenon DEF LevelsInOrder, Items
      <3>. QED  BY <3>1, <3>2, Zenon DEF EntriesAt
    <2>. QED  BY <1>2, <2>1, LevelsPlaced, Zenon DEF Faithful
  <1>. QED  BY <1>1, <1>2, Zenon

\* What an order in the book is.
LEMMA HeldEntry ==
    ASSUME TypeOK, LevelsInOrder, NEW e, Holds(book, e)
    PROVE  /\ e \in OrderBookEntry /\ e.SequenceNum \in MayRest
           /\ e.Quantity - e.FilledQty \in Nat
  <1>1. PICK s \in Side, p \in Price : e \in Items(book[s][p])
    BY Zenon DEF Holds
  <1>2. e \in EntriesAt(s, p)
    BY <1>1, LevelFacts, Zenon
  <1>3. e \in OrderBookEntry /\ e.SequenceNum \in MayRest /\ e.FilledQty < e.Quantity
    BY <1>2, Zenon DEF EntriesAt
  <1>4. e.FilledQty \in Nat /\ e.Quantity \in Nat
    BY <1>3, Zenon DEF OrderBookEntry
  <1>. QED  BY <1>3, <1>4

\* What an order wants is a quantity.
LEMMA OpenType ==
    ASSUME TypeOK, LevelsInOrder, NEW n
    PROVE  Open(n) \in Nat
  <1>1. book \in Books /\ remainingQty \in Nat /\ Faithful(book)
    BY LevelsFaithful, Zenon DEF TypeOK, Books
  <1>2. CASE ~Aside(taker, n)
    BY <1>1, <1>2, Zenon DEF Open, Aside
  <1>3. CASE Aside(taker, n) /\ \E e : Holds(book, e) /\ e.SequenceNum = n
    <2>1. PICK e : Holds(book, e) /\ e.SequenceNum = n
      BY <1>3, Zenon
    <2>2. OpenIn(book, taker, remainingQty, n) = Unfilled(e)
      BY <1>1, <1>3, <2>1, OpenHeld, Zenon DEF HeldAs
    <2>3. Unfilled(e) \in Nat
      BY <2>1, HeldEntry, Zenon DEF Unfilled
    <2>. QED  BY <2>2, <2>3, OpenIs, Zenon
  <1>4. CASE Aside(taker, n) /\ \A e : Holds(book, e) => e.SequenceNum # n
    <2>1. OpenIn(book, taker, remainingQty, n) = 0
      BY <1>1, <1>4, OpenGone, Zenon
    <2>2. 0 \in Nat
      BY Zenon
    <2>. QED  BY <2>1, <2>2, OpenIs, Zenon
  <1>. QED  BY <1>2, <1>3, <1>4, Zenon

\* The account of order n.
Balanced(n) ==
    /\ Traded(n) + Open(n) <= submitted[n].Quantity
    /\ n \notin cancelled => Traded(n) + Open(n) = submitted[n].Quantity

\* A step that moves quantity from what n wants to what it has traded, and
\* changes neither otherwise, leaves the account as it was.
LEMMA BalancedSame ==
    ASSUME TypeOK, LevelsInOrder, QuantityConserved, NEW n \in 1 .. Len(submitted),
           submitted'[n] = submitted[n], cancelled \subseteq cancelled',
           Traded(n)' + Open(n)' = Traded(n) + Open(n)
    PROVE  Balanced(n)'
  <1>1. Balanced(n)
    BY Zenon DEF QuantityConserved, Balanced
  <1>. QED  BY <1>1, Zenon DEF Balanced

LEMMA TradedType ==
    ASSUME TypeOK, NEW n
    PROVE  Traded(n) \in Nat
  <1>1. trades \in Seq(TradeExecuted)
    BY Zenon DEF TypeOK
  <1>2. PICK f : SumLoop(f, trades, n)
    BY <1>1, QuantityLoop, Zenon
  <1>3. Len(trades) \in 0 .. Len(trades)
    BY <1>1
  <1>4. f \in [0 .. Len(trades) -> Nat] /\ Traded(n) = f[Len(trades)]
    BY <1>2, Zenon DEF SumLoop, Traded
  <1>. QED  BY <1>3, <1>4, Zenon

LEMMA BalanceBegin ==
    ASSUME TypeOK, LevelsInOrder, Numbered, TradesNumbered, QuantityConserved,
           NEW order, Begins(order)
    PROVE  QuantityConserved'
  <1> DEFINE N == Len(submitted)
  <1>1. /\ N \in Nat /\ Len(submitted') = N + 1
        /\ submitted'[N + 1] = order
        /\ \A n \in 1 .. N : submitted'[n] = submitted[n]
    BY BeginsFacts, Zenon
  <1>2. /\ taker = NoOrder /\ taker' = order /\ order \in OrderBookEntry
        /\ order.SequenceNum = N + 1
        /\ order.Quantity = remainingQty' /\ remainingQty' \in Nat
        /\ UNCHANGED <<book, trades, cancelled>>
    BY Zenon DEF Begins
  <1>3. /\ \A n \in 1 .. N + 1 : n \in 1 .. N \/ n = N + 1
        /\ \A n \in 1 .. N : n # N + 1
    BY <1>1
  <1>4. \A n : Traded(n)' = Traded(n)
    BY <1>2, Zenon DEF Traded
  <1>5. ASSUME NEW n \in 1 .. N PROVE Balanced(n)'
    <2>1. Open(n)' = Open(n)
      <3>1. Aside(taker, n) /\ Aside(taker', n) /\ book \in Books /\ book' \in Books
        BY <1>2, <1>3, Zenon DEF Aside, TypeOK, Books
      <3>2. SameHeld(book', book, n)
        BY <1>2, Zenon DEF SameHeld
      <3>3. OpenIn(book', taker', remainingQty', n) = OpenIn(book, taker, remainingQty, n)
        BY <3>1, <3>2, OpenSame
      <3>. QED  BY <3>3, OpenIs, Zenon
    <2>2. submitted'[n] = submitted[n] /\ cancelled \subseteq cancelled'
      BY <1>1, <1>2, Zenon
    <2>. QED  BY <1>4, <2>1, <2>2, BalancedSame, Zenon
  <1>6. ASSUME NEW n, n = N + 1 PROVE Balanced(n)'
    <2>1. taker' # NoOrder
      BY <1>2, NoOrderIsNone, Zenon
    <2>2. Open(n)' = remainingQty'
      BY <1>2, <1>6, <2>1, Zenon DEF Open
    <2>3. Traded(n)' = 0
      <3>1. \A i \in 1 .. Len(trades) : trades[i].Taker # n /\ trades[i].Maker # n
        BY <1>3, <1>6, Zenon DEF TradesNumbered
      <3>2. trades \in Seq(TradeExecuted)
        BY Zenon DEF TypeOK
      <3>3. Traded(n) = 0
        BY <3>1, <3>2, QuantityZero, Zenon DEF Traded
      <3>. QED  BY <1>4, <3>3, Zenon
    <2>4. submitted'[n].Quantity = remainingQty'
      <3>1. submitted'[n] = order
        BY <1>1, <1>6, Zenon
      <3>. QED  BY <1>2, <3>1, Zenon
    <2>5. 0 + remainingQty' = remainingQty' /\ remainingQty' <= remainingQty'
      <3>1. \A k \in Nat : 0 + k = k /\ k <= k
        OBVIOUS
      <3>. QED  BY <1>2, <3>1, Zenon
    <2>. QED  BY <2>2, <2>3, <2>4, <2>5, Zenon DEF Balanced
  <1>7. \A n \in 1 .. N + 1 : Balanced(n)'
    BY <1>3, <1>5, <1>6, Zenon
  <1>. QED  BY <1>1, <1>7, Zenon DEF QuantityConserved, Balanced

\* A trade changes the entry of the maker and no other.
LEMMA TradeHolds ==
    ASSUME TypeOK, LevelsInOrder, NEW side, NEW price, NEW q, Trades(side, price, q),
           NEW maker, maker = book[side][price][1], NEW u, u = Updated(side, price, q)
    PROVE  /\ maker \in OrderBookEntry /\ u \in OrderBookEntry /\ SameOrder(u, maker)
           /\ u.Quantity = maker.Quantity /\ u.FilledQty = maker.FilledQty + q
           /\ Holds(book, maker)
           /\ \A e : e.SequenceNum # maker.SequenceNum => (Holds(book', e) <=> Holds(book, e))
           /\ \A e : Holds(book', e) /\ e.SequenceNum = maker.SequenceNum => ~Filled(u) /\ e = u
           /\ ~Filled(u) => Holds(book', u)
  <1> DEFINE queue == book[side][price]
             rest == After(queue, q)
  <1>1. /\ side \in Side /\ price \in Levels(side) /\ q \in Nat
        /\ maker \in EntriesAt(side, price)
    BY Zenon DEF Trades
  <1>2. /\ price \in Price
        /\ Replaces(book', book, side, price, rest)
        /\ Items(rest) = Others(queue) \cup (IF Filled(u) THEN {} ELSE {u})
    BY TradesBook, Zenon
  <1>3. maker \in OrderBookEntry
    BY <1>1, Zenon DEF EntriesAt
  <1>4. /\ u \in OrderBookEntry /\ SameOrder(u, maker)
        /\ u.Quantity = maker.Quantity /\ u.FilledQty = maker.FilledQty + q
    <2>1. u = [maker EXCEPT !.FilledQty = @ + q]
      BY Zenon DEF Updated
    <2>. QED  BY <1>1, <1>3, <2>1, UpdatedEntry, Zenon
  <1>5. maker \in Items(queue)
    <2>1. queue # <<>> /\ queue \in Seq(OrderBookEntry)
      BY <1>1, <1>2, LevelFacts, Zenon DEF Levels
    <2>2. 1 \in 1 .. Len(queue)
      BY <2>1
    <2>. QED  BY <2>2, Zenon DEF Items
  <1>6. Holds(book, maker)
    BY <1>1, <1>2, <1>5, Zenon DEF Holds
  <1>7. u.SequenceNum = maker.SequenceNum
    BY <1>4, Zenon DEF SameOrder
  <1>8. \A e : e.SequenceNum # maker.SequenceNum => (e \in Items(rest) <=> e \in Items(queue))
    BY <1>2, <1>7, Zenon DEF Others
  <1>9. \A e \in Items(rest) : e.SequenceNum = maker.SequenceNum => ~Filled(u) /\ e = u
    BY <1>2, Zenon DEF Others
  <1>10. ~Filled(u) => u \in Items(rest)
    BY <1>2, Zenon
  <1> HIDE DEF rest, queue
  <1>11. book'[side][price] = rest /\ book[side][price] = queue
    BY <1>2, Zenon DEF Replaces, queue
  <1>12. \A s \in Side, p \in Price : s # side \/ p # price => book'[s][p] = book[s][p]
    BY <1>2, Zenon DEF Replaces
  <1>13. ASSUME NEW e, e.SequenceNum # maker.SequenceNum
         PROVE  Holds(book', e) <=> Holds(book, e)
    <2>1. ASSUME NEW s \in Side, NEW p \in Price
          PROVE  e \in Items(book'[s][p]) <=> e \in Items(book[s][p])
      <3>1. CASE s = side /\ p = price
        BY <1>8, <1>11, <1>13, <3>1, Zenon
      <3>2. CASE s # side \/ p # price
        BY <1>12, <3>2, Zenon
      <3>. QED  BY <3>1, <3>2, Zenon
    <2>. QED  BY <2>1, Zenon DEF Holds
  <1>14. ASSUME NEW e, Holds(book', e), e.SequenceNum = maker.SequenceNum
         PROVE  ~Filled(u) /\ e = u
    <2>1. PICK s \in Side, p \in Price : e \in Items(book'[s][p])
      BY <1>14, Zenon DEF Holds
    <2>2. CASE s = side /\ p = price
      BY <1>9, <1>11, <1>14, <2>1, <2>2, Zenon
    <2>3. CASE s # side \/ p # price
      <3>1. e \in Items(book[s][p])
        BY <1>12, <2>1, <2>3, Zenon
      <3>2. Faithful(book) /\ Placed(book)
        BY LevelsFaithful, Zenon DEF Faithful
      <3>3. e.Side = s /\ e.Price = p
        BY <3>1, <3>2, Zenon DEF Placed
      <3>4. Holds(book, e)
        BY <3>1, Zenon DEF Holds
      <3>5. maker.Side = side /\ maker.Price = price
        BY <1>1, Zenon DEF EntriesAt
      <3>6. e.Side = maker.Side /\ e.Price = maker.Price
        BY <1>6, <1>14, <3>2, <3>4, Zenon DEF Faithful
      <3>. QED  BY <2>3, <3>3, <3>5, <3>6, Zenon
    <2>. QED  BY <2>2, <2>3, Zenon
  <1>15. ~Filled(u) => Holds(book', u)
    BY <1>1, <1>2, <1>10, <1>11, Zenon DEF Holds
  <1>. QED  BY <1>3, <1>4, <1>6, <1>13, <1>14, <1>15, Zenon

LEMMA BalanceTrade ==
    ASSUME TypeOK, LevelsInOrder, Numbered, QuantityConserved, LevelsInOrder',
           NEW side, NEW price, NEW q, Trades(side, price, q)
    PROVE  QuantityConserved'
  <1>0. PICK maker, u : maker = book[side][price][1] /\ u = Updated(side, price, q)
    BY Zenon
  <1>1. /\ maker \in OrderBookEntry /\ u \in OrderBookEntry /\ SameOrder(u, maker)
        /\ u.Quantity = maker.Quantity /\ u.FilledQty = maker.FilledQty + q
        /\ Holds(book, maker)
        /\ \A e : e.SequenceNum # maker.SequenceNum => (Holds(book', e) <=> Holds(book, e))
        /\ \A e : Holds(book', e) /\ e.SequenceNum = maker.SequenceNum => ~Filled(u) /\ e = u
        /\ ~Filled(u) => Holds(book', u)
    BY <1>0, TradeHolds
  <1>2. /\ taker # NoOrder /\ maker \in EntriesAt(side, price)
        /\ q \in Nat /\ 0 < q /\ q <= remainingQty /\ q <= maker.Quantity - maker.FilledQty
        /\ remainingQty' = remainingQty - q
        /\ UNCHANGED <<taker, submitted, cancelled>>
        /\ trades' = Append(trades, Trade(side, price, q))
    BY <1>0, Zenon DEF Trades
  <1>3. book \in Books /\ book' \in Books /\ remainingQty \in Nat /\ trades \in Seq(TradeExecuted)
    BY TradesBook, Zenon DEF TypeOK, Books
  <1>4. Faithful(book) /\ Faithful(book')
    BY LevelsFaithful, Zenon
  <1>5. maker.SequenceNum # taker.SequenceNum
    BY <1>2, Zenon DEF EntriesAt, MayRest
  <1> DEFINE trade == Trade(side, price, q)
  <1>6. /\ trade \in TradeExecuted /\ trade.Quantity = q
        /\ trade.Taker = taker.SequenceNum /\ trade.Maker = maker.SequenceNum
    BY <1>0, TradeType, Zenon DEF Trade
  <1> HIDE DEF trade
  <1>7. ASSUME NEW n PROVE Traded(n)' = Traded(n) + Share(trade, n)
    <2>1. QuantityIn(Append(trades, trade), n) = QuantityIn(trades, n) + Share(trade, n)
      BY <1>3, <1>6, QuantityAppend, Zenon
    <2>. QED  BY <1>2, <2>1, Zenon DEF Traded, trade
  <1>8. ASSUME NEW n PROVE Traded(n)' + Open(n)' = Traded(n) + Open(n)
    <2>1. Traded(n) \in Nat /\ Open(n) \in Nat
      BY OpenType, TradedType, Zenon
    <2>2. CASE n = taker.SequenceNum
      <3>1. Open(n) = remainingQty /\ Open(n)' = remainingQty - q
        BY <1>2, <2>2, Zenon DEF Open
      <3>2. Share(trade, n) = q
        BY <1>6, <2>2, Zenon DEF Share
      <3>3. Traded(n)' = Traded(n) + q
        BY <1>7, <3>2, Zenon
      <3>. QED  BY <1>2, <1>3, <2>1, <3>1, <3>3
    <2>3. CASE n = maker.SequenceNum
      <3>1. Aside(taker, n) /\ Aside(taker', n)
        BY <1>2, <1>5, <2>3, Zenon DEF Aside
      <3>2. Open(n) = maker.Quantity - maker.FilledQty
        <4>1. HeldAs(book, maker, n)
          BY <1>1, <2>3, Zenon DEF HeldAs
        <4>2. OpenIn(book, taker, remainingQty, n) = Unfilled(maker)
          BY <1>3, <1>4, <3>1, <4>1, OpenHeld
        <4>. QED  BY <4>2, OpenIs, Zenon DEF Unfilled
      <3>3. Traded(n)' = Traded(n) + q
        <4>1. Share(trade, n) = q
          BY <1>6, <2>3, Zenon DEF Share
        <4>. QED  BY <1>7, <4>1, Zenon
      <3>4. maker.Quantity \in Nat /\ maker.FilledQty \in Nat
        BY <1>1, Zenon DEF OrderBookEntry
      <3>5. CASE Filled(u)
        <4>1. \A e : Holds(book', e) => e.SequenceNum # n
          BY <1>1, <2>3, <3>5, Zenon
        <4>2. Open(n)' = 0
          BY <1>3, <3>1, <4>1, OpenGone, OpenIs, Zenon
        <4>3. maker.FilledQty + q >= maker.Quantity
          BY <1>1, <3>5, Zenon DEF Filled
        <4>. QED  BY <1>2, <2>1, <3>2, <3>3, <3>4, <4>2, <4>3
      <3>6. CASE ~Filled(u)
        <4>1. HeldAs(book', u, n)
          BY <1>1, <2>3, <3>6, Zenon DEF SameOrder, HeldAs
        <4>2. Open(n)' = u.Quantity - u.FilledQty
          <5>1. OpenIn(book', taker', remainingQty', n) = Unfilled(u)
            BY <1>3, <1>4, <3>1, <4>1, OpenHeld, Zenon
          <5>. QED  BY <5>1, OpenIs, Zenon DEF Unfilled
        <4>3. Open(n)' = maker.Quantity - (maker.FilledQty + q)
          BY <1>1, <4>2, Zenon
        <4>. QED  BY <1>2, <2>1, <3>2, <3>3, <3>4, <4>3
      <3>. QED  BY <3>5, <3>6, Zenon
    <2>4. CASE n # taker.SequenceNum /\ n # maker.SequenceNum
      <3>1. Aside(taker, n) /\ Aside(taker', n)
        BY <1>2, <2>4, Zenon DEF Aside
      <3>2. SameHeld(book', book, n)
        BY <1>1, <2>4, Zenon DEF SameHeld
      <3>3. Open(n)' = Open(n)
        <4>1. OpenIn(book', taker', remainingQty', n) = OpenIn(book, taker, remainingQty, n)
          BY <1>3, <3>1, <3>2, OpenSame
        <4>. QED  BY <4>1, OpenIs, Zenon
      <3>4. Share(trade, n) = 0
        BY <1>6, <2>4, Zenon DEF Share
      <3>5. Traded(n)' = Traded(n) + 0
        BY <1>7, <3>4, Zenon
      <3>. QED  BY <2>1, <3>3, <3>5
    <2>. QED  BY <2>2, <2>3, <2>4, Zenon
  <1>9. \A n \in 1 .. Len(submitted) : Balanced(n)'
    BY <1>2, <1>8, BalancedSame, Zenon
  <1>. QED  BY <1>2, <1>9, Zenon DEF QuantityConserved, Balanced

LEMMA BalanceEnd ==
    ASSUME TypeOK, LevelsInOrder, Numbered, QuantityConserved, LevelsInOrder', EndMatch
    PROVE  QuantityConserved'
  <1> DEFINE side == taker.Side
             price == taker.Price
             queue == book[side][price]
             longer == Append(queue, Rested)
  <1>1. /\ taker \in OrderBookEntry /\ side \in Side /\ price \in Price
        /\ book' \in Books
        /\ remainingQty = 0 => book' = book
        /\ remainingQty # 0 => /\ Replaces(book', book, side, price, longer)
                               /\ Items(longer) = Items(queue) \cup {Rested}
    BY EndMatchBook, Zenon
  <1>2. /\ taker # NoOrder /\ taker' = NoOrder
        /\ UNCHANGED <<submitted, trades, cancelled>>
    BY Zenon DEF EndMatch
  <1>3. book \in Books /\ remainingQty \in Nat
    BY Zenon DEF TypeOK, Books
  <1>4. Faithful(book')
    BY LevelsFaithful, Zenon
  <1>5. /\ Rested.SequenceNum = taker.SequenceNum
        /\ Rested.Quantity = remainingQty /\ Rested.FilledQty = 0
    BY <1>1, <1>3, RestedEntry, Zenon DEF SameOrder
  <1> HIDE DEF longer
  <1>6. ASSUME NEW e
        PROVE  /\ remainingQty = 0 => (Holds(book', e) <=> Holds(book, e))
               /\ remainingQty # 0 => (Holds(book', e) <=> Holds(book, e) \/ e = Rested)
    <2>1. CASE remainingQty = 0
      BY <1>1, <2>1, Zenon
    <2>2. CASE remainingQty # 0
      <3>1. book'[side][price] = longer /\ Items(longer) = Items(queue) \cup {Rested}
        BY <1>1, <2>2, Zenon DEF Replaces
      <3>2. \A s \in Side, p \in Price : s # side \/ p # price => book'[s][p] = book[s][p]
        BY <1>1, <2>2, Zenon DEF Replaces
      <3>3. ASSUME NEW s \in Side, NEW p \in Price, e \in Items(book'[s][p])
            PROVE  e \in Items(book[s][p]) \/ e = Rested
        BY <3>1, <3>2, <3>3, Zenon
      <3>4. ASSUME NEW s \in Side, NEW p \in Price, e \in Items(book[s][p])
            PROVE  e \in Items(book'[s][p])
        BY <3>1, <3>2, <3>4, Zenon
      <3>5. Rested \in Items(book'[side][price])
        BY <3>1, Zenon
      <3>6. Holds(book', e) => Holds(book, e) \/ e = Rested
        BY <3>3, Zenon DEF Holds
      <3>7. Holds(book, e) => Holds(book', e)
        BY <3>4, Zenon DEF Holds
      <3>8. Holds(book', Rested)
        BY <1>1, <3>5, Zenon DEF Holds
      <3>. QED  BY <2>2, <3>6, <3>7, <3>8, Zenon
    <2>. QED  BY <2>1, <2>2, Zenon
  <1>7. ASSUME NEW n PROVE Open(n)' = Open(n)
    <2>1. Aside(taker', n)
      BY <1>2, Zenon DEF Aside
    <2>2. CASE n = taker.SequenceNum
      <3>1. Open(n) = remainingQty
        BY <1>2, <2>2, Zenon DEF Open
      <3>2. CASE remainingQty = 0
        <4>1. \A e : Holds(book', e) => e.SequenceNum # n
          BY <1>2, <1>6, <2>2, <3>2, HeldEntry, Zenon DEF MayRest
        <4>2. OpenIn(book', taker', remainingQty', n) = 0
          BY <1>1, <2>1, <4>1, OpenGone, Zenon
        <4>. QED  BY <3>1, <3>2, <4>2, OpenIs, Zenon
      <3>3. CASE remainingQty # 0
        <4>1. HeldAs(book', Rested, n)
          BY <1>5, <1>6, <2>2, <3>3, Zenon DEF HeldAs
        <4>2. OpenIn(book', taker', remainingQty', n) = Unfilled(Rested)
          BY <1>1, <1>4, <2>1, <4>1, OpenHeld
        <4>3. Unfilled(Rested) = remainingQty
          BY <1>3, <1>5 DEF Unfilled
        <4>. QED  BY <3>1, <4>2, <4>3, OpenIs, Zenon
      <3>. QED  BY <3>2, <3>3, Zenon
    <2>3. CASE n # taker.SequenceNum
      <3>1. Aside(taker, n)
        BY <2>3, Zenon DEF Aside
      <3>2. SameHeld(book', book, n)
        BY <1>5, <1>6, <2>3, Zenon DEF SameHeld
      <3>3. OpenIn(book', taker', remainingQty', n) = OpenIn(book, taker, remainingQty, n)
        BY <1>1, <1>3, <2>1, <3>1, <3>2, OpenSame, SMTT(20)
      <3>. QED  BY <3>3, OpenIs, Zenon
    <2>. QED  BY <2>2, <2>3, Zenon
  <1>8. \A n : Traded(n)' = Traded(n)
    BY <1>2, Zenon DEF Traded
  <1>9. \A n \in 1 .. Len(submitted) : Balanced(n)'
    BY <1>2, <1>7, <1>8, BalancedSame, Zenon
  <1>. QED  BY <1>2, <1>9, Zenon DEF QuantityConserved, Balanced

\* An order that loses its entry is cancelled: it may have traded less than
\* was submitted, never more.
LEMMA BalanceCancel ==
    ASSUME TypeOK, LevelsInOrder, Numbered, QuantityConserved, LevelsInOrder',
           NEW order \in orders, CancelOrder(order)
    PROVE  QuantityConserved'
  <1> DEFINE side == order.Side
             price == order.Price
             queue == book[side][price]
             rest == Without(queue, order.OrderID)
             gone == {f \in Items(queue) : f.OrderID = order.OrderID}
  <1>1. /\ side \in Side /\ price \in Price
        /\ book' \in Books
        /\ Replaces(book', book, side, price, rest)
        /\ Items(rest) = {e \in Items(queue) : e.OrderID # order.OrderID}
        /\ cancelled' = cancelled \cup {order.SequenceNum} \cup {e.SequenceNum : e \in gone}
    BY CancelOrderBook, Zenon
  <1>2. taker = NoOrder /\ UNCHANGED <<taker, submitted, trades>>
    BY Zenon DEF CancelOrder
  <1>3. book \in Books /\ Faithful(book) /\ Faithful(book')
    BY LevelsFaithful, Zenon DEF TypeOK, Books
  <1>4. cancelled \subseteq cancelled' /\ \A e \in gone : e.SequenceNum \in cancelled'
    BY <1>1, Zenon
  <1> HIDE DEF rest
  <1>5. book'[side][price] = rest
    BY <1>1, Zenon DEF Replaces
  <1>6. \A s \in Side, p \in Price : s # side \/ p # price => book'[s][p] = book[s][p]
    BY <1>1, Zenon DEF Replaces
  <1>7. ASSUME NEW s \in Side, NEW p \in Price, NEW e
        PROVE  /\ e \in Items(book'[s][p]) => e \in Items(book[s][p])
               /\ e \in Items(book[s][p]) => e \in Items(book'[s][p]) \/ e.SequenceNum \in cancelled'
    <2>1. CASE s = side /\ p = price
      BY <1>1, <1>4, <1>5, <2>1, Zenon
    <2>2. CASE s # side \/ p # price
      BY <1>6, <2>2, Zenon
    <2>. QED  BY <2>1, <2>2, Zenon
  <1>8. ASSUME NEW e
        PROVE  /\ Holds(book', e) => Holds(book, e)
               /\ Holds(book, e) => Holds(book', e) \/ e.SequenceNum \in cancelled'
    <2>1. Holds(book', e) => Holds(book, e)
      BY <1>7, Zenon DEF Holds
    <2>2. Holds(book, e) => Holds(book', e) \/ e.SequenceNum \in cancelled'
      BY <1>7, Zenon DEF Holds
    <2>. QED  BY <2>1, <2>2, Zenon
  <1>9. \A n : Traded(n)' = Traded(n) /\ Aside(taker, n) /\ Aside(taker', n)
    BY <1>2, Zenon DEF Traded, Aside
  <1>10. ASSUME NEW n \in 1 .. Len(submitted) PROVE Balanced(n)'
    <2>1. CASE n \notin cancelled' \/ \E e : HeldAs(book', e, n)
      <3>1. Open(n)' = Open(n)
        <4>1. CASE n \notin cancelled'
          <5>1. SameHeld(book', book, n)
            BY <1>8, <4>1, Zenon DEF SameHeld
          <5>2. OpenIn(book', taker', remainingQty', n) = OpenIn(book, taker, remainingQty, n)
            BY <1>1, <1>3, <1>9, <5>1, OpenSame
          <5>. QED  BY <5>2, OpenIs, Zenon
        <4>2. CASE \E e : HeldAs(book', e, n)
          <5>1. PICK e : HeldAs(book', e, n)
            BY <4>2, Zenon
          <5>2. HeldAs(book, e, n)
            BY <1>8, <5>1, Zenon DEF HeldAs
          <5>3. OpenIn(book', taker', remainingQty', n) = Unfilled(e)
            BY <1>1, <1>3, <1>9, <5>1, OpenHeld, Zenon
          <5>4. OpenIn(book, taker, remainingQty, n) = Unfilled(e)
            BY <1>3, <1>9, <5>2, OpenHeld, Zenon
          <5>. QED  BY <5>3, <5>4, OpenIs, Zenon
        <4>. QED  BY <2>1, <4>1, <4>2, Zenon
      <3>. QED  BY <1>2, <1>4, <1>9, <3>1, BalancedSame, Zenon
    <2>2. CASE n \in cancelled' /\ ~\E e : HeldAs(book', e, n)
      <3>1. \A e : Holds(book', e) => e.SequenceNum # n
        BY <2>2, Zenon DEF HeldAs
      <3>2. OpenIn(book', taker', remainingQty', n) = 0
        BY <1>1, <1>9, <3>1, OpenGone, Zenon
      <3>3. Open(n)' = 0 /\ Traded(n)' = Traded(n) /\ submitted' = submitted
        BY <1>2, <1>9, <3>2, OpenIs, Zenon
      <3>4. Traded(n) + Open(n) <= submitted[n].Quantity
        BY Zenon DEF QuantityConserved
      <3>5. Traded(n) \in Nat /\ Open(n) \in Nat /\ submitted[n].Quantity \in Nat
        <4>1. submitted[n] \in OrderBookEntry
          BY DEF TypeOK
        <4>2. submitted[n].Quantity \in Nat
          BY <4>1, Zenon DEF OrderBookEntry
        <4>. QED  BY <4>2, TradedType, OpenType, Zenon
      <3>6. Traded(n) + 0 <= submitted[n].Quantity
        BY <3>4, <3>5
      <3>. QED  BY <2>2, <3>3, <3>6, Zenon DEF Balanced
    <2>. QED  BY <2>1, <2>2, Zenon
  <1>. QED  BY <1>2, <1>10, Zenon DEF QuantityConserved, Balanced

LEMMA BalanceStep ==
    ASSUME TypeOK, LevelsInOrder, Numbered, TradesNumbered, QuantityConserved, [Next]_vars
    PROVE  QuantityConserved'
  <1>0. LevelsInOrder'
    BY LevelsStep, Zenon
  <1>1. CASE \E order : Begins(order)
    BY <1>1, BalanceBegin, Zenon
  <1>2. CASE \E side, price, q : Trades(side, price, q)
    BY <1>0, <1>2, BalanceTrade, Zenon
  <1>3. CASE EndMatch
    BY <1>0, <1>3, BalanceEnd, Zenon
  <1>4. CASE \E order \in orders : CancelOrder(order)
    BY <1>0, <1>4, BalanceCancel, Zenon
  <1>5. CASE UNCHANGED vars
    <2>1. UNCHANGED <<book, taker, remainingQty, submitted, trades, cancelled>>
      BY <1>5, Zenon DEF vars
    <2>2. \A n : Traded(n)' = Traded(n)
      BY <2>1, Zenon DEF Traded
    <2>3. \A n : Open(n)' = Open(n)
      <3> TAKE n
      <3>1. OpenIn(book', taker', remainingQty', n) = OpenIn(book, taker, remainingQty, n)
        BY <2>1, Zenon
      <3>. QED  BY <3>1, OpenIs, Zenon
    <2>. QED  BY <2>1, <2>2, <2>3, Zenon DEF QuantityConserved
  <1>. QED  BY <1>1, <1>2, <1>3, <1>4, <1>5, StepCases, Zenon

-----------------------------------------------------------------------------
(* The theorems.                                                           *)

LEMMA InitInv == Init => Inv
  <1> SUFFICES ASSUME Init PROVE Inv
    BY Zenon
  <1>1. /\ book = [side \in Side |-> [price \in Price |-> <<>>]]
        /\ orders = {} /\ taker = NoOrder /\ remainingQty = 0 /\ submitted = <<>>
        /\ trades = <<>> /\ cancelled = {}
    BY Zenon DEF Init
  <1>2. \A s \in Side, p \in Price : book[s][p] = <<>>
    BY <1>1, Zenon
  <1>3. TypeOK
    <2>1. <<>> \in Seq(OrderBookEntry) /\ <<>> \in Seq(TradeExecuted) /\ 0 \in Nat
      OBVIOUS
    <2>2. book \in [Side -> [Price -> Seq(OrderBookEntry)]]
      BY <1>1, <2>1, Zenon
    <2>. QED  BY <1>1, <2>1, <2>2, Zenon DEF TypeOK
  <1>4. Len(submitted) = 0 /\ Len(trades) = 0 /\ 1 .. 0 = {}
    BY <1>1
  <1>5. Numbered
    BY <1>1, <1>4, Zenon DEF Numbered
  <1>6. \A s \in Side, p \in Price : Len(book[s][p]) = 0
    BY <1>2
  <1>7. LevelsInOrder
    BY <1>4, <1>6, Zenon DEF LevelsInOrder
  <1>8. TradesNumbered
    BY <1>1, <1>4, Zenon DEF TradesNumbered
  <1>10. QuantityConserved
    BY <1>4, Zenon DEF QuantityConserved
  <1>. QED  BY <1>3, <1>5, <1>7, <1>8, <1>10, Zenon DEF Inv

LEMMA InvStep == Inv /\ [Next]_vars => Inv'
  <1> SUFFICES ASSUME Inv, [Next]_vars PROVE Inv'
    BY Zenon
  <1>1. /\ TypeOK /\ Numbered /\ LevelsInOrder
        /\ TradesNumbered /\ QuantityConserved
    BY Zenon DEF Inv
  <1>. QED  BY <1>1, TypeStep, NumberedStep, LevelsStep, TradesStep, BalanceStep, Zenon DEF Inv

\* Between any two steps of MatchOrder and CancelOrder the orders are numbered
\* as they came, every level holds unfilled copies of its own live orders from
\* the oldest to the youngest, a taker's trades carry ascending indexes, and
\* the account of every order is balanced.
THEOREM Invariance == Spec => []Inv
  BY InitInv, InvStep, PTL DEF Spec

\* What an order has traded and what it still wants add up to what was
\* submitted, at every iteration of MatchOrder.
THEOREM Conservation == Spec => []QuantityConserved
  <1>1. Inv => QuantityConserved
    BY Zenon DEF Inv
  <1>. QED  BY <1>1, Invariance, PTL

\* Two trades share a TradeID only if they are of two takers to which clients
\* gave the same OrderID.
THEOREM UniqueTradeIDs == Spec => []TradeIDsUnique
  <1>1. Inv => TradeIDsUnique
    <2> SUFFICES ASSUME Inv, NEW i \in DOMAIN trades, NEW j \in DOMAIN trades,
                        trades[i].TradeID = trades[j].TradeID, i # j
                 PROVE  /\ trades[i].Taker # trades[j].Taker
                        /\ submitted[trades[i].Taker].OrderID = submitted[trades[j].Taker].OrderID
      BY Zenon DEF TradeIDsUnique
    <2>1. trades \in Seq(TradeExecuted) /\ TradesNumbered
      BY Zenon DEF Inv, TypeOK
    <2>2. i \in 1 .. Len(trades) /\ j \in 1 .. Len(trades) /\ (i < j \/ j < i)
      BY <2>1
    <2>3. trades[i].TradeID[2] \in Nat
      <3>1. trades[i] \in TradeExecuted
        BY <2>1, <2>2
      <3>2. trades[i].TradeID \in Nat \X Nat
        BY <3>1, Zenon DEF TradeExecuted
      <3>. QED  BY <3>2, Zenon
    <2>4. ~(trades[i].TradeID[2] < trades[j].TradeID[2]) /\ ~(trades[j].TradeID[2] < trades[i].TradeID[2])
      BY <2>3
    <2>5. trades[i].Taker # trades[j].Taker
      BY <2>1, <2>2, <2>4, Zenon DEF TradesNumbered
    <2>6. submitted[trades[i].Taker].OrderID = submitted[trades[j].Taker].OrderID
      <3>1. /\ trades[i].TradeID[1] = submitted[trades[i].Taker].OrderID
            /\ trades[j].TradeID[1] = submitted[trades[j].Taker].OrderID
        BY <2>1, <2>2, Zenon DEF TradesNumbered
      <3>. QED  BY <3>1, Zenon
    <2>. QED  BY <2>5, <2>6, Zenon
  <1>. QED  BY <1>1, Invariance, PTL

\* Only MatchOne trades, with an entry of a live order at the first level.
LEMMA NewTrade ==
    ASSUME Inv, [Next]_vars, trades' # trades
    PROVE  \E side, price, q :
                /\ Trades(side, price, q)
                /\ trades'[Len(trades')] = Trade(side, price, q)
  <1>1. TypeOK /\ LevelsInOrder
    BY Zenon DEF Inv
  <1>2. PICK side, price, q : Trades(side, price, q)
    <2>1. (\E order : Begins(order)) => trades' = trades
      BY Zenon DEF Begins
    <2>2. EndMatch => trades' = trades
      BY Zenon DEF EndMatch
    <2>3. (\E order \in orders : CancelOrder(order)) => trades' = trades
      BY Zenon DEF CancelOrder
    <2>4. UNCHANGED vars => trades' = trades
      BY Zenon DEF vars
    <2>. QED  BY <1>1, <2>1, <2>2, <2>3, <2>4, StepCases, Zenon
  <1> DEFINE trade == Trade(side, price, q)
  <1>3. /\ trades \in Seq(TradeExecuted) /\ trade \in TradeExecuted
        /\ trades' = Append(trades, trade)
    BY <1>1, <1>2, TradeType, Zenon DEF TypeOK, Trades
  <1> HIDE DEF trade
  <1>4. trades'[Len(trades')] = trade
    BY <1>3
  <1>. QED  BY <1>2, <1>4, Zenon DEF trade

\* Once CancelOrder has returned without error, the order does not trade as
\* maker: no entry of a cancelled order is left at any level.
THEOREM CancelIsFinal == Spec => CancelStopsTrading
  <1>1. ASSUME Inv, [Next]_vars, trades' # trades
        PROVE  trades'[Len(trades')].Maker \notin cancelled
    <2>1. PICK side, price, q :
                /\ Trades(side, price, q)
                /\ trades'[Len(trades')] = Trade(side, price, q)
      BY <1>1, NewTrade, Zenon
    <2>2. book[side][price][1].SequenceNum \notin cancelled
      BY <2>1, Zenon DEF Trades, EntriesAt, MayRest
    <2>3. Trade(side, price, q).Maker = book[side][price][1].SequenceNum
      BY Zenon DEF Trade
    <2>. QED  BY <2>1, <2>2, <2>3, Zenon
  <1>2. Inv /\ [Next]_vars =>
            [trades' # trades => trades'[Len(trades')].Maker \notin cancelled]_vars
    BY <1>1, Zenon
  <1>. QED  BY <1>2, Invariance, PTL DEF Spec, CancelStopsTrading

\* The maker of a trade is the oldest entry at its price, and the trade is at
\* the maker's price and within the taker's limit.
THEOREM Priority == Spec => TimePriority
  <1> DEFINE Fair(trade) ==
                LET maker == submitted[trade.Maker]
                IN  /\ trade.Price = maker.Price
                    /\ WithinLimit(submitted[trade.Taker], trade.Price)
                    /\ \A e \in Resting(maker.Side) :
                            e.Price = maker.Price => e.SequenceNum >= trade.Maker
  <1>1. ASSUME Inv, [Next]_vars, trades' # trades
        PROVE  Fair(trades'[Len(trades')])
    <2>1. PICK side, price, q :
                /\ Trades(side, price, q)
                /\ trades'[Len(trades')] = Trade(side, price, q)
      BY <1>1, NewTrade, Zenon
    <2> DEFINE queue == book[side][price]
               maker == queue[1]
               n == maker.SequenceNum
    <2>2. TypeOK /\ LevelsInOrder /\ Numbered
      BY <1>1, Zenon DEF Inv
    <2>3. /\ side \in Side /\ price \in Levels(side)
          /\ WithinLimit(taker, price)
          /\ taker # NoOrder /\ taker \in OrderBookEntry
          /\ maker \in EntriesAt(side, price)
      BY <2>1, Zenon DEF Trades
    <2>4. price \in Price /\ queue # <<>>
      BY <2>3, Zenon DEF Levels
    <2>5. /\ book \in Books /\ queue \in Seq(OrderBookEntry) /\ Ordered(queue)
          /\ Placed(book)
      BY <2>2, <2>3, <2>4, LevelFacts, LevelsPlaced, Zenon
    <2>6. submitted[n].Side = side /\ submitted[n].Price = price
      BY <2>3, Zenon DEF EntriesAt
    <2>7. submitted[taker.SequenceNum] = taker
      <3>1. Len(submitted) # 0 /\ taker = submitted[Len(submitted)] /\ submitted \in Seq(OrderBookEntry)
        BY <2>2, <2>3, Zenon DEF Numbered, TypeOK
      <3>2. Len(submitted) \in 1 .. Len(submitted)
        BY <3>1
      <3>3. submitted[Len(submitted)].SequenceNum = Len(submitted)
        BY <2>2, <3>2, Zenon DEF Numbered
      <3>. QED  BY <3>1, <3>3, Zenon
    <2>8. ASSUME NEW e \in Resting(side), e.Price = price PROVE e.SequenceNum >= n
      <3>1. PICK p \in Price : e \in {book[side][p][i] : i \in DOMAIN book[side][p]}
        BY <2>8, Zenon DEF Resting
      <3>2. book[side][p] \in Seq(OrderBookEntry)
        BY <2>3, <2>5, Zenon DEF Books
      <3>3. DOMAIN book[side][p] = 1 .. Len(book[side][p])
        BY <3>2
      <3>4. PICK j \in 1 .. Len(book[side][p]) : e = book[side][p][j]
        BY <3>1, <3>3, Zenon
      <3>5. e.Price = p
        <4>1. e \in Items(book[side][p])
          BY <3>4, Zenon DEF Items
        <4>. QED  BY <2>3, <2>5, <4>1, Zenon DEF Placed
      <3>6. j \in 1 .. Len(queue) /\ e = queue[j]
        BY <2>8, <3>4, <3>5, Zenon
      <3>7. 1 \in 1 .. Len(queue) /\ (j = 1 \/ 1 < j)
        BY <2>4, <2>5, <3>6
      <3>8. j = 1 \/ n < e.SequenceNum
        BY <2>5, <3>6, <3>7, Zenon DEF Ordered
      <3>9. n \in Nat /\ e.SequenceNum \in Nat
        <4>1. maker \in OrderBookEntry /\ e \in OrderBookEntry
          BY <2>5, <3>6, <3>7
        <4>. QED  BY <4>1, Zenon DEF OrderBookEntry
      <3>10. CASE j = 1
        <4>1. e.SequenceNum = n
          BY <3>6, <3>10, Zenon
        <4>. QED  BY <3>9, <4>1
      <3> HIDE DEF n
      <3>. QED  BY <3>8, <3>9, <3>10
    <2> HIDE DEF n
    <2>9. /\ Trade(side, price, q).Maker = n /\ Trade(side, price, q).Price = price
          /\ Trade(side, price, q).Taker = taker.SequenceNum
      BY Zenon DEF Trade, n
    <2>10. Fair(Trade(side, price, q))
      BY <2>3, <2>6, <2>7, <2>8, <2>9, Zenon
    <2>. QED  BY <2>1, <2>10, Zenon
  <1>2. Inv /\ [Next]_vars => [trades' # trades => Fair(trades'[Len(trades')])]_vars
    BY <1>1, Zenon
  <1>3. Spec => [][trades' # trades => Fair(trades'[Len(trades')])]_vars
    BY <1>2, Invariance, PTL DEF Spec
  <1>. QED  BY <1>3, Zenon DEF TimePriority
=============================================================================
