--------------------------- MODULE DeliveryProofs ---------------------------
(***************************************************************************)
(* What reaches the other side: the events of the outbox the broker, the   *)
(* broadcasts of the WebSocket server the clients.                         *)
(*                                                                         *)
(* The outbox, for any number of events and dispatchers and any batch      *)
(* size: the dispatchers lose no event themselves, and a trade whose row   *)
(* is kept takes effect once.                                              *)
(*                                                                         *)
(* The broadcaster, which shares no state with it, for any number of       *)
(* connections, symbols, messages, channels and workers: no subscription   *)
(* outlives its handler, and what is read is what was sent.                *)
(***************************************************************************)
EXTENDS Outbox, WebSocket, TLAPS

\* The broker has the event, a sender holds it, or a sender lost it.
Taken(e) == Sent(e) \/ e \in lost

\* NewOutboxDispatcher starts from a state that satisfies the invariant.
LEMMA InitInv == Init => Inv
  BY BoundAssumption DEF Init, Inv, TypeOK, LostBySenderOnly, SettledOnce, Sent

\* A step that changes no row, no count of settlements and no list of rows to
\* mark keeps the invariant if nothing that was taken is forgotten.
LEMMA SendingStep ==
    ASSUME Inv, TypeOK',
           UNCHANGED <<rows, settled, cleaned>>,
           \A e \in Event : Taken(e) => Taken(e)',
           \A d \in Dispatcher : \A e \in successfulEventIDs'[d] :
               e \in successfulEventIDs[d] \/ Taken(e)'
    PROVE  Inv'
  BY Zenon DEF Inv, TypeOK, LostBySenderOnly, SettledOnce, Taken

\* Every step of the dispatchers, the senders, the settlement, the cleaning
\* and the restarts keeps the invariant.
LEMMA NextInv ==
    ASSUME Inv, [Next]_vars
    PROVE  Inv'
  <1>0. TypeOK
    BY Zenon DEF Inv
  <1>1. ASSUME NEW e \in Event, WriteOutboxEntryIfNotExists(e)
        PROVE  Inv'
    <2>1. TypeOK'
      BY <1>0, <1>1, BoundAssumption DEF WriteOutboxEntryIfNotExists, TypeOK, sending
    <2>2. UNCHANGED <<cleaned, successfulEventIDs, buffer, delivered, lost>>
      BY <1>1, Zenon DEF WriteOutboxEntryIfNotExists, sending
    <2>3. /\ settled[e] > 0 => e \in cleaned
          /\ rows'[e] = "unpublished"
          /\ settled'[e] > 0
      BY <1>0, <1>1 DEF WriteOutboxEntryIfNotExists, TypeOK, Inv
    <2>4. \A f \in Event \ {e} : rows'[f] = rows[f] /\ settled'[f] = settled[f]
      BY <1>0, <1>1, Zenon DEF WriteOutboxEntryIfNotExists, TypeOK
    <2>5. settled'[e] = settled[e] + 1 /\ settled[e] \in Nat
      BY <1>0, <1>1, BoundAssumption DEF WriteOutboxEntryIfNotExists, TypeOK
    <2>6. SettledOnce' /\ LostBySenderOnly'
      BY <2>2, <2>3, <2>4, <2>5 DEF Inv, SettledOnce, LostBySenderOnly, Sent
    <2> QED
      BY <2>1, <2>2, <2>3, <2>4, <2>5, <2>6 DEF Inv, Sent
  <1>2. ASSUME NEW d \in Dispatcher, GetUnpublished(d)
        PROVE  Inv'
    <2>1. TypeOK'
      BY <1>0, <1>2, Zenon DEF GetUnpublished, Oldest, TypeOK, table, sending
    <2> QED
      BY <1>2, <2>1, SendingStep, Zenon DEF GetUnpublished, table, sending, Taken, Sent, Inv
  <1>3. ASSUME NEW d \in Dispatcher, NEW e \in Event, PublishEntry(d, e)
        PROVE  Inv'
    <2>1. TypeOK'
      BY <1>0, <1>3, Zenon DEF PublishEntry, IsNext, TypeOK, table
    <2>2. \A f \in Event : Taken(f) => Taken(f)'
      BY <1>0, <1>3, Zenon DEF PublishEntry, TypeOK, Taken, Sent, table
    <2>3. Taken(e)'
      BY <1>0, <1>3, Zenon DEF PublishEntry, TypeOK, Taken, Sent, table
    <2>4. UNCHANGED <<rows, settled, cleaned>>
      BY <1>3, Zenon DEF PublishEntry, table
    <2>5. \A c \in Dispatcher : successfulEventIDs'[c] \subseteq successfulEventIDs[c] \cup {e}
      BY <1>0, <1>3, Zenon DEF PublishEntry, TypeOK
    <2> QED
      BY <2>1, <2>2, <2>3, <2>4, <2>5, SendingStep, Zenon
  <1>4. ASSUME NEW d \in Dispatcher, NEW e \in Event, PublishEntryFails(d, e)
        PROVE  Inv'
    <2>1. TypeOK'
      BY <1>0, <1>4, Zenon DEF PublishEntryFails, IsNext, TypeOK, table, sending
    <2> QED
      BY <1>4, <2>1, SendingStep, Zenon DEF PublishEntryFails, table, sending, Taken, Sent
  <1>5. ASSUME NEW d \in Dispatcher, MarkPublishedBatch(d)
        PROVE  Inv'
    <2>1. TypeOK'
      BY <1>0, <1>5, Zenon DEF MarkPublishedBatch, EndBatch, TypeOK, sending
    <2>2. UNCHANGED <<settled, cleaned, buffer, delivered, lost>>
      BY <1>5, Zenon DEF MarkPublishedBatch, EndBatch, sending
    <2>3. \A e \in Event : rows'[e] # rows[e] =>
              e \in successfulEventIDs[d] /\ rows[e] # "none" /\ rows'[e] = "published"
      BY <1>5, Zenon DEF MarkPublishedBatch
    <2>4. \A c \in Dispatcher : successfulEventIDs'[c] \subseteq successfulEventIDs[c]
      BY <1>0, <1>5, Zenon DEF MarkPublishedBatch, EndBatch, TypeOK
    <2> QED
      BY <2>1, <2>2, <2>3, <2>4, Zenon DEF Inv, LostBySenderOnly, SettledOnce, Sent
  <1>6. ASSUME NEW d \in Dispatcher, MarksNothing(d)
        PROVE  Inv'
    <2>1. TypeOK'
      BY <1>0, <1>6, Zenon DEF MarksNothing, EndBatch, TypeOK, sending
    <2>2. \A c \in Dispatcher : successfulEventIDs'[c] \subseteq successfulEventIDs[c]
      BY <1>0, <1>6, Zenon DEF MarksNothing, EndBatch, TypeOK
    <2> QED
      BY <1>6, <2>1, <2>2, SendingStep, Zenon DEF MarksNothing, EndBatch, sending, Taken, Sent, Inv
  <1>7. ASSUME NEW d \in Dispatcher, NEW e \in Event, WriterDelivers(d, e)
        PROVE  Inv'
    <2>1. TypeOK'
      BY <1>0, <1>7, Zenon DEF WriterDelivers, TypeOK, table
    <2>2. \A f \in Event : Taken(f) => Taken(f)'
      BY <1>0, <1>7, Zenon DEF WriterDelivers, TypeOK, Taken, Sent
    <2> QED
      BY <1>7, <2>1, <2>2, SendingStep, Zenon DEF WriterDelivers, table
  <1>8. ASSUME NEW d \in Dispatcher, NEW e \in Event, WriterDrops(d, e)
        PROVE  Inv'
    <2>1. TypeOK'
      BY <1>0, <1>8, Zenon DEF WriterDrops, TypeOK, table
    <2>2. \A f \in Event : Taken(f) => Taken(f)'
      BY <1>0, <1>8, Zenon DEF WriterDrops, TypeOK, Taken, Sent
    <2> QED
      BY <1>8, <2>1, <2>2, SendingStep, Zenon DEF WriterDrops, table
  <1>9. ASSUME NEW d \in Dispatcher, Shutdown(d)
        PROVE  Inv'
    <2>1. TypeOK'
      BY <1>0, <1>9, Zenon DEF Shutdown, TypeOK, table
    <2>2. \A f \in Event : Taken(f) => Taken(f)'
      BY <1>0, <1>9, Zenon DEF Shutdown, TypeOK, Taken, Sent
    <2> QED
      BY <1>9, <2>1, <2>2, SendingStep, Zenon DEF Shutdown, table
  <1>10. ASSUME NEW d \in Dispatcher, Crash(d)
         PROVE  Inv'
    <2>1. TypeOK'
      BY <1>0, <1>10, Zenon DEF Crash, TypeOK, table
    <2>2. \A f \in Event : Taken(f) => Taken(f)'
      BY <1>0, <1>10, Zenon DEF Crash, TypeOK, Taken, Sent
    <2>3. \A c \in Dispatcher : successfulEventIDs'[c] \subseteq successfulEventIDs[c]
      BY <1>0, <1>10, Zenon DEF Crash, TypeOK
    <2> QED
      BY <1>10, <2>1, <2>2, <2>3, SendingStep, Zenon DEF Crash, table
  <1>11. ASSUME NEW e \in Event, CleanPublished(e)
         PROVE  Inv'
    <2>1. TypeOK'
      BY <1>0, <1>11, Zenon DEF CleanPublished, TypeOK, sending
    <2>2. UNCHANGED <<settled, successfulEventIDs, buffer, delivered, lost>>
      BY <1>11, Zenon DEF CleanPublished, sending
    <2>3. cleaned' = cleaned \cup {e} /\ rows[e] = "published" /\ rows'[e] = "none"
      BY <1>0, <1>11, Zenon DEF CleanPublished, TypeOK
    <2>4. \A f \in Event \ {e} : rows'[f] = rows[f]
      BY <1>0, <1>11, Zenon DEF CleanPublished, TypeOK
    <2> QED
      BY <2>1, <2>2, <2>3, <2>4, Zenon DEF Inv, LostBySenderOnly, SettledOnce, Sent
  <1>12. CASE UNCHANGED vars
    <2>1. TypeOK'
      BY <1>0, <1>12, Zenon DEF vars, table, sending, TypeOK
    <2> QED
      BY <1>12, <2>1, SendingStep, Zenon DEF vars, table, sending, Taken, Sent, Inv
  <1> QED
    BY <1>1, <1>2, <1>3, <1>4, <1>5, <1>6, <1>7, <1>8, <1>9, <1>10, <1>11, <1>12, Zenon
    DEF Next, Dispatch, Publishes, Writer

\* Inv holds in every state the dispatchers can reach.
THEOREM Invariance == Spec => []Inv
  <1>1. Inv /\ [Next]_vars => Inv'
    BY NextInv, Zenon
  <1> QED
    BY <1>1, InitInv, PTL DEF Spec

\* The dispatchers themselves lose no event whose trade took effect:
\* dispatchBatch marks a row only after the sender took its message, and a row
\* that is not marked is read again.
THEOREM DispatchSafety == Spec => []LostBySenderOnly
  BY Invariance, PTL DEF Inv

\* WriteOutboxEntryIfNotExists lets the transaction of a trade take effect
\* once, as long as CleanPublished has not deleted its row.
THEOREM SettlementSafety == Spec => []SettledOnce
  BY Invariance, PTL DEF Inv

-----------------------------------------------------------------------------
(***************************************************************************)
(* The broadcaster                                                         *)
(***************************************************************************)

\* The broadcaster starts from a state that satisfies the invariant.
LEMMA BroadcasterInit == ServerInit => ServerInv
  <1> SUFFICES ASSUME ServerInit PROVE ServerInv
    BY Zenon
  <1>1. ServerTypeOK
    <2>1. /\ disp \in [Chan -> [msg : Msg \cup {None}, todo : SUBSET Conn]]
          /\ queue \in [Chan -> Seq(Msg)]
      BY DEF ServerInit, Idle
    <2>2. handler \in [Conn -> [at : {"read", "subscribe", "ack", "check", "store", "ended"},
                                symbol : Symbol \cup {None}]]
      BY Zenon DEF ServerInit, At
    <2>3. caller \in [Msg -> [at : {"new", "send", "queued", "dropped", "handed"},
                              chan : Chan \cup {None}]]
      BY Zenon DEF ServerInit, Calling
    <2>. QED  BY <2>1, <2>2, <2>3, Zenon DEF ServerInit, ServerTypeOK
  <1>2. StepsHaveArguments /\ EndedHoldsNoSubscription
    BY Zenon DEF ServerInit, StepsHaveArguments, EndedHoldsNoSubscription, At, Calling
  <1>3. OnTheWayBegun
    BY DEF ServerInit, OnTheWayBegun
  <1>4. PoolKeepsApart /\ DeliveredAsSent
    BY Zenon DEF ServerInit, PoolKeepsApart, Begun, Calling, DeliveredAsSent
  <1>. QED  BY <1>1, <1>2, <1>3, <1>4, Zenon DEF ServerInv

\* What a write sends: the slice of a task holds its message, or both that
\* message and what the slice holds went through msgBytePool.
LEMMA SliceHolds ==
    ASSUME ServerInv, NEW t \in tasks
    PROVE  /\ t.conn \in Conn /\ t.msg \in Msg /\ content[bytes[t.msg]] \in Msg
           /\ \/ content[bytes[t.msg]] = t.msg
              \/ {content[bytes[t.msg]], t.msg} \subseteq pooled
  <1>1. /\ t \in [conn : Conn, msg : Msg, at : {"write", "clean", "close"}]
        /\ Begun(t.msg) /\ PoolKeepsApart /\ pooled \subseteq Msg
    BY Zenon DEF ServerInv, ServerTypeOK, OnTheWayBegun
  <1>. QED  BY <1>1 DEF PoolKeepsApart

\* A read that met another write, or is of what was sent, or both went through
\* the pool, leaves DeliveredAsSent as it was.
LEMMA ReadStep ==
    ASSUME ServerInv, NEW g, got' = got \cup {g}, pooled' = pooled,
           g.read = g.sent \/ {g.read, g.sent} \subseteq pooled \/ g.met
    PROVE  DeliveredAsSent'
  BY Zenon DEF ServerInv, DeliveredAsSent

\* A handler of a connection (subscribe, ensureSymbolDispatcher, unsubscribe,
\* the acknowledgements, the failed read) touches no message: only who
\* subscribes, where the handler and the channels stand, and what its peer reads.
LEMMA HandlerStep ==
    ASSUME ServerInv, NEW c \in Conn,
           UNCHANGED <<poolSize, dead>>,
           Client(c) \/ Serve(c)
    PROVE  ServerInv'
  <1>0. /\ ServerTypeOK /\ StepsHaveArguments /\ OnTheWayBegun
        /\ PoolKeepsApart /\ EndedHoldsNoSubscription /\ DeliveredAsSent
    BY Zenon DEF ServerInv
  <1>1. UNCHANGED <<queue, disp, tasks, caller, bytes, content, free, pooled>>
    BY Zenon DEF Client, Serve, ReadSubscribe, Unsubscribe, SubmitOrder, PeerLeaves,
           Subscribe, AckWrites, AckPanics, EnsureTest, EnsureStore, ReadFails,
           chanVars, bufferVars
  <1>2. OnTheWayBegun' /\ PoolKeepsApart' /\ (got' = got => DeliveredAsSent')
    BY <1>0, <1>1, Zenon DEF OnTheWayBegun, PoolKeepsApart, DeliveredAsSent,
                      Begun, Idle
  <1>3. ASSUME handler' \in [Conn -> [at : {"read", "subscribe", "ack", "check", "store", "ended"},
                                      symbol : Symbol \cup {None}]],
               \A k \in Conn \ {c} : handler'[k] = handler[k],
               handler'[c].at \in {"subscribe", "check", "store"} =>
                   handler'[c].symbol \in Symbol,
               subs' \in [Symbol -> SUBSET Conn],
               \A s \in Symbol : subs'[s] \ {c} = subs[s] \ {c},
               handler'[c].at = "ended" => \A s \in Symbol : c \notin subs'[s],
               msgBuf' \in [Symbol -> Chan \cup {None}],
               owner' \in [Chan -> Symbol \cup {None}],
               alive' \subseteq Conn,
               got' \subseteq [conn : Conn, sent : Msg \cup {Ack}, read : Msg \cup {Ack},
                               met : BOOLEAN],
               DeliveredAsSent'
        PROVE  ServerInv'
    <2>1. ServerTypeOK'
      BY <1>0, <1>1, <1>3, Zenon DEF ServerTypeOK
    <2>2. StepsHaveArguments'
      BY <1>0, <1>1, <1>3, Zenon DEF StepsHaveArguments, Idle
    <2>3. EndedHoldsNoSubscription'
      BY <1>0, <1>3, Zenon DEF EndedHoldsNoSubscription
    <2>. QED  BY <1>2, <1>3, <2>1, <2>2, <2>3, Zenon DEF ServerInv
  <1> USE <1>0 DEF ServerTypeOK, At, chanVars
  <1>4. ASSUME NEW s \in Symbol, ReadSubscribe(c, s) PROVE ServerInv'
    BY <1>2, <1>3, <1>4, Zenon DEF ReadSubscribe
  <1>5. ASSUME NEW s \in Symbol, Unsubscribe(c, s) PROVE ServerInv'
    BY <1>2, <1>3, <1>5, Zenon DEF Unsubscribe
  <1>6. ASSUME SubmitOrder(c) PROVE ServerInv'
    BY <1>2, <1>3, <1>6, Zenon DEF SubmitOrder, EndedHoldsNoSubscription
  <1>7. ASSUME PeerLeaves(c) PROVE ServerInv'
    BY <1>2, <1>3, <1>7, Zenon DEF PeerLeaves, StepsHaveArguments, EndedHoldsNoSubscription
  <1>8. ASSUME Subscribe(c) PROVE ServerInv'
    <2>1. /\ handler' \in [Conn -> [at : {"read", "subscribe", "ack", "check", "store", "ended"},
                                    symbol : Symbol \cup {None}]]
          /\ \A k \in Conn \ {c} : handler'[k] = handler[k]
          /\ handler'[c].at = "ack"
      BY <1>8 DEF Subscribe
    <2>2. /\ subs' \in [Symbol -> SUBSET Conn]
          /\ \A s \in Symbol : subs'[s] \ {c} = subs[s] \ {c}
      <3>1. handler[c].symbol \in Symbol
        BY <1>8, Zenon DEF Subscribe, StepsHaveArguments
      <3>. QED  BY <1>8, <3>1 DEF Subscribe
    <2>. QED  BY <1>2, <1>3, <1>8, <2>1, <2>2, Zenon DEF Subscribe
  <1>9. ASSUME AckWrites(c) PROVE ServerInv'
    <2>1. /\ handler' \in [Conn -> [at : {"read", "subscribe", "ack", "check", "store", "ended"},
                                    symbol : Symbol \cup {None}]]
          /\ \A k \in Conn \ {c} : handler'[k] = handler[k]
          /\ handler'[c].at \in {"read", "check"}
          /\ handler'[c].at = "check" => handler'[c].symbol \in Symbol
      BY <1>9, Zenon DEF AckWrites
    <2>2. /\ got' \subseteq [conn : Conn, sent : Msg \cup {Ack}, read : Msg \cup {Ack},
                              met : BOOLEAN]
          /\ DeliveredAsSent'
      <3>1. CASE got' = got
        BY <1>2, <3>1, Zenon
      <3>2. ASSUME NEW t \in Writers(c),
                   got' = got \cup {Reads(c, Ack, content[bytes[t.msg]], TRUE)}
            PROVE  /\ got' \subseteq [conn : Conn, sent : Msg \cup {Ack}, read : Msg \cup {Ack},
                                       met : BOOLEAN]
                   /\ DeliveredAsSent'
        <4>1. content[bytes[t.msg]] \in Msg
          BY SliceHolds, Zenon DEF Writers
        <4> DEFINE g == Reads(c, Ack, content[bytes[t.msg]], TRUE)
        <4>2. /\ g \in [conn : Conn, sent : Msg \cup {Ack}, read : Msg \cup {Ack}, met : BOOLEAN]
              /\ g.met
          BY <4>1, Zenon DEF Reads
        <4> HIDE DEF g
        <4>3. got' = got \cup {g}
          BY <3>2, Zenon DEF g
        <4>. QED  BY <1>1, <4>2, <4>3, ReadStep, Zenon
      <3>. QED  BY <1>9, <3>1, <3>2, Zenon DEF AckWrites
    <2>. QED  BY <1>3, <1>9, <2>1, <2>2, Zenon DEF AckWrites
  <1>10. ASSUME AckPanics(c) PROVE ServerInv'
    BY <1>2, <1>3, <1>10, Zenon DEF AckPanics, Without
  <1>11. ASSUME EnsureTest(c) PROVE ServerInv'
    BY <1>2, <1>3, <1>11, Zenon DEF EnsureTest, StepsHaveArguments, EndedHoldsNoSubscription
  <1>12. ASSUME EnsureStore(c) PROVE ServerInv'
    BY <1>2, <1>3, <1>12 DEF EnsureStore, NewChannel, StepsHaveArguments
  <1>13. ASSUME ReadFails(c) PROVE ServerInv'
    BY <1>2, <1>3, <1>13, Zenon DEF ReadFails, Without
  <1>. QED  BY <1>4, <1>5, <1>6, <1>7, <1>8, <1>9, <1>10, <1>11, <1>12, <1>13, Zenon
            DEF Client, Serve

\* Broadcast, up to the send: the message gets its slice, of its own or of the
\* pool, and its channel.
LEMMA BroadcastLockStep ==
    ASSUME ServerInv, NEW m \in Msg,
           UNCHANGED <<poolSize, dead>>, BroadcastLock(m)
    PROVE  ServerInv'
  <1>0. /\ ServerTypeOK /\ StepsHaveArguments /\ OnTheWayBegun
        /\ PoolKeepsApart /\ EndedHoldsNoSubscription /\ DeliveredAsSent
    BY Zenon DEF ServerInv
  <1>1. UNCHANGED <<subs, queue, disp, tasks, handler, alive, got>>
    BY Zenon DEF BroadcastLock
  <1>2. PICK d \in Chan :
          /\ msgBuf' \in [Symbol -> Chan \cup {None}]
          /\ owner' \in [Chan -> Symbol \cup {None}]
          /\ caller' = [caller EXCEPT ![m] = Calling("send", d)]
    <2>1. SymbolOf[m] \in Symbol
      BY SymbolAssumption, Zenon
    <2>2. PICK d \in Chan :
            /\ \/ NewChannel(SymbolOf[m], d)
               \/ UNCHANGED <<owner, msgBuf>>
            /\ caller' = [caller EXCEPT ![m] = Calling("send", d)]
      BY Zenon DEF BroadcastLock
    <2>3. /\ msgBuf' \in [Symbol -> Chan \cup {None}]
          /\ owner' \in [Chan -> Symbol \cup {None}]
      <3>1. /\ msgBuf \in [Symbol -> Chan \cup {None}]
            /\ owner \in [Chan -> Symbol \cup {None}]
        BY <1>0, Zenon DEF ServerTypeOK
      <3>2. CASE UNCHANGED <<owner, msgBuf>>
        BY <3>1, <3>2, Zenon
      <3>3. CASE /\ owner' = [owner EXCEPT ![d] = SymbolOf[m]]
                 /\ msgBuf' = [msgBuf EXCEPT ![SymbolOf[m]] = d]
        BY <2>1, <2>2, <3>1, <3>3, Zenon
      <3>. QED  BY <2>2, <3>2, <3>3, Zenon DEF NewChannel
    <2>. QED  BY <2>2, <2>3, Zenon
  <1>3. /\ caller' \in [Msg -> [at : {"new", "send", "queued", "dropped", "handed"},
                                chan : Chan \cup {None}]]
        /\ \A k \in Msg \ {m} : caller'[k] = caller[k]
        /\ caller'[m].at = "send" /\ caller'[m].chan = d
    BY <1>0, <1>2, Zenon DEF Calling, ServerTypeOK
  <1>4. ~Begun(m) /\ m \notin pooled
    BY <1>0, Zenon DEF BroadcastLock, Begun, PoolKeepsApart
  <1>5. Begun(m)' /\ \A k \in Msg \ {m} : Begun(k)' <=> Begun(k)
    BY <1>3, Zenon DEF Begun
  <1>6. /\ bytes' \in [Msg -> Msg \cup {None}] /\ content' \in [Msg -> Msg \cup {None}]
        /\ free' \subseteq Msg /\ pooled' \subseteq Msg /\ pooled \subseteq pooled'
        /\ PoolKeepsApart'
    <2> TakeBytes(m)
      BY Zenon DEF BroadcastLock
    <2>1. CASE /\ bytes' = [bytes EXCEPT ![m] = m]
               /\ content' = [content EXCEPT ![m] = m]
               /\ UNCHANGED <<free, pooled>>
      BY <1>0, <1>4, <1>5, <2>1 DEF PoolKeepsApart, ServerTypeOK
    <2>2. ASSUME NEW b \in free \cup {m},
                 bytes' = [bytes EXCEPT ![m] = b],
                 content' = [content EXCEPT ![b] = m],
                 free' = free \ {b},
                 pooled' = pooled \cup {m}
          PROVE  /\ bytes' \in [Msg -> Msg \cup {None}] /\ content' \in [Msg -> Msg \cup {None}]
                 /\ free' \subseteq Msg /\ pooled' \subseteq Msg /\ pooled \subseteq pooled'
                 /\ PoolKeepsApart'
      <3>1. /\ bytes' \in [Msg -> Msg \cup {None}] /\ content' \in [Msg -> Msg \cup {None}]
            /\ free' \subseteq pooled' /\ pooled' \subseteq Msg /\ pooled \subseteq pooled'
            /\ b \in pooled'
        BY <1>0, <2>2, Zenon DEF PoolKeepsApart, ServerTypeOK
      <3>2. ASSUME NEW k \in pooled'
            PROVE  Begun(k)' /\ {bytes'[k], content'[bytes'[k]]} \subseteq pooled'
        BY <1>0, <1>4, <1>5, <2>2, <3>1 DEF PoolKeepsApart, ServerTypeOK
      <3>3. ASSUME NEW k \in Msg, Begun(k)', k \notin pooled'
            PROVE  bytes'[k] = k /\ content'[k] = k
        BY <1>0, <1>4, <1>5, <2>2, <3>1, <3>3 DEF PoolKeepsApart, ServerTypeOK
      <3>. QED  BY <3>1, <3>2, <3>3, Zenon DEF PoolKeepsApart
    <2>. QED  BY <2>1, <2>2, Zenon DEF TakeBytes
  <1>7. ServerTypeOK'
    BY <1>0, <1>1, <1>2, <1>3, <1>6, Zenon DEF ServerTypeOK
  <1>8. StepsHaveArguments' /\ EndedHoldsNoSubscription' /\ DeliveredAsSent'
    BY <1>0, <1>1, <1>3, <1>6, Zenon DEF StepsHaveArguments, EndedHoldsNoSubscription,
                                  DeliveredAsSent, Idle
  <1>9. OnTheWayBegun'
    BY <1>0, <1>1, <1>5 DEF OnTheWayBegun, Idle, ServerTypeOK, StepsHaveArguments
  <1>. QED  BY <1>6, <1>7, <1>8, <1>9, Zenon DEF ServerInv

\* A step that only says where begun messages are keeps what the invariant says
\* of slices, subscriptions and arguments.
LEMMA MessageMoves ==
    ASSUME ServerInv, ServerTypeOK', OnTheWayBegun',
           UNCHANGED <<subs, handler, bytes, content, pooled, got>>,
           free' \subseteq pooled,
           \A m \in Msg : Begun(m)' <=> Begun(m),
           \A m \in Msg : caller'[m].at = "send" => caller'[m] = caller[m],
           \A d \in Chan : disp'[d] = Idle \/ disp'[d].msg \in Msg
    PROVE  ServerInv'
  <1>1. StepsHaveArguments'
    BY Zenon DEF ServerInv, StepsHaveArguments, Idle
  <1>2. PoolKeepsApart'
    BY DEF ServerInv, PoolKeepsApart, ServerTypeOK
  <1>3. EndedHoldsNoSubscription' /\ DeliveredAsSent'
    BY Zenon DEF ServerInv, EndedHoldsNoSubscription, DeliveredAsSent
  <1>. QED  BY <1>1, <1>2, <1>3, Zenon DEF ServerInv

\* Broadcast's send: the message is on the channel or dropped, and the slice of
\* safeBroadcast goes back to the pool.
LEMMA BroadcastSendStep ==
    ASSUME ServerInv, NEW m \in Msg, UNCHANGED <<poolSize, dead>>, BroadcastSend(m)
    PROVE  ServerInv'
  <1>0. /\ ServerTypeOK /\ StepsHaveArguments /\ OnTheWayBegun /\ PoolKeepsApart
    BY Zenon DEF ServerInv
  <1>1. /\ caller[m].at = "send" /\ Enqueue(m)
        /\ UNCHANGED <<subs, msgBuf, owner, disp, tasks, handler, alive, bytes, content,
                       pooled, got>>
        /\ free' = IF m \in pooled THEN free \cup {bytes[m]} ELSE free
    BY Zenon DEF BroadcastSend
  <1> DEFINE d == caller[m].chan
  <1>2. d \in Chan
    BY <1>0, <1>1, Zenon DEF StepsHaveArguments
  <1>3. /\ caller' \in [Msg -> [at : {"new", "send", "queued", "dropped", "handed"},
                                chan : Chan \cup {None}]]
        /\ \A k \in Msg \ {m} : caller'[k] = caller[k]
        /\ caller'[m].at \in {"queued", "dropped"}
    <2>1. \/ caller' = [caller EXCEPT ![m] = Calling("queued", d)]
          \/ caller' = [caller EXCEPT ![m] = Calling("dropped", d)]
      BY <1>1, Zenon DEF Enqueue
    <2>2. caller \in [Msg -> [at : {"new", "send", "queued", "dropped", "handed"},
                              chan : Chan \cup {None}]]
      BY <1>0, Zenon DEF ServerTypeOK
    <2> HIDE DEF d
    <2>. QED  BY <1>2, <2>1, <2>2 DEF Calling
  <1>4. /\ queue' \in [Chan -> Seq(Msg)]
        /\ \A e \in Chan : queue'[e] = queue[e] \/ queue'[e] = Append(queue[e], m)
    <2>1. queue' = queue \/ queue' = [queue EXCEPT ![d] = Append(@, m)]
      BY <1>1, Zenon DEF Enqueue
    <2>2. queue \in [Chan -> Seq(Msg)]
      BY <1>0, Zenon DEF ServerTypeOK
    <2> HIDE DEF d
    <2>. QED  BY <1>2, <2>1, <2>2, SMTT(20)
  <1>5. free' \subseteq pooled
    BY <1>0, <1>1, Zenon DEF PoolKeepsApart
  <1>6. \A k \in Msg : Begun(k)' <=> Begun(k)
    BY <1>1, <1>3, Zenon DEF Begun
  <1>7. ServerTypeOK'
    BY <1>0, <1>1, <1>3, <1>4, <1>5, Zenon DEF ServerTypeOK
  <1>8. OnTheWayBegun'
    <2>1. ASSUME NEW e \in Chan, NEW i \in 1 .. Len(queue'[e]) PROVE Begun(queue[e][i])'
      <3>1. queue[e] \in Seq(Msg) /\ queue'[e] \in Seq(Msg)
        BY <1>0, <1>4, Zenon DEF ServerTypeOK
      <3>2. queue'[e][i] = m \/ (i \in 1 .. Len(queue[e]) /\ queue'[e][i] = queue[e][i])
        <4>1. CASE queue'[e] = queue[e]
          BY <4>1, Zenon
        <4>2. CASE queue'[e] = Append(queue[e], m)
          BY <3>1, <4>2
        <4>. QED  BY <1>4, <4>1, <4>2, Zenon
      <3>3. Begun(m)
        BY <1>1, Zenon DEF Begun
      <3>4. \A j \in 1 .. Len(queue[e]) : queue[e][j] \in Msg /\ Begun(queue[e][j])
        BY <1>0, <3>1 DEF OnTheWayBegun
      <3>5. queue'[e][i] \in Msg /\ Begun(queue'[e][i])
        BY <3>2, <3>3, <3>4, Zenon
      <3>. QED  BY <1>6, <3>5, Zenon DEF Begun
    <2>2. \A e \in Chan : disp'[e] = Idle \/ Begun(disp[e].msg)'
      BY <1>0, <1>1, <1>6, Zenon DEF OnTheWayBegun, StepsHaveArguments
    <2>3. \A t \in tasks' : Begun(t.msg)'
      BY <1>0, <1>1, <1>6, Zenon DEF OnTheWayBegun, ServerTypeOK
    <2>. QED  BY <2>1, <2>2, <2>3, Zenon DEF OnTheWayBegun, Idle
  <1>9. \A e \in Chan : disp'[e] = Idle \/ disp'[e].msg \in Msg
    BY <1>0, <1>1, Zenon DEF StepsHaveArguments
  <1>10. \A k \in Msg : caller'[k].at = "send" => caller'[k] = caller[k]
    BY <1>3, Zenon
  <1>. QED  BY <1>1, <1>5, <1>6, <1>7, <1>8, <1>9, <1>10, MessageMoves, Zenon

\* The dispatcher of a channel: it takes a message, hands it out and lets go.
LEMMA DispatchStep ==
    ASSUME ServerInv, NEW d \in Chan, UNCHANGED <<poolSize, dead>>, RunDispatcher(d)
    PROVE  ServerInv'
  <1>0. /\ ServerTypeOK /\ StepsHaveArguments /\ OnTheWayBegun /\ PoolKeepsApart
    BY Zenon DEF ServerInv
  <1>1. UNCHANGED <<subs, msgBuf, owner, handler, alive, bytes, content, free, pooled, got>>
    BY Zenon DEF RunDispatcher, Receive, Submit, Release, chanVars, bufferVars
  <1>2. free' \subseteq pooled
    BY <1>0, <1>1, Zenon DEF PoolKeepsApart
  <1>3. /\ queue \in [Chan -> Seq(Msg)]
        /\ disp \in [Chan -> [msg : Msg \cup {None}, todo : SUBSET Conn]]
        /\ subs \in [Symbol -> SUBSET Conn]
        /\ owner \in [Chan -> Symbol \cup {None}]
        /\ tasks \subseteq [conn : Conn, msg : Msg, at : {"write", "clean", "close"}]
        /\ caller \in [Msg -> [at : {"new", "send", "queued", "dropped", "handed"},
                               chan : Chan \cup {None}]]
    BY <1>0, Zenon DEF ServerTypeOK
  <1>4. CASE Receive(d)
    <2> DEFINE q == queue[d]
               job == [msg |-> Head(q), todo |-> subs[owner[d]]]
    <2>1. /\ q \in Seq(Msg) /\ q # <<>> /\ owner[d] \in Symbol
          /\ disp' = [disp EXCEPT ![d] = job] /\ queue' = [queue EXCEPT ![d] = Tail(q)]
          /\ UNCHANGED <<tasks, caller>>
      BY <1>3, <1>4, Zenon DEF Receive
    <2>2. /\ Head(q) \in Msg /\ Head(q) = q[1] /\ 1 \in 1 .. Len(q) /\ Tail(q) \in Seq(Msg)
          /\ \A i \in 1 .. Len(Tail(q)) : i + 1 \in 1 .. Len(q) /\ Tail(q)[i] = q[i + 1]
      BY <2>1
    <2>3. /\ disp' \in [Chan -> [msg : Msg \cup {None}, todo : SUBSET Conn]]
          /\ disp'[d].msg = Head(q)
          /\ \A e \in Chan \ {d} : disp'[e] = disp[e]
      BY <1>3, <2>1, <2>2, Zenon
    <2>4. queue' \in [Chan -> Seq(Msg)]
      BY <1>3, <2>1, <2>2, Zenon
    <2>5. ServerTypeOK'
      BY <1>0, <1>1, <2>1, <2>3, <2>4, Zenon DEF ServerTypeOK
    <2>6. \A m : Begun(m)' <=> Begun(m)
      BY <2>1, Zenon DEF Begun
    <2>7. OnTheWayBegun'
      <3>1. ASSUME NEW e \in Chan, NEW i \in 1 .. Len(queue'[e])
            PROVE  Begun(queue'[e][i])
        BY <1>0, <1>3, <2>1, <2>2, Zenon DEF OnTheWayBegun
      <3>2. ASSUME NEW e \in Chan PROVE disp'[e] = Idle \/ Begun(disp'[e].msg)
        BY <1>0, <2>2, <2>3 DEF OnTheWayBegun
      <3>. QED  BY <1>0, <2>1, <2>6, <3>1, <3>2, Zenon DEF OnTheWayBegun, Begun, Idle
    <2>8. \A e \in Chan : disp'[e] = Idle \/ disp'[e].msg \in Msg
      BY <1>0, <2>2, <2>3, Zenon DEF StepsHaveArguments
    <2>. QED  BY <1>1, <1>2, <2>1, <2>5, <2>6, <2>7, <2>8, MessageMoves, Zenon
  <1>5. CASE Submit(d)
    <2>1. PICK c \in disp[d].todo :
            /\ tasks' = tasks \cup {[conn |-> c, msg |-> disp[d].msg, at |-> "write"]}
            /\ disp' = [disp EXCEPT ![d].todo = @ \ {c}]
      BY <1>5, Zenon DEF Submit
    <2>2. disp[d] # Idle /\ disp[d].msg \in Msg /\ c \in Conn
      <3>1. Idle.todo = {}
        BY Zenon DEF Idle
      <3>. QED  BY <1>0, <1>3, <2>1, <3>1, Zenon DEF StepsHaveArguments
    <2>3. /\ tasks' \subseteq [conn : Conn, msg : Msg, at : {"write", "clean", "close"}]
          /\ \A t \in tasks' : t \in tasks \/ t.msg = disp[d].msg
      BY <1>3, <2>1, <2>2
    <2>4. /\ disp' \in [Chan -> [msg : Msg \cup {None}, todo : SUBSET Conn]]
          /\ disp'[d].msg = disp[d].msg
          /\ \A e \in Chan \ {d} : disp'[e] = disp[e]
      BY <1>3, <2>1, <2>2, Zenon
    <2>5. UNCHANGED <<queue, caller>>
      BY <1>5, Zenon DEF Submit, chanVars
    <2>6. ServerTypeOK'
      BY <1>0, <1>1, <2>3, <2>4, <2>5, Zenon DEF ServerTypeOK
    <2>7. \A m : Begun(m)' <=> Begun(m)
      BY <2>5, Zenon DEF Begun
    <2>8. OnTheWayBegun'
      BY <1>0, <2>2, <2>3, <2>4, <2>5, Zenon DEF OnTheWayBegun, Begun, Idle
    <2>9. \A e \in Chan : disp'[e] = Idle \/ disp'[e].msg \in Msg
      BY <1>0, <2>2, <2>4, Zenon DEF StepsHaveArguments
    <2>. QED  BY <1>1, <1>2, <2>5, <2>6, <2>7, <2>8, <2>9, MessageMoves, Zenon
  <1>6. CASE Release(d)
    <2> DEFINE m == disp[d].msg
    <2>1. /\ caller' = [caller EXCEPT ![m] = Calling("handed", d)]
          /\ disp' = [disp EXCEPT ![d] = Idle]
          /\ m # None /\ UNCHANGED <<queue, tasks>>
      BY <1>6, Zenon DEF Release, Readers, chanVars
    <2>2. m \in Msg /\ Begun(m)
      <3>1. Idle.msg = None
        BY Zenon DEF Idle
      <3>. QED  BY <1>0, <2>1, <3>1, Zenon DEF StepsHaveArguments, OnTheWayBegun
    <2> HIDE DEF m
    <2>3. /\ caller' \in [Msg -> [at : {"new", "send", "queued", "dropped", "handed"},
                                  chan : Chan \cup {None}]]
          /\ \A k \in Msg \ {m} : caller'[k] = caller[k]
          /\ caller'[m].at = "handed"
      BY <1>3, <2>1, <2>2, Zenon DEF Calling
    <2>4. \A k \in Msg : Begun(k)' <=> Begun(k)
      BY <2>2, <2>3, Zenon DEF Begun
    <2>5. /\ disp' \in [Chan -> [msg : Msg \cup {None}, todo : SUBSET Conn]]
          /\ \A e \in Chan : disp'[e] = Idle \/ disp'[e] = disp[e]
      BY <1>3, <2>1, Zenon DEF Idle
    <2>6. ServerTypeOK'
      BY <1>0, <1>1, <2>1, <2>3, <2>5, Zenon DEF ServerTypeOK
    <2>7. OnTheWayBegun'
      <3>1. \A e \in Chan : \A i \in 1 .. Len(queue[e]) : queue[e][i] \in Msg
        BY <1>3
      <3>2. \A e \in Chan : disp[e] = Idle \/ disp[e].msg \in Msg
        BY <1>0, Zenon DEF StepsHaveArguments
      <3>3. \A t \in tasks : t.msg \in Msg
        BY <1>3, Zenon
      <3>. QED  BY <1>0, <2>1, <2>4, <2>5, <3>1, <3>2, <3>3, Zenon DEF OnTheWayBegun, Idle
    <2>8. \A e \in Chan : disp'[e] = Idle \/ disp'[e].msg \in Msg
      BY <1>0, <2>5, Zenon DEF StepsHaveArguments
    <2>9. \A k \in Msg : caller'[k].at = "send" => caller'[k] = caller[k]
      BY <2>3, Zenon
    <2>. QED  BY <1>1, <1>2, <2>4, <2>6, <2>7, <2>8, <2>9, MessageMoves, Zenon
  <1>. QED  BY <1>4, <1>5, <1>6, Zenon DEF RunDispatcher

\* The workers: one writes what its slice holds, or removes and closes the
\* connection it could not write to.
LEMMA WorkStep ==
    ASSUME ServerInv, NEW t \in tasks, UNCHANGED <<poolSize, dead>>, Work(t)
    PROVE  ServerInv'
  <1>0. /\ ServerTypeOK /\ StepsHaveArguments /\ OnTheWayBegun
        /\ PoolKeepsApart /\ EndedHoldsNoSubscription /\ DeliveredAsSent
    BY Zenon DEF ServerInv
  <1>1. UNCHANGED <<msgBuf, owner, queue, disp, handler, caller, bytes, content, free, pooled>>
    BY Zenon DEF Work, WorkerWrites, WorkerPanics, WorkerFails, WorkerCleans, WorkerCloses,
           chanVars, bufferVars
  <1>2. t \in [conn : Conn, msg : Msg, at : {"write", "clean", "close"}] /\ Begun(t.msg)
    BY <1>0, Zenon DEF ServerTypeOK, OnTheWayBegun
  <1>3. ASSUME tasks' \subseteq [conn : Conn, msg : Msg, at : {"write", "clean", "close"}],
               \A u \in tasks' : u \in tasks \/ u.msg = t.msg,
               subs' \in [Symbol -> SUBSET Conn],
               \A s \in Symbol : subs'[s] \subseteq subs[s],
               alive' \subseteq Conn,
               got' \subseteq [conn : Conn, sent : Msg \cup {Ack}, read : Msg \cup {Ack},
                               met : BOOLEAN],
               DeliveredAsSent'
        PROVE  ServerInv'
    <2>1. ServerTypeOK'
      BY <1>0, <1>1, <1>3, Zenon DEF ServerTypeOK
    <2>2. StepsHaveArguments' /\ PoolKeepsApart'
      BY <1>0, <1>1, Zenon DEF StepsHaveArguments, PoolKeepsApart, Begun, Idle
    <2>3. OnTheWayBegun'
      BY <1>0, <1>1, <1>2, <1>3, Zenon DEF OnTheWayBegun, Begun, Idle
    <2>4. EndedHoldsNoSubscription'
      BY <1>0, <1>1, <1>3, Zenon DEF EndedHoldsNoSubscription
    <2>. QED  BY <1>3, <2>1, <2>2, <2>3, <2>4, Zenon DEF ServerInv
  <1>4. got' = got => DeliveredAsSent'
    BY <1>0, <1>1, Zenon DEF DeliveredAsSent
  <1>5. /\ subs \in [Symbol -> SUBSET Conn] /\ alive \subseteq Conn
        /\ tasks \subseteq [conn : Conn, msg : Msg, at : {"write", "clean", "close"}]
        /\ got \subseteq [conn : Conn, sent : Msg \cup {Ack}, read : Msg \cup {Ack},
                          met : BOOLEAN]
    BY <1>0, Zenon DEF ServerTypeOK
  <1>6. CASE WorkerWrites(t)
    <2>1. ASSUME NEW data \in Msg \cup {Ack}, NEW met \in BOOLEAN,
                 got' = got \cup {Reads(t.conn, t.msg, data, met)},
                 data = t.msg \/ {data, t.msg} \subseteq pooled \/ met
          PROVE  ServerInv'
      <3> DEFINE g == Reads(t.conn, t.msg, data, met)
      <3>1. /\ g \in [conn : Conn, sent : Msg \cup {Ack}, read : Msg \cup {Ack}, met : BOOLEAN]
            /\ g.read = g.sent \/ {g.read, g.sent} \subseteq pooled \/ g.met
        BY <1>2, <2>1, Zenon DEF Reads
      <3> HIDE DEF g
      <3>2. got' = got \cup {g}
        BY <2>1, Zenon DEF g
      <3>3. DeliveredAsSent'
        BY <1>1, <3>1, <3>2, ReadStep, Zenon
      <3>. QED  BY <1>3, <1>5, <1>6, <3>1, <3>2, <3>3, Zenon DEF WorkerWrites
    <2>2. CASE got' = got \cup {Reads(t.conn, t.msg, content[bytes[t.msg]], FALSE)}
      BY <2>1, <2>2, SliceHolds, Zenon
    <2>3. CASE got' = got \cup {Reads(t.conn, t.msg, Ack, TRUE)}
      BY <2>1, <2>3, Zenon
    <2>4. ASSUME NEW u \in Writers(t.conn) \ {t},
                 got' = got \cup {Reads(t.conn, t.msg, content[bytes[u.msg]], TRUE)}
          PROVE  ServerInv'
      <3>1. content[bytes[u.msg]] \in Msg
        BY SliceHolds, Zenon DEF Writers
      <3>. QED  BY <2>1, <2>4, <3>1, Zenon
    <2>. QED  BY <1>6, <2>2, <2>3, <2>4, Zenon DEF WorkerWrites
  <1>7. CASE WorkerPanics(t)
    BY <1>3, <1>4, <1>5, <1>7, Zenon DEF WorkerPanics
  <1>8. CASE WorkerFails(t)
    BY <1>2, <1>3, <1>4, <1>5, <1>8, Zenon DEF WorkerFails
  <1>9. CASE WorkerCleans(t)
    BY <1>2, <1>3, <1>4, <1>5, <1>9, Zenon DEF WorkerCleans, Without
  <1>10. CASE WorkerCloses(t)
    BY <1>2, <1>3, <1>4, <1>5, <1>10, Zenon DEF WorkerCloses
  <1>. QED  BY <1>6, <1>7, <1>8, <1>9, <1>10, Zenon DEF Work

\* Whatever the clients, the publishers, the dispatchers and the workers do, and
\* in whichever order, the invariant of the broadcaster holds.
THEOREM BroadcasterInvariance ==
    ServerSpec => []ServerInv
  <1>1. ServerInv /\ [ServerNext]_serverVars => ServerInv'
    <2> SUFFICES ASSUME ServerInv, [ServerNext]_serverVars PROVE ServerInv'
      BY Zenon
    <2>1. ASSUME NEW c \in Conn, Running(Client(c)) \/ Running(Serve(c))
          PROVE  ServerInv'
      BY <2>1, HandlerStep, Zenon DEF Running
    <2>2. ASSUME NEW m \in Msg, Running(BroadcastLock(m)) PROVE ServerInv'
      BY <2>2, BroadcastLockStep, Zenon DEF Running
    <2>3. ASSUME NEW m \in Msg, Running(BroadcastSend(m)) PROVE ServerInv'
      BY <2>3, BroadcastSendStep, Zenon DEF Running
    <2>4. ASSUME NEW d \in Chan, Running(RunDispatcher(d)) PROVE ServerInv'
      BY <2>4, DispatchStep, Zenon DEF Running
    <2>5. ASSUME NEW t \in tasks, Running(Work(t)) PROVE ServerInv'
      BY <2>5, WorkStep, Zenon DEF Running
    <2>6. ASSUME Dies(NoPool) \/ Dies(MapRace) PROVE ServerInv'
      <3>1. UNCHANGED <<subs, msgBuf, owner, queue, disp, tasks, handler, alive, caller,
                        bytes, content, free, pooled, got, poolSize>>
            /\ dead' \in BOOLEAN
        BY <2>6, Zenon DEF Dies, chanVars, bufferVars
      <3>2. ServerTypeOK'
        BY <3>1, Zenon DEF ServerInv, ServerTypeOK
      <3>. QED  BY <3>1, <3>2, Zenon DEF ServerInv,
                   StepsHaveArguments, OnTheWayBegun, PoolKeepsApart, Begun,
                   EndedHoldsNoSubscription, DeliveredAsSent, Idle
    <2>7. CASE UNCHANGED serverVars
      <3>1. ServerTypeOK'
        BY <2>7, Zenon DEF serverVars, ServerInv, ServerTypeOK
      <3>. QED  BY <2>7, <3>1, Zenon DEF serverVars, ServerInv,
                   StepsHaveArguments, OnTheWayBegun, PoolKeepsApart, Begun,
                   EndedHoldsNoSubscription, DeliveredAsSent, Idle
    <2>. QED  BY <2>1, <2>2, <2>3, <2>4, <2>5, <2>6, <2>7, Zenon DEF ServerNext
  <1>. QED  BY <1>1, BroadcasterInit, PTL DEF ServerSpec

\* A connection whose handler has ended is in no set of subscribers, for any
\* number of connections, symbols, messages and workers.
THEOREM EndedLeaves ==
    ServerSpec => []EndedHoldsNoSubscription
  <1>1. ServerInv => EndedHoldsNoSubscription
    BY Zenon DEF ServerInv
  <1>. QED  BY <1>1, BroadcasterInvariance, PTL

\* A subscriber reads the message that was broadcast, unless both it and what
\* was read went through the byte slices of safeBroadcast, or the write met
\* another write to the same connection.
THEOREM Delivery ==
    ServerSpec => []DeliveredAsSent
  <1>1. ServerInv => DeliveredAsSent
    BY Zenon DEF ServerInv
  <1>. QED  BY <1>1, BroadcasterInvariance, PTL
=============================================================================
