----------------------------- MODULE WebSocket -----------------------------
(***************************************************************************)
(* The broadcaster of server/websocket_server.go.  A connection's handler  *)
(* keeps its subscriptions in a shard; Broadcast puts a message on the     *)
(* channel of its symbol; one dispatcher goroutine per channel hands each  *)
(* message, connection by connection and under the shard's read lock, to a *)
(* pool of workers, and a worker whose writes fail takes the write lock to *)
(* remove its connection.  One shard is modelled: the symbols of a shard   *)
(* share its lock, and different shards share only the pool.               *)
(*                                                                         *)
(* The workers and the handler, for its acknowledgements, write to a       *)
(* connection with no lock between them.  WriteMessage of the library      *)
(* (external) copies the message to the connection's one write buffer and  *)
(* then flushes it: of two writes that overlap, one may send what the      *)
(* other copied, or panic.                                                 *)
(*                                                                         *)
(* poolSize is the capacity of broadcastPool.  Production never assigns    *)
(* that variable (only engine.BroadcastPool is created), which is the      *)
(* scenario poolSize = 0: the first Submit kills the process.              *)
(***************************************************************************)
EXTENDS Naturals, Sequences, FiniteSets

CONSTANTS
    Conn, Symbol,
    Msg, SymbolOf,  \* each message is broadcast once, to its symbol
    Chan,           \* numbers of channels; bound: no more are made
    BufSize,        \* messages a channel holds
    PoolSizes,      \* the capacities of broadcastPool to look at
    None

ASSUME SymbolAssumption == SymbolOf \in [Msg -> Symbol]

VARIABLES
    subs,       \* Subs of the shard: symbol -> the connections subscribed
    msgBuf,     \* MsgBuf of the shard: symbol -> its channel, or None
    owner,      \* channel -> the symbol whose dispatcher reads it, or None
    queue,      \* channel -> the messages in it
    disp,       \* channel -> what its dispatcher is handing out
    tasks,      \* what the workers of the pool are running
    handler,    \* connection -> where its handler stands
    alive,      \* the connections that accept a write
    caller,     \* message -> where its Broadcast stands
    bytes,      \* message -> the byte slice that holds it
    content,    \* byte slice -> the message last copied into it
    free,       \* the byte slices in msgBytePool
    pooled,     \* the messages that came through safeBroadcast
    got,        \* what the connections read for what was sent to them, and
                \* whether the write that sent it met another; an acknowledgement
                \* that reads as one is left out
    poolSize, dead

serverVars == <<subs, msgBuf, owner, queue, disp, tasks, handler, alive, caller,
          bytes, content, free, pooled, got, poolSize, dead>>
bufferVars == <<bytes, content, free, pooled>>
chanVars == <<msgBuf, owner, queue>>

Idle == [msg |-> None, todo |-> {}]
Ack == "ack"
At(step, s) == [at |-> step, symbol |-> s]
Calling(step, d) == [at |-> step, chan |-> d]

\* The dispatchers that hold the shard's read lock.
Readers == {d \in Chan : disp[d].msg /= None}
CanLock == Readers = {}

\* The type of the state.
ServerTypeOK ==
    /\ subs \in [Symbol -> SUBSET Conn]
    /\ msgBuf \in [Symbol -> Chan \cup {None}]
    /\ owner \in [Chan -> Symbol \cup {None}]
    /\ queue \in [Chan -> Seq(Msg)]
    /\ disp \in [Chan -> [msg : Msg \cup {None}, todo : SUBSET Conn]]
    /\ tasks \subseteq [conn : Conn, msg : Msg, at : {"write", "clean", "close"}]
    /\ handler \in [Conn -> [at : {"read", "subscribe", "ack", "check", "store", "ended"},
                             symbol : Symbol \cup {None}]]
    /\ alive \subseteq Conn
    /\ caller \in [Msg -> [at : {"new", "send", "queued", "dropped", "handed"},
                           chan : Chan \cup {None}]]
    /\ bytes \in [Msg -> Msg \cup {None}]
    /\ content \in [Msg -> Msg \cup {None}]
    /\ free \subseteq Msg /\ pooled \subseteq Msg
    /\ got \subseteq [conn : Conn, sent : Msg \cup {Ack}, read : Msg \cup {Ack}, met : BOOLEAN]
    /\ poolSize \in PoolSizes /\ dead \in BOOLEAN

ServerInit ==
    /\ subs = [s \in Symbol |-> {}] /\ msgBuf = [s \in Symbol |-> None]
    /\ owner = [d \in Chan |-> None] /\ queue = [d \in Chan |-> <<>>]
    /\ disp = [d \in Chan |-> Idle] /\ tasks = {}
    /\ handler = [c \in Conn |-> At("read", None)] /\ alive = Conn
    /\ caller = [m \in Msg |-> Calling("new", None)]
    /\ bytes = [m \in Msg |-> None] /\ content = [m \in Msg |-> None]
    /\ free = {} /\ pooled = {} /\ got = {}
    /\ poolSize \in PoolSizes /\ dead = FALSE

-----------------------------------------------------------------------------
\* cleanConnFromAllSymbols
Without(c) == [s \in Symbol |-> subs[s] \ {c}]

(***************************************************************************)
(* WriteMessage                                                            *)
(***************************************************************************)
Writers(c) == {t \in tasks : t.conn = c /\ t.at = "write"}

\* What the peer reads for what was sent; met: the write met another and sent
\* what that one had copied.
Reads(c, sent, data, met) == [conn |-> c, sent |-> sent, read |-> data, met |-> met]

(***************************************************************************)
(* The handler of a connection                                             *)
(***************************************************************************)
ReadSubscribe(c, s) ==
    /\ handler[c].at = "read" /\ c \in alive
    /\ handler' = [handler EXCEPT ![c] = At("subscribe", s)]
    /\ UNCHANGED <<subs, chanVars, disp, tasks, alive, caller, bufferVars, got>>

\* The subscription is made under the lock; the acknowledgement and the call of
\* ensureSymbolDispatcher after it are outside it.
Subscribe(c) ==
    /\ handler[c].at = "subscribe" /\ CanLock
    /\ subs' = [subs EXCEPT ![handler[c].symbol] = @ \cup {c}]
    /\ handler' = [handler EXCEPT ![c].at = "ack"]
    /\ UNCHANGED <<chanVars, disp, tasks, alive, caller, bufferVars, got>>

\* The acknowledgement; an error is logged and the handler goes on.
AckWrites(c) ==
    /\ handler[c].at = "ack"
    /\ got' \in {got} \cup {got \cup {Reads(c, Ack, content[bytes[t.msg]], TRUE)} :
                                t \in IF c \in alive THEN Writers(c) ELSE {}}
    /\ handler' = [handler EXCEPT ![c] = IF @.symbol = None THEN At("read", None)
                                                           ELSE At("check", @.symbol)]
    /\ UNCHANGED <<subs, chanVars, disp, tasks, alive, caller, bufferVars>>

\* It meets another write and panics: the deferred function cleans up and closes
\* the connection.
AckPanics(c) ==
    /\ handler[c].at = "ack" /\ Writers(c) /= {} /\ CanLock
    /\ subs' = Without(c)
    /\ handler' = [handler EXCEPT ![c] = At("ended", None)]
    /\ alive' = alive \ {c}
    /\ UNCHANGED <<chanVars, disp, tasks, caller, bufferVars, got>>

\* A channel that was never made, with a dispatcher that will read it.
NewChannel(s, d) ==
    /\ owner[d] = None
    /\ \A e \in Chan : e < d => owner[e] /= None
    /\ owner' = [owner EXCEPT ![d] = s]
    /\ msgBuf' = [msgBuf EXCEPT ![s] = d]

\* ensureSymbolDispatcher, called without the lock: first the test ...
EnsureTest(c) ==
    /\ handler[c].at = "check"
    /\ handler' = [handler EXCEPT ![c] =
           IF msgBuf[@.symbol] = None THEN At("store", @.symbol)
                                      ELSE At("read", None)]
    /\ UNCHANGED <<subs, chanVars, disp, tasks, alive, caller, bufferVars, got>>

\* ... then the store, over whatever channel was stored in between.
EnsureStore(c) ==
    /\ handler[c].at = "store"
    /\ \E d \in Chan : NewChannel(handler[c].symbol, d)
    /\ handler' = [handler EXCEPT ![c] = At("read", None)]
    /\ UNCHANGED <<subs, queue, disp, tasks, alive, caller, bufferVars, got>>

Unsubscribe(c, s) ==
    /\ handler[c].at = "read" /\ c \in alive /\ CanLock
    /\ subs' = [subs EXCEPT ![s] = @ \ {c}]
    /\ handler' = [handler EXCEPT ![c] = At("ack", None)]
    /\ UNCHANGED <<chanVars, disp, tasks, alive, caller, bufferVars, got>>

\* An order is given to the engine, or refused or redirected, and answered.
SubmitOrder(c) ==
    /\ handler[c].at = "read" /\ c \in alive
    /\ handler' = [handler EXCEPT ![c] = At("ack", None)]
    /\ UNCHANGED <<subs, chanVars, disp, tasks, alive, caller, bufferVars, got>>

\* The peer goes away: reads and writes fail from here on.
PeerLeaves(c) ==
    /\ c \in alive
    /\ alive' = alive \ {c}
    /\ UNCHANGED <<subs, chanVars, disp, tasks, handler, caller, bufferVars, got>>

\* Mutant of ReadFails: the subscriptions are left to the workers.
ReadFailsKeeps(c) ==
    /\ handler[c].at = "read" /\ c \notin alive
    /\ handler' = [handler EXCEPT ![c] = At("ended", None)]
    /\ UNCHANGED <<subs, chanVars, disp, tasks, alive, caller, bufferVars, got>>

\* ReadMessage fails: the loop breaks and the deferred function cleans up.
ReadFails(c) ==
    /\ handler[c].at = "read" /\ c \notin alive /\ CanLock
    /\ subs' = Without(c)
    /\ handler' = [handler EXCEPT ![c] = At("ended", None)]
    /\ UNCHANGED <<chanVars, disp, tasks, alive, caller, bufferVars, got>>

-----------------------------------------------------------------------------
(***************************************************************************)
(* Broadcast                                                               *)
(***************************************************************************)
\* Broadcast of a slice of the caller's own, or of one of msgBytePool into
\* which safeBroadcast copied the message.
TakeBytes(m) ==
    \/ /\ bytes' = [bytes EXCEPT ![m] = m]
       /\ content' = [content EXCEPT ![m] = m]
       /\ UNCHANGED <<free, pooled>>
    \/ \E b \in free \cup {m} :
       /\ bytes' = [bytes EXCEPT ![m] = b]
       /\ content' = [content EXCEPT ![b] = m]
       /\ free' = free \ {b}
       /\ pooled' = pooled \cup {m}

\* Under the lock: the dispatcher is ensured and the channel read.
BroadcastLock(m) ==
    /\ caller[m].at = "new" /\ CanLock
    /\ TakeBytes(m)
    /\ \E d \in Chan :
       /\ \/ /\ msgBuf[SymbolOf[m]] = None /\ NewChannel(SymbolOf[m], d)
          \/ /\ msgBuf[SymbolOf[m]] = d /\ UNCHANGED <<owner, msgBuf>>
       /\ caller' = [caller EXCEPT ![m] = Calling("send", d)]
    /\ UNCHANGED <<subs, queue, disp, tasks, handler, alive, got>>

\* The send, which does not wait: a full channel drops the message.
Enqueue(m) ==
    LET d == caller[m].chan IN
    IF Len(queue[d]) < BufSize
    THEN /\ queue' = [queue EXCEPT ![d] = Append(@, m)]
         /\ caller' = [caller EXCEPT ![m] = Calling("queued", d)]
    ELSE /\ caller' = [caller EXCEPT ![m] = Calling("dropped", d)]
         /\ UNCHANGED queue

\* Mutant of BroadcastSend: Broadcast puts back every slice it was given.
BroadcastSendPuts(m) ==
    /\ caller[m].at = "send"
    /\ Enqueue(m)
    /\ free' = free \cup {bytes[m]}
    /\ UNCHANGED <<subs, msgBuf, owner, disp, tasks, handler, alive, bytes,
                   content, pooled, got>>

\* safeBroadcast puts the slice back as soon as Broadcast returns.
BroadcastSend(m) ==
    /\ caller[m].at = "send"
    /\ Enqueue(m)
    /\ free' = IF m \in pooled THEN free \cup {bytes[m]} ELSE free
    /\ UNCHANGED <<subs, msgBuf, owner, disp, tasks, handler, alive, bytes,
                   content, pooled, got>>

-----------------------------------------------------------------------------
(***************************************************************************)
(* The dispatchers and the workers                                         *)
(***************************************************************************)
\* Mutant of Receive: the dispatcher reads the channel MsgBuf names.
ReceiveCurrent(d) ==
    /\ owner[d] /= None /\ msgBuf[owner[d]] = d
    /\ disp[d] = Idle /\ queue[d] /= <<>>
    /\ disp' = [disp EXCEPT ![d] = [msg |-> Head(queue[d]), todo |-> subs[owner[d]]]]
    /\ queue' = [queue EXCEPT ![d] = Tail(@)]
    /\ UNCHANGED <<subs, msgBuf, owner, tasks, handler, alive, caller, bufferVars, got>>

\* The dispatcher takes the next message of its own channel and the read
\* lock, with which it keeps the set of subscribers as it is.
Receive(d) ==
    /\ owner[d] /= None
    /\ disp[d] = Idle /\ queue[d] /= <<>>
    /\ disp' = [disp EXCEPT ![d] = [msg |-> Head(queue[d]), todo |-> subs[owner[d]]]]
    /\ queue' = [queue EXCEPT ![d] = Tail(@)]
    /\ UNCHANGED <<subs, msgBuf, owner, tasks, handler, alive, caller, bufferVars, got>>

\* broadcastPool.Submit, which waits for a free worker with the lock held.  It
\* returns an error only from a pool that is closed or does not wait, and this
\* one is neither: the branch that logs the error is not taken.
Submit(d) ==
    /\ poolSize > 0 /\ Cardinality(tasks) < poolSize
    /\ \E c \in disp[d].todo :
       /\ tasks' = tasks \cup {[conn |-> c, msg |-> disp[d].msg, at |-> "write"]}
       /\ disp' = [disp EXCEPT ![d].todo = @ \ {c}]
    /\ UNCHANGED <<subs, chanVars, handler, alive, caller, bufferVars, got>>

\* RUnlock, after the last subscriber.
Release(d) ==
    /\ d \in Readers /\ disp[d].todo = {}
    /\ caller' = [caller EXCEPT ![disp[d].msg] = Calling("handed", d)]
    /\ disp' = [disp EXCEPT ![d] = Idle]
    /\ UNCHANGED <<subs, chanVars, tasks, handler, alive, bufferVars, got>>

\* A worker writes what the slice holds now, or sends what another write to the
\* connection copied: an acknowledgement, or what the slice of another task holds.
WorkerWrites(t) ==
    /\ t.at = "write" /\ t.conn \in alive
    /\ \/ got' = got \cup {Reads(t.conn, t.msg, content[bytes[t.msg]], FALSE)}
       \/ /\ handler[t.conn].at = "ack"
          /\ got' = got \cup {Reads(t.conn, t.msg, Ack, TRUE)}
       \/ \E u \in Writers(t.conn) \ {t} :
              got' = got \cup {Reads(t.conn, t.msg, content[bytes[u.msg]], TRUE)}
    /\ tasks' = tasks \ {t}
    /\ UNCHANGED <<subs, chanVars, disp, handler, alive, caller, bufferVars>>

\* It meets another write and panics: the pool recovers, and the task is over.
WorkerPanics(t) ==
    /\ t.at = "write"
    /\ Writers(t.conn) /= {t} \/ handler[t.conn].at = "ack"
    /\ tasks' = tasks \ {t}
    /\ UNCHANGED <<subs, chanVars, disp, handler, alive, caller, bufferVars, got>>

\* Three writes in a row fail: the peer is gone, or does not take them.
WorkerFails(t) ==
    /\ t.at = "write"
    /\ tasks' = (tasks \ {t}) \cup {[t EXCEPT !.at = "clean"]}
    /\ UNCHANGED <<subs, chanVars, disp, handler, alive, caller, bufferVars, got>>

\* The worker removes the connection from every symbol ...
WorkerCleans(t) ==
    /\ t.at = "clean" /\ CanLock
    /\ subs' = Without(t.conn)
    /\ tasks' = (tasks \ {t}) \cup {[t EXCEPT !.at = "close"]}
    /\ UNCHANGED <<chanVars, disp, handler, alive, caller, bufferVars, got>>

\* ... and closes it, so that its handler's next read fails.
WorkerCloses(t) ==
    /\ t.at = "close"
    /\ alive' = alive \ {t.conn}
    /\ tasks' = tasks \ {t}
    /\ UNCHANGED <<subs, chanVars, disp, handler, caller, bufferVars, got>>

\* Submit on the pool that was never made: the goroutine panics.
NoPool ==
    /\ poolSize = 0
    /\ \E d \in Readers : disp[d].todo /= {}

\* A handler at MsgBuf without the lock, and another handler or a Broadcast, one
\* of them about to store: the Go runtime may end the process.
Broadcasting(m) == caller[m].at = "new" /\ CanLock
MapRace ==
    \E c \in Conn :
        \/ /\ handler[c].at = "store"
           /\ \/ \E e \in Conn \ {c} : handler[e].at \in {"check", "store"}
              \/ \E m \in Msg : Broadcasting(m)
        \/ /\ handler[c].at = "check"
           /\ \E m \in Msg : Broadcasting(m) /\ msgBuf[SymbolOf[m]] = None

Dies(cause) ==
    /\ ~dead
    /\ cause
    /\ dead' = TRUE
    /\ UNCHANGED <<subs, chanVars, disp, tasks, handler, alive, caller,
                   bufferVars, got, poolSize>>

-----------------------------------------------------------------------------
Client(c) ==
    \/ \E s \in Symbol : ReadSubscribe(c, s) \/ Unsubscribe(c, s)
    \/ SubmitOrder(c)
    \/ PeerLeaves(c)

Serve(c) ==
    \/ Subscribe(c) \/ AckWrites(c) \/ AckPanics(c)
    \/ EnsureTest(c) \/ EnsureStore(c) \/ ReadFails(c)
RunDispatcher(d) == Receive(d) \/ Submit(d) \/ Release(d)
Work(t) ==
    \/ WorkerWrites(t) \/ WorkerPanics(t)
    \/ WorkerFails(t) \/ WorkerCleans(t) \/ WorkerCloses(t)

Running(A) == ~dead /\ A /\ UNCHANGED <<poolSize, dead>>

ServerNext ==
    \/ \E c \in Conn : Running(Client(c)) \/ Running(Serve(c))
    \/ \E m \in Msg : Running(BroadcastLock(m)) \/ Running(BroadcastSend(m))
    \/ \E d \in Chan : Running(RunDispatcher(d))
    \/ \E t \in tasks : Running(Work(t))
    \/ Dies(NoPool)
    \/ Dies(MapRace)

\* The dispatchers and the workers that can go on do; the clients and the
\* publishers promise nothing.
ServerFairness ==
    /\ \A d \in Chan : WF_serverVars(Running(RunDispatcher(d)))
    /\ WF_serverVars(\E t \in tasks : Running(Work(t)))
    /\ WF_serverVars(Dies(NoPool))

ServerSpec == ServerInit /\ [][ServerNext]_serverVars /\ ServerFairness

-----------------------------------------------------------------------------
\* A connection whose handler has ended is in no set of subscribers, even if
\* it subscribed again between a worker's clean-up and its close: no
\* dispatcher will find it any more.  websocket_server.go:300
EndedHoldsNoSubscription ==
    \A c \in Conn : handler[c].at = "ended" => \A s \in Symbol : c \notin subs[s]

\* A subscriber reads the message that was broadcast, and acknowledgements stand
\* for themselves.  The exceptions are a slice of msgBytePool, put back while the
\* channel still holds it and then given to a later message, and a write to the
\* connection that overlaps another.  websocket_server.go:188, :82, :327
DeliveredAsSent ==
    \A g \in got : g.read = g.sent \/ {g.read, g.sent} \subseteq pooled \/ g.met

\* The dispatcher waits for a worker with the read lock held, and every worker
\* waits for the write lock.
Stuck ==
    /\ \E d \in Readers : disp[d].todo /= {}
    /\ Cardinality(tasks) = poolSize
    /\ \A t \in tasks : t.at = "clean"

\* A message on a channel is handed to the workers, also when a second channel
\* replaced that one because subscribe and Broadcast both found no dispatcher.
\* Otherwise the process has died, of the missing pool or of the race for the
\* map, or the pool and the dispatcher wait for each other.
\* websocket_server.go:69-79
QueuedIsHanded ==
    \A m \in Msg : caller[m].at = "queued" ~> caller[m].at = "handed" \/ dead \/ Stuck

-----------------------------------------------------------------------------
(* The invariant the two safety properties follow from.                    *)

\* What a goroutine is about to use is there: a handler past its read has a
\* symbol, a Broadcast past the lock a channel, a dispatcher at work a message.
StepsHaveArguments ==
    /\ \A c \in Conn : handler[c].at \in {"subscribe", "check", "store"} =>
                           handler[c].symbol \in Symbol
    /\ \A m \in Msg : caller[m].at = "send" => caller[m].chan \in Chan
    /\ \A d \in Chan : disp[d] = Idle \/ disp[d].msg \in Msg

\* The messages on their way are ones whose Broadcast has begun.
Begun(m) == caller[m].at /= "new"
OnTheWayBegun ==
    /\ \A d \in Chan : \A i \in 1 .. Len(queue[d]) : Begun(queue[d][i])
    /\ \A d \in Chan : disp[d] = Idle \/ Begun(disp[d].msg)
    /\ \A t \in tasks : Begun(t.msg)

\* Slices of msgBytePool hold and go to messages of safeBroadcast only, and a
\* message that came another way keeps a slice of its own.
PoolKeepsApart ==
    /\ free \subseteq pooled
    /\ \A m \in pooled : Begun(m) /\ {bytes[m], content[bytes[m]]} \subseteq pooled
    /\ \A m \in Msg : Begun(m) /\ m \notin pooled => bytes[m] = m /\ content[m] = m

ServerInv ==
    /\ ServerTypeOK
    /\ StepsHaveArguments
    /\ OnTheWayBegun
    /\ PoolKeepsApart
    /\ EndedHoldsNoSubscription
    /\ DeliveredAsSent
=============================================================================
