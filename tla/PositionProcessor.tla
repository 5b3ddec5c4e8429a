------------------------- MODULE PositionProcessor -------------------------
(***************************************************************************)
(* The position processor (biz/service/event_processor_position.go) and    *)
(* its database.  An instance is one server process; the lock of the       *)
(* symbol lets it handle one trade at a time.  A trade may be delivered    *)
(* any number of times, to any instance.                                   *)
(*                                                                         *)
(* A deployment is the set of instances that run and the path that         *)
(* ProcessEvent takes in them: "outbox", one transaction with the outbox   *)
(* row as the mark of the trade; "processed", no transaction and the mark  *)
(* in processed_trades; "memory", no transaction and the mark in the       *)
(* process.                                                                *)
(*                                                                         *)
(* PostgreSQL at its default level, read committed: a SELECT sees what is  *)
(* committed and the transaction's own writes; an INSERT waits for an      *)
(* uncommitted row with its key, an UPDATE for an uncommitted update of    *)
(* its row.  The table positions has an id as its only key, so a user may  *)
(* come to have two rows; First reads the one with the lowest id.          *)
(***************************************************************************)
EXTENDS Positions, Functions, FiniteSets, FiniteSetsExt

CONSTANTS
    Instance,
    Deployments,
    MaxID,     \* bound on the ids of positions
    MaxEffects \* bound on how many legs take effect without a transaction

\* The map of a process is of no use to another: with the mark in memory there
\* is one process.
ASSUME DeploymentAssumption ==
    /\ Deployments \subseteq [active : SUBSET Instance, dedup : {"outbox", "processed", "memory"}]
    /\ \A d \in Deployments : d.dedup = "memory" => \A i, j \in d.active : i = j

ASSUME FiniteAssumption ==
    IsFiniteSet(Trade) /\ IsFiniteSet(User) /\ IsFiniteSet(Instance) /\ MaxID \in Nat

VARIABLES
    deployment, \* which of the deployments this is
    positions,  \* the table positions, committed: a function from ids to rows
    outbox,     \* trades with a committed row in outbox
    processed,  \* trades with a row in processed_trades
    processedTrades, \* the map of each instance
    pc,         \* where each instance is
    trade,      \* the trade it handles
    legs,       \* the legs it has still to apply
    read,       \* the row it has read for the next leg
    writes,     \* the rows written by its open transaction
    effects,    \* history: how often each leg of a trade took effect
    forgotten   \* history: trades that had an effect when their mark was given up

Active == deployment.active
Dedup == deployment.dedup

tables == <<positions, outbox, processed, effects, forgotten, deployment>>
locals == <<pc, trade, legs, read, writes>>
vars == <<tables, processedTrades, locals>>

NoTrade == [id |-> 0]
NoWrites == [id \in {} |-> 0]
NoRow == 0
ZeroPosition == [Volume |-> 0, AvgPrice |-> 0]
Row == [User : User, Position : Position]

\* First of a table for a user: the id, NoRow if there is none, and what the
\* position then is.
FirstID(table, user) ==
    LET ids == {id \in DOMAIN table : table[id].User = user}
    IN  IF ids = {} THEN NoRow ELSE Min(ids)

Holding(table, user) ==
    IF FirstID(table, user) = NoRow THEN ZeroPosition
    ELSE table[FirstID(table, user)].Position

\* Rows laid over a table, and a single row.
Over(rows, table) ==
    [id \in (DOMAIN rows) \cup (DOMAIN table) |->
        IF id \in DOMAIN rows THEN rows[id] ELSE table[id]]
Only(id, row) == [n \in {id} |-> row]

IsTable(table) == DOMAIN table \subseteq Nat \ {NoRow} /\ Range(table) \subseteq Row

TypeOK ==
    /\ IsTable(positions)
    /\ outbox \subseteq Trade
    /\ processed \subseteq Trade
    /\ processedTrades \in [Instance -> SUBSET Trade]
    /\ pc \in [Instance -> {"idle", "mark", "read", "write", "commit"}]
    /\ trade \in [Instance -> Trade \cup {NoTrade}]
    /\ \A i \in Instance : pc[i] # "idle" => trade[i] \in Trade
    /\ \A i \in Instance : Len(legs[i]) <= 2 /\ IsTable(writes[i])
    /\ read \in [Instance -> [id : Nat, Position : Position]]
    /\ effects \in [Trade \X {1, 2} -> Nat]
    /\ forgotten \subseteq Trade
    /\ deployment \in Deployments

Holders == {user \in User : InitialPositions[user].Volume > 0}
NothingRead == [id |-> NoRow, Position |-> ZeroPosition]

\* The users with a position have a row.
Init ==
    /\ \E ids \in Bijection(1 .. Cardinality(Holders), Holders) :
          positions = [id \in DOMAIN ids |-> [User |-> ids[id], Position |-> InitialPositions[ids[id]]]]
    /\ outbox = {}
    /\ processed = {}
    /\ processedTrades = [i \in Instance |-> {}]
    /\ pc = [i \in Instance |-> "idle"]
    /\ trade = [i \in Instance |-> NoTrade]
    /\ legs = [i \in Instance |-> <<>>]
    /\ read = [i \in Instance |-> NothingRead]
    /\ writes = [i \in Instance |-> NoWrites]
    /\ effects = [e \in Trade \X {1, 2} |-> 0]
    /\ forgotten = {}
    /\ deployment \in Deployments

-----------------------------------------------------------------------------
Goto(i, label) == pc' = [pc EXCEPT ![i] = label]

\* ProcessEvent returns; the lock of the symbol is released.
Return(i) ==
    /\ Goto(i, "idle")
    /\ trade' = [trade EXCEPT ![i] = NoTrade]
    /\ legs' = [legs EXCEPT ![i] = <<>>]
    /\ read' = [read EXCEPT ![i] = NothingRead]
    /\ writes' = [writes EXCEPT ![i] = NoWrites]

\* Mutant of ProcessEvent: the maker's leg first.
ProcessEventMakerFirst(i, t) ==
    /\ pc[i] = "idle"
    /\ Goto(i, "mark")
    /\ trade' = [trade EXCEPT ![i] = t]
    /\ legs' = [legs EXCEPT ![i] = <<Legs(t)[2], Legs(t)[1]>>]
    /\ UNCHANGED <<tables, processedTrades, read, writes>>

ProcessEvent(i, t) ==
    /\ pc[i] = "idle"
    /\ Goto(i, "mark")
    /\ trade' = [trade EXCEPT ![i] = t]
    /\ legs' = [legs EXCEPT ![i] = Legs(t)]
    /\ UNCHANGED <<tables, processedTrades, read, writes>>

\* A row with the key of t that another instance has not committed yet.
Reserved(i, t) ==
    \E other \in Instance \ {i} : trade[other] = t /\ pc[other] \in {"read", "write", "commit"}

Marked(i, t) ==
    CASE Dedup = "outbox" -> t \in outbox
      [] Dedup = "processed" -> t \in processed
      [] Dedup = "memory" -> t \in processedTrades[i]

\* Mutant of Mark: a SELECT for the row, which does not wait.
MarkBySelect(i) ==
    /\ pc[i] = "mark"
    /\ ~Marked(i, trade[i])
    /\ Goto(i, "read")
    /\ UNCHANGED <<tables, processedTrades, trade, legs, read, writes>>

\* WriteOutboxEntryIfNotExists in the transaction, WriteIfNotExists, or the
\* look into the map: an unmarked trade is handled.
Mark(i) ==
    /\ pc[i] = "mark"
    /\ ~Marked(i, trade[i])
    /\ Dedup = "outbox" => ~Reserved(i, trade[i])
    /\ processed' = IF Dedup = "processed" THEN processed \cup {trade[i]} ELSE processed
    /\ Goto(i, "read")
    /\ UNCHANGED <<positions, outbox, effects, forgotten, deployment,
                   processedTrades, trade, legs, read, writes>>

\* A marked one is not.
SkipDuplicate(i) ==
    /\ pc[i] = "mark"
    /\ Marked(i, trade[i])
    /\ Return(i)
    /\ UNCHANGED <<tables, processedTrades>>

\* The SELECT of BuyPositionTx and SellPositionTx.
View(i) == Over(writes[i], positions)

ReadPosition(i) ==
    LET leg == Head(legs[i])
        user == leg.User
    IN  /\ pc[i] = "read"
        /\ CanApply(leg, Holding(View(i), user), trade[i])
        /\ read' = [read EXCEPT ![i] = [id |-> FirstID(View(i), user),
                                        Position |-> Holding(View(i), user)]]
        /\ Goto(i, "write")
        /\ UNCHANGED <<tables, processedTrades, trade, legs, writes>>

\* The next value of the sequence of ids, up to MaxID.  An id that a rollback
\* gives up may be used again here: only the order of the ids matters.
NewID == 1 + Max({0} \cup DOMAIN positions \cup UNION {DOMAIN writes[i] : i \in Instance})

\* tx.Create of a row, or tx.Save of the whole row as computed from what was
\* read: in the transaction, or at once when there is none.
WritePosition(i) ==
    LET leg == Head(legs[i])
        id == IF read[i].id = NoRow THEN NewID ELSE read[i].id
        row == [User |-> leg.User, Position |-> Apply(leg, read[i].Position, trade[i])]
        number == 3 - Len(legs[i])
    IN  /\ pc[i] = "write"
        /\ id <= MaxID
        /\ \A other \in Instance \ {i} : id \notin DOMAIN writes[other]
        /\ IF Dedup = "outbox"
           THEN /\ writes' = [writes EXCEPT ![i] = Over(Only(id, row), @)]
                /\ UNCHANGED <<positions, effects>>
           ELSE /\ SumFunctionOnSet(effects, DOMAIN effects) < MaxEffects
                /\ positions' = Over(Only(id, row), positions)
                /\ effects' = [effects EXCEPT ![<<trade[i], number>>] = @ + 1]
                /\ UNCHANGED writes
        /\ legs' = [legs EXCEPT ![i] = Tail(@)]
        /\ Goto(i, IF Len(legs[i]) = 1 THEN "commit" ELSE "read")
        /\ UNCHANGED <<outbox, processed, forgotten, deployment, processedTrades, trade, read>>

\* The transaction commits, or the map is updated.
Commit(i) ==
    /\ pc[i] = "commit"
    /\ IF Dedup = "outbox"
       THEN /\ positions' = View(i)
            /\ outbox' = outbox \cup {trade[i]}
            /\ effects' = [e \in Trade \X {1, 2} |->
                             IF e[1] = trade[i] THEN effects[e] + 1 ELSE effects[e]]
       ELSE UNCHANGED <<positions, outbox, effects>>
    /\ processedTrades' = IF Dedup = "memory"
                          THEN [processedTrades EXCEPT ![i] = @ \cup {trade[i]}]
                          ELSE processedTrades
    /\ Return(i)
    /\ UNCHANGED <<processed, forgotten, deployment>>

\* Mutant of Fail: the deferred call commits what was written so far.
FailCommits(i) ==
    /\ pc[i] \in {"read", "write"}
    /\ positions' = View(i)
    /\ Return(i)
    /\ UNCHANGED <<outbox, processed, effects, forgotten, deployment, processedTrades>>

\* A leg of the trade has been written for good before its handling is over.
HalfDone(i) == Dedup # "outbox" /\ pc[i] # "idle" /\ Len(legs[i]) < 2

\* An error: the position does not suffice, or the database fails.  The
\* transaction is rolled back; without one, what is written stays, and the
\* row of processed_trades is deleted, which may fail as well.
Fail(i) ==
    LET Inserted == Dedup = "processed" /\ pc[i] # "mark"
    IN  /\ \/ pc[i] = "mark" /\ Dedup # "memory"
           \/ pc[i] \in {"read", "write"}
           \/ pc[i] = "commit" /\ Dedup = "outbox"
        /\ \/ /\ processed' = IF Inserted THEN processed \ {trade[i]} ELSE processed
              /\ forgotten' = IF HalfDone(i) THEN forgotten \cup {trade[i]} ELSE forgotten
           \/ Inserted /\ UNCHANGED <<processed, forgotten>>
        /\ Return(i)
        /\ UNCHANGED <<positions, outbox, effects, deployment, processedTrades>>

\* The process dies and is started again.
Crash(i) ==
    /\ Return(i)
    /\ processedTrades' = [processedTrades EXCEPT ![i] = {}]
    /\ forgotten' = IF Dedup # "memory" THEN forgotten
                    ELSE forgotten \cup processedTrades[i]
                                   \cup (IF HalfDone(i) THEN {trade[i]} ELSE {})
    /\ UNCHANGED <<positions, outbox, processed, effects, deployment>>

Next ==
    \E i \in Active :
        \/ \E t \in Trade : ProcessEvent(i, t)
        \/ Mark(i)
        \/ SkipDuplicate(i)
        \/ ReadPosition(i)
        \/ WritePosition(i)
        \/ Commit(i)
        \/ Fail(i)
        \/ Crash(i)

Spec == Init /\ [][Next]_vars

-----------------------------------------------------------------------------
(* Properties.                                                             *)

\* The change of a user's volume by a set of trades, with the quantities as
\* Quantity(t) has them.
Change(user, ts, Quantity(_)) ==
    LET Signed(t) == LET n == Cardinality({k \in {1, 2} : Legs(t)[k] = [User |-> user, Side |-> "buy"]})
                         m == Cardinality({k \in {1, 2} : Legs(t)[k] = [User |-> user, Side |-> "sell"]})
                     IN  (n - m) * Quantity(t)
    IN  SumFunctionOnSet([t \in Trade |-> Signed(t)], ts)

\* One process, as the server configures it.
Alone == Cardinality(Active) = 1 /\ Dedup = "outbox"

\* "业务数据更新和 outbox 条目在同一数据库事务内提交 ... 都持久化": at any moment the
\* positions are the initial ones changed by exactly the trades that have an
\* outbox row, whatever failed, crashed or was delivered again.
PositionsMatchOutbox ==
    \A user \in User :
        Holding(positions, user).Volume =
            InitialPositions[user].Volume
              + Change(user, outbox, LAMBDA t : Convert(t.Quantity))

\* The same as long as no second process settles trades.
AlonePositionsMatchOutbox == Alone => PositionsMatchOutbox

\* "确保即使重复处理同一事件，也不会重复更新持仓" (processing an event again does not
\* update a position again): no leg of a trade takes effect twice, whichever
\* instances the trade is delivered to and however often.  Without a
\* transaction it may, after a failure or a restart gave the mark up while a
\* leg had taken effect.
LegsAtMostOnce ==
    \A e \in DOMAIN effects :
        effects[e] > 1 => Dedup # "outbox" /\ e[1] \in forgotten

\* Every price anyone pays, the average of an initial position included.
Paid == {Convert(t.Price) : t \in Trade} \cup {InitialPositions[u].AvgPrice : u \in Holders}

\* An average price lies between the lowest and the highest price anyone
\* paid, over any sequence of buys, rounded divisions and sales, and an empty
\* position has none.
AveragePriceInRange ==
    \A user \in User :
        LET held == Holding(positions, user)
        IN  IF held.Volume = 0 THEN held.AvgPrice = 0
            ELSE held.AvgPrice \in Min(Paid) .. Max(Paid)

\* Behaviours of other deployments are mapped to one where nothing happens.
Atomic == INSTANCE AtomicSettlement
          WITH positions <- IF Alone THEN [user \in User |-> Holding(positions, user)]
                            ELSE InitialPositions,
               outbox <- IF Alone THEN outbox ELSE {}

\* One process, with failures, crashes and redelivery, settles each trade in
\* one atomic step, at most once.
SettlesAtomically == Atomic!Spec

-----------------------------------------------------------------------------
(* An inductive invariant for LegsAtMostOnce.                              *)

\* What an instance may still have to apply.
Queue == {<<>>} \cup {Legs(t) : t \in Trade} \cup {Tail(Legs(t)) : t \in Trade}

ControlType ==
    /\ deployment \in Deployments
    /\ processedTrades \in [Instance -> SUBSET Trade]
    /\ pc \in [Instance -> {"idle", "mark", "read", "write", "commit"}]
    /\ trade \in [Instance -> Trade \cup {NoTrade}]
    /\ legs \in [Instance -> Queue]
    /\ effects \in [Trade \X {1, 2} -> Nat]

\* Where an instance is tells which legs of its trade are left.
LegsLeft ==
    \A i \in Instance :
        /\ pc[i] # "idle" => trade[i] \in Trade
        /\ pc[i] = "mark" => legs[i] = Legs(trade[i])
        /\ pc[i] \in {"read", "write"} => legs[i] \in {Legs(trade[i]), Tail(Legs(trade[i]))}
        /\ pc[i] = "commit" => legs[i] = <<>>

\* Instance i has marked trade t and is applying its legs.
Working(i, t) == pc[i] \in {"read", "write", "commit"} /\ trade[i] = t

OneWorker ==
    \A i, j \in Active : \A t \in Trade : Working(i, t) /\ Working(j, t) => i = j

\* No leg of trade t has taken effect.
NoEffect(t) == \A k \in {1, 2} : effects[<<t, k>>] = 0

\* The legs of t that instance i has still to apply have had no effect.
EffectsAhead(i, t) == \A k \in {1, 2} : k > 2 - Len(legs[i]) => effects[<<t, k>>] = 0

\* In a transaction: an outbox row tells that both legs took effect, and an
\* instance that works on a trade is the one that will write its row.
RowTells ==
    Dedup = "outbox" =>
        \A t \in Trade :
            /\ t \in outbox => \A k \in {1, 2} : effects[<<t, k>>] = 1
            /\ t \notin outbox => NoEffect(t)
            /\ \A i \in Active : Working(i, t) => t \notin outbox

\* Without one, as long as no mark was given up.
OnceSoFar ==
    Dedup # "outbox" =>
        \A t \in Trade \ forgotten :
            /\ \A k \in {1, 2} : effects[<<t, k>>] <= 1
            /\ \A i \in Active : Working(i, t) => EffectsAhead(i, t)

\* The mark is in processed_trades while the trade is worked on and after.
ProcessedTells ==
    Dedup = "processed" =>
        \A t \in Trade :
            /\ \A i \in Active : Working(i, t) => t \in processed
            /\ t \notin forgotten /\ t \notin processed => NoEffect(t)

\* The mark is in the map only after.
MapTells ==
    Dedup = "memory" =>
        \A t \in Trade \ forgotten : \A i \in Active :
            t \notin processedTrades[i] /\ ~Working(i, t) => NoEffect(t)

Inv == ControlType /\ LegsLeft /\ OneWorker /\ RowTells /\ OnceSoFar /\ ProcessedTells /\ MapTells

-----------------------------------------------------------------------------
(* An inductive invariant for the tables and for SettlesAtomically.        *)

\* What AveragePriceInRange asks of a position.
Sound(pos) ==
    /\ pos \in Position
    /\ IF pos.Volume = 0 THEN pos.AvgPrice = 0 ELSE pos.AvgPrice \in Min(Paid) .. Max(Paid)

\* The ids of rows: those of the initial rows and those given since.
IDs == 1 .. Cardinality(Holders) \cup 1 .. MaxID

SoundTable(table) ==
    /\ DOMAIN table \subseteq IDs
    /\ \A id \in DOMAIN table : table[id] \in Row /\ Sound(table[id].Position)

\* The tables, what transactions wrote and what was read are sound, and what
\* was read suffices for the leg that is written next.
TablesSound ==
    /\ outbox \subseteq Trade /\ processed \subseteq Trade /\ forgotten \subseteq Trade
    /\ SoundTable(positions)
    /\ DOMAIN writes = Instance
    /\ read \in [Instance -> [id : IDs \cup {NoRow}, Position : Position]]
    /\ \A i \in Instance :
        /\ SoundTable(writes[i])
        /\ Sound(read[i].Position)
        /\ pc[i] = "write" => CanApply(Head(legs[i]), read[i].Position, trade[i])

\* The positions of the users in a table, and what a leg makes of them.
Held(table) == [user \in User |-> Holding(table, user)]
AfterLeg(held, leg, t) == [held EXCEPT ![leg.User] = Apply(leg, @, t)]

\* With one process its transaction sees the positions changed by the legs it
\* has applied, each of which was possible, and nothing it read is outdated.
ViewIsApplied(i) ==
    LET t == trade[i]
        first == Legs(t)[1]
        second == Legs(t)[2]
        held == Held(positions)
        half == AfterLeg(held, first, t)
    IN  /\ pc[i] \in {"idle", "mark"} => writes[i] = NoWrites
        /\ pc[i] \in {"read", "write"} /\ legs[i] = Legs(t) => Held(View(i)) = held
        /\ pc[i] \in {"read", "write"} /\ legs[i] = Tail(Legs(t)) =>
              CanApply(first, held[first.User], t) /\ Held(View(i)) = half
        /\ pc[i] = "commit" =>
              /\ CanApply(first, held[first.User], t)
              /\ CanApply(second, half[second.User], t)
              /\ Held(View(i)) = AfterLeg(half, second, t)
        /\ pc[i] = "write" =>
              LET user == Head(legs[i]).User
              IN  read[i] = [id |-> FirstID(View(i), user), Position |-> Holding(View(i), user)]

AloneInStep == Alone => \A i \in Active : ViewIsApplied(i)

TableInv == Inv /\ TablesSound /\ AloneInStep
=============================================================================
