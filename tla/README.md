# Verification of cex-hertz-backend

TLA+ models of the exchange back end in this repository, the TLC runs that check
them on small instances, and TLAPS proofs of what matters most for every instance.
`PROJECT.json` lists the components, the runs, the lines each definition models,
the hazards, the findings and the theorems.

## The system

An order enters through the HTTP or the WebSocket interface of the node that owns
its symbol. `MatchEngine.SubmitOrder` numbers it, sends an `OrderSubmittedEvent`
through the **event pipeline** and queues the order; one worker per symbol takes
orders from the queue and matches them in the **order book**. Every trade is an
event that goes through the pipeline again. The pipeline appends an event to the
**event log**, hands it to every **processor** (database, positions, WebSocket)
and records the progress of each processor in a **checkpoint**.

The position processor settles a trade in one transaction with a row of the
**outbox**; a **dispatcher** in each process reads unpublished rows and sends them
to Kafka. Symbols are grouped into partitions; a partition moves between nodes
along the **ownership state machine**, driven by the **transfer protocol**. Consul
holds the partition table and the node ids; Redis holds locks and ownership epochs.

| Part | Source | Module |
| --- | --- | --- |
| Ownership state machine, transfer records | `biz/model/partition_ownership.go`, `biz/service/db_transfer_coordinator.go` | `OwnershipFSM`, `TransferProtocolProofs` |
| Transfer protocol | `biz/model/transfer_protocol.go` | `TransferProtocol`, `TransferProtocolProofs` |
| Order book | `biz/service/orderbook.go` | `OrderBook`, `OrderBookProofs` |
| Event pipeline, log, checkpoints | `biz/service/event_pipeline.go`, `checkpoint_manager.go`, `biz/dal/pg/checkpoint_repo.go` | `EventPipeline`, `EventPipelineProofs` |
| Position settlement | `biz/service/event_processor_position.go`, `asset_service.go` | `Positions`, `PositionProcessor`, `AtomicSettlement`, `PositionProcessorProofs` |
| Outbox and Kafka writers | `biz/service/outbox_dispatcher.go`, `biz/dal/pg/outbox_repo.go`, `biz/dal/kafka/init.go` | `Outbox`, `DeliveryProofs` |
| Sequencer and node ids | `biz/service/sequencer.go`, `node_id_manager.go` | `NodeIDs`, `StartupProofs` |
| Partition table, autoscaler | `biz/service/partition_manager.go`, `partition_autoscaler.go`, `partition_aware_match_engine.go` | `Partitions`, `PlacementProofs` |
| Locks, epochs, fencing | `biz/service/redis_lock_manager.go`, `ownership_epoch_manager.go`, `biz/handler/order_fencing.go` | `OwnershipEpochs`, `PlacementProofs` |
| Crash recovery | `biz/service/recovery_executor.go`, `event_log_postgres.go`, `main.go` | `Recovery`, `StartupProofs` |
| Match engine, order handlers | `biz/service/match_engine.go`, `biz/handler/order.go`, `biz/service/event_processor_db.go` | `MatchEngine`, `MatchEngineProofs` |
| WebSocket server | `server/websocket_server.go` | `WebSocket`, `DeliveryProofs` |
| Offset tracker, snapshots | `biz/service/kafka_offset_tracker.go`, `state_snapshot.go`, `state_validator.go` | not modelled, see the last section |
| Klines, other handlers, configuration, utilities, backfill, front end | | not modelled, see the last section |

## How the models relate to the code

### OwnershipFSM and TransferProtocol

`OwnershipFSM` has the fields of `OwnershipMetadata` as variables, plus the table
`ownership_transfers`. An action is one critical section of `fsm.mu` or one
database statement, so `Next` lets any caller enter any critical section at any
time. `To...` are the edges of `Transition` with their guards and hooks. The time
since `MigrationStartTime` is a counter that saturates past the timeout. A Kafka
offset is abstracted to its presence.

`TransferProtocol` extends it with callers. A handler checks `GetState` in one
step and calls the state machine in another; `StartMigration` and `Rollback`
release the lock between writing `TargetOwner` and calling `Transition`, which
gives them a step more. `overlapped` remembers whether two handlers ever ran at the
same time, so that one run states both what holds always and what holds only for
callers that take turns. In the repository only tests call the protocol; the
engine creates and registers the state machines.

### OrderBook

One symbol. `MatchOrder` holds `ob.mu` for its whole length; the model takes one
iteration of its loop per step (`MatchOne`) so that the properties see the book in
between, and keeps every other operation out while an order is being matched. A
price level is a queue. The skiplist is a library (external): the version named in
`go.mod` sorts its keys by `CalcScore` and asks `Compare` only about equal scores
(`Ranks`). A client may send an `OrderID` it has used before.

### EventPipeline

The events of one symbol. A producer is a goroutine inside `ProcessEvent`,
`ProcessEventWithContext` or `ProcessEventsFromLog`. Within a call there is one
goroutine per processor; the lock of processor and symbol makes each of them one
step. `FlushCheckpoints` copies under its lock and saves row by row without it, so
every save is a step.

### Settlement

`Positions` has the arithmetic of `BuyPositionTx` and `SellPositionTx`, with the
conversion of amounts to strings and back. `PositionProcessor` runs
`ProcessEvent` of the position processor statement by statement on tables under
PostgreSQL's read committed level. `deployment`, chosen in `Init`, is the set of
processes that run and which of the three paths of the code they take; the server
configures the outbox. On the path that keeps its marks in the map of the process
there is one process (`DeploymentAssumption`): two of them have no way to know what
the other has settled. `AtomicSettlement` is what the processor promises: a trade is settled in
one step or not at all. `SettlesAtomically` states that a single process with the
outbox implements it; the refinement mapping takes the position of a user to be the
row that `First` reads.

### Outbox

Rows of the table, the batch of each dispatcher and the buffer of its process's
writer, the asynchronous one that `biz/dal/kafka/init.go` sets up. A send may fail
once or, for an event in `unsendable`, always; a crash loses the locals and the
buffer, and the writer may give a message up; `lost` remembers which events went this
way, and `cleaned` which rows were deleted. Nothing reads `retry_count`: a row is
tried for ever.

### NodeIDs

A node is its address; Consul holds a registry entry per address and one counter.
The steps are the calls of `GetOrAllocateNodeID` to Consul: each may fail, a
compare-and-swap may take effect and its answer get lost, and the process may die
between any two. A node without an id serves under 0. `issued` remembers every
number drawn, with the run of the process; the width of the local part, 2^40, is the
constant `LocalSpan`.

### Partitions

The table in Consul with its `ModifyIndex`, each node's copy of it, and what the
engine of the node has made of the copy: the symbols it watches and the state
machines it registered. The autoscaler's tick is one step up to the copy, then
`Marshal` and `Put`; the watch reads and stores in two steps, so that a stale read
overwrites what the autoscaler just wrote. The model is of any provider of metrics:
the mock in the repository reports nothing hot or cold, and its idle worker is
always the same.

### OwnershipEpochs

Callers of `UpdateOwnershipEpoch` (`Updater`) take the lock, read the hash and send
the commands of a pipeline that is not a transaction: a broken connection leaves a
prefix of them. The lock expires after the library's default (the configured expiry is
never passed on) and the key after a day. `intact` remembers that neither has happened
under a call. An order has an epoch cached with `GetEpoch` and is checked with
`VerifyOrderOwnershipFencing`; `torn` remembers an epoch read in the middle of an
update.

### Recovery

Nodes draw numbers, log rows, apply events and save checkpoints, crash, and start
again with `initRecovery`: the pending items are listed, each is locked, read,
replayed and reported by a goroutine of its own. A query may fail, and the lock may
expire under its holder (`expired`): the options the executor passes do not reach the
library, whose locks live for 8 seconds. A row whose payload cannot be read is passed
over (`Unreadable`). An event has the number it was
submitted with, and its row another, drawn when it was appended: the query of the
recovery compares the checkpoint, which has the former, with the latter. Nothing in
the server sets a status before a crash, so `MarkRecoveryInProgress` and its
siblings are steps of an operator. `lockMgr` and `validate`, chosen in `Init`, say
whether a lock manager is configured (`main.go` configures none) and whether results
are validated.

### MatchEngine

An order's path: the handler submits it, its event goes through the pipeline, the
queue and then the book of its symbol are loaded or created (two `LoadOrStore`
calls, hence two steps), and it is queued. `LoadBook` starts the worker if it made the
book. The pipeline is one step here, the matching another; their insides are
`EventPipeline` and `OrderBook`. Numbers are kept as far as `DatabaseProcessor` compares
them: it skips an `OrderSubmittedEvent` that a later number of its symbol, of another
order or of a trade, has overtaken, and the order goes on without a row. `engine` is
chosen in `Init`: none, the one `NewPartitionAwareMatchEngine` builds, whose processors
panic on the first event, or one given a database and no checkpoint manager, as
`NewMatchEngine` and `NewDatabaseProcessor` allow.

### WebSocket

One shard: subscriptions, the channel of each symbol, a dispatcher per channel, the
pool of workers and the byte slices of `msgBytePool`. A dispatcher holds the read lock
from `Receive` to `Release`; every step that takes the write lock waits for it.
`ensureSymbolDispatcher`, called from `subscribe` without the lock, is two steps, so a
channel may be stored over another, and the runtime may end the process for the two
unsynchronised uses of the map (`MapRace`). Workers write to a connection, and its
handler acknowledges, with no lock between them: a write that meets another may send
what the other copied, or panic. The capacity of the pool is chosen in `Init`; 0 stands
for `broadcastPool` as it is in the server, never assigned, on which the first `Submit`
ends the process.

## Runs

A run that passes checks the properties named; a run that is expected to find a
violation shows that the code does not do what a comment or a document says, and
has an entry under `findings`.

| Run | Question | Answer | States |
| --- | --- | --- | --- |
| `ownership` | Two callers of the protocol: do checkpoints, transfer records and the owner stay consistent? If handlers do not overlap, is the new owner the node that confirmed? Racing, failing, dying updates: does an epoch name one owner, never fall, and does fencing refuse an order from before a migration? | yes; the epochs, while neither lock nor key expires | 1,397,000 |
| `transfer_race` | Does the partition have an owner when handlers overlap? | no: a commit between the two halves of a rollback makes the empty string the owner | |
| `order_book` | Are quantities conserved, time priority at a price honoured, trade ids unique for distinct order ids, cancellations final, and does `MatchOrder` return? | yes | 138,000 |
| `book_crossed` | Is the book never crossed? | no: the first level of a side is its worst price | |
| `event_pipeline` | Concurrent callers, replays, failures, a panic: are events applied in order and once, logged first, checkpoints not ahead, acknowledged events applied or overtaken, and does every call return? | yes | 57,000 |
| `settlement` | Failures, crashes and redelivery: does a leg take effect at most once unless its mark was given up, is the average price within what was paid, and does one process settle atomically? | yes | 57,000 |
| `outbox` | Failures, crashes, exits, cleaning: is an event lost by a sender only, is a trade settled once while its row is kept, and does a row that can be sent get to the broker or to a sender that loses it? | yes, unless a whole batch of older rows fails for ever | 5,000 |
| `startup` | Failing Consul, lost answers, restarts: do two nodes never share an id other than 0, does a node keep its id, and are numbers unique but for restarts, id 0 and the wrap? Does one node at a time recover an item, does it read every event its processor missed, and does a start end? | yes, with the exceptions the properties name | 335,000 |
| `recovery_misses` | Has a start that reports a valid recovery left no event out? | no: it looks only at items with a status nothing sets before a crash | |
| `partitions` | Two autoscalers and watches on one table: are the two views of every table consistent, and do the nodes come to follow the table in Consul once changes end? | yes, unless a save failed | 132,000 |
| `match_engine` | Are orders matched in the order they were queued, does no refused order trade, does an order that trades have its event and its row, and is every acknowledged order matched? | yes, but for rows of overtaken orders and an engine that is shut down | 200,000 |
| `websocket` | Does an ended connection leave nothing behind, is a message read as it was sent, and is every queued message handed out? | yes, but for pooled slices, overlapping writes, a process that dies and a pool that waits for its dispatcher | 323,000 |

Two runs hold two components each. In `MCOwnership` and `MCStartup` a variable `part`,
chosen in the initial state, says to which component the steps of the behaviour belong;
the other one stays in its initial state. The components share no variable, so the
properties say of each what they would say in a run of its own. Every run takes less
than three minutes with two workers.

### Findings

- `transfer_race`: `Rollback` clears `TargetOwner` in one critical section and calls
  `Transition` in another (`partition_ownership.go:412`), where
  `doc/PARTITION_OWNERSHIP_STATE_MACHINE.md:106` has a rollback keep the owner.
- `book_crossed`: `CalcScore` (`orderbook.go:65`) rises the opposite way of `Compare`, and
  `github.com/huandu/skiplist` v1.2.1 sorts by the score first. The comments at
  `orderbook.go:21` and `:24` say "买单：价格降序" and "卖单：价格升序"; the first bid is the
  lowest, an ask that only the others match rests, and the book is crossed.
- `recovery_misses`: a start recovers the items whose status is `in_progress` or `failed`
  (`recovery_executor.go:234`), and nothing sets it before a crash. It reports a valid
  recovery whatever the log holds beyond the checkpoints, where the comment at `:78` says
  "确保不重不漏".

### Known from the models, without a run of their own

Each of these is a behaviour of a model that the properties above allow for; the
exception in the property, or the scenario in its premise, is where it enters. No
listed run singles it out.

- An event that arrives second with a lower number is taken for a duplicate, and its
  call returns nil (`event_pipeline.go:203`; `ReturnedOrOvertaken`), though `:101` says
  "该方法会将事件分发给所有已注册的处理器".
- Of two processes that settle trades of one user at once, one update of the position
  may be lost with both rows in the outbox (`asset_service.go:47`;
  `AlonePositionsMatchOutbox` has the premise), though
  `event_processor_position.go:21` says "事务成功：业务数据 + outbox 条目都持久化".
- The Kafka writer is asynchronous (`biz/dal/kafka/init.go:43`): a row is marked before
  its message is with the broker (`LostBySenderOnly`), though
  `doc/ARCHITECTURE_OVERVIEW.md:44` says "保证: 不会丢失事件".
- `StartMigration` writes `TargetOwner` before the state is checked and without
  `Version++` (`partition_ownership.go:384`): a call that is refused redirects a
  migration under way. `NewOwnerConfirmed` excludes overlapping handlers for it.
- The guard of `Flushing -> Transferring` (`:211`) is implied by
  `CheckpointBehindProcessed`, so it never stops a transfer with events that the
  checkpoint does not cover.
- `CancelOrder` (`orderbook.go:357`) looks at the entry recorded at submission, whose
  `FilledQty` stays 0, so a partly filled order is cancelled.
- An `OrderID` used twice gives two trades one `TradeID` (`TradeIDsUnique` has the
  exception).
- An event a processor failed on is passed over by the next one and by its
  checkpoint (`event_pipeline.go:219`); a slow flush may replace a checkpoint by an
  older one (`checkpoint_manager.go:87`).
- `ProcessEvent` passes a nil context, and with a checkpoint manager set the first
  event kills the process (`event_pipeline.go:248`; `crashed` in the model).
- Without the outbox, a leg may be applied twice after a failure or a restart
  (`LegsAtMostOnce` has the exception, `forgotten`).
- Quantities go through a decimal string and a truncating float conversion
  (`biz/model/order.go:30`, `Positions!Convert`): 3 units are settled as 2.
- An event may be sent several times, by one dispatcher or by two, retries have no
  bound, so that `BatchSize` rows that always fail keep the rows after them from being
  read (`EventuallyDelivered` has the premise), and a trade delivered again after its
  row was cleaned is settled again.
- A restarted node draws its first numbers again (`sequencer.go:49`), and nodes that
  cannot reach Consul share the numbers of id 0 (`partition_aware_match_engine.go:73`).
- A save of the table that fails leaves the autoscaler's node with a table of its own
  until the key changes; two merges at the same time of day share a partition id.
- An expired epoch key makes epochs start from 1 again, and a cached epoch of 0 is not
  compared at all (`order_fencing.go:60`); the order is handled after the check, by
  code that looks at no epoch.
- A recovery misses events numbered below the checkpoint, rows past a window of
  1000 numbers and rows it cannot read (`ReadsWhatIsMissing`), and two nodes recover one
  item at a time once a lock has expired (`OneRecoversAtATime`). The context it replays with has no `Topic`, so the pipeline refuses the
  first event and the item fails (`recovery_executor.go:397`). Without a lock manager,
  a start with pending items dies in the goroutine of the item
  (`recovery_executor.go:327`), where `main.go` says "自动恢复失败，继续启动".
- The engine that `main.go` builds has a nil database and a checkpoint manager: its
  first event ends the process (`partition_aware_match_engine.go:95`).
- An order whose event is overtaken at `DatabaseProcessor` is queued and trades without a
  row (`RefusedNeverTrades` has the exception `Overtaken`).
- An order dropped because the engine is shutting down is still answered as submitted
  (`match_engine.go:142`), and cancelling an order changes its row, not the book
  (`biz/handler/order.go:108`).
- A dispatcher that waits for a worker holds the read lock for which the workers of
  failed writes wait (`websocket_server.go:79`): with as many of those as the pool has
  workers, none goes on. `broadcastPool` itself is never assigned (`:40`), so the first
  message with a subscriber ends the process.
- Two writes to one connection, of two workers or of a worker and the handler, have no
  lock between them (`websocket_server.go:82`, `:327`; `met` in `DeliveredAsSent`), and
  `ensureSymbolDispatcher` uses the map of channels without the shard's lock when
  `subscribe` calls it.
- A slice of `msgBytePool` is put back while its message is queued
  (`websocket_server.go:188`), and the next message is copied over it.

### Bounds

Three nodes give an owner, a target and a node that never confirmed. `MaxVersion` 11
leaves room for a migration that is rolled back and one that is committed, with
updates between them; `MaxTransfers` 2 gives a stale record beside the current one.
The callers are symmetric.
Three orders over two prices make a taker that meets two makers, at one level or
two, an id used twice and cancellations in between; a quantity of 2 makes partial
fills of both sides, and 0 an order that wants nothing. `book_crossed` takes three:
two bids, and an ask at the price of the higher.
Two producers and two events make every overtaking; one producer answers requests and
the other uses every entry point, replay included. Two processors make a partial
failure. Four trades of three users have a trade that fails until another is
settled, one that is truncated, and one of a user with themselves; `MaxID` leaves
room for the second rows of a user, and `MaxEffects` 4 bounds the legs applied in all.
The processes are symmetric.
Three rows and a batch of two put one row that fails for ever in front of two others,
and two such rows in front of a third that is then never read; `MaxSettled` 2 allows a
row that is cleaned and inserted again; what several dispatchers may do to one row is
covered by the proof.
Two nodes with two starts each, two ids and as many numbers as reach `LocalSpan` make
the conflicts over the counter, the restarts, the last id and the wrap.
Two nodes, two changes and a table of two partitions, with a symbol in both, make a
split and a merge on stale copies. Two callers and two owners make every race of two updates, and `MaxEpoch` 3 a
migration there and back; callers and owners are symmetric.
Two nodes, two rows and a window of two numbers make rows that are below the
checkpoint and past the window, and one number is that of a row that cannot be read; two
more starts make two recoveries of one item at a time. `recovery_misses` has no row that
cannot be read.
Three orders of two symbols with a queue of one make a race for the first book, a
full queue and a worker per symbol. One connection, two messages and channels of one
message make a full channel, a replaced one, and a worker that waits for a dispatcher;
with no pool, one worker and two there is every way the pool can fail a message, and
writes of two workers that overlap.

`CHECK_DEADLOCK FALSE` stands where the program may come to rest: no more orders,
events or rows to handle within the bounds. The ownership, settlement and partition
runs check deadlock.

### Fairness

`EventPipeline` assumes weak fairness of a call that has been made (its goroutines
run on and are never disabled by others for good). `OrderBook` assumes it of the
loop of `MatchOrder`, which holds its lock. `Outbox!Fairness` assumes that the
dispatcher's ticker and the writer's goroutine go on, that a process does not die at the
same entry of every batch, that a row which can be sent and is tried again and again is
sent and marked in the end, and nothing of crashes and cleaning.
`Partitions` assumes it of a node's save, watch and engine loop, which run as long as
the process does, and of no change. `Recovery` assumes it of the recovery's goroutines
and of the end of the start-up while the process lives. `MatchEngine` assumes it of
requests that have arrived and of the workers: that the pipeline answers, and that the
broadcast of a trade returns, which it does unless the WebSocket server is `Stuck`.
`WebSocket` assumes it of the dispatchers and the workers, and nothing of clients and
publishers.

## Proofs

Each module holds the proofs of one component, or of two that do not interact in the
models but belong to one concern: `DeliveryProofs` (outbox and WebSocket server),
`StartupProofs` (node ids and recovery) and `PlacementProofs` (epochs and partition
table). The definitions of `WebSocket`, `Recovery` and `Partitions` that would otherwise
share a name with their companion's are prefixed (`ServerSpec`, `RecoverySpec`,
`TableSpec` and so on). The inductive invariants are defined at the end of the components' own modules, with a
comment on each conjunct, and were checked by TLC before they were proved.

`TransferProtocolProofs`, first of the state machine: `Inv` is inductive. `CheckpointBehindProcessed` is inductive by
itself. `TransferRecordIsCurrent` needs `NoCoordinatorNoTransfer`: without it a
coordinator could be injected between two steps of a migration and an id left over
would be taken for the current one. From `Inv` follow `CheckpointSafety`,
`TransferRecordSafety` and the action property `OwnerChange`, for any set of nodes
and any bounds. Then of the protocol, for any number of callers:
`ProtocolImplementsFSM` shows that the handlers, however their critical sections
interleave, only do what the state machine allows, so that its theorems hold of them
(`ProtocolSafety`). `ConfirmedOwner` is about handlers that do not overlap;
`ProtocolInv` adds that one caller is inside a handler (`OneCallerInside`), that what
it checked before it let the lock go still holds when it takes it again
(`CheckStillHolds`), and that a migration keeps the target its row names
(`MigrationHasTarget`).

`OrderBookProofs`: for any finite set of prices, any quantities and number of orders.
`Inv` says that orders are numbered as they came, that a level holds unfilled copies of
its own live orders from the oldest to the youngest (`LevelsInOrder`), that a taker's
trades carry ascending indexes (`TradesNumbered`), and that the account of every order
is balanced. `Priority`, the theorem about `TimePriority`, follows from `LevelsInOrder`
and the check of the loop; that the level is the one with the best price is not proved,
because it is false (`book_crossed`). The lemmas are about the operators the book is
built from: the best level, the level with its front taken or replaced, an entry
removed, and the sums of what an order traded. A set of prices is finite so that a
best level exists.

`MatchEngineProofs`: for any orders, symbols and queue size. `Inv` says that a symbol
has one channel and at most one worker ever (`OneChannelOneWorker`), that what was sent
to it is what was matched, what the worker holds and what waits, in this order
(`SentIsMatchedHeldQueued`), and that only accepted orders are past the queue
(`OnlyAcceptedGoOn`), with a row or overtaken. For the latter, orders that wait for the
pipeline have numbers of their own (`NumbersApart`): what `DatabaseProcessor` skips is
below, not at, the last number it processed. From this follow `QueueOrder` and
`NoRefusedTrades`.

`PositionProcessorProofs`: for any finite sets of users, trades with positive
quantities, and processes, with failures, crashes and redelivery at any point. `Inv`
says, for each of the three paths, what the mark of a trade tells about its legs
(`RowTells`, `OnceSoFar` with `ProcessedTells` or `MapTells`) and that a trade has one
worker; `AtMostOnce` follows. `TablesSound` says that every row, what open transactions
have written and what was read have a volume of at least zero and an average within
what was paid, and that what was read suffices for the leg it was read for;
`TypeCorrectness` and `AverageInRange` follow, the latter from a lemma about the
rounded weighted average. `AloneInStep` says of a single process with the outbox that
its transaction sees the table changed by the legs it has applied and that what it
read is not outdated. `Settlement`, the refinement of `AtomicSettlement`, follows: the
commit is the abstract step, since no outbox row is there yet (`RowTells`), and
everything else changes neither the row that `First` reads nor the outbox.
`MatchesOutbox` adds up: the volumes are the initial ones changed by the sum over the
outbox of what each trade moves. The sum is the library's `SumFunctionOnSet`, a
recursion over the subsets of a set; the lemmas show that this recursion has a solution
on every finite set (`SumsExist`), only one (`SumsAgree`), and that any element may be
taken out first (`SumWithout`). They are by induction over the size of a subset, with
the property given as the set of the subsets that have it (`SubsetsBySize`).

`EventPipelineProofs`: `Inv` adds to order, write-ahead and checkpoints the facts that
the offset bounds what was applied (`OffsetBoundsApplied`), that what is dispatched
is in the log (`DispatchedIsLogged`), and that a checkpoint names an applied event in
memory, in the copy a flush holds and in the database (`CheckpointIsApplied`). A
second invariant, `Covered`, is inductive together with it and yields
`AcknowledgedSafety`: a goroutine that ends without an error leaves the offset of its
processor at the event or above, and an offset is the number of an applied event.
The theorems hold for any number of producers, processors and events, with failures
and a panic at any point.

`DeliveryProofs`: for any number of events, dispatchers, failures and crashes, an event
is lost by a sender only (`DispatchSafety`), and a trade takes effect once while its row
is kept (`SettlementSafety`). The invariant says that an id a dispatcher will mark, and a row
that is marked, belong to a message that a sender took, and that an event that took
effect and has no row was cleaned. Then of the WebSocket server, for any number of
connections, symbols, messages and channels, any capacity of the pool and of a channel:
`ServerInv` says that a goroutine past a check still has what it checked
(`StepsHaveArguments`), that what waits in a channel, at a dispatcher or in a task is a
message whose `Broadcast` has begun (`OnTheWayBegun`), and that the slices of
`msgBytePool` hold and go to messages of `safeBroadcast` only (`PoolKeepsApart`).
`EndedLeaves` and `Delivery` follow; without the last conjunct a slice could be put back
while a message that came another way still reads it. `Delivery` leaves out writes that
met another one: what these send is up to the library's one buffer per connection.

`StartupProofs`, first of the node ids: for any number of nodes, ids, retries and restarts. `Inv` says that the
ids a node has registered or is about to register are below the counter and belong to
no other node (`HeldByOne`), and that a node serves and draws under its registered id
or 0, while a node that is still allocating has none registered (`ServesRegistered`).
The second part carries `IDsSurviveRestarts`: an id that was allocated and never
registered has no number drawn under it. `NumbersAreUnique` adds that node and local
part can be told apart as long as the local part is within its span.
Then of recovery, for any number of nodes and processors, any
window of the query, with and without locks and validation, with nodes that crash at
any point; the numbers of a node stay within its span. `RecoveryInv` says that an event is
numbered before its row is (`NumberedBeforeRow`), and that a goroutine within
`WithRecoveryLock` holds the lock unless it has expired (`HoldsItsLock`), which also the
deferred unlock of another that returns late does not change. `RecoversAlone` follows. So
does the action property `MissingIsRead`: a row has a higher number than its event, so an event numbered from the
start of the query on has its row there as well.

`PlacementProofs`, first of the epochs: for any number of callers, owners and caches, and any prefix of
a pipeline. While `intact`, the caller that holds the lock is the only one between its
read and its last command, the epoch it will write is above every epoch returned, and
an epoch that was returned or cached whole belongs to the owner it was returned with.
From this follow `EpochsIdentifyOwners`, `FencingIsSound` and the action property
`EpochsGrow`. Then of the partition table, for any number of nodes and symbols, any loads
whose hot symbols exist, and any sound table to start from. `TableInv` says that every copy of the
table is sound: the one in Consul, the caches, what a watch has read and what an
autoscaler is about to save. Sound means that index and partitions agree, and that a
partition split off for a hot symbol holds no other (`HotHoldsItsSymbol`). The latter is
what makes a split that meets a name in use harmless: the partition it replaces held
the same symbol. `SplitSound` and `MergeSound` show that the two operations of a tick
keep a table sound, `ScaledSound` that the tick does; `Placement` follows.

Only model-checked: liveness under fairness (`MatchOrderReturns`, `CallReturns`,
`EventuallyDelivered`, `NodesFollowTable`, `StartupEnds`, `SubmittedIsMatched`,
`QueuedIsHanded`), which is beyond the provers. Every safety property that a passing
run checks, invariant, action property or refinement, has a theorem. The bounds that keep a run
finite are guards of the models, so the theorems are for every value of them. `TypeOK`
of a module describes its state; it is part of the proved invariants where they need it.

## Not modelled

- The Kafka offset tracker and the state snapshots: only tests create them, and no part
  of the server reads them.
- Klines: numeric aggregation and a repair job without a protocol between actors.
- The WebSocket processor: it formats events and marks an event as sent before it calls
  the broadcaster (`event_processor_websocket.go:65`), which reports no error it could
  act on. Unicast: its map of users is never filled.
- Handlers other than those of orders, the router and the routing middleware: they
  decode, read and answer.
- Configuration, connections and utilities (pure I/O), the backfill of positions (a
  one-shot migration) and the front end (a client).
- Liveness of the locks' library and of PostgreSQL, Consul, Redis and Kafka: they are
  external, and modelled by what the code can see of them.
