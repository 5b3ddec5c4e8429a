----------------------------- MODULE Partitions -----------------------------
(***************************************************************************)
(* The partition table (biz/model/partition.go) that all nodes share       *)
(* through a Consul key (biz/service/partition_manager.go), the autoscaler *)
(* that rewrites it (biz/service/partition_autoscaler.go) and the loop     *)
(* that follows it and decides which orders a node takes                   *)
(* (biz/service/partition_aware_match_engine.go).                          *)
(*                                                                         *)
(* A partition id is a sequence of strings: <<"p1">> for one of the first  *)
(* table, id \o <<"hot", symbol, time>> and <<"cold", time>> for the ones  *)
(* the autoscaler names after the time of day, which comes again a day     *)
(* later.  The lists of symbols and of ids have no duplicates and their    *)
(* order is not used: they are sets.                                       *)
(***************************************************************************)
EXTENDS Naturals, Sequences, FiniteSets

CONSTANTS
    Node,
    Symbol,
    Time,        \* times of day, as the autoscaler formats them
    IdleWorker,  \* the answer of selectIdleWorker
    Load,        \* reports of the metrics: hot (above 800) and cold (below 5) symbols
    FirstTable,  \* the table in Consul when the nodes start
    MaxChanges   \* bound on the changes by autoscalers and restarts of nodes

ASSUME LoadAssumption == \A load \in Load : load.hot \subseteq Symbol

None == [none |-> TRUE]

VARIABLES
    table,      \* Consul: the table and its index, the number of writes
    cache,      \* pm.cache of each node
    lastIndex,  \* of its WatchPartitionTable
    fetched,    \* the table its watch has read and not stored yet, or None
    tick,       \* what its autoscaler is about to do
    payload,    \* the new table, then what is marshalled
    watched,    \* watchedSymbols
    lastSymbols,
    fsms,       \* partitions with a registered OwnershipStateMachine
    unsaved,    \* history: the cache holds a table whose save failed
    changes     \* how many changes and restarts there have been

watch == <<lastIndex, fetched>>
scaler == <<tick, payload>>
engine == <<watched, lastSymbols, fsms>>
tableVars == <<table, cache, watch, scaler, engine, unsaved, changes>>

Assigned(pt, n) == UNION {pt.symbols[p] : p \in {q \in DOMAIN pt.symbols : n \in pt.workers[q]}}
Owned(pt, n) == {p \in DOMAIN pt.symbols : n \in pt.workers[p]}

TableInit ==
    /\ table = [pt |-> FirstTable, index |-> 1]
    /\ cache = [n \in Node |-> FirstTable]
    /\ lastIndex = [n \in Node |-> 0]
    /\ fetched = [n \in Node |-> None]
    /\ tick = [n \in Node |-> "waiting"]
    /\ payload = [n \in Node |-> None]
    /\ watched = [n \in Node |-> {}]
    /\ lastSymbols = [n \in Node |-> {}]
    /\ fsms = [n \in Node |-> {}]
    /\ unsaved = [n \in Node |-> FALSE]
    /\ changes = 0

-----------------------------------------------------------------------------
(* What a tick of the autoscaler makes of a table.  A table has, besides   *)
(* its three fields, the history of the symbols that a merge displaced.    *)

HotID(p, s, time) == p \o <<"hot", s, time>>
ColdID(time) == <<"cold", time>>

\* The loop over the partitions of splitHotSymbols has come to those in
\* visited: their hot symbols get a partition of their own each.
Split(pt, visited, hot, time) ==
    LET moved == {m \in visited \X hot : m[2] \in pt.symbols[m[1]]}
        new == [id \in {HotID(m[1], m[2], time) : m \in moved} |->
                  {m[2] : m \in {k \in moved : HotID(k[1], k[2], time) = id}}]
        old == DOMAIN pt.symbols \ DOMAIN new
    IN  [symbols |-> [p \in old \cup DOMAIN new |->
            IF p \in old THEN {s \in pt.symbols[p] : <<p, s>> \notin moved} ELSE new[p]],
         workers |-> [p \in old \cup DOMAIN new |->
            IF p \in old THEN pt.workers[p] ELSE {IdleWorker}],
         index |-> [s \in Symbol |->
            (pt.index[s] \ {m[1] : m \in {k \in moved : k[2] = s}})
                \cup {HotID(m[1], s, time) : m \in {k \in moved : k[2] = s}}],
         displaced |-> pt.displaced]

\* Mutant of Merge: the symbols stay in the partitions they come from.
MergeKeepsOld(pt, cold, time) ==
    LET id == ColdID(time)
        ids == DOMAIN pt.symbols \cup {id}
    IN  [symbols |-> [p \in ids |-> IF p = id THEN cold ELSE pt.symbols[p]],
         workers |-> [p \in ids |-> IF p = id THEN {IdleWorker} ELSE pt.workers[p]],
         index |-> [s \in Symbol |-> IF s \in cold THEN {id} ELSE pt.index[s]],
         displaced |-> pt.displaced]

\* mergeColdSymbols: the cold symbols move to one new partition, which takes
\* the place of the one that had its name.
Merge(pt, cold, time) ==
    LET id == ColdID(time)
        ids == DOMAIN pt.symbols \cup {id}
    IN  [symbols |-> [p \in ids |-> IF p = id THEN cold ELSE pt.symbols[p] \ cold],
         workers |-> [p \in ids |-> IF p = id THEN {IdleWorker} ELSE pt.workers[p]],
         index |-> [s \in Symbol |-> IF s \in cold THEN {id} ELSE pt.index[s]],
         displaced |-> pt.displaced \cup
            (IF id \in DOMAIN pt.symbols THEN pt.symbols[id] \ cold ELSE {})]

\* The tables scaleIfNeeded may write under a load.  The range loop of
\* splitHotSymbols comes by some of the partitions it has inserted; those it
\* inserts then it leaves out, a bound of the model.
Scaled(pt, load) ==
    LET placed == UNION {pt.symbols[p] : p \in DOMAIN pt.symbols}
        hot == load.hot \cap placed
        cold == load.cold \cap placed
        First(time) == Split(pt, DOMAIN pt.symbols, hot, time)
        Inserted(time) == DOMAIN First(time).symbols \ DOMAIN pt.symbols
        Rescaled(time, again) ==
            LET split == Split(First(time), again, hot, time)
            IN  IF Cardinality(cold) > 1 THEN Merge(split, cold, time) ELSE split
    IN  IF hot = {} /\ Cardinality(cold) <= 1 THEN {}
        ELSE UNION {{Rescaled(time, again) : again \in SUBSET Inserted(time)} : time \in Time}

-----------------------------------------------------------------------------
(* A tick: scaleIfNeeded computes a table and calls UpdatePartitionTable,  *)
(* which stores it, marshals the cache and puts it.                        *)

ScaleIfNeeded(n) ==
    /\ tick[n] = "waiting"
    /\ changes < MaxChanges
    /\ changes' = changes + 1
    /\ \E load \in Load : \E pt \in Scaled(cache[n], load) :
          payload' = [payload EXCEPT ![n] = pt]
    /\ tick' = [tick EXCEPT ![n] = "store"]
    /\ UNCHANGED <<table, cache, watch, engine, unsaved>>

UpdatePartitionTable(n) ==
    /\ tick[n] = "store"
    /\ cache' = [cache EXCEPT ![n] = payload[n]]
    /\ tick' = [tick EXCEPT ![n] = "marshal"]
    /\ UNCHANGED <<table, watch, payload, engine, unsaved, changes>>

\* SaveToConsul marshals whatever the cache now holds.
Marshal(n) ==
    /\ tick[n] = "marshal"
    /\ payload' = [payload EXCEPT ![n] = cache[n]]
    /\ tick' = [tick EXCEPT ![n] = "put"]
    /\ UNCHANGED <<table, cache, watch, engine, unsaved, changes>>

EndTick(n) ==
    /\ tick' = [tick EXCEPT ![n] = "waiting"]
    /\ payload' = [payload EXCEPT ![n] = None]

\* kv.Put is made, whether or not its answer arrives: the caller of
\* UpdatePartitionTable does not look at it.
Put(n) ==
    /\ tick[n] = "put"
    /\ table' = [pt |-> payload[n], index |-> table.index + 1]
    /\ EndTick(n)
    /\ UNCHANGED <<cache, watch, engine, unsaved, changes>>

PutFails(n) ==
    /\ tick[n] = "put"
    /\ unsaved' = [unsaved EXCEPT ![n] = cache[n] # table.pt]
    /\ EndTick(n)
    /\ UNCHANGED <<table, cache, watch, engine, changes>>

-----------------------------------------------------------------------------
\* The blocking query of WatchPartitionTable returns: the index has moved.
\* Errors and timeouts lead back to the same query.
WatchGet(n) ==
    /\ fetched[n] = None
    /\ table.index > lastIndex[n]
    /\ lastIndex' = [lastIndex EXCEPT ![n] = table.index]
    /\ fetched' = [fetched EXCEPT ![n] = table.pt]
    /\ UNCHANGED <<table, cache, scaler, engine, unsaved, changes>>

WatchStore(n) ==
    /\ fetched[n] # None
    /\ cache' = [cache EXCEPT ![n] = fetched[n]]
    /\ fetched' = [fetched EXCEPT ![n] = None]
    /\ unsaved' = [unsaved EXCEPT ![n] = FALSE]
    /\ UNCHANGED <<table, lastIndex, scaler, engine, changes>>

\* Mutant of WatchPartitionChange: no symbol is ever unsubscribed.
WatchPartitionChangeOnlyAdds(n) ==
    LET mySymbols == Assigned(cache[n], n)
    IN  /\ watched' = [watched EXCEPT ![n] = @ \cup (mySymbols \ lastSymbols[n])]
        /\ lastSymbols' = [lastSymbols EXCEPT ![n] = mySymbols]
        /\ fsms' = [fsms EXCEPT ![n] = Owned(cache[n], n)]
        /\ UNCHANGED <<table, cache, watch, scaler, unsaved, changes>>

\* An iteration of watchPartitionChange.
WatchPartitionChange(n) ==
    LET mySymbols == Assigned(cache[n], n)
    IN  /\ watched' = [watched EXCEPT ![n] =
                          (@ \cup (mySymbols \ lastSymbols[n])) \ (lastSymbols[n] \ mySymbols)]
        /\ lastSymbols' = [lastSymbols EXCEPT ![n] = mySymbols]
        /\ fsms' = [fsms EXCEPT ![n] = Owned(cache[n], n)]
        /\ UNCHANGED <<table, cache, watch, scaler, unsaved, changes>>

\* The process of a node dies and a new one loads the table (LoadFromConsul).
Restart(n) ==
    /\ changes < MaxChanges
    /\ changes' = changes + 1
    /\ cache' = [cache EXCEPT ![n] = table.pt]
    /\ lastIndex' = [lastIndex EXCEPT ![n] = 0]
    /\ fetched' = [fetched EXCEPT ![n] = None]
    /\ EndTick(n)
    /\ watched' = [watched EXCEPT ![n] = {}]
    /\ lastSymbols' = [lastSymbols EXCEPT ![n] = {}]
    /\ fsms' = [fsms EXCEPT ![n] = {}]
    /\ unsaved' = [unsaved EXCEPT ![n] = FALSE]
    /\ UNCHANGED table

Save(n) == UpdatePartitionTable(n) \/ Marshal(n) \/ Put(n) \/ PutFails(n)

Watch(n) == WatchGet(n) \/ WatchStore(n)

TableNext ==
    \E n \in Node :
        \/ ScaleIfNeeded(n)
        \/ Save(n)
        \/ Watch(n)
        \/ WatchPartitionChange(n)
        \/ Restart(n)

\* The goroutines of a node run on; the autoscaler need not find anything to
\* do, and nodes need not restart.
TableFairness ==
    \A n \in Node :
        /\ WF_tableVars(Save(n))
        /\ WF_tableVars(Watch(n))
        /\ WF_tableVars(WatchPartitionChange(n))

TableSpec == TableInit /\ [][TableNext]_tableVars /\ TableFairness

-----------------------------------------------------------------------------
(* Properties.                                                             *)

Placements(pt, s) == {p \in DOMAIN pt.symbols : s \in pt.symbols[p]}

Tables == {table.pt} \cup {cache[n] : n \in Node}

\* The index by symbol and the partitions are two views of one assignment, in
\* every table any node reads, whatever is split and merged on whichever stale
\* copy: an indexed partition exists (DistributedRouteMiddleware dereferences
\* it), and a symbol has a place and is indexed exactly where it is placed,
\* unless a merge has taken the name of the cold partition it was in.
SymbolsPlaced ==
    \A pt \in Tables : \A s \in Symbol :
        /\ pt.index[s] # {} /\ pt.index[s] \subseteq DOMAIN pt.symbols
        /\ s \notin pt.displaced => pt.index[s] = Placements(pt, s)

\* The node accepts the orders, and has the state machines, of the shared table.
Follows(n) ==
    /\ cache[n] = table.pt
    /\ watched[n] = Assigned(table.pt, n)
    /\ fsms[n] = Owned(table.pt, n)

\* When the changes end, every node comes to follow the table in Consul, even
\* if its watch and its autoscaler overwrote each other's cache on the way,
\* unless the save of its own table failed: then it goes on with that one.
NodesFollowTable == <>[](\A n \in Node : Follows(n) \/ unsaved[n])

-----------------------------------------------------------------------------
(* The invariant SymbolsPlaced follows from.                               *)

\* The strings that ids are made of.
Word ==
    {"hot", "cold"} \cup Symbol \cup Time
        \cup UNION {{id[k] : k \in 1 .. Len(id)} : id \in DOMAIN FirstTable.symbols}

\* A partition that was split off has no symbol but the one in its name.  A new
\* partition may take the name of an old one, which is then all it displaces.
IsHot(id) == Len(id) >= 3 /\ id[Len(id) - 2] = "hot"
HotSymbol(id) == id[Len(id) - 1]
HotHoldsItsSymbol(pt) ==
    \A id \in DOMAIN pt.symbols : IsHot(id) => pt.symbols[id] \subseteq {HotSymbol(id)}

\* What the code relies on in a table: index and partitions agree on a symbol.
Agree(pt, s) ==
    /\ pt.index[s] # {} /\ pt.index[s] \subseteq DOMAIN pt.symbols
    /\ s \notin pt.displaced => pt.index[s] = Placements(pt, s)

Sound(pt) ==
    /\ DOMAIN pt.symbols \subseteq Seq(Word)
    /\ HotHoldsItsSymbol(pt)
    /\ \A s \in Symbol : Agree(pt, s)

\* The table to start from, which the code does not make, is.
ASSUME FirstTableAssumption == Sound(FirstTable)

\* Every copy of the table is sound: the shared one, the caches, the one a watch
\* has read and the one an autoscaler is about to store or to put.
TableInv ==
    /\ DOMAIN cache = Node /\ DOMAIN fetched = Node
    /\ DOMAIN tick = Node /\ DOMAIN payload = Node
    /\ Sound(table.pt)
    /\ \A n \in Node :
        /\ Sound(cache[n])
        /\ fetched[n] # None => Sound(fetched[n])
        /\ tick[n] # "waiting" => Sound(payload[n])
=============================================================================
