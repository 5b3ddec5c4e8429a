------------------------------ MODULE NodeIDs ------------------------------
(***************************************************************************)
(* Node ids (biz/service/node_id_manager.go) and the sequence numbers      *)
(* built from them (biz/service/sequencer.go), for nodes that start, crash *)
(* and restart.  A node is its address: one process at a time runs under   *)
(* it.                                                                     *)
(*                                                                         *)
(* Consul (external) keeps a registry entry per address and one counter;   *)
(* every write of the counter makes it larger, so its value stands for its *)
(* ModifyIndex, and 0 for a key that does not exist.                       *)
(***************************************************************************)
EXTENDS Integers, FiniteSets

CONSTANTS
    Node,
    MaxNodeID,  \* 1023 in the code
    MaxRetries, \* attempts of allocateNewNodeID, 3 in the code
    LocalSpan,  \* 2^40 in the code: numbers the local part can tell apart
    MaxRuns,    \* bound on the starts of a node
    MaxLocal    \* bound on the numbers drawn in a run

ASSUME LimitAssumption ==
    MaxNodeID \in Nat /\ MaxRetries \in Nat \ {0} /\ LocalSpan \in Nat \ {0}

ASSUME BoundAssumption == MaxRuns \in Nat /\ MaxLocal \in Nat

VARIABLES
    registry,  \* registry[node], the NodeID of its entry, 0 for none
    counter,   \* the counter key, 0 for none
    pc,        \* where each node is in its start
    attempt,   \* failed attempts of allocateNewNodeID
    seen,      \* the counter as the attempt read it
    allocated, \* the id it won by CAS and has not registered yet, or 0
    nodeID,    \* the id of its sequencer, 0 for single-node mode
    localSeq,  \* of its sequencer
    run,       \* how often it has been started
    issued     \* history: the numbers drawn

consul == <<registry, counter>>
vars == <<consul, pc, attempt, seen, allocated, nodeID, localSeq, run, issued>>

Draw == [node : Node, run : Nat, id : Nat, local : Nat]

TypeOK ==
    /\ registry \in [Node -> Nat]
    /\ counter \in Nat
    /\ pc \in [Node -> {"down", "lookup", "read", "cas", "register", "up"}]
    /\ attempt \in [Node -> Nat]
    /\ seen \in [Node -> Nat]
    /\ allocated \in [Node -> Nat]
    /\ nodeID \in [Node -> Nat]
    /\ localSeq \in [Node -> Nat]
    /\ run \in [Node -> Nat]
    /\ issued \subseteq Draw

Init ==
    /\ registry = [n \in Node |-> 0]
    /\ counter = 0
    /\ pc = [n \in Node |-> "down"]
    /\ attempt = [n \in Node |-> 0]
    /\ seen = [n \in Node |-> 0]
    /\ allocated = [n \in Node |-> 0]
    /\ nodeID = [n \in Node |-> 0]
    /\ localSeq = [n \in Node |-> 0]
    /\ run = [n \in Node |-> 0]
    /\ issued = {}

-----------------------------------------------------------------------------
Goto(n, label) == pc' = [pc EXCEPT ![n] = label]

\* The engine is built around a sequencer with this id; the locals of the
\* allocation end.
Serve(n, id) ==
    /\ Goto(n, "up")
    /\ nodeID' = [nodeID EXCEPT ![n] = id]
    /\ attempt' = [attempt EXCEPT ![n] = 0]
    /\ seen' = [seen EXCEPT ![n] = 0]
    /\ allocated' = [allocated EXCEPT ![n] = 0]

Start(n) ==
    /\ pc[n] = "down"
    /\ run[n] < MaxRuns
    /\ run' = [run EXCEPT ![n] = @ + 1]
    /\ Goto(n, "lookup")
    /\ UNCHANGED <<consul, attempt, seen, allocated, nodeID, localSeq, issued>>

\* Step 1 of GetOrAllocateNodeID: a registered node reuses its id.  An entry that
\* does not parse would count as none; Register, the only writer of the prefix,
\* stores none like it.
Lookup(n) ==
    /\ pc[n] = "lookup"
    /\ IF registry[n] # 0 THEN Serve(n, registry[n])
       ELSE Goto(n, "read") /\ UNCHANGED <<attempt, seen, allocated, nodeID>>
    /\ UNCHANGED <<consul, localSeq, run, issued>>

\* The id an attempt goes for: ids start from 1.
CurrentID(value) == IF value = 0 THEN 1 ELSE value

\* allocateNewNodeID reads the counter; past the last id there is an error,
\* and the engine falls back to 0.
ReadCounter(n) ==
    /\ pc[n] = "read"
    /\ IF CurrentID(counter) > MaxNodeID THEN Serve(n, 0)
       ELSE /\ seen' = [seen EXCEPT ![n] = counter]
            /\ Goto(n, "cas")
            /\ UNCHANGED <<attempt, allocated, nodeID>>
    /\ UNCHANGED <<consul, localSeq, run, issued>>

\* Mutant of CompareAndSwap: a plain Put.
CompareAndSwapBlindly(n) ==
    /\ pc[n] = "cas"
    /\ counter' = CurrentID(seen[n]) + 1
    /\ allocated' = [allocated EXCEPT ![n] = CurrentID(seen[n])]
    /\ Goto(n, "register")
    /\ UNCHANGED <<registry, attempt, seen, nodeID, localSeq, run, issued>>

\* kv.CAS on the counter as read; a conflict is tried again, MaxRetries times
\* in all.
CompareAndSwap(n) ==
    /\ pc[n] = "cas"
    /\ IF counter = seen[n]
       THEN /\ counter' = CurrentID(seen[n]) + 1
            /\ allocated' = [allocated EXCEPT ![n] = CurrentID(seen[n])]
            /\ Goto(n, "register")
            /\ UNCHANGED <<attempt, seen, nodeID>>
       ELSE /\ IF attempt[n] + 1 = MaxRetries THEN Serve(n, 0)
               ELSE /\ attempt' = [attempt EXCEPT ![n] = @ + 1]
                    /\ Goto(n, "read")
                    /\ UNCHANGED <<seen, allocated, nodeID>>
            /\ UNCHANGED counter
    /\ UNCHANGED <<registry, localSeq, run, issued>>

\* Mutant of Register: the node serves and the entry is not saved.
RegisterNothing(n) ==
    /\ pc[n] = "register"
    /\ Serve(n, allocated[n])
    /\ UNCHANGED <<registry, counter, localSeq, run, issued>>

\* Step 3 of GetOrAllocateNodeID: kv.Put of the registry entry.
Register(n) ==
    /\ pc[n] = "register"
    /\ registry' = [registry EXCEPT ![n] = allocated[n]]
    /\ Serve(n, allocated[n])
    /\ UNCHANGED <<counter, localSeq, run, issued>>

\* A call to Consul fails, and the engine falls back to 0.  A write whose
\* answer is lost may have been made.
ConsulFails(n) ==
    /\ pc[n] \in {"lookup", "read", "cas", "register"}
    /\ \/ UNCHANGED consul
       \/ /\ pc[n] = "cas" /\ counter = seen[n]
          /\ counter' = CurrentID(seen[n]) + 1
          /\ UNCHANGED registry
       \/ /\ pc[n] = "register"
          /\ registry' = [registry EXCEPT ![n] = allocated[n]]
          /\ UNCHANGED counter
    /\ Serve(n, 0)
    /\ UNCHANGED <<localSeq, run, issued>>

\* The process dies; what it had in memory is gone.
Crash(n) ==
    /\ pc[n] # "down"
    /\ Goto(n, "down")
    /\ attempt' = [attempt EXCEPT ![n] = 0]
    /\ seen' = [seen EXCEPT ![n] = 0]
    /\ allocated' = [allocated EXCEPT ![n] = 0]
    /\ nodeID' = [nodeID EXCEPT ![n] = 0]
    /\ localSeq' = [localSeq EXCEPT ![n] = 0]
    /\ UNCHANGED <<consul, run, issued>>

-----------------------------------------------------------------------------
\* Mutant of Number: the node part is not shifted.
NumberUnshifted(id, local) == IF id = 0 THEN local ELSE id + (local % LocalSpan)

\* (NodeID << 40) | LocalSeq, and LocalSeq alone in single-node mode.
Number(id, local) == IF id = 0 THEN local ELSE id * LocalSpan + (local % LocalSpan)

NextGlobalSeq(n) ==
    /\ pc[n] = "up"
    /\ localSeq[n] < MaxLocal
    /\ localSeq' = [localSeq EXCEPT ![n] = @ + 1]
    /\ issued' = issued \cup
          {[node |-> n, run |-> run[n], id |-> nodeID[n], local |-> localSeq[n] + 1]}
    /\ UNCHANGED <<consul, pc, attempt, seen, allocated, nodeID, run>>

Next ==
    \E n \in Node :
        \/ Start(n)
        \/ Lookup(n)
        \/ ReadCounter(n)
        \/ CompareAndSwap(n)
        \/ Register(n)
        \/ ConsulFails(n)
        \/ Crash(n)
        \/ NextGlobalSeq(n)

Spec == Init /\ [][Next]_vars

-----------------------------------------------------------------------------
(* Properties.                                                             *)

\* allocateNewNodeID is an "原子操作，避免重复" (atomic, avoids duplicates): two
\* nodes never serve under one id, over any crashes, lost answers, conflicts
\* and restarts, but for 0, which any number of nodes may fall back to.
NodeIDsUnique ==
    \A m, n \in Node : m # n /\ nodeID[m] # 0 => nodeID[m] # nodeID[n]

\* "确保同一个节点在重启后仍然获得相同的NodeID" (a node gets the same NodeID after a
\* restart): all runs of a node that drew numbers under an id drew them under
\* the same one, those that fell back to 0 apart.
SameIDAfterRestart ==
    \A a, b \in issued : a.node = b.node /\ a.id # 0 /\ b.id # 0 => a.id = b.id

\* "确保全局唯一的seq" (makes seq globally unique): two numbers are the same only
\* if one node drew them in two runs, or both were drawn in single-node mode,
\* or one is past the LocalSpan of its run.
NumbersUnique ==
    \A a, b \in issued :
        a # b /\ Number(a.id, a.local) = Number(b.id, b.local) =>
            \/ a.node = b.node /\ a.run # b.run
            \/ a.id = 0 /\ b.id = 0
            \/ a.local >= LocalSpan \/ b.local >= LocalSpan

-----------------------------------------------------------------------------
(* The inductive invariant.                                                *)

\* The ids that belong to a node, registered or about to be.
Holds(n) == {registry[n], allocated[n]} \ {0}

\* Ids in use are below the counter, and no two nodes hold the same one.
HeldByOne ==
    /\ \A n \in Node : \A id \in Holds(n) : id < counter
    /\ \A m, n \in Node : m # n => Holds(m) \cap Holds(n) = {}

\* A node serves and draws under its registered id or 0, and a node that is
\* allocating has none registered.
ServesRegistered ==
    /\ \A n \in Node : nodeID[n] \in {0, registry[n]}
    /\ \A n \in Node : pc[n] \in {"read", "cas", "register"} => registry[n] = 0
    /\ \A a \in issued : a.id \in {0, registry[a.node]}

Inv == TypeOK /\ HeldByOne /\ ServesRegistered
=============================================================================
