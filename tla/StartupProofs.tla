--------------------------- MODULE StartupProofs ----------------------------
(***************************************************************************)
(* What a node does when it starts.  It takes an id, under which it draws  *)
(* sequence numbers: for any number of nodes, restarts and ids.  It        *)
(* recovers its processors from checkpoints and log: for any number of     *)
(* nodes and processors, any limit on a query, with and without a lock     *)
(* manager.                                                                *)
(***************************************************************************)
EXTENDS NodeIDs, Recovery, TLAPS

\* Two node parts leave room for any local part.
LEMMA Shifted ==
    ASSUME NEW i \in Nat, NEW j \in Nat, i < j,
           NEW a \in 0 .. LocalSpan - 1, NEW b \in 0 .. LocalSpan - 1
    PROVE  i * LocalSpan + a < j * LocalSpan + b
  <1>0. LocalSpan \in Nat /\ LocalSpan > 0
    BY LimitAssumption
  <1>1. PICK d \in Nat : j = i + 1 + d
    <2>1. j - i - 1 \in Nat /\ j = i + 1 + (j - i - 1)
      OBVIOUS
    <2> QED BY <2>1, Zenon
  <1>2. (i + 1 + d) * LocalSpan = i * LocalSpan + LocalSpan + d * LocalSpan
    BY <1>0, <1>1
  <1>3. d * LocalSpan \in Nat /\ i * LocalSpan \in Nat
    BY <1>0, <1>1
  <1> QED BY <1>0, <1>1, <1>2, <1>3

\* Numbers drawn under different ids, before either local part wraps, differ.
LEMMA DifferentIDs ==
    ASSUME NEW i \in Nat, NEW j \in Nat, i # j,
           NEW a \in Nat, NEW b \in Nat, a < LocalSpan, b < LocalSpan
    PROVE  Number(i, a) # Number(j, b)
  <1>0. LocalSpan \in Nat /\ LocalSpan > 0
    BY LimitAssumption
  <1>1. a % LocalSpan = a /\ b % LocalSpan = b
    BY <1>0
  <1>2. Number(i, a) = i * LocalSpan + a /\ Number(j, b) = j * LocalSpan + b
    BY <1>0, <1>1 DEF Number
  <1>3. CASE i < j
    BY <1>0, <1>2, <1>3, Shifted
  <1>4. CASE j < i
    <2>1. j * LocalSpan + b < i * LocalSpan + a
      BY <1>0, <1>4, Shifted
    <2> QED BY <1>2, <2>1, <1>0
  <1> QED BY <1>3, <1>4

\* Numbers drawn under one id, before either local part wraps, differ as the
\* local parts do.
LEMMA DifferentLocals ==
    ASSUME NEW i \in Nat, NEW a \in Nat, NEW b \in Nat,
           a < LocalSpan, b < LocalSpan, a # b
    PROVE  Number(i, a) # Number(i, b)
  <1>0. LocalSpan \in Nat /\ LocalSpan > 0
    BY LimitAssumption
  <1>1. a % LocalSpan = a /\ b % LocalSpan = b
    BY <1>0
  <1>2. i * LocalSpan \in Nat
    BY <1>0
  <1> QED BY <1>0, <1>1, <1>2 DEF Number

-----------------------------------------------------------------------------
\* Before the first start the invariant holds.
LEMMA InitInv == Init => Inv
  BY DEF Init, Inv, TypeOK, HeldByOne, ServesRegistered, Holds

\* A step of node n that changes nothing in Consul, gives no node an id to
\* hold it did not hold, draws no number and lets n serve under 0 or its
\* registered id keeps the invariant.
LEMMA LocalStep ==
    ASSUME Inv, TypeOK', UNCHANGED <<registry, counter, issued>>,
           \A m \in Node : allocated'[m] \in {0, allocated[m]},
           \A m \in Node : nodeID'[m] \in {0, nodeID[m], registry[m]},
           \A m \in Node : pc'[m] \in {"read", "cas", "register"} =>
               pc[m] \in {"read", "cas", "register"} \/ registry[m] = 0
    PROVE  Inv'
  <1>1. \A m \in Node : Holds(m)' \subseteq Holds(m)
    BY Zenon DEF Holds
  <1>2. HeldByOne'
    BY <1>1, Zenon DEF Inv, HeldByOne
  <1>3. ServesRegistered'
    BY Zenon DEF Inv, ServesRegistered, TypeOK
  <1> QED BY <1>2, <1>3, Zenon DEF Inv

\* The counter only moves past the id that was won.
LEMMA NextIDIsFree ==
    ASSUME Inv
    PROVE  /\ CurrentID(counter) \in Nat \ {0}
           /\ CurrentID(counter) + 1 > counter
           /\ \A m \in Node : CurrentID(counter) \notin Holds(m)
  BY DEF Inv, TypeOK, HeldByOne, CurrentID

\* A registry entry for the id that was won, made by a node that then serves
\* under it or under 0, keeps the invariant.
LEMMA Registered ==
    ASSUME Inv, TypeOK', NEW n \in Node, pc[n] = "register",
           registry' = [registry EXCEPT ![n] = allocated[n]],
           allocated' = [allocated EXCEPT ![n] = 0],
           nodeID' = [nodeID EXCEPT ![n] = allocated[n]] \/
               nodeID' = [nodeID EXCEPT ![n] = 0],
           pc' = [pc EXCEPT ![n] = "up"],
           UNCHANGED <<counter, issued>>
    PROVE  Inv'
  <1>0. TypeOK
    BY Zenon DEF Inv
  <1>1. registry[n] = 0
    BY Zenon DEF Inv, ServesRegistered
  <1>2. \A m \in Node : Holds(m)' = Holds(m)
    BY <1>0, <1>1, Zenon DEF Holds, TypeOK
  <1>3. HeldByOne'
    BY <1>2, Zenon DEF Inv, HeldByOne
  <1>4. \A m \in Node : nodeID'[m] \in {0, registry'[m]}
    BY <1>0 DEF Inv, ServesRegistered, TypeOK
  <1>5. \A m \in Node : pc'[m] \in {"read", "cas", "register"} => registry'[m] = 0
    BY <1>0, Zenon DEF Inv, ServesRegistered, TypeOK
  <1>6. \A a \in issued' : a.id \in {0, registry'[a.node]}
    BY <1>0, <1>1, Zenon DEF Inv, ServesRegistered, TypeOK, Draw
  <1> QED BY <1>3, <1>4, <1>5, <1>6, Zenon DEF Inv, ServesRegistered

\* Every step keeps the invariant: starts, allocation, failures of Consul,
\* crashes and drawing of numbers.
LEMMA NextInv ==
    ASSUME Inv, [Next]_vars
    PROVE  Inv'
  <1>0. TypeOK
    BY Zenon DEF Inv
  <1>1. ASSUME NEW n \in Node, Start(n)
        PROVE  Inv'
    <2>1. TypeOK'
      BY <1>0, <1>1, BoundAssumption DEF Start, Goto, TypeOK, consul
    <2> QED BY <1>0, <1>1, <2>1, LocalStep, Zenon DEF Start, Goto, TypeOK, consul
  <1>2. ASSUME NEW n \in Node, Lookup(n)
        PROVE  Inv'
    <2>1. TypeOK'
      BY <1>0, <1>2 DEF Lookup, Serve, Goto, TypeOK, consul
    <2> QED BY <1>0, <1>2, <2>1, LocalStep DEF Lookup, Serve, Goto, TypeOK, consul
  <1>3. ASSUME NEW n \in Node, ReadCounter(n)
        PROVE  Inv'
    <2>1. TypeOK'
      BY <1>0, <1>3 DEF ReadCounter, Serve, Goto, TypeOK, consul
    <2> QED BY <1>0, <1>3, <2>1, LocalStep DEF ReadCounter, Serve, Goto, TypeOK, consul
  <1>4. ASSUME NEW n \in Node, CompareAndSwap(n)
        PROVE  Inv'
    <2>1. CASE counter # seen[n]
      <3>1. TypeOK'
        BY <1>0, <1>4, <2>1 DEF CompareAndSwap, Serve, Goto, TypeOK
      <3> QED BY <1>0, <1>4, <2>1, <3>1, LocalStep
              DEF CompareAndSwap, Serve, Goto, TypeOK
    <2>2. CASE counter = seen[n]
      <3> DEFINE id == CurrentID(counter)
      <3>1. id \in Nat \ {0} /\ id + 1 > counter /\ \A m \in Node : id \notin Holds(m)
        BY NextIDIsFree, Zenon
      <3> HIDE DEF id
      <3>2. /\ counter' = id + 1
            /\ allocated' = [allocated EXCEPT ![n] = id]
            /\ pc' = [pc EXCEPT ![n] = "register"]
            /\ pc[n] = "cas"
            /\ UNCHANGED <<registry, attempt, seen, nodeID, localSeq, run, issued>>
        BY <1>4, <2>2, Zenon DEF CompareAndSwap, Goto, id
      <3>3. TypeOK'
        BY <1>0, <3>1, <3>2 DEF TypeOK
      <3>4. /\ Holds(n)' \subseteq Holds(n) \cup {id}
            /\ \A m \in Node \ {n} : Holds(m)' = Holds(m)
        BY <1>0, <3>2, Zenon DEF Holds, TypeOK
      <3>5. HeldByOne'
        <4>1. \A m \in Node : \A x \in Holds(m) : x < id + 1 /\ x # id
          BY <1>0, <3>1 DEF Inv, HeldByOne, TypeOK, Holds
        <4> QED BY <3>1, <3>2, <3>4, <4>1 DEF Inv, HeldByOne
      <3>6. ServesRegistered'
        BY <1>0, <3>2, Zenon DEF Inv, ServesRegistered, TypeOK
      <3> QED BY <3>3, <3>5, <3>6, Zenon DEF Inv
    <2> QED BY <2>1, <2>2, Zenon
  <1>5. ASSUME NEW n \in Node, Register(n)
        PROVE  Inv'
    <2>1. /\ registry' = [registry EXCEPT ![n] = allocated[n]]
          /\ allocated' = [allocated EXCEPT ![n] = 0]
          /\ nodeID' = [nodeID EXCEPT ![n] = allocated[n]]
          /\ pc[n] = "register"
          /\ pc' = [pc EXCEPT ![n] = "up"]
          /\ UNCHANGED <<counter, issued>>
      BY <1>5, Zenon DEF Register, Serve, Goto
    <2>2. TypeOK'
      BY <1>0, <1>5, Zenon DEF Register, Serve, Goto, TypeOK
    <2> QED BY <1>0, <2>1, <2>2, Registered, Zenon
  <1>6. ASSUME NEW n \in Node, ConsulFails(n)
        PROVE  Inv'
    <2>1. /\ allocated' = [allocated EXCEPT ![n] = 0]
          /\ nodeID' = [nodeID EXCEPT ![n] = 0]
          /\ pc' = [pc EXCEPT ![n] = "up"]
          /\ attempt' = [attempt EXCEPT ![n] = 0]
          /\ seen' = [seen EXCEPT ![n] = 0]
          /\ UNCHANGED <<localSeq, run, issued>>
      BY <1>6, Zenon DEF ConsulFails, Serve, Goto
    <2>2. CASE UNCHANGED consul
      <3>1. TypeOK'
        BY <1>0, <2>1, <2>2, Zenon DEF TypeOK, consul
      <3> QED BY <1>0, <2>1, <2>2, <3>1, LocalStep, Zenon DEF TypeOK, consul
    <2>3. CASE counter' = CurrentID(seen[n]) + 1 /\ counter = seen[n] /\ UNCHANGED registry
      <3>1. counter' \in Nat /\ counter' > counter
        BY <1>0, <2>3 DEF CurrentID, TypeOK
      <3>2. TypeOK'
        BY <1>0, <2>1, <2>3, <3>1, Zenon DEF TypeOK
      <3>3. \A m \in Node : Holds(m)' \subseteq Holds(m) /\ Holds(m) \subseteq Nat
        BY <1>0, <2>1, <2>3, Zenon DEF Holds, TypeOK
      <3>4. HeldByOne'
        BY <1>0, <3>1, <3>3 DEF Inv, HeldByOne, TypeOK
      <3>5. ServesRegistered'
        BY <1>0, <2>1, <2>3, Zenon DEF Inv, ServesRegistered, TypeOK
      <3> QED BY <3>2, <3>4, <3>5, Zenon DEF Inv
    <2>4. CASE /\ pc[n] = "register"
               /\ registry' = [registry EXCEPT ![n] = allocated[n]]
               /\ UNCHANGED counter
      <3>1. TypeOK'
        BY <1>0, <2>1, <2>4, Zenon DEF TypeOK
      <3> QED BY <1>0, <2>1, <2>4, <3>1, Registered, Zenon
    <2> QED BY <1>6, <2>2, <2>3, <2>4, Zenon DEF ConsulFails
  <1>7. ASSUME NEW n \in Node, Crash(n)
        PROVE  Inv'
    <2>1. TypeOK'
      BY <1>0, <1>7, Zenon DEF Crash, Goto, TypeOK, consul
    <2> QED BY <1>0, <1>7, <2>1, LocalStep, Zenon DEF Crash, Goto, TypeOK, consul
  <1>8. ASSUME NEW n \in Node, NextGlobalSeq(n)
        PROVE  Inv'
    <2>1. TypeOK'
      BY <1>0, <1>8, BoundAssumption DEF NextGlobalSeq, TypeOK, Draw, consul
    <2>2. \A m \in Node : Holds(m)' = Holds(m)
      BY <1>8, Zenon DEF NextGlobalSeq, Holds, consul
    <2>3. HeldByOne'
      BY <1>8, <2>2, Zenon DEF Inv, HeldByOne, NextGlobalSeq, consul
    <2>4. ServesRegistered'
      BY <1>8 DEF Inv, ServesRegistered, NextGlobalSeq, consul
    <2> QED BY <2>1, <2>3, <2>4, Zenon DEF Inv
  <1>9. CASE UNCHANGED vars
    BY <1>9, Zenon DEF Inv, TypeOK, HeldByOne, ServesRegistered, Holds, vars, consul
  <1> QED BY <1>1, <1>2, <1>3, <1>4, <1>5, <1>6, <1>7, <1>8, <1>9, Zenon DEF Next

-----------------------------------------------------------------------------
\* Consul's counter and registry tell the nodes apart in every reachable
\* state.
THEOREM Invariance == Spec => []Inv
  BY InitInv, NextInv, PTL DEF Spec

\* No two nodes serve under one id, whatever crashes, conflicts and lost
\* answers happen to allocateNewNodeID.
THEOREM IDsAreUnique == Spec => []NodeIDsUnique
  <1>1. ASSUME Inv, NEW m \in Node, NEW n \in Node, m # n, nodeID[m] # 0, nodeID[m] = nodeID[n]
        PROVE  FALSE
    <2>1. nodeID[m] \in Holds(m) /\ nodeID[n] \in Holds(n)
      BY <1>1, Zenon DEF Inv, ServesRegistered, Holds
    <2> QED BY <1>1, <2>1, Zenon DEF Inv, HeldByOne
  <1>2. Inv => NodeIDsUnique
    BY <1>1, Zenon DEF NodeIDsUnique
  <1> QED BY <1>2, Invariance, PTL

\* GetOrAllocateNodeID gives a node the same id in all its runs.
THEOREM IDsSurviveRestarts == Spec => []SameIDAfterRestart
  <1>1. Inv => SameIDAfterRestart
    BY Zenon DEF Inv, ServesRegistered, SameIDAfterRestart
  <1> QED BY <1>1, Invariance, PTL

\* NextGlobalSeq gives one number twice only over a restart, in single-node
\* mode, or past the span of the local part.
THEOREM NumbersAreUnique == Spec => []NumbersUnique
  <1>1. ASSUME Inv, NEW a \in issued, NEW b \in issued, a # b,
               a.local < LocalSpan, b.local < LocalSpan,
               ~(a.id = 0 /\ b.id = 0), ~(a.node = b.node /\ a.run # b.run)
        PROVE  Number(a.id, a.local) # Number(b.id, b.local)
    <2>1. a \in Draw /\ b \in Draw
      BY <1>1, Zenon DEF Inv, TypeOK
    <2>2. CASE a.id # b.id
      BY <1>1, <2>1, <2>2, DifferentIDs, Zenon DEF Draw
    <2>3. CASE a.id = b.id
      <3>1. a.node = b.node
        <4>1. a.node \in Node /\ b.node \in Node /\ a.id # 0
          BY <1>1, <2>1, <2>3, Zenon DEF Draw
        <4>2. a.id = registry[a.node] /\ a.id = registry[b.node]
          BY <1>1, <2>3, <4>1, Zenon DEF Inv, ServesRegistered
        <4>3. a.id \in Holds(a.node) /\ a.id \in Holds(b.node)
          BY <4>1, <4>2, Zenon DEF Holds
        <4> QED BY <1>1, <4>1, <4>3, Zenon DEF Inv, HeldByOne
      <3>2. a.local # b.local
        BY <1>1, <2>1, <2>3, <3>1 DEF Draw
      <3> QED BY <1>1, <2>1, <2>3, <3>2, DifferentLocals, Zenon DEF Draw
    <2> QED BY <2>2, <2>3, Zenon
  <1>2. Inv => NumbersUnique
    <2>1. Inv => \A a \in issued : a.local \in Nat /\ LocalSpan \in Nat
      BY LimitAssumption, Zenon DEF Inv, TypeOK, Draw
    <2> QED BY <1>1, <2>1 DEF NumbersUnique
  <1> QED BY <1>2, Invariance, PTL

-----------------------------------------------------------------------------
(* Recovery.                                                               *)

\* Nodes that start on an empty database satisfy the invariant.
LEMMA RecoveryStarts == RecoveryInit => RecoveryInv
  <1> SUFFICES ASSUME RecoveryInit PROVE RecoveryInv
    BY Zenon
  <1>1. RecoveryTypeOK
    BY Zenon DEF RecoveryInit, RecoveryTypeOK, Idle, Stage, NoNode
  <1>2. NumberedBeforeRow /\ HoldsItsLock
    BY Zenon DEF RecoveryInit, NumberedBeforeRow, HoldsItsLock, Inside, Idle
  <1>. QED  BY <1>1, <1>2, Zenon DEF RecoveryInv

\* The number of an event is a natural number, and the next one is above it.
LEMMA NumberType ==
    ASSUME NEW n \in NodeID, NEW l \in Nat
    PROVE  GlobalSeq(n, l) \in Nat /\ GlobalSeq(n, l) < GlobalSeq(n, l + 1)
  <1>1. n \in Nat /\ Span \in Nat
    BY NumberAssumption, Zenon
  <1>2. n * Span \in Nat
    BY <1>1
  <1>. QED  BY <1>2 DEF GlobalSeq

\* A step that leaves the recoveries alone keeps the part of the invariant that
\* is about them.
LEMMA RecoveriesAlone ==
    ASSUME RecoveryInv, RecoveryTypeOK', NumberedBeforeRow',
           UNCHANGED <<phase, job, lock, expired>>
    PROVE  RecoveryInv'
  BY Zenon DEF RecoveryInv, HoldsItsLock, Inside

\* The events of a node that serves: Create and ProcessEventWithContext draw
\* numbers in turn, and the row gets the later one.
LEMMA ServingStep ==
    ASSUME RecoveryInv, NEW n \in NodeID,
           Create(n) \/ \E s \in created[n] : ProcessEventWithContext(n, s)
    PROVE  RecoveryInv'
  <1>0. RecoveryTypeOK /\ NumberedBeforeRow
    BY Zenon DEF RecoveryInv
  <1>1. /\ local \in [NodeID -> Nat] /\ created \in [NodeID -> SUBSET Nat]
        /\ rows \subseteq [row : Nat, seq : Nat]
        /\ last \in [NodeID -> [Item -> Nat]] /\ done \in [Item -> SUBSET Nat]
        /\ checkpoint \in [Item -> Nat]
    BY <1>0, Zenon DEF RecoveryTypeOK
  <1>2. /\ UNCHANGED <<lockMgr, validate, phase, pending, job, start, found, lock, expired, report>>
        /\ UNCHANGED status
    BY Zenon DEF Create, ProcessEventWithContext, PostgresAppendEvent, PostgresAppendFails,
           scenario, table, recovery
  <1> DEFINE l == local[n]
             new == GlobalSeq(n, l + 1)
  <1>3. l \in Nat /\ new \in Nat /\ GlobalSeq(n, l) < new /\ GlobalSeq(n, l) \in Nat
    BY <1>1, NumberType
  <1>4. local' = [local EXCEPT ![n] = l + 1]
    BY Zenon DEF Create, ProcessEventWithContext
  <1> HIDE DEF l
  <1>5. local' \in [NodeID -> Nat] /\ local'[n] = l + 1 /\ \A m \in NodeID \ {n} : local'[m] = local[m]
    BY <1>1, <1>3, <1>4
  <1>6. ASSUME created' \in [NodeID -> SUBSET Nat],
               \A m \in NodeID : created'[m] \subseteq created[m] \/ (m = n /\ created'[n] \subseteq created[n] \cup {new}),
               rows' \subseteq [row : Nat, seq : Nat],
               \A r \in rows' : r \in rows \/ r.seq < r.row,
               last' \in [NodeID -> [Item -> Nat]], done' \in [Item -> SUBSET Nat],
               checkpoint' \in [Item -> Nat]
        PROVE  RecoveryInv'
    <2>1. RecoveryTypeOK'
      BY <1>0, <1>2, <1>5, <1>6, Zenon DEF RecoveryTypeOK
    <2>2. ASSUME NEW m \in NodeID, NEW s \in created'[m] PROVE s <= GlobalSeq(m, local'[m])
      <3>1. CASE m = n
        <4>1. GlobalSeq(n, local'[n]) = new
          BY <1>5, Zenon
        <4>2. s \in Nat /\ (s = new \/ s <= GlobalSeq(n, l))
          BY <1>0, <1>6, <2>2, <3>1, Zenon DEF NumberedBeforeRow, l
        <4> HIDE DEF new
        <4>. QED  BY <1>3, <3>1, <4>1, <4>2
      <3>2. CASE m # n
        BY <1>0, <1>5, <1>6, <2>2, <3>2, Zenon DEF NumberedBeforeRow
      <3>. QED  BY <3>1, <3>2, Zenon
    <2>3. \A r \in rows' : r.seq < r.row
      BY <1>0, <1>6, Zenon DEF NumberedBeforeRow
    <2>4. NumberedBeforeRow'
      BY <2>2, <2>3, Zenon DEF NumberedBeforeRow, GlobalSeq
    <2>. QED  BY <1>2, <2>1, <2>4, RecoveriesAlone, Zenon
  <1>7. CASE Create(n)
    <2>1. created' = [created EXCEPT ![n] = @ \cup {new}] /\ UNCHANGED <<rows, last, done, checkpoint>>
      BY <1>7, Zenon DEF Create, table, l
    <2> HIDE DEF new
    <2>. QED  BY <1>0, <1>1, <1>3, <1>6, <2>1, Zenon DEF NumberedBeforeRow
  <1>8. ASSUME NEW s \in created[n], ProcessEventWithContext(n, s) PROVE RecoveryInv'
    <2>1. /\ created' = [created EXCEPT ![n] = @ \ {s}]
          /\ PostgresAppendEvent(n, s) \/ PostgresAppendFails(n)
      BY <1>8, Zenon DEF ProcessEventWithContext
    <2>2. s \in Nat /\ s < new
      BY <1>0, <1>1, <1>3 DEF NumberedBeforeRow, l
    <2>3. /\ created' \in [NodeID -> SUBSET Nat]
          /\ \A m \in NodeID : created'[m] \subseteq created[m]
      BY <1>1, <2>1, Zenon
    <2>4. CASE PostgresAppendFails(n)
      BY <1>1, <1>6, <2>3, <2>4, Zenon DEF PostgresAppendFails, table
    <2>5. CASE PostgresAppendEvent(n, s)
      <3>1. rows' = rows \cup {[row |-> new, seq |-> s]}
        BY <2>5, Zenon DEF PostgresAppendEvent, l
      <3>2. PICK taken \in SUBSET Item, stored \in SUBSET Item :
              /\ last' = [last EXCEPT ![n] = [i \in Item |-> IF i \in taken THEN s ELSE @[i]]]
              /\ done' = [i \in Item |-> IF i \in taken THEN done[i] \cup {s} ELSE done[i]]
              /\ checkpoint' = [i \in Item |-> IF i \in stored THEN last'[n][i] ELSE checkpoint[i]]
        BY <2>5, Zenon DEF PostgresAppendEvent
      <3> HIDE DEF new
      <3>3. rows' \subseteq [row : Nat, seq : Nat] /\ \A r \in rows' : r \in rows \/ r.seq < r.row
        BY <1>1, <1>3, <2>2, <3>1
      <3>4. last' \in [NodeID -> [Item -> Nat]]
        BY <1>1, <2>2, <3>2, Zenon
      <3>5. done' \in [Item -> SUBSET Nat]
        BY <1>1, <2>2, <3>2, Zenon
      <3>6. checkpoint' \in [Item -> Nat]
        BY <1>1, <3>2, <3>4, Zenon
      <3>. QED  BY <1>6, <2>3, <3>3, <3>4, <3>5, <3>6, Zenon
    <2>. QED  BY <2>1, <2>4, <2>5, Zenon
  <1>. QED  BY <1>7, <1>8, Zenon

\* The status of a row and its deletion: nothing of an event or of a recovery
\* changes.
LEMMA TableStep ==
    ASSUME RecoveryInv, NEW i \in Item,
           \/ MarkRecoveryInProgress(i) \/ MarkRecoveryFailed(i) \/ MarkRecoveryComplete(i)
           \/ DeleteOldCheckpoints(i)
    PROVE  RecoveryInv'
  <1>0. RecoveryTypeOK /\ NumberedBeforeRow
    BY Zenon DEF RecoveryInv
  <1>1. UNCHANGED <<lockMgr, validate, local, created, rows, last, done, phase, pending, job,
                    start, found, lock, expired, report>>
    BY Zenon DEF MarkRecoveryInProgress, MarkRecoveryFailed, MarkRecoveryComplete, Mark,
           DeleteOldCheckpoints, scenario, events, recovery
  <1>2. /\ checkpoint' \in [Item -> Nat]
        /\ status' \in [Item -> {"none", "in_progress", "failed", "complete"}]
    <2>1. /\ checkpoint \in [Item -> Nat]
          /\ status \in [Item -> {"none", "in_progress", "failed", "complete"}]
      BY <1>0, Zenon DEF RecoveryTypeOK
    <2>. QED  BY <2>1 DEF MarkRecoveryInProgress, MarkRecoveryFailed, MarkRecoveryComplete, Mark,
                     DeleteOldCheckpoints, table, recovery
  <1>3. RecoveryTypeOK'
    BY <1>0, <1>1, <1>2, Zenon DEF RecoveryTypeOK
  <1>4. NumberedBeforeRow'
    BY <1>0, <1>1, Zenon DEF NumberedBeforeRow, GlobalSeq
  <1>. QED  BY <1>1, <1>3, <1>4, RecoveriesAlone, Zenon

\* A lock that expires under a goroutine is recorded, and the goroutines that do
\* not hold it are none of its.
LEMMA ExpiryStep ==
    ASSUME RecoveryInv, NEW i \in Item, LockExpires(i)
    PROVE  RecoveryInv'
  <1>0. RecoveryTypeOK /\ NumberedBeforeRow /\ HoldsItsLock
    BY Zenon DEF RecoveryInv
  <1>1. UNCHANGED <<lockMgr, validate, local, created, rows, last, done, checkpoint, status,
                    phase, pending, job, start, found, report>>
    BY Zenon DEF LockExpires, scenario, events, table
  <1>2. /\ lock \in [Item -> NodeID \cup {NoNode}] /\ expired \subseteq NodeID \X Item
        /\ lock' = [lock EXCEPT ![i] = NoNode]
    BY <1>0, Zenon DEF RecoveryTypeOK, LockExpires
  <1>3. /\ expired' \subseteq NodeID \X Item /\ expired \subseteq expired'
        /\ \A n \in NodeID : n = lock[i] /\ Inside(n, i) => <<n, i>> \in expired'
    <2> DEFINE holders == {m \in NodeID : m = lock[i] /\ Inside(m, i)}
    <2>1. expired' = expired \cup {<<n, i>> : n \in holders}
      BY Zenon DEF LockExpires
    <2>2. holders \subseteq NodeID /\ \A n \in NodeID : n = lock[i] /\ Inside(n, i) => n \in holders
      BY Zenon
    <2> HIDE DEF holders
    <2>. QED  BY <1>2, <2>1, <2>2
  <1>4. RecoveryTypeOK'
    BY <1>0, <1>1, <1>2, <1>3, Zenon DEF RecoveryTypeOK
  <1>5. NumberedBeforeRow'
    BY <1>0, <1>1, Zenon DEF NumberedBeforeRow, GlobalSeq
  <1>6. \A n \in NodeID, j \in Item : Inside(n, j)' <=> Inside(n, j)
    BY <1>1, Zenon DEF Inside
  <1>7. HoldsItsLock'
    BY <1>0, <1>2, <1>3, <1>6, Zenon DEF HoldsItsLock
  <1>. QED  BY <1>4, <1>5, <1>7, Zenon DEF RecoveryInv

\* A start, with a recovery or without: no goroutine is within its lock yet.
LEMMA StartStep ==
    ASSUME RecoveryInv, NEW n \in NodeID, ExecuteRecovery(n) \/ StartWithout(n)
    PROVE  RecoveryInv'
  <1>0. RecoveryTypeOK /\ NumberedBeforeRow /\ HoldsItsLock
    BY Zenon DEF RecoveryInv
  <1>1. /\ phase \in [NodeID -> {"down", "recovering", "up", "dead"}]
        /\ pending \in [NodeID -> SUBSET Item] /\ job \in [NodeID -> [Item -> Stage]]
    BY <1>0, Zenon DEF RecoveryTypeOK
  <1>2. UNCHANGED <<lockMgr, validate, local, created, rows, last, done, checkpoint, status,
                    start, found, lock, expired, report>>
    BY Zenon DEF ExecuteRecovery, StartWithout, scenario, events, table, recovery
  <1>3. PICK why \in {"recovering", "up"} : phase' = [phase EXCEPT ![n] = why]
    BY Zenon DEF ExecuteRecovery, StartWithout
  <1>4. /\ phase' \in [NodeID -> {"down", "recovering", "up", "dead"}]
        /\ \A m \in NodeID \ {n} : phase'[m] = phase[m]
    BY <1>1, <1>3, Zenon
  <1>5. /\ pending' \in [NodeID -> SUBSET Item] /\ job' \in [NodeID -> [Item -> Stage]]
        /\ \A m \in NodeID \ {n} : job'[m] = job[m]
        /\ \A i \in Item : ~Inside(n, i)'
    <2>1. CASE ExecuteRecovery(n)
      <3>1. ListPendingRecoveryItems \in SUBSET Item
        BY Zenon DEF ListPendingRecoveryItems
      <3>. QED  BY <1>1, <2>1, <3>1, Zenon DEF ExecuteRecovery, Stage, Inside
    <2>2. CASE StartWithout(n)
      BY <1>1, <2>2, Zenon DEF StartWithout, recovery, Inside
    <2>. QED  BY <2>1, <2>2, Zenon
  <1>6. RecoveryTypeOK'
    BY <1>0, <1>2, <1>4, <1>5, Zenon DEF RecoveryTypeOK
  <1>7. NumberedBeforeRow'
    BY <1>0, <1>2, Zenon DEF NumberedBeforeRow, GlobalSeq
  <1>8. HoldsItsLock'
    BY <1>0, <1>2, <1>4, <1>5, Zenon DEF HoldsItsLock, Inside
  <1>. QED  BY <1>6, <1>7, <1>8, Zenon DEF RecoveryInv

\* A process that ends, by a crash or by the panic of a recovery, forgets its
\* numbers and its recovery; its locks stay.
LEMMA StopStep ==
    ASSUME RecoveryInv, NEW n \in NodeID, NEW why \in {"down", "dead"}, Stopped(n, why)
    PROVE  RecoveryInv'
  <1>0. RecoveryTypeOK /\ NumberedBeforeRow /\ HoldsItsLock
    BY Zenon DEF RecoveryInv
  <1>1. UNCHANGED <<rows, done, lockMgr, validate, checkpoint, status, lock>>
    BY Zenon DEF Stopped, scenario, table
  <1>2. /\ phase' \in [NodeID -> {"down", "recovering", "up", "dead"}]
        /\ report' \in [NodeID -> {"none", "valid", "invalid"}]
        /\ phase'[n] = why /\ \A m \in NodeID \ {n} : phase'[m] = phase[m]
    BY <1>0, Zenon DEF Stopped, RecoveryTypeOK
  <1>3. /\ local' \in [NodeID -> Nat] /\ created' \in [NodeID -> SUBSET Nat]
        /\ created'[n] = {}
        /\ \A m \in NodeID \ {n} : local'[m] = local[m] /\ created'[m] = created[m]
    BY <1>0, Zenon DEF Stopped, RecoveryTypeOK
  <1>4. /\ last' \in [NodeID -> [Item -> Nat]] /\ start' \in [NodeID -> [Item -> Nat]]
    BY <1>0, Zenon DEF Stopped, RecoveryTypeOK
  <1>5. /\ pending' \in [NodeID -> SUBSET Item] /\ job' \in [NodeID -> [Item -> Stage]]
        /\ found' \in [NodeID -> [Item -> SUBSET Nat]]
        /\ \A m \in NodeID \ {n} : job'[m] = job[m]
    BY <1>0, Zenon DEF Stopped, RecoveryTypeOK, Idle, Stage
  <1>6. /\ expired' \subseteq NodeID \X Item
        /\ \A m \in NodeID \ {n}, i \in Item : <<m, i>> \in expired => <<m, i>> \in expired'
    <2>1. expired \subseteq NodeID \X Item /\ expired' = expired \ ({n} \X Item)
      BY <1>0, Zenon DEF Stopped, RecoveryTypeOK
    <2>. QED  BY <2>1
  <1>7. RecoveryTypeOK'
    BY <1>0, <1>1, <1>2, <1>3, <1>4, <1>5, <1>6, Zenon DEF RecoveryTypeOK
  <1>8. NumberedBeforeRow'
    BY <1>0, <1>1, <1>3, Zenon DEF NumberedBeforeRow, GlobalSeq
  <1>9. HoldsItsLock'
    <2> SUFFICES ASSUME NEW m \in NodeID, NEW i \in Item, Inside(m, i)', <<m, i>> \notin expired'
                 PROVE  lock'[i] = m
      BY Zenon DEF HoldsItsLock
    <2>1. m # n
      BY <1>2, Zenon DEF Inside
    <2>2. Inside(m, i) /\ <<m, i>> \notin expired
      BY <1>2, <1>5, <1>6, <2>1, Zenon DEF Inside
    <2>. QED  BY <1>0, <1>1, <2>2, Zenon DEF HoldsItsLock
  <1>. QED  BY <1>7, <1>8, <1>9, Zenon DEF RecoveryInv

\* A step of recoverSingleProcessor: only its own goroutine moves, it enters the
\* lock by taking it, and gives back only a lock that is its own.
LEMMA GoroutineStep ==
    ASSUME RecoveryInv, NEW n \in NodeID, NEW i \in Item,
           \/ WithRecoveryLock(n, i) \/ GetRecoveryContext(n, i) \/ GetEventsBySymbol(n, i)
           \/ QueryFails(n, i) \/ Replay(n, i)
    PROVE  RecoveryInv'
  <1>0. RecoveryTypeOK /\ NumberedBeforeRow /\ HoldsItsLock
    BY Zenon DEF RecoveryInv
  <1>1. /\ UNCHANGED <<lockMgr, validate, local, created, rows, last, done, checkpoint, status,
                       phase, pending, report>>
        /\ phase[n] = "recovering"
    BY Zenon DEF WithRecoveryLock, GetRecoveryContext, GetEventsBySymbol, QueryFails, Replay,
           InStage, scenario, events, table
  <1>2. /\ checkpoint \in [Item -> Nat] /\ rows \subseteq [row : Nat, seq : Nat]
        /\ job \in [NodeID -> [Item -> Stage]] /\ start \in [NodeID -> [Item -> Nat]]
        /\ found \in [NodeID -> [Item -> SUBSET Nat]] /\ lock \in [Item -> NodeID \cup {NoNode}]
    BY <1>0, Zenon DEF RecoveryTypeOK
  <1>3. PICK stage \in Stage :
          /\ job' = [job EXCEPT ![n][i] = stage]
          /\ stage \in {"context", "read", "replay"} =>
                expired' = expired /\ (lock'[i] = n \/ (Inside(n, i) /\ lock' = lock))
    <2>1. CASE WithRecoveryLock(n, i)
      <3>1. ASSUME NEW label \in {"context", "failed"}, SetJob(n, i, label),
                   label = "context" => lock' = [lock EXCEPT ![i] = n]
            PROVE  \E stage \in Stage :
                      /\ job' = [job EXCEPT ![n][i] = stage]
                      /\ stage \in {"context", "read", "replay"} =>
                            expired' = expired /\ (lock'[i] = n \/ (Inside(n, i) /\ lock' = lock))
        BY <1>2, <2>1, <3>1, Zenon DEF WithRecoveryLock, SetJob, Stage, Finished
      <3>. QED  BY <2>1, <3>1, Zenon DEF WithRecoveryLock
    <2>2. CASE GetRecoveryContext(n, i) \/ GetEventsBySymbol(n, i)
      BY <2>2, Zenon DEF GetRecoveryContext, GetEventsBySymbol, SetJob, InStage, Inside, Stage
    <2>3. CASE QueryFails(n, i) \/ Replay(n, i)
      <3>1. \E label \in Finished : SetJob(n, i, label)
        BY <2>3, Zenon DEF QueryFails, Replay, Finish, Finished
      <3>2. \A label \in Finished : label \in Stage /\ label \notin {"context", "read", "replay"}
        BY Zenon DEF Stage, Finished
      <3>. QED  BY <3>1, <3>2, Zenon DEF SetJob
    <2>. QED  BY <2>1, <2>2, <2>3, Zenon
  <1>4. /\ job' \in [NodeID -> [Item -> Stage]] /\ job'[n][i] = stage
        /\ \A m \in NodeID, j \in Item : <<m, j>> # <<n, i>> => job'[m][j] = job[m][j]
    BY <1>2, <1>3, Zenon
  <1>5. /\ lock' \in [Item -> NodeID \cup {NoNode}] /\ expired' \subseteq NodeID \X Item
        /\ \A j \in Item : lock'[j] # lock[j] => j = i /\ lock[i] \in {NoNode, n}
        /\ \A q \in expired : q # <<n, i>> => q \in expired'
    <2>1. lock' = lock \/ (lock[i] = n /\ lock' = [lock EXCEPT ![i] = NoNode])
                      \/ (lock[i] = NoNode /\ lock' = [lock EXCEPT ![i] = n])
      BY <1>2, Zenon DEF WithRecoveryLock, GetRecoveryContext, GetEventsBySymbol, QueryFails, Replay,
                  Finish
    <2>2. /\ expired' = expired \/ expired' = expired \ {<<n, i>>}
          /\ expired \subseteq NodeID \X Item
      BY <1>0, Zenon DEF WithRecoveryLock, GetRecoveryContext, GetEventsBySymbol, QueryFails, Replay,
                  Finish, RecoveryTypeOK
    <2>3. /\ lock' \in [Item -> NodeID \cup {NoNode}]
          /\ \A j \in Item : lock'[j] # lock[j] => j = i /\ lock[i] \in {NoNode, n}
      BY <1>2, <2>1, Zenon
    <2>. QED  BY <2>2, <2>3, Zenon
  <1>6. start' \in [NodeID -> [Item -> Nat]]
    <2> DEFINE next == checkpoint[i] + 1
    <2>1. start' = start \/ start' = [start EXCEPT ![n][i] = next]
      BY Zenon DEF WithRecoveryLock, GetRecoveryContext, GetEventsBySymbol, QueryFails, Replay
    <2>2. next \in Nat
      BY <1>2
    <2>3. start \in [NodeID -> [Item -> Nat]]
      BY <1>2, Zenon
    <2> HIDE DEF next
    <2>4. CASE start' = [start EXCEPT ![n][i] = next]
      <3>1. [start[n] EXCEPT ![i] = next] \in [Item -> Nat]
        BY <2>2, <2>3, Zenon
      <3>. QED  BY <2>3, <2>4, <3>1, Zenon
    <2>. QED  BY <2>1, <2>3, <2>4, Zenon
  <1>7. found' \in [NodeID -> [Item -> SUBSET Nat]]
    <2>1. CASE GetEventsBySymbol(n, i)
      <3>1. {r.seq : r \in Readable(GetSymbolEvents(start[n][i]))} \in SUBSET Nat
        BY <1>2, Zenon DEF Readable, GetSymbolEvents
      <3>. QED  BY <1>2, <2>1, <3>1, Zenon DEF GetEventsBySymbol
    <2>2. CASE found' = found
      BY <1>2, <2>2, Zenon
    <2>. QED  BY <2>1, <2>2, Zenon DEF WithRecoveryLock, GetRecoveryContext, QueryFails, Replay
  <1>8. RecoveryTypeOK'
    BY <1>0, <1>1, <1>4, <1>5, <1>6, <1>7, Zenon DEF RecoveryTypeOK
  <1>9. NumberedBeforeRow'
    BY <1>0, <1>1, Zenon DEF NumberedBeforeRow, GlobalSeq
  <1>10. HoldsItsLock'
    <2> SUFFICES ASSUME NEW m \in NodeID, NEW j \in Item, Inside(m, j)', <<m, j>> \notin expired'
                 PROVE  lock'[j] = m
      BY Zenon DEF HoldsItsLock
    <2>1. CASE m = n /\ j = i
      <3>1. stage \in {"context", "read", "replay"}
        BY <1>4, <2>1, Zenon DEF Inside
      <3>. QED  BY <1>0, <1>3, <2>1, <3>1, Zenon DEF HoldsItsLock
    <2>2. CASE <<m, j>> # <<n, i>>
      <3>1. Inside(m, j) /\ <<m, j>> \notin expired
        BY <1>1, <1>4, <1>5, <2>2, Zenon DEF Inside
      <3>2. lock[j] = m
        BY <1>0, <3>1, Zenon DEF HoldsItsLock
      <3>3. m # NoNode
        BY NumberAssumption DEF NoNode
      <3>. QED  BY <1>5, <2>2, <3>2, <3>3, Zenon
    <2>. QED  BY <2>1, <2>2, Zenon
  <1>. QED  BY <1>8, <1>9, <1>10, Zenon DEF RecoveryInv

\* All goroutines have returned: none of them is within its lock.
LEMMA ReturnStep ==
    ASSUME RecoveryInv, NEW n \in NodeID, RecoveryReturns(n)
    PROVE  RecoveryInv'
  <1>0. RecoveryTypeOK /\ NumberedBeforeRow /\ HoldsItsLock
    BY Zenon DEF RecoveryInv
  <1>1. UNCHANGED <<lockMgr, validate, local, created, rows, last, done, checkpoint, status,
                    pending, job, start, found, lock, expired>>
    BY Zenon DEF RecoveryReturns, scenario, events, table, recovery
  <1>2. /\ phase' \in [NodeID -> {"down", "recovering", "up", "dead"}]
        /\ report' \in [NodeID -> {"none", "valid", "invalid"}]
        /\ phase'[n] = "up" /\ \A m \in NodeID \ {n} : phase'[m] = phase[m]
    BY <1>0, Zenon DEF RecoveryReturns, RecoveryTypeOK
  <1>3. RecoveryTypeOK'
    BY <1>0, <1>1, <1>2, Zenon DEF RecoveryTypeOK
  <1>4. NumberedBeforeRow'
    BY <1>0, <1>1, Zenon DEF NumberedBeforeRow, GlobalSeq
  <1>5. \A m \in NodeID, i \in Item : Inside(m, i)' => Inside(m, i)
    BY <1>1, <1>2, Zenon DEF Inside
  <1>6. HoldsItsLock'
    BY <1>0, <1>1, <1>5, Zenon DEF HoldsItsLock
  <1>. QED  BY <1>3, <1>4, <1>6, Zenon DEF RecoveryInv

\* Every step of the nodes, their recoveries and the operator, in whichever order
\* and with whatever crashes, keeps the invariant.
LEMMA RecoveryStep ==
    ASSUME RecoveryInv, [RecoveryNext]_recoveryVars PROVE RecoveryInv'
  <1>1. ASSUME NEW n \in NodeID, Create(n) \/ \E s \in created[n] : ProcessEventWithContext(n, s)
        PROVE  RecoveryInv'
    BY <1>1, ServingStep, Zenon
  <1>2. ASSUME NEW n \in NodeID, ExecuteRecovery(n) \/ StartWithout(n) PROVE RecoveryInv'
    BY <1>2, StartStep, Zenon
  <1>3. ASSUME NEW n \in NodeID, RecoveryReturns(n) PROVE RecoveryInv'
    BY <1>3, ReturnStep, Zenon
  <1>4. ASSUME NEW n \in NodeID, NodeCrash(n) PROVE RecoveryInv'
    BY <1>4, StopStep, Zenon DEF NodeCrash
  <1>5. ASSUME NEW n \in NodeID, NEW i \in Item, RecoverSingleProcessor(n, i) PROVE RecoveryInv'
    BY <1>5, StopStep, GoroutineStep, Zenon DEF RecoverSingleProcessor, LockPanics
  <1>6. ASSUME NEW i \in Item,
               \/ MarkRecoveryInProgress(i) \/ MarkRecoveryFailed(i) \/ MarkRecoveryComplete(i)
               \/ DeleteOldCheckpoints(i) \/ LockExpires(i)
        PROVE  RecoveryInv'
    BY <1>6, TableStep, ExpiryStep, Zenon
  <1>7. CASE UNCHANGED recoveryVars
    <2>1. RecoveryTypeOK' /\ NumberedBeforeRow'
      BY <1>7, Zenon DEF recoveryVars, scenario, events, table, recovery, RecoveryInv, RecoveryTypeOK,
                  NumberedBeforeRow, GlobalSeq
    <2>. QED  BY <1>7, <2>1, RecoveriesAlone, Zenon DEF recoveryVars, scenario, recovery
  <1>. QED  BY <1>1, <1>2, <1>3, <1>4, <1>5, <1>6, <1>7, Zenon DEF RecoveryNext

\* The invariant of nodes that number, log, apply, crash and recover.
THEOREM RecoveryInvariance == RecoverySpec => []RecoveryInv
  BY RecoveryStarts, RecoveryStep, PTL DEF RecoverySpec

\* Two nodes recover one processor at the same time only if the lock of one of
\* them has expired under it, for any number of nodes and processors and any
\* crashes, restarts and failures: a node that enters has taken the lock.
THEOREM RecoversAlone == RecoverySpec => []OneRecoversAtATime
  <1>1. RecoveryInv => OneRecoversAtATime
    BY Zenon DEF RecoveryInv, HoldsItsLock, OneRecoversAtATime
  <1>. QED  BY <1>1, RecoveryInvariance, PTL

\* GetEventsBySymbol looks for rows where it should look for events, and still
\* reads every event that its processor never applied, except the ones numbered
\* up to the checkpoint, past the window or in a row that cannot be read: an
\* event's row has the higher number.
THEOREM MissingIsRead == RecoverySpec => ReadsWhatIsMissing
  <1> DEFINE Reads == \A n \in NodeID, i \in Item :
                InStage(n, i, "read") /\ job'[n][i] = "replay" =>
                    \A r \in rows : \/ r.seq \in found'[n][i] \cup done[i]
                                    \/ r.seq < start[n][i]
                                    \/ r.row > start[n][i] + Limit
                                    \/ r.row \in Unreadable
  <1>1. RecoveryInv /\ RecoveryNext => Reads
    <2> SUFFICES ASSUME RecoveryInv, RecoveryNext, NEW n \in NodeID, NEW i \in Item,
                        InStage(n, i, "read"), job'[n][i] = "replay",
                        NEW r \in rows, r.seq \notin found'[n][i], r.row \notin Unreadable
                 PROVE  r.seq < start[n][i] \/ r.row > start[n][i] + Limit
      BY Zenon DEF Reads
    <2>0. /\ phase[n] = "recovering" /\ job[n][i] = "read"
          /\ job \in [NodeID -> [Item -> Stage]] /\ found \in [NodeID -> [Item -> SUBSET Nat]]
          /\ start[n][i] \in Nat /\ r \in [row : Nat, seq : Nat] /\ r.seq < r.row /\ Limit \in Nat
      BY NumberAssumption DEF InStage, RecoveryInv, RecoveryTypeOK, NumberedBeforeRow
    <2>1. GetEventsBySymbol(n, i)
      <3>1. \A m \in NodeID : ~(Create(m) \/ \E s \in created[m] : ProcessEventWithContext(m, s))
        BY <2>0, Zenon DEF Create, ProcessEventWithContext, recovery
      <3>2. \A m \in NodeID : ~(ExecuteRecovery(m) \/ StartWithout(m))
        BY <2>0, Zenon DEF ExecuteRecovery, StartWithout, recovery
      <3>3. \A m \in NodeID : ~RecoveryReturns(m)
        BY <2>0, Zenon DEF RecoveryReturns, recovery
      <3>4. ASSUME NEW m \in NodeID, NEW why, Stopped(m, why) PROVE FALSE
        <4>1. job' = [job EXCEPT ![m] = Idle] /\ Idle[i] = "none"
          BY <3>4, Zenon DEF Stopped, Idle
        <4>. QED  BY <2>0, <4>1, Zenon
      <3>5. ASSUME NEW m \in NodeID, NEW j \in Item, RecoverSingleProcessor(m, j)
            PROVE  GetEventsBySymbol(n, i)
        <4>0. ASSUME NEW label, label # "replay", SetJob(m, j, label) PROVE FALSE
          <5>1. job'[n] = IF m = n THEN [job[m] EXCEPT ![j] = label] ELSE job[n]
            BY <2>0, <4>0, Zenon DEF SetJob
          <5>2. job[m] \in [Item -> Stage]
            BY <2>0, Zenon
          <5>3. job'[n][i] \in {label, job[n][i]}
            BY <5>1, <5>2, Zenon
          <5>. QED  BY <2>0, <4>0, <5>3, Zenon
        <4>1. ~LockPanics(m, j)
          BY <3>4, Zenon DEF LockPanics
        <4>2. ~WithRecoveryLock(m, j)
          BY <4>0, Zenon DEF WithRecoveryLock
        <4>3. ~GetRecoveryContext(m, j)
          BY <4>0, Zenon DEF GetRecoveryContext
        <4>4. ~QueryFails(m, j)
          BY <4>0, Zenon DEF QueryFails, Finish
        <4>5. ~Replay(m, j)
          BY <4>0, Zenon DEF Replay, Finish
        <4>6. GetEventsBySymbol(m, j)
          BY <3>5, <4>1, <4>2, <4>3, <4>4, <4>5, Zenon DEF RecoverSingleProcessor
        <4>7. m = n /\ j = i
          BY <2>0, <4>6, Zenon DEF GetEventsBySymbol, SetJob
        <4>. QED  BY <4>6, <4>7, Zenon
      <3>6. ASSUME NEW j \in Item,
                   \/ MarkRecoveryInProgress(j) \/ MarkRecoveryFailed(j) \/ MarkRecoveryComplete(j)
                   \/ DeleteOldCheckpoints(j) \/ LockExpires(j)
            PROVE  FALSE
        BY <2>0, <3>6, Zenon DEF MarkRecoveryInProgress, MarkRecoveryFailed, MarkRecoveryComplete, Mark,
                          DeleteOldCheckpoints, LockExpires, recovery
      <3>. QED  BY <3>1, <3>2, <3>3, <3>4, <3>5, <3>6, Zenon DEF RecoveryNext, NodeCrash
    <2>2. found'[n][i] = {q.seq : q \in Readable(GetSymbolEvents(start[n][i]))}
      BY <2>0, <2>1, Zenon DEF GetEventsBySymbol
    <2>3. r \notin GetSymbolEvents(start[n][i])
      BY <2>2, Zenon DEF Readable
    <2>. QED  BY <2>0, <2>3 DEF GetSymbolEvents
  <1>. QED  BY <1>1, RecoveryInvariance, PTL DEF RecoverySpec, ReadsWhatIsMissing
=============================================================================
