-------------------------- MODULE PlacementProofs ---------------------------
(***************************************************************************)
(* Proofs about who serves what.  Ownership epochs: for any number of      *)
(* calls, nodes and cached epochs.  The partition table: for any sound     *)
(* table to start from and any loads.                                      *)
(***************************************************************************)
EXTENDS OwnershipEpochs, Partitions, SequenceTheorems, TLAPS

\* A call that has yet to write has the lock, and knows the epoch.
Exclusive ==
    \A c \in Updater :
        /\ pc[c] \notin {"idle", "unlock"} => lock = c
        /\ pc[c] = "epoch" => newEpoch[c] = epoch + 1
        /\ pc[c] = "owner" => newEpoch[c] = epoch

\* What was returned for the current epoch is for the current owner; between
\* the two writes of a call nothing was returned for it yet.
GrantedBehind ==
    /\ \A g \in granted : g.epoch <= epoch /\ (g.epoch = epoch => g.owner = owner)
    /\ \A c \in Updater, g \in granted : pc[c] = "owner" => g.epoch < epoch

\* The same of the cached epochs.
Fits(t) == ~t.torn /\ t.epoch = epoch
TokensBehind ==
    \A k \in Cache :
        /\ token[k].epoch <= epoch
        /\ token[k].epoch # 0 /\ Fits(token[k]) => token[k].owner = owner
        /\ \A c \in Updater : pc[c] = "owner" /\ token[k].epoch # 0 => ~Fits(token[k])

IInv ==
    /\ EpochTypeOK
    /\ intact => Exclusive /\ GrantedBehind /\ TokensBehind
    /\ EpochIdentifiesOwner
    /\ FencingDetectsMigration

LEMMA InitInv == EpochInit => IInv
  BY OwnerAssumption DEF EpochInit, IInv, EpochTypeOK, Exclusive, GrantedBehind, TokensBehind, Fits,
     EpochIdentifiesOwner, FencingDetectsMigration, NoToken

LEMMA TypeStep == EpochTypeOK /\ [EpochNext]_epochVars => EpochTypeOK'
<1> SUFFICES ASSUME EpochTypeOK, [EpochNext]_epochVars PROVE EpochTypeOK'
  BY Zenon
<1>1. ASSUME NEW c \in Updater, NEW o \in Owner, Lock(c, o) PROVE EpochTypeOK'
  BY <1>1, Zenon DEF EpochTypeOK, Lock, key, order
<1>2. ASSUME NEW c \in Updater, Unlock(c) PROVE EpochTypeOK'
  BY <1>2, Zenon DEF EpochTypeOK, Unlock, Return, key, order
<1>3. ASSUME NEW c \in Updater, Crash(c) PROVE EpochTypeOK'
  BY <1>3, Zenon DEF EpochTypeOK, Crash, Return, key, order
<1>4. ASSUME NEW c \in Updater, GetOwnershipInfo(c) PROVE EpochTypeOK'
  <2>1. CASE owner = newOwner[c]
    BY <1>4, <2>1 DEF EpochTypeOK, GetOwnershipInfo, Grant, key, order
  <2>2. CASE owner # newOwner[c]
    BY <1>4, <2>2 DEF EpochTypeOK, GetOwnershipInfo, key, order
  <2> QED
    BY <2>1, <2>2, Zenon
<1>5. ASSUME NEW c \in Updater, SetEpoch(c) PROVE EpochTypeOK'
  BY <1>5, Zenon DEF EpochTypeOK, SetEpoch, key, order
<1>6. ASSUME NEW c \in Updater, SetOwner(c) PROVE EpochTypeOK'
  BY <1>6 DEF EpochTypeOK, SetOwner, Grant, key, order
<1>7. ASSUME NEW c \in Updater, CommandFails(c) PROVE EpochTypeOK'
  BY <1>7, Zenon DEF EpochTypeOK, CommandFails, key, order
<1>8. CASE LockExpires
  BY <1>8, Zenon DEF EpochTypeOK, LockExpires, updates, key, order
<1>9. CASE KeyExpires
  BY <1>9, Zenon DEF EpochTypeOK, KeyExpires, updates, order
<1>10. ASSUME NEW k \in Cache, GetEpoch(k) PROVE EpochTypeOK'
  BY <1>10, Zenon DEF EpochTypeOK, GetEpoch, updates, key
<1>11. ASSUME NEW k \in Cache, VerifyOrderOwnershipFencing(k) PROVE EpochTypeOK'
  BY <1>11, Zenon DEF EpochTypeOK, VerifyOrderOwnershipFencing, updates, key
<1>12. ASSUME NEW k \in Cache, VerifyOwnershipFencing(k) PROVE EpochTypeOK'
  BY <1>12, Zenon DEF EpochTypeOK, VerifyOwnershipFencing, updates, key
<1>13. ASSUME NEW k \in Cache, Invalidate(k) PROVE EpochTypeOK'
  BY <1>13, Zenon DEF EpochTypeOK, Invalidate, NoToken, updates, key
<1>14. CASE UNCHANGED epochVars
  BY <1>14, Zenon DEF EpochTypeOK, epochVars, updates, key, order
<1> QED
  BY <1>1, <1>2, <1>3, <1>4, <1>5, <1>6, <1>7, <1>8, <1>9, <1>10, <1>11, <1>12, <1>13,
     <1>14, Zenon DEF EpochNext

\* The steps that break the conditions of the properties have nothing to keep,
\* and the others start where the conditions hold.
LEMMA BrokenStep ==
    ASSUME IInv, [EpochNext]_epochVars, ~intact'
    PROVE  IInv'
  BY TypeStep, Zenon DEF IInv, EpochIdentifiesOwner, FencingDetectsMigration

LEMMA IntactStep ==
    ASSUME EpochTypeOK, [EpochNext]_epochVars, intact'
    PROVE  intact
  BY Zenon DEF EpochTypeOK, EpochNext, epochVars, Lock, Unlock, Crash, GetOwnershipInfo, SetEpoch,
     SetOwner, CommandFails, LockExpires, KeyExpires, GetEpoch, VerifyOrderOwnershipFencing,
     VerifyOwnershipFencing, Invalidate

\* What holds while intact.
Safe == EpochTypeOK /\ Exclusive /\ GrantedBehind /\ TokensBehind
        /\ EpochIdentifiesOwner /\ FencingDetectsMigration

LEMMA ExclusiveStep ==
    ASSUME Safe, intact, [EpochNext]_epochVars, intact'
    PROVE  Exclusive'
<1> USE DEF Safe, EpochTypeOK, Exclusive
<1>1. ASSUME NEW c \in Updater, NEW o \in Owner, Lock(c, o) PROVE Exclusive'
  BY <1>1, UpdaterAssumption, Zenon DEF Lock, key, order
<1>2. ASSUME NEW c \in Updater, Unlock(c) \/ Crash(c) PROVE Exclusive'
  BY <1>2 DEF Unlock, Crash, Return, key, order
<1>4. ASSUME NEW c \in Updater, GetOwnershipInfo(c) PROVE Exclusive'
  <2>1. CASE owner = newOwner[c]
    BY <1>4, <2>1, Zenon DEF GetOwnershipInfo, key, order
  <2>2. CASE owner # newOwner[c]
    BY <1>4, <2>2, Zenon DEF GetOwnershipInfo, key, order
  <2> QED
    BY <2>1, <2>2, Zenon
<1>5. ASSUME NEW c \in Updater, SetEpoch(c) PROVE Exclusive'
  BY <1>5, Zenon DEF SetEpoch, key, order
<1>6. ASSUME NEW c \in Updater, SetOwner(c) PROVE Exclusive'
  BY <1>6, Zenon DEF SetOwner, key, order
<1>7. ASSUME NEW c \in Updater, CommandFails(c) PROVE Exclusive'
  BY <1>7, Zenon DEF CommandFails, key, order
<1>8. CASE LockExpires
  BY <1>8, UpdaterAssumption, Zenon DEF LockExpires, updates, key, order
<1>9. CASE KeyExpires
  BY <1>9, Zenon DEF KeyExpires
<1>10. ASSUME NEW k \in Cache,
              \/ GetEpoch(k)
              \/ VerifyOrderOwnershipFencing(k)
              \/ VerifyOwnershipFencing(k)
              \/ Invalidate(k)
       PROVE Exclusive'
  BY <1>10, Zenon DEF GetEpoch, VerifyOrderOwnershipFencing,
     VerifyOwnershipFencing, Invalidate, updates, key
<1>13. CASE UNCHANGED epochVars
  BY <1>13, Zenon DEF epochVars, updates, key, order
<1> QED
  BY <1>1, <1>2, <1>4, <1>5, <1>6, <1>7, <1>8, <1>9, <1>10, <1>13, Zenon DEF EpochNext

LEMMA GrantedStep ==
    ASSUME Safe, intact, [EpochNext]_epochVars, intact'
    PROVE  GrantedBehind' /\ EpochIdentifiesOwner'
<1> USE DEF Safe, EpochTypeOK, Exclusive, GrantedBehind, EpochIdentifiesOwner
<1> DEFINE Goal == GrantedBehind' /\ EpochIdentifiesOwner'
<1>1. ASSUME NEW c \in Updater, NEW o \in Owner, Lock(c, o) PROVE Goal
  BY <1>1, Zenon DEF Lock, key, order
<1>2. ASSUME NEW c \in Updater, Unlock(c) \/ Crash(c) PROVE Goal
  BY <1>2 DEF Unlock, Crash, Return, key, order
<1>4. ASSUME NEW c \in Updater, GetOwnershipInfo(c) PROVE Goal
  <2>1. CASE owner = newOwner[c]
    BY <1>4, <2>1 DEF GetOwnershipInfo, Grant, key, order
  <2>2. CASE owner # newOwner[c]
    BY <1>4, <2>2 DEF GetOwnershipInfo, key, order
  <2> QED
    BY <2>1, <2>2, Zenon
<1>5. ASSUME NEW c \in Updater, SetEpoch(c) PROVE Goal
  BY <1>5 DEF SetEpoch, key, order
<1>6. ASSUME NEW c \in Updater, SetOwner(c) PROVE Goal
  BY <1>6 DEF SetOwner, Grant, key, order
<1>7. ASSUME NEW c \in Updater, CommandFails(c) PROVE Goal
  BY <1>7, Zenon DEF CommandFails, key, order
<1>8. CASE LockExpires
  BY <1>8, Zenon DEF LockExpires, updates, key, order
<1>9. CASE KeyExpires
  BY <1>9, Zenon DEF KeyExpires
<1>10. ASSUME NEW k \in Cache,
              \/ GetEpoch(k)
              \/ VerifyOrderOwnershipFencing(k)
              \/ VerifyOwnershipFencing(k)
              \/ Invalidate(k)
       PROVE Goal
  BY <1>10 DEF GetEpoch, VerifyOrderOwnershipFencing,
     VerifyOwnershipFencing, Invalidate, updates, key
<1>13. CASE UNCHANGED epochVars
  BY <1>13, Zenon DEF epochVars, updates, key, order
<1> QED
  BY <1>1, <1>2, <1>4, <1>5, <1>6, <1>7, <1>8, <1>9, <1>10, <1>13, Zenon DEF EpochNext

LEMMA TokensStep ==
    ASSUME Safe, intact, [EpochNext]_epochVars, intact'
    PROVE  TokensBehind' /\ FencingDetectsMigration'
<1> USE DEF Safe, EpochTypeOK, Exclusive, TokensBehind, Fits, FencingDetectsMigration
<1> DEFINE Goal == TokensBehind' /\ FencingDetectsMigration'
<1>1. ASSUME NEW c \in Updater, NEW o \in Owner, Lock(c, o) PROVE Goal
  BY <1>1, Zenon DEF Lock, key, order
<1>2. ASSUME NEW c \in Updater, Unlock(c) \/ Crash(c) PROVE Goal
  BY <1>2 DEF Unlock, Crash, Return, key, order
<1>4. ASSUME NEW c \in Updater, GetOwnershipInfo(c) PROVE Goal
  BY <1>4 DEF GetOwnershipInfo, key, order
<1>5. ASSUME NEW c \in Updater, SetEpoch(c) PROVE Goal
  BY <1>5 DEF SetEpoch, key, order
<1>6. ASSUME NEW c \in Updater, SetOwner(c) PROVE Goal
  BY <1>6, Zenon DEF SetOwner, key, order
<1>7. ASSUME NEW c \in Updater, CommandFails(c) PROVE Goal
  BY <1>7, Zenon DEF CommandFails, key, order
<1>8. CASE LockExpires
  BY <1>8, Zenon DEF LockExpires, updates, key, order
<1>9. CASE KeyExpires
  BY <1>9, Zenon DEF KeyExpires
<1>10. ASSUME NEW k \in Cache, GetEpoch(k) PROVE Goal
  BY <1>10 DEF GetEpoch, updates, key
<1>11. ASSUME NEW k \in Cache, VerifyOrderOwnershipFencing(k) PROVE Goal
  BY <1>11, Zenon DEF VerifyOrderOwnershipFencing, updates, key
<1>12. ASSUME NEW k \in Cache, VerifyOwnershipFencing(k) PROVE Goal
  BY <1>12 DEF VerifyOwnershipFencing, updates, key
<1>13. ASSUME NEW k \in Cache, Invalidate(k) PROVE Goal
  BY <1>13 DEF Invalidate, NoToken, updates, key
<1>14. CASE UNCHANGED epochVars
  BY <1>14, Zenon DEF epochVars, updates, key, order
<1> QED
  BY <1>1, <1>2, <1>4, <1>5, <1>6, <1>7, <1>8, <1>9, <1>10, <1>11, <1>12, <1>13,
     <1>14, Zenon DEF EpochNext

LEMMA NextInv == IInv /\ [EpochNext]_epochVars => IInv'
<1> SUFFICES ASSUME IInv, [EpochNext]_epochVars PROVE IInv'
  BY Zenon
<1>1. CASE ~intact'
  BY <1>1, BrokenStep, Zenon
<1>2. CASE intact'
  <2>1. intact
    BY <1>2, IntactStep, Zenon DEF IInv
  <2>2. Safe
    BY <2>1, Zenon DEF IInv, Safe
  <2>3. EpochTypeOK'
    BY TypeStep, Zenon DEF IInv
  <2> QED
    BY <1>2, <2>1, <2>2, <2>3, ExclusiveStep, GrantedStep, TokensStep, Zenon DEF IInv
<1> QED
  BY <1>1, <1>2, Zenon

THEOREM Invariance == EpochSpec => []IInv
  BY InitInv, NextInv, PTL DEF EpochSpec

\* No two owners are given one epoch by UpdateOwnershipEpoch, for any number of
\* racing, failing and dying calls, while neither the lock nor the key expires.
THEOREM EpochsIdentifyOwners == EpochSpec => []EpochIdentifiesOwner
<1>1. IInv => EpochIdentifiesOwner
  BY Zenon DEF IInv
<1> QED
  BY <1>1, Invariance, PTL

\* VerifyOrderOwnershipFencing passes no order whose cached epoch is older than
\* a migration, on the same conditions.
THEOREM FencingIsSound == EpochSpec => []FencingDetectsMigration
<1>1. IInv => FencingDetectsMigration
  BY Zenon DEF IInv
<1> QED
  BY <1>1, Invariance, PTL

\* The epoch in Redis only grows, on the same conditions.
THEOREM EpochsGrow == EpochSpec => EpochNeverFalls
<1>1. IInv /\ [EpochNext]_epochVars => [intact' => epoch' >= epoch]_epochVars
  <2> SUFFICES ASSUME IInv, [EpochNext]_epochVars, intact' PROVE epoch' >= epoch
    BY Zenon
  <2> USE DEF IInv, EpochTypeOK
  <2>1. ASSUME NEW c \in Updater, SetEpoch(c) PROVE epoch' >= epoch
    BY <2>1, IntactStep DEF SetEpoch, Exclusive
  <2>2. CASE KeyExpires
    BY <2>2, Zenon DEF KeyExpires
  <2>3. CASE UNCHANGED epoch
    BY <2>3
  <2> QED
    BY <2>1, <2>2, <2>3, Zenon DEF EpochNext, epochVars, updates, key, order, Lock, Unlock, Crash,
       GetOwnershipInfo, SetOwner, CommandFails, LockExpires, GetEpoch,
       VerifyOrderOwnershipFencing, VerifyOwnershipFencing, Invalidate
<1> QED
  BY <1>1, Invariance, PTL DEF EpochSpec, EpochNeverFalls

-----------------------------------------------------------------------------
(* The partition table.                                                    *)

\* The symbol's partition p is visited by splitHotSymbols, which moves it.
Moved(pt, visited, hot, p, s) == p \in visited /\ s \in hot /\ s \in pt.symbols[p]

\* The id is that of a partition splitHotSymbols makes for the symbol.
MadeFor(pt, visited, hot, time, id, s) ==
    \E p : Moved(pt, visited, hot, p, s) /\ id = HotID(p, s, time)

\* The table splitHotSymbols makes, by its members.
LEMMA SplitTable ==
    ASSUME NEW pt, NEW visited, NEW hot, NEW time
    PROVE  /\ \A id : id \in DOMAIN Split(pt, visited, hot, time).symbols <=>
                         \/ id \in DOMAIN pt.symbols
                         \/ \E s : MadeFor(pt, visited, hot, time, id, s)
           /\ \A id \in DOMAIN Split(pt, visited, hot, time).symbols :
                 \A x : x \in Split(pt, visited, hot, time).symbols[id] <=>
                    \/ MadeFor(pt, visited, hot, time, id, x)
                    \/ /\ ~\E s : MadeFor(pt, visited, hot, time, id, s)
                       /\ x \in pt.symbols[id] /\ ~Moved(pt, visited, hot, id, x)
           /\ \A s \in Symbol : \A id :
                 id \in Split(pt, visited, hot, time).index[s] <=>
                    \/ id \in pt.index[s] /\ ~Moved(pt, visited, hot, id, s)
                    \/ MadeFor(pt, visited, hot, time, id, s)
           /\ Split(pt, visited, hot, time).displaced = pt.displaced
  <1> DEFINE moved == {m \in visited \X hot : m[2] \in pt.symbols[m[1]]}
             names == {HotID(m[1], m[2], time) : m \in moved}
             holds(id) == {m[2] : m \in {k \in moved : HotID(k[1], k[2], time) = id}}
             new == [id \in names |-> holds(id)]
             old == DOMAIN pt.symbols \ names
             nt == Split(pt, visited, hot, time)
             from(s) == {m[1] : m \in {k \in moved : k[2] = s}}
             to(s) == {HotID(m[1], s, time) : m \in {k \in moved : k[2] = s}}
  <1>1. \A p, s : <<p, s>> \in moved <=> Moved(pt, visited, hot, p, s)
    BY Zenon DEF Moved
  <1>2. \A m \in moved : m = <<m[1], m[2]>> /\ Moved(pt, visited, hot, m[1], m[2])
    BY DEF Moved
  <1>3. nt = [symbols |-> [p \in old \cup DOMAIN new |->
                  IF p \in old THEN {s \in pt.symbols[p] : <<p, s>> \notin moved} ELSE new[p]],
              workers |-> [p \in old \cup DOMAIN new |->
                  IF p \in old THEN pt.workers[p] ELSE {IdleWorker}],
              index |-> [s \in Symbol |-> (pt.index[s] \ from(s)) \cup to(s)],
              displaced |-> pt.displaced]
    BY Zenon DEF Split
  <1>4. /\ \A id : id \in names <=> \E s : MadeFor(pt, visited, hot, time, id, s)
        /\ \A id, x : x \in holds(id) <=> MadeFor(pt, visited, hot, time, id, x)
        /\ \A id, s : id \in to(s) <=> MadeFor(pt, visited, hot, time, id, s)
    <2> HIDE DEF moved
    <2>1. \A id, s : MadeFor(pt, visited, hot, time, id, s) <=>
                       \E p : <<p, s>> \in moved /\ id = HotID(p, s, time)
      BY <1>1, Zenon DEF MadeFor
    <2>2. ASSUME NEW id PROVE id \in names <=> \E s : MadeFor(pt, visited, hot, time, id, s)
      <3>1. ASSUME id \in names PROVE \E s : MadeFor(pt, visited, hot, time, id, s)
        <4>1. PICK m \in moved : id = HotID(m[1], m[2], time)
          BY <3>1, Zenon
        <4>. QED  BY <1>2, <2>1, <4>1, Zenon
      <3>2. ASSUME NEW s, MadeFor(pt, visited, hot, time, id, s) PROVE id \in names
        <4>1. PICK p : <<p, s>> \in moved /\ id = HotID(p, s, time)
          BY <1>1, <3>2, Zenon DEF MadeFor
        <4>. QED  BY <4>1
      <3>. QED  BY <3>1, <3>2, Zenon
    <2>3. ASSUME NEW id, NEW x
          PROVE  x \in holds(id) <=> MadeFor(pt, visited, hot, time, id, x)
      <3>1. ASSUME x \in holds(id) PROVE MadeFor(pt, visited, hot, time, id, x)
        <4>1. PICK m \in moved : HotID(m[1], m[2], time) = id /\ x = m[2]
          BY <3>1, Zenon
        <4>. QED  BY <1>2, <2>1, <4>1, Zenon
      <3>2. ASSUME MadeFor(pt, visited, hot, time, id, x) PROVE x \in holds(id)
        <4>1. PICK p : <<p, x>> \in moved /\ id = HotID(p, x, time)
          BY <1>1, <3>2, Zenon DEF MadeFor
        <4>. QED  BY <4>1
      <3>. QED  BY <3>1, <3>2, Zenon
    <2>4. ASSUME NEW id, NEW s
          PROVE  id \in to(s) <=> MadeFor(pt, visited, hot, time, id, s)
      <3>1. ASSUME id \in to(s) PROVE MadeFor(pt, visited, hot, time, id, s)
        <4>1. PICK m \in moved : m[2] = s /\ id = HotID(m[1], s, time)
          BY <3>1, Zenon
        <4>. QED  BY <1>2, <2>1, <4>1, Zenon
      <3>2. ASSUME MadeFor(pt, visited, hot, time, id, s) PROVE id \in to(s)
        <4>1. PICK p : <<p, s>> \in moved /\ id = HotID(p, s, time)
          BY <1>1, <3>2, Zenon DEF MadeFor
        <4>. QED  BY <4>1
      <3>. QED  BY <3>1, <3>2, Zenon
    <2>. QED  BY <2>2, <2>3, <2>4, Zenon
  <1>5. ASSUME NEW id, NEW s PROVE id \in from(s) <=> Moved(pt, visited, hot, id, s)
    <2> HIDE DEF moved
    <2>1. ASSUME id \in from(s) PROVE Moved(pt, visited, hot, id, s)
      <3>1. PICK m \in moved : m[2] = s /\ id = m[1]
        BY <2>1, Zenon
      <3>. QED  BY <1>2, <3>1, Zenon
    <2>2. ASSUME Moved(pt, visited, hot, id, s) PROVE id \in from(s)
      <3>1. <<id, s>> \in moved
        BY <1>1, <2>2, Zenon
      <3>. QED  BY <3>1
    <2>. QED  BY <2>1, <2>2, Zenon
  <1> HIDE DEF moved, from, to, names, holds, nt
  <1>6. DOMAIN nt.symbols = DOMAIN pt.symbols \cup names
    BY <1>3, Zenon
  <1>7. \A id \in DOMAIN nt.symbols : nt.symbols[id] =
            IF id \in names THEN holds(id) ELSE {s \in pt.symbols[id] : <<id, s>> \notin moved}
    BY <1>3, Zenon
  <1>8. /\ \A s \in Symbol : nt.index[s] = (pt.index[s] \ from(s)) \cup to(s)
        /\ nt.displaced = pt.displaced
    BY <1>3, Zenon
  <1>9. \A id : id \in DOMAIN nt.symbols <=>
                  \/ id \in DOMAIN pt.symbols
                  \/ \E s : MadeFor(pt, visited, hot, time, id, s)
    BY <1>4, <1>6, Zenon
  <1>10. \A id \in DOMAIN nt.symbols : \A x : x \in nt.symbols[id] <=>
            \/ MadeFor(pt, visited, hot, time, id, x)
            \/ /\ ~\E s : MadeFor(pt, visited, hot, time, id, s)
               /\ x \in pt.symbols[id] /\ ~Moved(pt, visited, hot, id, x)
    BY <1>1, <1>4, <1>7, Zenon
  <1>11. \A s \in Symbol : \A id : id \in nt.index[s] <=>
            \/ id \in pt.index[s] /\ ~Moved(pt, visited, hot, id, s)
            \/ MadeFor(pt, visited, hot, time, id, s)
    BY <1>4, <1>5, <1>8, Zenon
  <1>. QED  BY <1>8, <1>9, <1>10, <1>11, Zenon DEF nt

\* The name of a hot partition tells its symbol; that of a cold one is never the
\* name of a hot one.
LEMMA Names ==
    /\ \A p \in Seq(Word), s \in Symbol, time \in Time :
          /\ HotID(p, s, time) \in Seq(Word)
          /\ IsHot(HotID(p, s, time)) /\ HotSymbol(HotID(p, s, time)) = s
    /\ \A time \in Time : ColdID(time) \in Seq(Word) /\ ~IsHot(ColdID(time))
  <1>1. "hot" \in Word /\ "cold" \in Word /\ Symbol \subseteq Word /\ Time \subseteq Word
    BY Zenon DEF Word
  <1>2. ASSUME NEW p \in Seq(Word), NEW s \in Symbol, NEW time \in Time
        PROVE  /\ HotID(p, s, time) \in Seq(Word)
               /\ IsHot(HotID(p, s, time)) /\ HotSymbol(HotID(p, s, time)) = s
    <2> DEFINE tail == <<"hot", s, time>>
    <2>1. tail \in Seq(Word) /\ Len(tail) = 3 /\ tail[1] = "hot" /\ tail[2] = s
      BY <1>1
    <2> HIDE DEF tail
    <2>2. /\ p \o tail \in Seq(Word) /\ Len(p \o tail) = Len(p) + 3 /\ Len(p) \in Nat
          /\ (p \o tail)[Len(p) + 1] = "hot" /\ (p \o tail)[Len(p) + 2] = s
      <3>1. Len(p) \in Nat
        OBVIOUS
      <3>2. /\ p \o tail \in Seq(Word) /\ Len(p \o tail) = Len(p) + Len(tail)
            /\ \A i \in 1 .. Len(p) + Len(tail) :
                  (p \o tail)[i] = IF i <= Len(p) THEN p[i] ELSE tail[i - Len(p)]
        BY <2>1, ConcatProperties, Zenon
      <3>3. /\ Len(p) + 1 \in 1 .. Len(p) + Len(tail) /\ ~(Len(p) + 1 <= Len(p))
            /\ Len(p) + 2 \in 1 .. Len(p) + Len(tail) /\ ~(Len(p) + 2 <= Len(p))
            /\ (Len(p) + 1) - Len(p) = 1 /\ (Len(p) + 2) - Len(p) = 2
        BY <2>1, <3>1
      <3>. QED  BY <2>1, <3>1, <3>2, <3>3, Zenon
    <2>3. HotID(p, s, time) = p \o tail
      BY Zenon DEF HotID, tail
    <2>. QED  BY <2>2, <2>3 DEF IsHot, HotSymbol
  <1>3. ASSUME NEW time \in Time
        PROVE  ColdID(time) \in Seq(Word) /\ ~IsHot(ColdID(time))
    BY <1>1 DEF ColdID, IsHot
  <1>. QED  BY <1>2, <1>3, Zenon

\* splitHotSymbols keeps a table sound, a table it has partly split and names of
\* partitions that are there already included.
LEMMA SplitSound ==
    ASSUME NEW pt, Sound(pt), NEW visited \in SUBSET DOMAIN pt.symbols,
           NEW hot \in SUBSET Symbol, NEW time \in Time
    PROVE  Sound(Split(pt, visited, hot, time))
  <1> DEFINE nt == Split(pt, visited, hot, time)
             Goes(p, s) == Moved(pt, visited, hot, p, s)
             Made(id, s) == MadeFor(pt, visited, hot, time, id, s)
  <1>1. /\ \A id : id \in DOMAIN nt.symbols <=> id \in DOMAIN pt.symbols \/ \E s : Made(id, s)
        /\ \A id \in DOMAIN nt.symbols : \A x : x \in nt.symbols[id] <=>
              \/ Made(id, x)
              \/ (~\E s : Made(id, s)) /\ x \in pt.symbols[id] /\ ~Goes(id, x)
        /\ \A s \in Symbol : \A id : id \in nt.index[s] <=>
              (id \in pt.index[s] /\ ~Goes(id, s)) \/ Made(id, s)
        /\ nt.displaced = pt.displaced
    BY SplitTable, Zenon
  <1>2. /\ DOMAIN pt.symbols \subseteq Seq(Word) /\ HotHoldsItsSymbol(pt)
        /\ \A s \in Symbol : Agree(pt, s)
    BY Zenon DEF Sound
  <1>3. ASSUME NEW id, NEW s, Made(id, s)
        PROVE  id \in Seq(Word) /\ IsHot(id) /\ HotSymbol(id) = s
    <2>1. PICK p : p \in visited /\ s \in hot /\ id = HotID(p, s, time)
      BY <1>3, Zenon DEF MadeFor, Moved
    <2>2. p \in Seq(Word) /\ s \in Symbol
      BY <1>2, <2>1, Zenon
    <2>. QED  BY <2>1, <2>2, Names, Zenon
  <1>4. ASSUME NEW p, NEW s, Goes(p, s) PROVE \E id : Made(id, s)
    BY <1>4, Zenon DEF MadeFor
  <1>5. \A p, s : Goes(p, s) => s \in pt.symbols[p] /\ p \in DOMAIN pt.symbols
    BY Zenon DEF Moved
  <1> HIDE DEF nt, Goes, Made
  <1>6. DOMAIN nt.symbols \subseteq Seq(Word)
    BY <1>1, <1>2, <1>3, Zenon
  <1>7. HotHoldsItsSymbol(nt)
    <2> SUFFICES ASSUME NEW id \in DOMAIN nt.symbols, IsHot(id), NEW x \in nt.symbols[id]
                 PROVE  x = HotSymbol(id)
      BY Zenon DEF HotHoldsItsSymbol
    <2>1. CASE Made(id, x)
      BY <1>3, <2>1, Zenon
    <2>2. CASE x \in pt.symbols[id] /\ ~\E s : Made(id, s)
      BY <1>1, <1>2, <2>2, Zenon DEF HotHoldsItsSymbol
    <2>. QED  BY <1>1, <2>1, <2>2, Zenon
  <1>8. ASSUME NEW s \in Symbol PROVE Agree(nt, s)
    <2>1. /\ pt.index[s] # {} /\ pt.index[s] \subseteq DOMAIN pt.symbols
          /\ s \notin pt.displaced => pt.index[s] = Placements(pt, s)
      BY <1>2, Zenon DEF Agree
    <2>2. nt.index[s] # {}
      <3>1. PICK p : p \in pt.index[s]
        BY <2>1, Zenon
      <3>. QED  BY <1>1, <1>4, <3>1, Zenon
    <2>3. nt.index[s] \subseteq DOMAIN nt.symbols
      BY <1>1, <2>1, Zenon
    <2>4. ASSUME s \notin nt.displaced PROVE nt.index[s] = Placements(nt, s)
      <3>1. \A id : id \in pt.index[s] <=> id \in DOMAIN pt.symbols /\ s \in pt.symbols[id]
        BY <1>1, <2>1, <2>4, Zenon DEF Placements
      <3>2. ASSUME NEW id \in nt.index[s] PROVE id \in DOMAIN nt.symbols /\ s \in nt.symbols[id]
        <4>1. CASE Made(id, s)
          BY <1>1, <4>1, Zenon
        <4>2. CASE id \in pt.index[s] /\ ~Goes(id, s) /\ ~Made(id, s)
          <5>1. id \in DOMAIN pt.symbols /\ s \in pt.symbols[id]
            BY <3>1, <4>2, Zenon
          <5>2. ~\E x : Made(id, x)
            <6> SUFFICES ASSUME NEW x, Made(id, x) PROVE FALSE
              BY Zenon
            <6>1. IsHot(id) /\ HotSymbol(id) = x
              BY <1>3, Zenon
            <6>2. s = x
              BY <1>2, <5>1, <6>1, Zenon DEF HotHoldsItsSymbol
            <6>. QED  BY <4>2, <6>2, Zenon
          <5>. QED  BY <1>1, <4>2, <5>1, <5>2, Zenon
        <4>. QED  BY <1>1, <4>1, <4>2, Zenon
      <3>3. ASSUME NEW id \in DOMAIN nt.symbols, s \in nt.symbols[id] PROVE id \in nt.index[s]
        <4>1. CASE Made(id, s)
          BY <1>1, <4>1, Zenon
        <4>2. CASE (~\E x : Made(id, x)) /\ s \in pt.symbols[id] /\ ~Goes(id, s)
          <5>1. id \in DOMAIN pt.symbols
            BY <1>1, <4>2, Zenon
          <5>. QED  BY <1>1, <3>1, <4>2, <5>1, Zenon
        <4>. QED  BY <1>1, <3>3, <4>1, <4>2, Zenon
      <3>. QED  BY <3>2, <3>3, Zenon DEF Placements
    <2>. QED  BY <2>2, <2>3, <2>4, Zenon DEF Agree
  <1>9. Sound(nt)
    BY <1>6, <1>7, <1>8, Zenon DEF Sound
  <1>. QED  BY <1>9, Zenon DEF nt

\* mergeColdSymbols keeps a table sound: a cold symbol is where it is indexed, and
\* one that was in the partition whose name is taken again counts as displaced.
LEMMA MergeSound ==
    ASSUME NEW pt, Sound(pt), NEW cold, NEW time \in Time
    PROVE  Sound(Merge(pt, cold, time))
  <1> DEFINE nt == Merge(pt, cold, time)
             id == ColdID(time)
  <1>1. /\ DOMAIN nt.symbols = DOMAIN pt.symbols \cup {id}
        /\ \A p \in DOMAIN nt.symbols :
              nt.symbols[p] = IF p = id THEN cold ELSE pt.symbols[p] \ cold
        /\ \A s \in Symbol : nt.index[s] = IF s \in cold THEN {id} ELSE pt.index[s]
        /\ nt.displaced = pt.displaced \cup
              (IF id \in DOMAIN pt.symbols THEN pt.symbols[id] \ cold ELSE {})
    BY Zenon DEF Merge
  <1>2. id \in Seq(Word) /\ ~IsHot(id)
    BY Names, Zenon
  <1>3. /\ DOMAIN pt.symbols \subseteq Seq(Word) /\ HotHoldsItsSymbol(pt)
        /\ \A s \in Symbol : Agree(pt, s)
    BY Zenon DEF Sound
  <1> HIDE DEF nt, id
  <1>4. DOMAIN nt.symbols \subseteq Seq(Word)
    BY <1>1, <1>2, <1>3, Zenon
  <1>5. HotHoldsItsSymbol(nt)
    BY <1>1, <1>2, <1>3, Zenon DEF HotHoldsItsSymbol
  <1>6. ASSUME NEW s \in Symbol PROVE Agree(nt, s)
    <2>1. /\ pt.index[s] # {} /\ pt.index[s] \subseteq DOMAIN pt.symbols
          /\ s \notin pt.displaced => pt.index[s] = Placements(pt, s)
      BY <1>3, Zenon DEF Agree
    <2>2. CASE s \in cold
      <3>1. nt.index[s] = {id} /\ id \in DOMAIN nt.symbols
        BY <1>1, <2>2, Zenon
      <3>2. \A p \in DOMAIN nt.symbols : s \in nt.symbols[p] <=> p = id
        BY <1>1, <2>2, Zenon
      <3>3. Placements(nt, s) = {id}
        BY <3>1, <3>2, Zenon DEF Placements
      <3>. QED  BY <3>1, <3>3, Zenon DEF Agree
    <2>3. CASE s \notin cold
      <3>1. nt.index[s] = pt.index[s]
        BY <1>1, <2>3, Zenon
      <3>2. ASSUME s \notin nt.displaced PROVE Placements(nt, s) = Placements(pt, s)
        <4>1. id \in DOMAIN pt.symbols => s \notin pt.symbols[id]
          BY <1>1, <2>3, <3>2, Zenon
        <4>. QED  BY <1>1, <2>3, <4>1, Zenon DEF Placements
      <3>3. s \notin nt.displaced => s \notin pt.displaced
        BY <1>1, Zenon
      <3>. QED  BY <1>1, <2>1, <3>1, <3>2, <3>3, Zenon DEF Agree
    <2>. QED  BY <2>2, <2>3, Zenon
  <1>7. Sound(nt)
    BY <1>4, <1>5, <1>6, Zenon DEF Sound
  <1>. QED  BY <1>7, Zenon DEF nt

\* Every table scaleIfNeeded may write of a sound one is sound.
LEMMA ScaledSound ==
    ASSUME NEW pt, Sound(pt), NEW load \in Load, NEW new \in Scaled(pt, load)
    PROVE  Sound(new)
  <1> DEFINE placed == UNION {pt.symbols[p] : p \in DOMAIN pt.symbols}
             hot == load.hot \cap placed
             cold == load.cold \cap placed
             First(time) == Split(pt, DOMAIN pt.symbols, hot, time)
             Inserted(time) == DOMAIN First(time).symbols \ DOMAIN pt.symbols
             split(time, again) == Split(First(time), again, hot, time)
  <1>0. PICK time \in Time : \E again \in SUBSET Inserted(time) :
          new = IF Cardinality(cold) > 1 THEN Merge(split(time, again), cold, time)
                                         ELSE split(time, again)
    <2> DEFINE Rescaled(t, again) ==
                 IF Cardinality(cold) > 1 THEN Merge(split(t, again), cold, t)
                                          ELSE split(t, again)
    <2>1. Scaled(pt, load) =
            IF hot = {} /\ Cardinality(cold) <= 1 THEN {}
            ELSE UNION {{Rescaled(t, again) : again \in SUBSET Inserted(t)} : t \in Time}
      BY Zenon DEF Scaled
    <2> HIDE DEF Rescaled, hot, cold, Inserted
    <2>2. \E t \in Time : new \in {Rescaled(t, again) : again \in SUBSET Inserted(t)}
      BY <2>1
    <2>3. \E t \in Time : \E again \in SUBSET Inserted(t) : new = Rescaled(t, again)
      BY <2>2, Zenon
    <2>. QED  BY <2>3, Zenon DEF Rescaled
  <1>1. PICK again \in SUBSET Inserted(time) :
          new = IF Cardinality(cold) > 1 THEN Merge(split(time, again), cold, time)
                                         ELSE split(time, again)
    BY <1>0, Zenon
  <1>2. hot \in SUBSET Symbol
    BY LoadAssumption, Zenon
  <1> HIDE DEF hot, cold
  <1>3. Sound(First(time))
    BY <1>2, SplitSound, Zenon
  <1>4. again \in SUBSET DOMAIN First(time).symbols
    BY <1>1, Zenon
  <1> HIDE DEF First
  <1>5. Sound(split(time, again))
    BY <1>2, <1>3, <1>4, SplitSound, Zenon
  <1> HIDE DEF split
  <1>6. Sound(Merge(split(time, again), cold, time))
    BY <1>5, MergeSound, Zenon
  <1>. QED  BY <1>1, <1>5, <1>6, Zenon

\* Every step of the autoscalers, the watches, the engines and the restarts keeps
\* all copies of the table sound.
LEMMA TableStep ==
    ASSUME TableInv, [TableNext]_tableVars PROVE TableInv'
  <1>0. /\ DOMAIN cache = Node /\ DOMAIN fetched = Node
        /\ DOMAIN tick = Node /\ DOMAIN payload = Node
        /\ Sound(table.pt)
        /\ \A m \in Node : Sound(cache[m])
        /\ \A m \in Node : fetched[m] # None => Sound(fetched[m])
        /\ \A m \in Node : tick[m] # "waiting" => Sound(payload[m])
    BY Zenon DEF TableInv
  <1>1. ASSUME NEW n \in Node, ScaleIfNeeded(n) PROVE TableInv'
    <2>1. PICK load \in Load : \E pt \in Scaled(cache[n], load) :
                                  payload' = [payload EXCEPT ![n] = pt]
      BY <1>1, Zenon DEF ScaleIfNeeded
    <2>2. PICK pt \in Scaled(cache[n], load) : payload' = [payload EXCEPT ![n] = pt]
      BY <2>1, Zenon
    <2>3. Sound(pt)
      BY <1>0, ScaledSound, Zenon
    <2>4. tick' = [tick EXCEPT ![n] = "store"] /\ UNCHANGED <<table, cache, fetched>>
      BY <1>1, Zenon DEF ScaleIfNeeded, watch
    <2>. QED  BY <1>0, <2>2, <2>3, <2>4, Zenon DEF TableInv
  <1>2. ASSUME NEW n \in Node, UpdatePartitionTable(n) PROVE TableInv'
    BY <1>0, <1>2, Zenon DEF UpdatePartitionTable, watch, TableInv
  <1>3. ASSUME NEW n \in Node, Marshal(n) PROVE TableInv'
    BY <1>0, <1>3, Zenon DEF Marshal, watch, TableInv
  <1>4. ASSUME NEW n \in Node, Put(n) PROVE TableInv'
    <2>1. /\ Sound(payload[n]) /\ table'.pt = payload[n] /\ UNCHANGED <<cache, fetched>>
          /\ tick' = [tick EXCEPT ![n] = "waiting"]
          /\ payload' = [payload EXCEPT ![n] = None]
      BY <1>0, <1>4, Zenon DEF Put, EndTick, watch
    <2>. QED  BY <1>0, <2>1, Zenon DEF TableInv
  <1>5. ASSUME NEW n \in Node, PutFails(n) PROVE TableInv'
    BY <1>0, <1>5, Zenon DEF PutFails, EndTick, watch, TableInv
  <1>6. ASSUME NEW n \in Node, Watch(n) PROVE TableInv'
    BY <1>0, <1>6, Zenon DEF Watch, WatchGet, WatchStore, scaler, TableInv
  <1>7. ASSUME NEW n \in Node, WatchPartitionChange(n) PROVE TableInv'
    BY <1>0, <1>7, Zenon DEF WatchPartitionChange, watch, scaler, TableInv
  <1>8. ASSUME NEW n \in Node, Restart(n) PROVE TableInv'
    BY <1>0, <1>8, Zenon DEF Restart, EndTick, TableInv
  <1>9. CASE UNCHANGED tableVars
    BY <1>9, Zenon DEF tableVars, watch, scaler, TableInv
  <1>. QED  BY <1>1, <1>2, <1>3, <1>4, <1>5, <1>6, <1>7, <1>8, <1>9, Zenon DEF TableNext, Save

\* Every copy of the table stays sound, whatever is split and merged on whichever
\* stale copy, for any first table, nodes, symbols, loads and times of day.
THEOREM TableInvariance == TableSpec => []TableInv
  <1>1. TableInit => TableInv
    BY FirstTableAssumption DEF TableInit, TableInv
  <1>. QED  BY <1>1, TableStep, PTL DEF TableSpec

\* The index by symbol and the partitions are two views of one assignment in the
\* table in Consul and in every node's cache.
THEOREM Placement == TableSpec => []SymbolsPlaced
  <1>1. TableInv => SymbolsPlaced
    <2> SUFFICES ASSUME TableInv, NEW pt \in Tables, NEW s \in Symbol PROVE Agree(pt, s)
      BY Zenon DEF SymbolsPlaced, Agree
    <2>1. Sound(pt)
      BY Zenon DEF TableInv, Tables
    <2>. QED  BY <2>1, Zenon DEF Sound
  <1>. QED  BY <1>1, TableInvariance, PTL
=============================================================================
