-------------------------- MODULE OwnershipEpochs --------------------------
(***************************************************************************)
(* The epoch of a partition's owner in Redis                               *)
(* (biz/service/ownership_epoch_manager.go), the distributed lock it is    *)
(* updated under (biz/service/redis_lock_manager.go) and the check of an   *)
(* order against a cached epoch (biz/handler/order_fencing.go).            *)
(*                                                                         *)
(* A key that does not exist reads as epoch 0 and NoOwner.  The pipeline   *)
(* of UpdateOwnershipEpoch is no transaction: its commands take effect one *)
(* by one, and a broken connection leaves a prefix of them.                *)
(***************************************************************************)
EXTENDS Integers

CONSTANTS
    Updater,  \* calls of UpdateOwnershipEpoch that may run at a time
    Free,     \* no caller: nobody has the lock
    Owner,    \* nodes that may own the partition
    NoOwner,
    Cache,    \* holders of a cached epoch: LocalEpochCache, orders
    MaxEpoch  \* bound on the epochs

ASSUME UpdaterAssumption == Free \notin Updater
ASSUME OwnerAssumption == NoOwner \notin Owner
ASSUME EpochAssumption == MaxEpoch \in Nat

VARIABLES
    lock,        \* the caller whose value the lock's key has, or Free
    pc,          \* where each call is
    newOwner,    \* its argument
    newEpoch,    \* the epoch it writes
    epoch, owner, \* the two fields of the key
    intact,      \* history: no lock expired under a call before its last write,
                 \* and the key did not expire
    granted,     \* history: the epochs returned as long as intact, with the
                 \* owner they are for
    token,       \* each cached epoch, 0 for none, with the owner at that time
    verdict      \* outcome of the last check of it, with the owner at that time

key == <<epoch, owner>>
updates == <<pc, newOwner, newEpoch>>
order == <<token, verdict>>
epochVars == <<lock, updates, key, granted, intact, order>>

NoToken == [epoch |-> 0, owner |-> NoOwner, torn |-> FALSE]

EpochTypeOK ==
    /\ lock \in Updater \cup {Free}
    /\ pc \in [Updater -> {"idle", "read", "epoch", "owner", "unlock"}]
    /\ newOwner \in [Updater -> Owner \cup {NoOwner}]
    /\ newEpoch \in [Updater -> Nat]
    /\ epoch \in Nat
    /\ owner \in Owner \cup {NoOwner}
    /\ granted \subseteq [epoch : Nat, owner : Owner \cup {NoOwner}]
    /\ intact \in BOOLEAN
    /\ token \in [Cache -> [epoch : Nat, owner : Owner \cup {NoOwner}, torn : BOOLEAN]]
    /\ verdict \in [Cache -> [passed : BOOLEAN, owner : Owner \cup {NoOwner}]]

EpochInit ==
    /\ lock = Free
    /\ pc = [c \in Updater |-> "idle"]
    /\ newOwner = [c \in Updater |-> NoOwner]
    /\ newEpoch = [c \in Updater |-> 0]
    /\ epoch = 0
    /\ owner = NoOwner
    /\ granted = {}
    /\ intact = TRUE
    /\ token = [k \in Cache |-> NoToken]
    /\ verdict = [k \in Cache |-> [passed |-> FALSE, owner |-> NoOwner]]

-----------------------------------------------------------------------------
(* WithLock: LockContext succeeds when the key of the lock is free; a call *)
(* that gives up after its retries changes nothing.                        *)

\* Mutant of Lock: the lock is not waited for.
LockAnyway(c, o) ==
    /\ pc[c] = "idle"
    /\ lock' = c
    /\ pc' = [pc EXCEPT ![c] = "read"]
    /\ newOwner' = [newOwner EXCEPT ![c] = o]
    /\ UNCHANGED <<newEpoch, key, granted, intact, order>>

Lock(c, o) ==
    /\ pc[c] = "idle"
    /\ lock = Free
    /\ lock' = c
    /\ pc' = [pc EXCEPT ![c] = "read"]
    /\ newOwner' = [newOwner EXCEPT ![c] = o]
    /\ UNCHANGED <<newEpoch, key, granted, intact, order>>

Return(c) ==
    /\ pc' = [pc EXCEPT ![c] = "idle"]
    /\ newOwner' = [newOwner EXCEPT ![c] = NoOwner]
    /\ newEpoch' = [newEpoch EXCEPT ![c] = 0]

\* The deferred Unlock deletes the key of the lock if its value is still there.
Unlock(c) ==
    /\ pc[c] = "unlock"
    /\ lock' = IF lock = c THEN Free ELSE lock
    /\ Return(c)
    /\ UNCHANGED <<key, granted, intact, order>>

\* The lock expires after the default of the library, as the ExpireDuration
\* of the options is not passed on.
LockExpires ==
    /\ lock # Free
    /\ lock' = Free
    /\ \/ pc[lock] \in {"idle", "unlock"} /\ UNCHANGED <<intact, granted>>
       \/ pc[lock] \notin {"idle", "unlock"} /\ intact' = FALSE /\ granted' = {}
    /\ UNCHANGED <<updates, key, order>>

\* The process of a call dies, or its Unlock fails: the lock stays until it
\* expires.
Crash(c) ==
    /\ pc[c] # "idle"
    /\ Return(c)
    /\ UNCHANGED <<lock, key, granted, intact, order>>

-----------------------------------------------------------------------------
(* The section of UpdateOwnershipEpoch.                                    *)

Grant(c, e) ==
    granted' = IF intact THEN granted \cup {[epoch |-> e, owner |-> newOwner[c]]} ELSE {}

\* GetOwnershipInfo: for the same owner there is nothing to write.
GetOwnershipInfo(c) ==
    /\ pc[c] = "read"
    /\ newEpoch' = [newEpoch EXCEPT ![c] = IF owner = newOwner[c] THEN 0 ELSE epoch + 1]
    /\ \/ /\ owner = newOwner[c]
          /\ pc' = [pc EXCEPT ![c] = "unlock"]
          /\ Grant(c, epoch)
       \/ /\ owner # newOwner[c]
          /\ epoch < MaxEpoch
          /\ pc' = [pc EXCEPT ![c] = "epoch"]
          /\ UNCHANGED granted
    /\ UNCHANGED <<lock, newOwner, key, intact, order>>

SetEpoch(c) ==
    /\ pc[c] = "epoch"
    /\ epoch' = newEpoch[c]
    /\ pc' = [pc EXCEPT ![c] = "owner"]
    /\ UNCHANGED <<lock, newOwner, newEpoch, owner, granted, intact, order>>

\* The rest of the pipeline; its answer may be lost.
SetOwner(c) ==
    /\ pc[c] = "owner"
    /\ owner' = newOwner[c]
    /\ pc' = [pc EXCEPT ![c] = "unlock"]
    /\ Grant(c, newEpoch[c]) \/ UNCHANGED granted
    /\ UNCHANGED <<lock, newOwner, newEpoch, epoch, intact, order>>

\* Mutant of CommandFails: the write of the epoch is taken back.
CommandFailsUndoes(c) ==
    /\ pc[c] \in {"read", "epoch", "owner"}
    /\ pc' = [pc EXCEPT ![c] = "unlock"]
    /\ epoch' = IF pc[c] = "owner" THEN epoch - 1 ELSE epoch
    /\ UNCHANGED <<lock, newOwner, newEpoch, owner, granted, intact, order>>

\* A command fails: the call returns an error.
CommandFails(c) ==
    /\ pc[c] \in {"read", "epoch", "owner"}
    /\ pc' = [pc EXCEPT ![c] = "unlock"]
    /\ UNCHANGED <<lock, newOwner, newEpoch, key, granted, intact, order>>

\* The key expires a day after the last update.
KeyExpires ==
    /\ epoch # 0
    /\ epoch' = 0
    /\ owner' = NoOwner
    /\ intact' = FALSE
    /\ granted' = {}
    /\ UNCHANGED <<lock, updates, order>>

-----------------------------------------------------------------------------
\* An epoch is read and kept: FillEventContextWithEpoch, LocalEpochCache.Set,
\* a client's copy.
GetEpoch(k) ==
    /\ token' = [token EXCEPT ![k] = [epoch |-> epoch, owner |-> owner,
                                      torn |-> \E c \in Updater : pc[c] = "owner"]]
    /\ verdict' = [verdict EXCEPT ![k] = [passed |-> FALSE, owner |-> NoOwner]]
    /\ UNCHANGED <<lock, updates, key, granted, intact>>

\* Mutant of VerifyOrderOwnershipFencing: only a later epoch is refused.
VerifyLaterOnly(k) ==
    /\ verdict' = [verdict EXCEPT ![k] =
          [passed |-> token[k].epoch = 0 \/ token[k].epoch <= epoch, owner |-> owner]]
    /\ UNCHANGED <<lock, updates, key, granted, intact, token>>

\* The order passes if there is no cached epoch or it is the current one.
VerifyOrderOwnershipFencing(k) ==
    /\ verdict' = [verdict EXCEPT ![k] =
          [passed |-> token[k].epoch = 0 \/ token[k].epoch = epoch, owner |-> owner]]
    /\ UNCHANGED <<lock, updates, key, granted, intact, token>>

\* The same check of an event: no epoch counts as epoch 0.
VerifyOwnershipFencing(k) ==
    /\ verdict' = [verdict EXCEPT ![k] =
          [passed |-> token[k].epoch = epoch, owner |-> owner]]
    /\ UNCHANGED <<lock, updates, key, granted, intact, token>>

\* The cached epoch is dropped: LocalEpochCache.Get past its time, Invalidate.
Invalidate(k) ==
    /\ token' = [token EXCEPT ![k] = NoToken]
    /\ verdict' = [verdict EXCEPT ![k] = [passed |-> FALSE, owner |-> NoOwner]]
    /\ UNCHANGED <<lock, updates, key, granted, intact>>

EpochNext ==
    \/ \E c \in Updater, o \in Owner : Lock(c, o)
    \/ \E c \in Updater :
          \/ Unlock(c)
          \/ Crash(c)
          \/ GetOwnershipInfo(c)
          \/ SetEpoch(c)
          \/ SetOwner(c)
          \/ CommandFails(c)
    \/ LockExpires
    \/ KeyExpires
    \/ \E k \in Cache :
          \/ GetEpoch(k)
          \/ VerifyOrderOwnershipFencing(k)
          \/ VerifyOwnershipFencing(k)
          \/ Invalidate(k)

EpochSpec == EpochInit /\ [][EpochNext]_epochVars

-----------------------------------------------------------------------------
(* Properties.                                                             *)

\* One epoch is never returned for two owners, whatever calls race, fail half
\* way or die, as long as the lock does not expire under a call and the key
\* does not expire.
EpochIdentifiesOwner ==
    intact =>
        \A g, h \in granted : g.epoch = h.epoch => g.owner = h.owner

\* The epoch is "单调递增" (monotonically increasing) under the same two conditions:
\* no write of a call puts it back.
EpochNeverFalls == [][intact' => epoch' >= epoch]_epochVars

\* An order whose cached epoch passes the check is of the time of the current
\* owner: no migration, however many there were, came between, under the same
\* two conditions and if the epoch was not cached in the middle of an update.
FencingDetectsMigration ==
    intact =>
        \A k \in Cache :
            verdict[k].passed /\ token[k].epoch # 0 /\ ~token[k].torn =>
                verdict[k].owner = token[k].owner
=============================================================================
