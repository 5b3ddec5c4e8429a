------------------------------- MODULE Outbox -------------------------------
(***************************************************************************)
(* The outbox table (biz/dal/pg/outbox_repo.go) and the dispatchers that   *)
(* publish its rows to Kafka (biz/service/outbox_dispatcher.go).  Every    *)
(* server process runs a dispatcher on the shared table.                   *)
(*                                                                         *)
(* An event is a number that stands for its created_at: rows are published *)
(* in that order, but become visible in any order, as their transactions   *)
(* commit.  The sender is the asynchronous one biz/dal/kafka/init.go sets  *)
(* up: it returns before the message is with the broker.                   *)
(***************************************************************************)
EXTENDS Naturals, FiniteSets

CONSTANTS
    Event,      \* a set of numbers
    Dispatcher, \* the dispatchers, one per server process
    BatchSize,  \* rows read at a time
    MayFail,    \* the sets of events publishEntry may fail for whenever it tries
    MaxSettled, \* bound: how often an event's transaction may take effect
    MaxCleaned  \* bound: how many rows are deleted

ASSUME EventAssumption == Event \subseteq Nat
ASSUME FailureAssumption == MayFail \subseteq SUBSET Event
ASSUME BoundAssumption == MaxSettled \in Nat \ {0} /\ MaxCleaned \in Nat

VARIABLES
    rows,        \* each event's row: "none", "unpublished", "published"
    unsendable,  \* events publishEntry always fails for, say for their size
    pc,          \* what each dispatcher is doing
    batch,       \* the entries it has still to publish
    successfulEventIDs,
    buffer,      \* messages its asynchronous sender holds
    settled,     \* history: how often the event's transaction took effect
    cleaned,     \* history: the events whose row was deleted
    delivered,   \* the events the broker has received
    lost         \* history: events a sender took and lost, and the broker never got

table == <<rows, unsendable, settled, cleaned>>
sending == <<buffer, delivered, lost>>
vars == <<table, pc, batch, successfulEventIDs, sending>>

TypeOK ==
    /\ rows \in [Event -> {"none", "unpublished", "published"}]
    /\ unsendable \in MayFail
    /\ pc \in [Dispatcher -> {"waiting", "publishing"}]
    /\ batch \in [Dispatcher -> SUBSET Event]
    /\ successfulEventIDs \in [Dispatcher -> SUBSET Event]
    /\ buffer \in [Dispatcher -> SUBSET Event]
    /\ \A d \in Dispatcher : pc[d] = "waiting" => batch[d] = {} /\ successfulEventIDs[d] = {}
    /\ settled \in [Event -> 0 .. MaxSettled]
    /\ cleaned \subseteq Event
    /\ delivered \subseteq Event
    /\ lost \subseteq Event

Init ==
    /\ rows = [e \in Event |-> "none"]
    /\ unsendable \in MayFail
    /\ pc = [d \in Dispatcher |-> "waiting"]
    /\ batch = [d \in Dispatcher |-> {}]
    /\ successfulEventIDs = [d \in Dispatcher |-> {}]
    /\ buffer = [d \in Dispatcher |-> {}]
    /\ settled = [e \in Event |-> 0]
    /\ cleaned = {}
    /\ delivered = {}
    /\ lost = {}

-----------------------------------------------------------------------------
\* Mutant of WriteOutboxEntryIfNotExists: unique among unpublished rows only.
WriteOutboxEntryIfPublished(e) ==
    /\ rows[e] # "unpublished"
    /\ rows' = [rows EXCEPT ![e] = "unpublished"]
    /\ settled[e] < MaxSettled
    /\ settled' = [settled EXCEPT ![e] = @ + 1]
    /\ UNCHANGED <<unsendable, cleaned, pc, batch, successfulEventIDs, sending>>

\* The transaction of the position processor commits: the row is inserted if
\* there is none, and only then the trade takes effect.
WriteOutboxEntryIfNotExists(e) ==
    /\ rows[e] = "none"
    /\ rows' = [rows EXCEPT ![e] = "unpublished"]
    /\ settled[e] < MaxSettled
    /\ settled' = [settled EXCEPT ![e] = @ + 1]
    /\ UNCHANGED <<unsendable, cleaned, pc, batch, successfulEventIDs, sending>>

\* The oldest BatchSize unpublished rows.
Oldest ==
    LET unpublished == {e \in Event : rows[e] = "unpublished"}
    IN  {e \in unpublished : Cardinality({f \in unpublished : f < e}) < BatchSize}

\* A tick: dispatchBatch reads its batch.  Nothing happens without rows.
GetUnpublished(d) ==
    /\ pc[d] = "waiting"
    /\ Oldest # {}
    /\ pc' = [pc EXCEPT ![d] = "publishing"]
    /\ batch' = [batch EXCEPT ![d] = Oldest]
    /\ UNCHANGED <<table, successfulEventIDs, sending>>

IsNext(d, e) == pc[d] = "publishing" /\ e \in batch[d] /\ \A f \in batch[d] : e <= f

\* publishEntry returns nil: the message is in the sender's buffer.  (An event
\* of an unknown type would be marked unsent, but the one writer of rows, the
\* position processor, writes TradeExecuted.)
PublishEntry(d, e) ==
    /\ IsNext(d, e)
    /\ e \notin unsendable
    /\ batch' = [batch EXCEPT ![d] = @ \ {e}]
    /\ successfulEventIDs' = [successfulEventIDs EXCEPT ![d] = @ \cup {e}]
    /\ buffer' = [buffer EXCEPT ![d] = @ \cup {e}]
    /\ UNCHANGED <<table, pc, delivered, lost>>

\* Mutant of PublishEntryFails: dispatchBatch gives up the rest of the batch.
PublishEntryFailsBatch(d, e) ==
    /\ IsNext(d, e)
    /\ batch' = [batch EXCEPT ![d] = {}]
    /\ UNCHANGED <<table, pc, successfulEventIDs, sending>>

\* It returns an error, and dispatchBatch goes on with the next entry.
\* RecordPublishError only counts and describes: nothing reads retry_count.
PublishEntryFails(d, e) ==
    /\ IsNext(d, e)
    /\ batch' = [batch EXCEPT ![d] = @ \ {e}]
    /\ UNCHANGED <<table, pc, successfulEventIDs, sending>>

EndBatch(d) ==
    /\ pc[d] = "publishing"
    /\ batch[d] = {}
    /\ pc' = [pc EXCEPT ![d] = "waiting"]
    /\ successfulEventIDs' = [successfulEventIDs EXCEPT ![d] = {}]
    /\ UNCHANGED <<unsendable, settled, cleaned, batch, sending>>

\* The rows sent are marked.
MarkPublishedBatch(d) ==
    /\ EndBatch(d)
    /\ successfulEventIDs[d] # {}
    /\ rows' = [e \in Event |->
                  IF e \in successfulEventIDs[d] /\ rows[e] # "none" THEN "published" ELSE rows[e]]

\* Nothing was sent, or the UPDATE fails.
MarksNothing(d) ==
    /\ EndBatch(d)
    /\ UNCHANGED rows

\* CleanPublished deletes a row that was published long enough ago.
CleanPublished(e) ==
    /\ rows[e] = "published"
    /\ Cardinality(cleaned) < MaxCleaned
    /\ rows' = [rows EXCEPT ![e] = "none"]
    /\ cleaned' = cleaned \cup {e}
    /\ UNCHANGED <<unsendable, settled, pc, batch, successfulEventIDs, sending>>

\* The asynchronous sender's own goroutine: the broker gets the message, or
\* the sender gives it up.
WriterDelivers(d, e) ==
    /\ e \in buffer[d]
    /\ buffer' = [buffer EXCEPT ![d] = @ \ {e}]
    /\ delivered' = delivered \cup {e}
    /\ lost' = lost \ {e}
    /\ UNCHANGED <<table, pc, batch, successfulEventIDs>>

WriterDrops(d, e) ==
    /\ e \in buffer[d]
    /\ buffer' = [buffer EXCEPT ![d] = @ \ {e}]
    /\ lost' = lost \cup ({e} \ delivered)
    /\ UNCHANGED <<table, pc, batch, successfulEventIDs, delivered>>

\* Mutant of Shutdown: the senders are not closed.
ShutdownLeavesWriters(d) ==
    /\ pc[d] = "waiting"
    /\ buffer' = [buffer EXCEPT ![d] = {}]
    /\ UNCHANGED <<table, pc, batch, successfulEventIDs, delivered, lost>>

\* An orderly exit and a new start: Stop waits for the batch under way, and
\* CloseAllWriters for the senders to empty their buffers.
Shutdown(d) ==
    /\ pc[d] = "waiting"
    /\ buffer[d] # {}
    /\ buffer' = [buffer EXCEPT ![d] = {}]
    /\ delivered' = delivered \cup buffer[d]
    /\ lost' = lost \ buffer[d]
    /\ UNCHANGED <<table, pc, batch, successfulEventIDs>>

\* The process dies, with what its sender holds, and is started again.
Crash(d) ==
    /\ pc' = [pc EXCEPT ![d] = "waiting"]
    /\ batch' = [batch EXCEPT ![d] = {}]
    /\ successfulEventIDs' = [successfulEventIDs EXCEPT ![d] = {}]
    /\ buffer' = [buffer EXCEPT ![d] = {}]
    /\ lost' = lost \cup (buffer[d] \ delivered)
    /\ UNCHANGED <<table, delivered>>

Publishes(d) == \E e \in Event : PublishEntry(d, e) \/ PublishEntryFails(d, e)

Dispatch(d) ==
    \/ GetUnpublished(d)
    \/ Publishes(d)
    \/ MarkPublishedBatch(d)
    \/ MarksNothing(d)

Writer(d, e) == WriterDelivers(d, e) \/ WriterDrops(d, e)

\* CleanPublished is there for an operator: nothing in the server calls it.
Next ==
    \/ \E e \in Event : WriteOutboxEntryIfNotExists(e)
    \/ \E d \in Dispatcher : Dispatch(d)
    \/ \E d \in Dispatcher, e \in Event : Writer(d, e)
    \/ \E d \in Dispatcher : Shutdown(d)
    \/ \E d \in Dispatcher : Crash(d)
    \/ \E e \in Event : CleanPublished(e)

\* The ticker of a dispatcher keeps ticking and a sender keeps sending.  A process
\* does not die at the same entry of every batch, and an entry that is sent again
\* and again, if it can be sent, and the marking of what was sent succeed at last.
Fairness ==
    \A d \in Dispatcher :
        /\ WF_vars(Dispatch(d))
        /\ SF_vars(Publishes(d)) /\ SF_vars(MarkPublishedBatch(d))
        /\ \A e \in Event : SF_vars(PublishEntry(d, e)) /\ WF_vars(Writer(d, e))

Spec == Init /\ [][Next]_vars /\ Fairness

-----------------------------------------------------------------------------
(* Properties.                                                             *)

\* The broker has the event, or a sender still holds it.
Sent(e) == e \in delivered \/ \E d \in Dispatcher : e \in buffer[d]

\* An event whose trade took effect is with the broker, with a sender, or has a
\* row that is still to be published, unless a sender took it and gave it up or
\* died with it: dispatchBatch itself loses nothing, whatever fails, crashes, is
\* cleaned or shut down between the sending and the marking of any dispatcher.
LostBySenderOnly ==
    \A e \in Event : settled[e] > 0 => rows[e] = "unpublished" \/ Sent(e) \/ e \in lost

\* "TradeID 作为唯一键在出箱表中，防止重复处理" (the unique key in the outbox prevents
\* that a trade is processed again): a trade takes effect once, as long as its
\* row is kept.
SettledOnce == \A e \in Event : settled[e] > 1 => e \in cleaned

\* The inductive strengthening: what a dispatcher is about to mark, and what is
\* marked, was taken by a sender.
Inv ==
    /\ TypeOK
    /\ LostBySenderOnly
    /\ \A e \in Event : rows[e] = "published" => Sent(e) \/ e \in lost
    /\ \A d \in Dispatcher : \A e \in successfulEventIDs[d] : Sent(e) \/ e \in lost
    /\ \A e \in Event : settled[e] = 0 => rows[e] = "none"
    /\ \A e \in Event : settled[e] > 0 /\ rows[e] = "none" => e \in cleaned
    /\ SettledOnce

\* A row that can be sent is sent in the end, and the broker has the event if its
\* sender did not lose it, whatever other dispatchers, crashes and failures come
\* between, as long as fewer than BatchSize older rows fail for ever:
\* GetUnpublished has no bound on retries, and BatchSize such rows fill its batch.
EventuallyDelivered ==
    \A e \in Event :
        /\ rows[e] = "unpublished" /\ e \notin unsendable
        /\ Cardinality({f \in unsendable : f < e}) < BatchSize
        ~> e \in delivered \cup lost
=============================================================================
