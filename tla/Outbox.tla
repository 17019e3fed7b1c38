------------------------------- MODULE Outbox -------------------------------
(***************************************************************************)
(* The transactional outbox (libs/holon_common/outbox.py) and the relay    *)
(* loop every replica of a service runs (service_runtime.py).  A domain    *)
(* transaction writes its own tables and one event_outbox row; relays poll *)
(* the table, send each row to the bus and stamp published_at.             *)
(*                                                                         *)
(* An event is its outbox row.  The topic is the set of events that have   *)
(* at least one record on the bus: a second record of the same event is    *)
(* what at-least-once delivery allows, and adds nothing to the set.        *)
(***************************************************************************)
EXTENDS Naturals, FiniteSets

CONSTANTS
    Events,   \* the events the domain transactions enqueue
    Poison,   \* those whose payload fails registry.validate
    Relays,   \* one relay_forever task per replica
    Limit     \* rows per poll (LIMIT 50 in the code)

ASSUME OutboxAssumption ==
    /\ IsFiniteSet(Events)
    /\ Poison \subseteq Events
    /\ Limit \in Nat \ {0}

VARIABLES
    tx,         \* the state of the transaction that enqueues each event
    rowId,      \* event_outbox.id, drawn from the sequence at INSERT time
    lastId,     \* the BIGSERIAL sequence
    before,     \* history: the events committed when this one was enqueued
    published,  \* rows whose published_at is set
    topic,      \* events with a record on the bus
    deadLetters,        \* events quarantined on the dead letter queue
    place,         \* where each relay is in its loop
    batch       \* the rows a relay fetched and has not finished with

relayVars == <<tx, rowId, lastId, before, published, topic, deadLetters, place, batch>>
txVars == <<tx, rowId, lastId, before>>

Committed == {e \in Events : tx[e] = "committed"}

(* A cursor on the last published id instead of the published_at flag.     *)
Unpublished_Cursor ==
    {e \in Committed \ published : \A f \in published : rowId[f] < rowId[e]}

(* The outbox row written on a connection of its own, outside the domain   *)
(* transaction.                                                            *)
Unpublished_Dirty == {e \in Events : tx[e] # "none"} \ published

(* The rows the relay's SELECT sees: READ COMMITTED, published_at IS NULL. *)
Unpublished == Committed \ published

(* ORDER BY id ASC LIMIT n.                                                *)
FirstRows ==
    {e \in Unpublished :
        Cardinality({f \in Unpublished : rowId[f] < rowId[e]}) < Limit}

(* The row of the batch the for loop is at.                                *)
IsHead(r, e) == /\ e \in batch[r]
                /\ \A f \in batch[r] : rowId[e] <= rowId[f]

RelayInit ==
    /\ tx = [e \in Events |-> "none"]
    /\ rowId = [e \in Events |-> 0]
    /\ lastId = 0
    /\ before = [e \in Events |-> {}]
    /\ published = {}
    /\ topic = {}
    /\ deadLetters = {}
    /\ place = [r \in Relays |-> "sleep"]
    /\ batch = [r \in Relays |-> {}]

-----------------------------------------------------------------------------
(* The service's own transactions.                                         *)

(* INSERT INTO event_outbox, inside a transaction still open.              *)
Enqueue(e) ==
    /\ tx[e] = "none"
    /\ tx' = [tx EXCEPT ![e] = "open"]
    /\ lastId' = lastId + 1
    /\ rowId' = [rowId EXCEPT ![e] = lastId + 1]
    /\ before' = [before EXCEPT ![e] = Committed]
    /\ UNCHANGED <<published, topic, deadLetters, place, batch>>

CommitTx(e) ==
    /\ tx[e] = "open"
    /\ tx' = [tx EXCEPT ![e] = "committed"]
    /\ UNCHANGED <<rowId, lastId, before, published, topic, deadLetters, place, batch>>

(* The handler raised, or its process died: the id is lost, the row too.   *)
Rollback(e) ==
    /\ tx[e] = "open"
    /\ tx' = [tx EXCEPT ![e] = "aborted"]
    /\ UNCHANGED <<rowId, lastId, before, published, topic, deadLetters, place, batch>>

-----------------------------------------------------------------------------
(* relay_forever.  place is "sleep" between polls, "rows" in the loop     *)
(* before a row is sent, "sent" between the send and the UPDATE that stamps it.   *)

Fetch(r) ==
    /\ place[r] = "sleep"
    /\ batch' = [batch EXCEPT ![r] = FirstRows]
    /\ place' = [place EXCEPT ![r] = IF FirstRows = {} THEN "sleep" ELSE "rows"]
    /\ UNCHANGED <<txVars, published, topic, deadLetters>>

Publish(r, e) ==
    /\ place[r] = "rows" /\ IsHead(r, e) /\ e \notin Poison
    /\ topic' = topic \cup {e}
    /\ place' = [place EXCEPT ![r] = "sent"]
    /\ UNCHANGED <<txVars, published, deadLetters, batch>>

(* The error is taken for a poison row: skip to the next one.              *)
BrokerError_Skips(r, e) ==
    /\ place[r] = "rows" /\ IsHead(r, e) /\ e \notin Poison
    /\ batch' = [batch EXCEPT ![r] = @ \ {e}]
    /\ place' = [place EXCEPT ![r] = IF batch'[r] = {} THEN "sleep" ELSE "rows"]
    /\ UNCHANGED <<txVars, published, topic, deadLetters>>

(* The error is taken for a poison row: stamp it anyway.                   *)
BrokerError_Stamps(r, e) ==
    /\ place[r] = "rows" /\ IsHead(r, e) /\ e \notin Poison
    /\ place' = [place EXCEPT ![r] = "sent"]
    /\ UNCHANGED <<txVars, published, topic, deadLetters, batch>>

(* A broker error propagates to the outer retry: the rest of the batch is  *)
(* given up.  The record may have been appended before the error.          *)
BrokerError(r, e) ==
    /\ place[r] = "rows" /\ IsHead(r, e) /\ e \notin Poison
    /\ topic' \in {topic, topic \cup {e}}
    /\ batch' = [batch EXCEPT ![r] = {}]
    /\ place' = [place EXCEPT ![r] = "sleep"]
    /\ UNCHANGED <<txVars, published, deadLetters>>

(* registry.validate refuses the row: it goes to the dead letter queue, a  *)
(* failure of which is only logged, and is stamped like any other.         *)
SkipPoison(r, e) ==
    /\ place[r] = "rows" /\ IsHead(r, e) /\ e \in Poison
    /\ deadLetters' \in {deadLetters, deadLetters \cup {e}}
    /\ place' = [place EXCEPT ![r] = "sent"]
    /\ UNCHANGED <<txVars, published, topic, batch>>

Stamp(r, e) ==
    /\ place[r] = "sent" /\ IsHead(r, e)
    /\ published' = published \cup {e}
    /\ batch' = [batch EXCEPT ![r] = @ \ {e}]
    /\ place' = [place EXCEPT ![r] = IF batch[r] = {e} THEN "sleep" ELSE "rows"]
    /\ UNCHANGED <<txVars, topic, deadLetters>>

(* The process dies and is restarted, or the database refuses a statement. *)
RelayRestart(r) ==
    /\ place[r] # "sleep"
    /\ batch' = [batch EXCEPT ![r] = {}]
    /\ place' = [place EXCEPT ![r] = "sleep"]
    /\ UNCHANGED <<txVars, published, topic, deadLetters>>

-----------------------------------------------------------------------------
RelayNext ==
    \/ \E e \in Events : Enqueue(e) \/ CommitTx(e) \/ Rollback(e)
    \/ \E r \in Relays :
          \/ Fetch(r) \/ RelayRestart(r)
          \/ \E e \in Events : \/ Publish(r, e) \/ BrokerError(r, e)
                               \/ SkipPoison(r, e) \/ Stamp(r, e)

(* A relay polls for ever, and every send or stamp it keeps retrying is    *)
(* one day not interrupted: the broker and the process come back.          *)
Fairness ==
    \A r \in Relays :
        /\ WF_relayVars(Fetch(r))
        /\ SF_relayVars(\E e \in Events : Publish(r, e) \/ SkipPoison(r, e))
        /\ SF_relayVars(\E e \in Events : Stamp(r, e))

RelaySpec == RelayInit /\ [][RelayNext]_relayVars
RelayFairSpec == RelaySpec /\ Fairness

-----------------------------------------------------------------------------
RelayTypeOK ==
    /\ tx \in [Events -> {"none", "open", "committed", "aborted"}]
    /\ rowId \in [Events -> Nat]
    /\ lastId \in Nat
    /\ before \in [Events -> SUBSET Events]
    /\ published \subseteq Events
    /\ topic \subseteq Events
    /\ deadLetters \subseteq Poison
    /\ place \in [Relays -> {"sleep", "rows", "sent"}]
    /\ batch \in [Relays -> SUBSET Events]

(* No event of a transaction that rolled back, or has not committed, ever  *)
(* reaches the bus: what outbox.enqueue's "same transaction" rule buys.    *)
OnlyCommittedOnTopic == topic \subseteq Committed

(* A row stamped published_at, which no relay will ever look at again, is  *)
(* on the bus or is a poison row: relays, crashes and broker errors never  *)
(* lose an event.                                                          *)
StampedIsOnTopic == published \subseteq topic \cup Poison

(* First deliveries respect causality: when an event is on the bus, so is  *)
(* every event whose transaction had committed before it was enqueued,     *)
(* however many relays work on the same table, whatever they retry.        *)
CausalOrder ==
    \A b \in topic : before[b] \subseteq topic \cup Poison

(* Every committed event reaches the bus, or is stamped as poison: no      *)
(* commit order, poison row or failed batch starves a row for ever.        *)
EventuallyRelayed ==
    \A e \in Events :
        (tx[e] = "committed") ~> (e \in topic \/ e \in Poison \cap published)
=============================================================================
