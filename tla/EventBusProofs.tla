--------------------------- MODULE EventBusProofs ---------------------------
(***************************************************************************)
(* The two ends of the bus.                                                *)
(*                                                                         *)
(* Outbox: what reaches the bus was committed, nothing committed is lost   *)
(* and first deliveries respect causality, for any set of events and       *)
(* relays and any LIMIT.                                                   *)
(*                                                                         *)
(* EventConsumer: the committed offset passes no catalogue event that was  *)
(* neither processed nor quarantined, whatever fails, for a partition of   *)
(* any length and any number of restarts and attempts.                     *)
(*                                                                         *)
(* StreamConnector: the committed offset passes no message that is not in  *)
(* the dataset, for any topic, replicas, failures and requests.            *)
(***************************************************************************)
EXTENDS Outbox, EventConsumer, StreamConnector, FiniteSetTheorems, TLAPS

-----------------------------------------------------------------------------
(* Outbox                                                                  *)

(* Ids come from one sequence and are drawn once.                          *)
IdsDrawn ==
    /\ \A e \in Events : tx[e] # "none" => rowId[e] \in 1..lastId
    /\ \A e, f \in Events :
          tx[e] # "none" /\ tx[f] # "none" /\ rowId[e] = rowId[f] => e = f

(* What was committed when b was enqueued has a smaller id, and stays      *)
(* committed.                                                              *)
BeforeIsEarlier ==
    \A b \in Events : \A a \in before[b] :
        tx[a] = "committed" /\ tx[b] # "none" /\ rowId[a] < rowId[b]

(* A fetched batch holds committed rows only and, for each, every cause of *)
(* it that is not already on the bus.                                      *)
BatchIsClosed ==
    \A r \in Relays :
        /\ batch[r] \subseteq Committed
        /\ \A b \in batch[r] : before[b] \subseteq topic \cup Poison \cup batch[r]

(* Between the send and the stamp, the row at hand is on the bus.          *)
SentIsOnTopic ==
    \A r \in Relays : place[r] = "sent" =>
        \A e \in batch[r] : IsHead(r, e) => e \in topic \cup Poison

RelayInv ==
    /\ RelayTypeOK
    /\ IdsDrawn
    /\ BeforeIsEarlier
    /\ BatchIsClosed
    /\ SentIsOnTopic
    /\ published \subseteq Committed
    /\ OnlyCommittedOnTopic
    /\ StampedIsOnTopic
    /\ CausalOrder

(* The LIMIT never cuts a row in front of one it keeps: the batch is a     *)
(* prefix of the unpublished rows in id order.                             *)
LEMMA FirstRowsIsPrefix ==
    ASSUME RelayTypeOK, NEW a \in Unpublished, NEW b \in FirstRows,
           rowId[a] < rowId[b]
    PROVE  a \in FirstRows
<1> DEFINE Below(e) == {f \in Unpublished : rowId[f] < rowId[e]}
<1>1. b \in Unpublished /\ Cardinality(Below(b)) < Limit
  BY DEF FirstRows
<1>2. Unpublished \subseteq Events
  BY DEF Unpublished, Committed
<1>3. Below(a) \subseteq Below(b)
  BY <1>1, <1>2 DEF RelayTypeOK
<1>4. IsFiniteSet(Below(b))
  BY <1>2, OutboxAssumption, FS_Subset
<1>5. IsFiniteSet(Below(a)) /\ Cardinality(Below(a)) <= Cardinality(Below(b))
  BY <1>3, <1>4, FS_Subset
<1>6. Cardinality(Below(a)) \in Nat /\ Cardinality(Below(b)) \in Nat
  BY <1>4, <1>5, FS_CardinalityType
<1>7. Cardinality(Below(a)) < Limit
  BY <1>1, <1>5, <1>6, OutboxAssumption
<1> QED
  BY <1>7 DEF FirstRows

(* Nothing is enqueued, sent or fetched at the start.                      *)
LEMMA InitRelayInv == RelayInit => RelayInv
<1> SUFFICES ASSUME RelayInit PROVE RelayInv
  OBVIOUS
<1>1. RelayTypeOK
  BY DEF RelayInit, RelayTypeOK
<1>2. Committed = {}
  BY DEF RelayInit, Committed
<1>3. IdsDrawn /\ BeforeIsEarlier
  BY DEF RelayInit, IdsDrawn, BeforeIsEarlier
<1>4. BatchIsClosed /\ SentIsOnTopic
  BY DEF RelayInit, BatchIsClosed, SentIsOnTopic
<1>5. published \subseteq Committed /\ OnlyCommittedOnTopic /\ StampedIsOnTopic
      /\ CausalOrder
  BY DEF RelayInit, OnlyCommittedOnTopic, StampedIsOnTopic, CausalOrder
<1> QED
  BY <1>1, <1>3, <1>4, <1>5 DEF RelayInv

(* Every step of a domain transaction or of a relay keeps the invariant.   *)
LEMMA StepRelayInv == RelayInv /\ [RelayNext]_relayVars => RelayInv'
<1> SUFFICES ASSUME RelayInv, [RelayNext]_relayVars PROVE RelayInv'
  OBVIOUS
<1> USE DEF RelayInv
<1> DEFINE Kept == /\ tx' = tx /\ rowId' = rowId /\ lastId' = lastId
                   /\ before' = before
<1>0. Kept => Committed' = Committed /\ IdsDrawn' /\ BeforeIsEarlier'
  BY DEF Committed, IdsDrawn, BeforeIsEarlier
<1>1. ASSUME NEW e \in Events, Enqueue(e) PROVE RelayInv'
  <2> USE <1>1
  <2>1. RelayTypeOK'
    BY DEF Enqueue, RelayTypeOK, Committed
  <2>2. Committed' = Committed /\ e \notin Committed
    BY DEF Enqueue, RelayTypeOK, Committed
  <2>3. IdsDrawn'
    BY DEF Enqueue, RelayTypeOK, IdsDrawn
  <2>4. BeforeIsEarlier'
    <3> SUFFICES ASSUME NEW b \in Events, NEW a \in before'[b]
                 PROVE  tx'[a] = "committed" /\ tx'[b] # "none" /\ rowId'[a] < rowId'[b]
      BY DEF BeforeIsEarlier
    <3>1. CASE b = e
      BY <3>1, <2>2 DEF Enqueue, RelayTypeOK, Committed, IdsDrawn
    <3>2. CASE b # e
      <4>1. a \in before[b] /\ a \in Events
        BY <3>2 DEF Enqueue, RelayTypeOK
      <4>2. tx[a] = "committed" /\ tx[b] # "none" /\ rowId[a] < rowId[b]
        BY <4>1 DEF BeforeIsEarlier
      <4> QED
        BY <4>1, <4>2, <3>2 DEF Enqueue, RelayTypeOK
    <3> QED
      BY <3>1, <3>2
  <2>5. BatchIsClosed'
    BY <2>2 DEF Enqueue, RelayTypeOK, BatchIsClosed
  <2>6. SentIsOnTopic'
    BY <2>2 DEF Enqueue, RelayTypeOK, SentIsOnTopic, IsHead, BatchIsClosed
  <2>7. CausalOrder'
    BY <2>2 DEF Enqueue, RelayTypeOK, CausalOrder, OnlyCommittedOnTopic
  <2> QED
    BY <2>1, <2>2, <2>3, <2>4, <2>5, <2>6, <2>7
    DEF Enqueue, OnlyCommittedOnTopic, StampedIsOnTopic
<1>2. ASSUME NEW e \in Events, CommitTx(e) PROVE RelayInv'
  <2> USE <1>2
  <2>1. RelayTypeOK'
    BY DEF CommitTx, RelayTypeOK
  <2>2. Committed' = Committed \cup {e}
    BY DEF CommitTx, RelayTypeOK, Committed
  <2>3. IdsDrawn' /\ BeforeIsEarlier'
    BY DEF CommitTx, RelayTypeOK, IdsDrawn, BeforeIsEarlier
  <2>4. BatchIsClosed'
    BY <2>2 DEF CommitTx, BatchIsClosed
  <2>5. SentIsOnTopic' /\ CausalOrder' /\ OnlyCommittedOnTopic' /\ StampedIsOnTopic'
    BY <2>2 DEF CommitTx, SentIsOnTopic, IsHead, CausalOrder, OnlyCommittedOnTopic, StampedIsOnTopic
  <2> QED
    BY <2>1, <2>2, <2>3, <2>4, <2>5 DEF CommitTx
<1>3. ASSUME NEW e \in Events, Rollback(e) PROVE RelayInv'
  <2> USE <1>3
  <2>1. RelayTypeOK'
    BY DEF Rollback, RelayTypeOK
  <2>2. Committed' = Committed
    BY DEF Rollback, RelayTypeOK, Committed
  <2>3. IdsDrawn' /\ BeforeIsEarlier'
    BY DEF Rollback, RelayTypeOK, IdsDrawn, BeforeIsEarlier
  <2>4. BatchIsClosed'
    BY <2>2 DEF Rollback, BatchIsClosed
  <2>5. SentIsOnTopic' /\ CausalOrder' /\ OnlyCommittedOnTopic' /\ StampedIsOnTopic'
    BY <2>2 DEF Rollback, SentIsOnTopic, IsHead, CausalOrder, OnlyCommittedOnTopic, StampedIsOnTopic
  <2> QED
    BY <2>1, <2>2, <2>3, <2>4, <2>5 DEF Rollback
<1>4. ASSUME NEW r \in Relays, Fetch(r) PROVE RelayInv'
  <2> USE <1>4
  <2>1. Kept /\ FirstRows \subseteq Committed /\ FirstRows \subseteq Events
    BY DEF Fetch, txVars, FirstRows, Unpublished, Committed
  <2>2. RelayTypeOK'
    BY <2>1 DEF Fetch, RelayTypeOK, txVars
  <2>3. \A b \in FirstRows : before[b] \subseteq topic \cup Poison \cup FirstRows
    <3> SUFFICES ASSUME NEW b \in FirstRows, NEW a \in before[b], a \notin topic \cup Poison
                 PROVE  a \in FirstRows
      OBVIOUS
    <3>1. a \in Events /\ tx[a] = "committed" /\ rowId[a] < rowId[b]
      BY <2>1 DEF BeforeIsEarlier, RelayTypeOK
    <3>2. a \in Unpublished
      BY <3>1 DEF Unpublished, Committed, StampedIsOnTopic
    <3> QED
      BY <3>1, <3>2, FirstRowsIsPrefix
  <2>4. BatchIsClosed'
    BY <2>1, <2>3, <1>0 DEF Fetch, BatchIsClosed, RelayTypeOK
  <2>5. SentIsOnTopic'
    BY <2>1 DEF Fetch, SentIsOnTopic, IsHead, RelayTypeOK
  <2> QED
    BY <2>1, <2>2, <2>4, <2>5, <1>0
    DEF Fetch, OnlyCommittedOnTopic, StampedIsOnTopic, CausalOrder
<1>5. ASSUME NEW r \in Relays, RelayRestart(r) PROVE RelayInv'
  <2> USE <1>5
  <2>1. Kept
    BY DEF RelayRestart, txVars
  <2>2. RelayTypeOK'
    BY DEF RelayRestart, RelayTypeOK, txVars
  <2>3. BatchIsClosed' /\ SentIsOnTopic'
    BY <2>1, <1>0 DEF RelayRestart, BatchIsClosed, SentIsOnTopic, IsHead, RelayTypeOK
  <2> QED
    BY <2>1, <2>2, <2>3, <1>0
    DEF RelayRestart, OnlyCommittedOnTopic, StampedIsOnTopic, CausalOrder
<1>6. ASSUME NEW r \in Relays, NEW e \in Events, IsHead(r, e), e \notin Poison, Kept,
             published' = published, topic' = topic \cup {e},
             batch' = batch \/ batch' = [batch EXCEPT ![r] = {}]
      PROVE  /\ BatchIsClosed' /\ OnlyCommittedOnTopic' /\ StampedIsOnTopic'
             /\ CausalOrder'
  <2>1. e \in batch[r] /\ e \in Committed
    BY <1>6 DEF IsHead, BatchIsClosed
  <2>2. before[e] \subseteq topic \cup Poison
    <3> SUFFICES ASSUME NEW a \in before[e], a \notin topic \cup Poison PROVE FALSE
      OBVIOUS
    <3>1. a \in batch[r]
      BY <2>1 DEF BatchIsClosed
    <3>2. rowId[a] < rowId[e] /\ a \in Events
      BY DEF BeforeIsEarlier, RelayTypeOK
    <3> QED
      BY <3>1, <3>2, <1>6 DEF IsHead, RelayTypeOK
  <2>3. CausalOrder'
    BY <2>2, <1>6 DEF CausalOrder
  <2>4. BatchIsClosed'
    BY <1>6, <1>0 DEF BatchIsClosed, RelayTypeOK
  <2>5. OnlyCommittedOnTopic' /\ StampedIsOnTopic'
    BY <2>1, <1>6, <1>0 DEF OnlyCommittedOnTopic, StampedIsOnTopic
  <2> QED
    BY <2>3, <2>4, <2>5
<1>7. ASSUME NEW r \in Relays, NEW e \in Events, Publish(r, e) PROVE RelayInv'
  <2> USE <1>7
  <2>1. Kept /\ RelayTypeOK'
    BY DEF Publish, RelayTypeOK, txVars
  <2>2. BatchIsClosed' /\ OnlyCommittedOnTopic' /\ StampedIsOnTopic' /\ CausalOrder'
    BY <2>1, <1>6 DEF Publish
  <2>3. ASSUME NEW f \in batch[r], IsHead(r, f) PROVE f = e
    BY <2>3 DEF Publish, IsHead, IdsDrawn, BatchIsClosed, Committed, RelayTypeOK
  <2>4. SentIsOnTopic'
    BY <2>1, <2>3 DEF Publish, SentIsOnTopic, IsHead, RelayTypeOK
  <2> QED
    BY <2>1, <2>2, <2>4, <1>0 DEF Publish
<1>8. ASSUME NEW r \in Relays, NEW e \in Events, BrokerError(r, e) PROVE RelayInv'
  <2> USE <1>8
  <2>1. Kept /\ RelayTypeOK'
    BY DEF BrokerError, RelayTypeOK, txVars
  <2>2. SentIsOnTopic'
    BY <2>1 DEF BrokerError, SentIsOnTopic, IsHead, RelayTypeOK
  <2>3. CASE topic' = topic \cup {e}
    <3>1. BatchIsClosed' /\ OnlyCommittedOnTopic' /\ StampedIsOnTopic' /\ CausalOrder'
      BY <2>1, <2>3, <1>6 DEF BrokerError
    <3> QED
      BY <2>1, <2>2, <3>1, <1>0 DEF BrokerError
  <2>4. CASE topic' = topic
    <3>1. BatchIsClosed'
      BY <2>1, <2>4, <1>0 DEF BrokerError, BatchIsClosed, RelayTypeOK
    <3> QED
      BY <2>1, <2>2, <2>4, <3>1, <1>0
      DEF BrokerError, OnlyCommittedOnTopic, StampedIsOnTopic, CausalOrder
  <2> QED
    BY <2>3, <2>4 DEF BrokerError
<1>9. ASSUME NEW r \in Relays, NEW e \in Events, SkipPoison(r, e) PROVE RelayInv'
  <2> USE <1>9
  <2>1. Kept /\ RelayTypeOK'
    BY DEF SkipPoison, RelayTypeOK, txVars
  <2>2. BatchIsClosed'
    BY <2>1, <1>0 DEF SkipPoison, BatchIsClosed
  <2>3. ASSUME NEW f \in batch[r], IsHead(r, f) PROVE f = e
    BY <2>3 DEF SkipPoison, IsHead, IdsDrawn, BatchIsClosed, Committed, RelayTypeOK
  <2>4. SentIsOnTopic'
    BY <2>1, <2>3 DEF SkipPoison, SentIsOnTopic, IsHead, RelayTypeOK
  <2> QED
    BY <2>1, <2>2, <2>4, <1>0
    DEF SkipPoison, OnlyCommittedOnTopic, StampedIsOnTopic, CausalOrder
<1>10. ASSUME NEW r \in Relays, NEW e \in Events, Stamp(r, e) PROVE RelayInv'
  <2> USE <1>10
  <2>1. Kept /\ RelayTypeOK'
    BY DEF Stamp, RelayTypeOK, txVars
  <2>2. e \in topic \cup Poison /\ e \in Committed
    BY DEF Stamp, SentIsOnTopic, IsHead, BatchIsClosed
  <2>3. BatchIsClosed'
    <3> SUFFICES ASSUME NEW q \in Relays
                 PROVE  /\ batch'[q] \subseteq Committed'
                        /\ \A b \in batch'[q] :
                              before'[b] \subseteq topic' \cup Poison \cup batch'[q]
      BY DEF BatchIsClosed
    <3>1. batch'[q] \subseteq batch[q] /\ batch[q] \subseteq batch'[q] \cup {e}
      BY DEF Stamp, RelayTypeOK
    <3> QED
      BY <3>1, <2>1, <2>2, <1>0 DEF Stamp, BatchIsClosed
  <2>4. SentIsOnTopic'
    BY <2>1 DEF Stamp, SentIsOnTopic, IsHead, RelayTypeOK
  <2> QED
    BY <2>1, <2>2, <2>3, <2>4, <1>0
    DEF Stamp, OnlyCommittedOnTopic, StampedIsOnTopic, CausalOrder
<1>11. CASE UNCHANGED relayVars
  BY <1>11 DEF relayVars, RelayTypeOK, Committed, IdsDrawn, BeforeIsEarlier, BatchIsClosed,
     SentIsOnTopic, IsHead, OnlyCommittedOnTopic, StampedIsOnTopic, CausalOrder
<1> QED
  BY <1>1, <1>2, <1>3, <1>4, <1>5, <1>7, <1>8, <1>9, <1>10, <1>11 DEF RelayNext

(* The outbox's tables, relays and topic stay well formed.                 *)
THEOREM RelayTypeCorrect == RelaySpec => []RelayTypeOK
<1>1. RelayInv => RelayTypeOK
  BY DEF RelayInv
<1> QED
  BY <1>1, InitRelayInv, StepRelayInv, PTL DEF RelaySpec

(* Only committed events are on the bus, for any number of relays.         *)
THEOREM OnlyCommitted == RelaySpec => []OnlyCommittedOnTopic
<1>1. RelayInv => OnlyCommittedOnTopic
  BY DEF RelayInv
<1> QED
  BY <1>1, InitRelayInv, StepRelayInv, PTL DEF RelaySpec

(* relay_forever never stamps an event the bus does not have.              *)
THEOREM NoLoss == RelaySpec => []StampedIsOnTopic
<1>1. RelayInv => StampedIsOnTopic
  BY DEF RelayInv
<1> QED
  BY <1>1, InitRelayInv, StepRelayInv, PTL DEF RelaySpec

(* First deliveries are causally ordered, for any number of relays, any    *)
(* LIMIT and any crashes and broker errors.                                *)
THEOREM Causality == RelaySpec => []CausalOrder
<1>1. RelayInv => CausalOrder
  BY DEF RelayInv
<1> QED
  BY <1>1, InitRelayInv, StepRelayInv, PTL DEF RelaySpec

-----------------------------------------------------------------------------
(* EventConsumer                                                           *)

(* What must be true of a record before its offset may be committed.       *)
Settled(o) ==
    /\ log[o] \in {"sync", "bad"} => o \in handled \cup dlq
    /\ log[o] = "invalid" => o \in dlq \cup refused

(* The loop is with a record of the kind its place is for; where it is     *)
(* about to commit the record, the record is settled.                      *)
AtRecord ==
    /\ pc # "poll" => position >= 1
    /\ pc = "skip" => Cur = "invalid"
    /\ pc \in {"handle", "quarantine", "commit_handled"} => Cur \in {"sync", "bad"}
    /\ pc = "commit_handled" => position \in handled
    /\ pc \in {"commit", "dead"} => Settled(position)

(* Every record the loop has left behind is settled.  A commit commits the *)
(* position, not the record, so this has to hold of all of them.           *)
LeftBehind ==
    \A o \in 1..position : (o # position \/ pc = "poll") => Settled(o)

(* The part of TypeOK that needs nothing of the bounds.                    *)
Shape ==
    /\ log \in Seq(Kinds)
    /\ position \in 0..Len(log)
    /\ committed \in 0..position
    /\ pc \in {"poll", "skip", "handle", "quarantine", "commit", "commit_handled", "dead"}
    /\ handled \subseteq {o \in 1..Len(log) : log[o] = "sync"}
    /\ dlq \subseteq {o \in 1..Len(log) : log[o] # "other"}

ConsumerInv == Shape /\ AtRecord /\ LeftBehind /\ CommittedIsSettled

(* The loop starts before the first record of an empty partition.          *)
LEMMA InitConsumerInv == Init => ConsumerInv
BY DEF Init, ConsumerInv, Shape, AtRecord, LeftBehind, CommittedIsSettled, Kinds

(* Every step keeps the invariant.                                         *)
LEMMA StepConsumerInv ==
    ASSUME ConsumerInv, [Next]_vars
    PROVE  ConsumerInv'
<1> USE DEF ConsumerInv
<1>a. log \in Seq(Kinds) /\ Len(log) \in Nat /\ position \in Nat /\ committed \in Nat
  BY DEF Shape
<1>b. CommittedIsSettled <=> \A o \in 1..committed : Settled(o)
  BY DEF CommittedIsSettled, Settled
<1>c. CommittedIsSettled' <=> \A o \in 1..committed' : Settled(o)'
  BY DEF CommittedIsSettled, Settled
<1>1. ASSUME NEW k \in Kinds, Produce(k)
      PROVE  ConsumerInv'
  <2>1. /\ log' \in Seq(Kinds) /\ Len(log') = Len(log) + 1
        /\ \A o \in 1..Len(log) : log'[o] = log[o]
    BY <1>1, <1>a DEF Produce
  <2>2. UNCHANGED <<position, committed, pc, attempts, handled, dlq, restarts, refused>>
    BY <1>1 DEF Produce
  <2>3. Shape'
    BY <2>1, <2>2, <1>a DEF Shape
  <2>4. \A o \in 1..position : Settled(o) => Settled(o)'
    BY <2>1, <2>2, <1>a DEF Settled, Shape
  <2>5. AtRecord'
    BY <2>1, <2>2, <2>4, <1>a DEF AtRecord, Shape, Cur
  <2>6. LeftBehind'
    BY <2>2, <2>4 DEF LeftBehind
  <2>7. CommittedIsSettled'
    BY <2>2, <2>4, <1>a, <1>b, <1>c DEF Shape
  <2> QED
    BY <2>3, <2>5, <2>6, <2>7
<1>2. CASE Poll
  <2>1. \A o : Settled(o) => Settled(o)'
    BY <1>2 DEF Poll, Settled
  <2>2. log[position + 1] \in Kinds
    BY <1>2, <1>a DEF Poll
  <2>3. Shape'
    BY <1>2, <1>a DEF Poll, Shape
  <2>4. AtRecord'
    BY <1>2, <1>a, <2>2 DEF Poll, AtRecord, Cur, Settled, Kinds
  <2>5. LeftBehind'
    BY <1>2, <1>a, <2>1 DEF Poll, LeftBehind
  <2>6. CommittedIsSettled'
    BY <1>2, <2>1, <1>b, <1>c DEF Poll
  <2> QED
    BY <2>3, <2>4, <2>5, <2>6
<1>3. CASE SkipInvalid
  <2>1. \A o : Settled(o) => Settled(o)'
    BY <1>3 DEF SkipInvalid, Settled
  <2>2. Settled(position)'
    BY <1>3, <1>a DEF SkipInvalid, Settled, AtRecord, Cur
  <2>3. position \in {o \in 1..Len(log) : log[o] # "other"}
    BY <1>3, <1>a DEF SkipInvalid, Shape, AtRecord, Cur
  <2>4. dlq' \subseteq {o \in 1..Len(log) : log[o] # "other"}
    BY <1>3, <2>3 DEF SkipInvalid, Shape
  <2>5. Shape'
    BY <1>3, <1>a, <2>4 DEF SkipInvalid, Shape
  <2>6. AtRecord'
    BY <1>3, <1>a, <2>2 DEF SkipInvalid, AtRecord
  <2>7. LeftBehind'
    BY <1>3, <1>a, <2>1, <2>2 DEF SkipInvalid, LeftBehind
  <2>8. CommittedIsSettled'
    BY <1>3, <2>1, <1>b, <1>c DEF SkipInvalid
  <2> QED
    BY <2>5, <2>6, <2>7, <2>8
<1>4. CASE HandleOk
  <2>1. \A o : Settled(o) => Settled(o)'
    BY <1>4 DEF HandleOk, Settled
  <2>3. Shape'
    BY <1>4, <1>a DEF HandleOk, Shape, AtRecord, Cur
  <2>4. AtRecord'
    BY <1>4, <1>a DEF HandleOk, AtRecord, Cur
  <2>5. LeftBehind'
    BY <1>4, <1>a, <2>1 DEF HandleOk, LeftBehind
  <2>6. CommittedIsSettled'
    BY <1>4, <2>1, <1>b, <1>c DEF HandleOk
  <2> QED
    BY <2>3, <2>4, <2>5, <2>6
<1>5. CASE HandleFails
  <2>1. /\ pc = "handle" /\ pc' \in {"handle", "quarantine"}
        /\ UNCHANGED <<log, position, committed, handled, dlq, refused>>
    BY <1>5 DEF HandleFails
  <2>2. \A o : Settled(o) => Settled(o)'
    BY <2>1 DEF Settled
  <2> QED
    BY <2>1, <2>2, <1>b, <1>c DEF Shape, AtRecord, LeftBehind, Cur
<1>6. CASE Quarantine
  <2>1. \A o : Settled(o) => Settled(o)'
    BY <1>6 DEF Quarantine, Settled
  <2>2. pc' = "commit" => Settled(position)'
    BY <1>6, <1>a DEF Quarantine, Settled, AtRecord, Cur
  <2>3. position \in {o \in 1..Len(log) : log[o] # "other"}
    BY <1>6, <1>a DEF Quarantine, Shape, AtRecord, Cur
  <2>4. dlq' \subseteq {o \in 1..Len(log) : log[o] # "other"}
    BY <1>6, <2>3 DEF Quarantine, Shape
  <2>5. Shape'
    BY <1>6, <1>a, <2>4 DEF Quarantine, Shape
  <2>6. AtRecord'
    BY <1>6, <1>a, <2>2 DEF Quarantine, AtRecord, Cur
  <2>7. LeftBehind'
    BY <1>6, <1>a, <2>1 DEF Quarantine, LeftBehind
  <2>8. CommittedIsSettled'
    BY <1>6, <2>1, <1>b, <1>c DEF Quarantine
  <2> QED
    BY <2>5, <2>6, <2>7, <2>8
<1>7. CASE Commit
  <2>1. \A o : Settled(o) => Settled(o)'
    BY <1>7 DEF Commit, Settled
  <2>2. Settled(position)'
    BY <1>7, <1>a, <2>1 DEF Commit, AtRecord, Cur, Settled
  <2>3. Shape' /\ AtRecord'
    BY <1>7, <1>a DEF Commit, Shape, AtRecord
  <2>4. LeftBehind'
    BY <1>7, <1>a, <2>1, <2>2 DEF Commit, LeftBehind
  <2>5. CommittedIsSettled'
    BY <1>7, <1>a, <1>c, <2>1, <2>2 DEF Commit, LeftBehind
  <2> QED
    BY <2>3, <2>4, <2>5
<1>8. CASE CommitFails
  <2>1. /\ UNCHANGED <<log, position, committed, handled, dlq, refused>>
        /\ \/ pc = "commit_handled" /\ pc' \in {"quarantine", "handle"}
           \/ pc = "commit" /\ pc' = "dead"
    BY <1>8 DEF CommitFails
  <2>2. \A o : Settled(o) => Settled(o)'
    BY <2>1 DEF Settled
  <2> QED
    BY <2>1, <2>2, <1>b, <1>c DEF Shape, AtRecord, LeftBehind, Cur
<1>9. CASE Restart
  <2>1. \A o : Settled(o) => Settled(o)'
    BY <1>9 DEF Restart, Settled
  <2> QED
    BY <1>9, <1>a, <1>b, <1>c, <2>1 DEF Restart, Shape, AtRecord, LeftBehind
<1>10. CASE UNCHANGED vars
  <2>1. \A o : Settled(o) => Settled(o)'
    BY <1>10 DEF vars, Settled
  <2> QED
    BY <1>10, <2>1, <1>b, <1>c DEF vars, Shape, AtRecord, LeftBehind, Cur
<1> QED
  BY <1>1, <1>2, <1>3, <1>4, <1>5, <1>6, <1>7, <1>8, <1>9, <1>10 DEF Next

(* No restart, retry, refused commit or DLQ outage lets the committed      *)
(* offset pass a record that was neither processed nor quarantined (nor,   *)
(* for an invalid record, refused by the dead letter queue).               *)
THEOREM CommitsOnlySettled == Spec => []CommittedIsSettled
<1>1. ConsumerInv => CommittedIsSettled
  BY DEF ConsumerInv
<1> QED
  BY InitConsumerInv, StepConsumerInv, <1>1, PTL DEF Spec

(* The loop's state stays well formed, for every bound: the committed      *)
(* offset never passes the position, only records the handler can process  *)
(* are marked processed, and none that is not the loop's is quarantined.   *)
THEOREM ConsumerTypeCorrect ==
    ASSUME MaxLog \in Nat, MaxRestarts \in Nat, EventAttempts \in Nat
    PROVE  Spec => []TypeOK
<1> DEFINE Bounds == /\ Len(log) <= MaxLog
                     /\ attempts \in 0..EventAttempts
                     /\ restarts \in 0..MaxRestarts
<1>1. Init => Bounds
  BY DEF Init
<1>2. ASSUME ConsumerInv, Bounds, [Next]_vars
      PROVE  Bounds'
  <2>1. log \in Seq(Kinds) /\ Len(log) \in Nat /\ attempts \in Nat /\ restarts \in Nat
    BY <1>2 DEF ConsumerInv, Shape
  <2>2. ASSUME NEW k \in Kinds, Produce(k)
        PROVE  Bounds'
    BY <1>2, <2>1, <2>2 DEF Produce
  <2>3. CASE HandleFails \/ CommitFails
    BY <1>2, <2>1, <2>3 DEF HandleFails, CommitFails, Failed
  <2>4. CASE Poll \/ Restart
    BY <1>2, <2>1, <2>4 DEF Poll, Restart
  <2>5. CASE SkipInvalid \/ HandleOk \/ Quarantine \/ Commit \/ UNCHANGED vars
    BY <1>2, <2>5 DEF SkipInvalid, HandleOk, Quarantine, Commit, vars
  <2> QED
    BY <1>2, <2>2, <2>3, <2>4, <2>5 DEF Next
<1>3. ConsumerInv /\ Bounds => TypeOK
  BY DEF ConsumerInv, Shape, TypeOK
<1> HIDE DEF Bounds
<1> QED
  BY InitConsumerInv, StepConsumerInv, <1>1, <1>2, <1>3, PTL DEF Spec

-----------------------------------------------------------------------------
(* StreamConnector                                                         *)

(* rows, by key, have each of the first n messages or a later one.         *)
Holds(rows, n) == \A i \in 1..n : Topic[i] # NoKey => rows[Topic[i]] >= i

Rows == [Keys -> Nat]

TaskOK(r) ==
    LET t == task[r] IN
    /\ DOMAIN t = {"pc", "pos", "latest", "dirty", "batch"}
    /\ t.pc \in {"off", "start", "drain", "persisted", "landed", "recorded"}
    /\ t.pos \in 0..Len(Topic)
    /\ t.latest \in Rows

StreamShape ==
    /\ task = [r \in Replicas |-> task[r]]
    /\ \A r \in Replicas : TaskOK(r)
    /\ groupOffset \in 0..Len(Topic)
    /\ state \in Rows /\ table \in Rows /\ written \in Rows
    /\ orphans \subseteq Rows

(* What the partition's owner has read past is in some snapshot, or will   *)
(* be in its own next one; once that has landed, all of it is in one.      *)
TaskWrites(r) ==
    LET t == task[r] IN
    /\ owner = r =>
          /\ Running(r)
          /\ \A i \in 1..t.pos : Topic[i] # NoKey =>
                written[Topic[i]] >= i \/ t.latest[Topic[i]] >= i
    /\ t.pc \in {"landed", "recorded"} => \A k \in Keys : written[k] >= t.latest[k]

(* A single writer: what was committed is in the dataset, in the stored    *)
(* state that a new task loads, and in what the task holds.  What it has   *)
(* read since is in what it holds and, unless it is in the batch, stored.  *)
TaskKeeps(r) ==
    LET t == task[r] IN
    /\ Holds(t.latest, groupOffset)
    /\ owner = r =>
          /\ groupOffset <= t.pos
          /\ Holds(t.latest, t.pos)
          /\ \A i \in 1..t.pos : Topic[i] # NoKey =>
                Topic[i] \in t.batch \/ state[Topic[i]] >= i
          /\ t.pc \in {"persisted", "landed", "recorded"} => Holds(state, t.pos)
    /\ t.pc \in {"landed", "recorded"} => table = t.latest

SoleWriter ==
    /\ orphans = {}
    /\ \A q, r \in Replicas : task[q].pc # "off" /\ task[r].pc # "off" => q = r
    /\ Holds(table, groupOffset) /\ Holds(state, groupOffset)
    /\ \A r \in Replicas : Running(r) => TaskKeeps(r)

StreamInv ==
    /\ StreamShape
    /\ Holds(written, groupOffset)
    /\ \A r \in Replicas : TaskWrites(r)
    /\ sole => SoleWriter

LEMMA KeyOf ==
    /\ \A i \in 1..Len(Topic) : Topic[i] # NoKey => Topic[i] \in Keys
    /\ Empty \in Rows
    /\ Len(Topic) \in Nat
BY StreamAssumption DEF Keys, Empty, Rows

(* A task that is off or starting holds nothing.                           *)
Fresh(t) ==
    /\ DOMAIN t = {"pc", "pos", "latest", "dirty", "batch"}
    /\ t.pc \in {"off", "start"} /\ t.pos = 0 /\ t.latest = Empty

LEMMA OffIsFresh ==
    /\ Fresh(Off) /\ Off.pc = "off"
    /\ Fresh([Off EXCEPT !.pc = "start"]) /\ [Off EXCEPT !.pc = "start"].pc = "start"
BY DEF Fresh, Off

LEMMA InitStreamInv == StreamInit => StreamInv
<1> SUFFICES ASSUME StreamInit PROVE StreamInv
  OBVIOUS
<1>1. \A r \in Replicas : task[r] = Off /\ owner # r
  BY StreamAssumption DEF StreamInit
<1>2. \A r \in Replicas : TaskOK(r) /\ TaskWrites(r) /\ ~Running(r) /\ task[r].pc = "off"
  BY <1>1, OffIsFresh, KeyOf DEF TaskOK, TaskWrites, Running, Fresh
<1>3. StreamShape
  BY <1>2, KeyOf DEF StreamInit, StreamShape
<1>4. \A x : Holds(x, 0)
  BY DEF Holds
<1> QED
  BY <1>2, <1>3, <1>4 DEF StreamInit, StreamInv, SoleWriter

(* Handlers change the row and leave the task for later.                   *)
LEMMA RequestStep ==
    ASSUME StreamInv, NEW r \in Replicas,
           Register(r) \/ Enable(r) \/ Disable(r) \/ Delete(r)
    PROVE  StreamInv'
<1>1. /\ UNCHANGED <<task, owner, groupOffset, table, written, orphans>>
      /\ (state' = state /\ sole' = sole) \/ (state' = Empty /\ sole' = FALSE)
  BY Zenon DEF Register, Enable, Disable, Delete, dataVars
<1>2. StreamShape' /\ Holds(written, groupOffset)'
  BY <1>1, KeyOf DEF StreamInv, StreamShape, TaskOK, Holds
<1>3. \A o \in Replicas : TaskWrites(o)'
  BY <1>1 DEF StreamInv, TaskWrites, Running
<1>4. ASSUME sole' PROVE SoleWriter'
  BY <1>1, <1>4 DEF StreamInv, SoleWriter, TaskKeeps, Running, Holds
<1> QED
  BY <1>2, <1>3, <1>4 DEF StreamInv

(* A task is stopped, by a handler or with its process.                    *)
LEMMA StopStep ==
    ASSUME StreamInv, NEW r \in Replicas, NEW t, Fresh(t), NEW threads \in BOOLEAN,
           Stopped(r, threads), task' = [task EXCEPT ![r] = t], UNCHANGED dataVars
    PROVE  StreamInv'
<1>1. /\ task'[r] = t /\ \A o \in Replicas \ {r} : task'[o] = task[o]
      /\ task' = [o \in Replicas |-> task'[o]]
      /\ owner' # r
      /\ \A o \in Replicas \ {r} : owner' = o => owner = o
  BY StreamAssumption DEF StreamInv, StreamShape, Stopped
<1>2. UNCHANGED <<groupOffset, state, table, written>>
  BY DEF dataVars
<1>3. TaskOK(r)' /\ TaskWrites(r)' /\ ~Running(r)'
  BY <1>1, KeyOf DEF TaskOK, TaskWrites, Running, Fresh
<1>4. \A o \in Replicas \ {r} : TaskOK(o)' /\ TaskWrites(o)'
  BY <1>1, <1>2 DEF StreamInv, StreamShape, TaskOK, TaskWrites, Running
<1>5. orphans' \subseteq Rows
  BY DEF StreamInv, StreamShape, TaskOK, Stopped
<1>6. StreamShape' /\ Holds(written, groupOffset)'
  BY <1>1, <1>2, <1>3, <1>4, <1>5 DEF StreamInv, StreamShape, Holds
<1>7. ASSUME sole' PROVE SoleWriter'
  <2>1. sole /\ orphans' = {} /\ \A q \in Replicas \ {r} : task[q].pc = "off"
    BY <1>7 DEF Stopped
  <2>2. \A q \in Replicas \ {r} : task'[q].pc = "off" /\ ~Running(q)'
    BY <1>1, <2>1 DEF Running
  <2> QED
    BY <1>2, <1>3, <2>1, <2>2 DEF StreamInv, SoleWriter, Holds
<1> QED
  BY <1>3, <1>4, <1>6, <1>7 DEF StreamInv

(* The rest of a task's steps leave the other tasks alone.                 *)
Alone(r, t) ==
    /\ task' = [task EXCEPT ![r] = t]
    /\ UNCHANGED <<orphans, sole>>

LEMMA AloneStep ==
    ASSUME StreamInv, NEW r \in Replicas, NEW t, Alone(r, t)
    PROVE  /\ task'[r] = t /\ task' = [o \in Replicas |-> task'[o]]
           /\ \A o \in Replicas \ {r} : task'[o] = task[o]
           /\ sole => \A o \in Replicas \ {r} : task[r].pc # "off" => task[o].pc = "off"
BY DEF Alone, StreamInv, StreamShape, SoleWriter

(* What a step of one task must keep.                                      *)
LEMMA TaskStep ==
    ASSUME StreamInv, NEW r \in Replicas, NEW t, Alone(r, t), task[r].pc # "off",
           \A o \in Replicas \ {r} : owner' = o => owner = o,
           groupOffset' \in 0..Len(Topic), state' \in Rows, table' \in Rows, written' \in Rows,
           \A k \in Keys : written'[k] >= written[k],
           TaskOK(r)', TaskWrites(r)', Holds(written, groupOffset)',
           sole => Holds(table, groupOffset)' /\ Holds(state, groupOffset)' /\ TaskKeeps(r)'
    PROVE  StreamInv'
<1>1. \A o \in Replicas \ {r} : TaskOK(o)'
  BY AloneStep DEF StreamInv, StreamShape, TaskOK
<1>2. ASSUME NEW o \in Replicas \ {r} PROVE TaskWrites(o)'
  <2>1. task'[o] = task[o] /\ (owner' = o => owner = o) /\ TaskOK(o) /\ TaskWrites(o)
    BY AloneStep DEF StreamInv, StreamShape
  <2>2. written \in Rows
    BY DEF StreamInv, StreamShape
  <2>3. \A a, b, c \in Nat : a >= b /\ b >= c => a >= c
    OBVIOUS
  <2>4. \A k \in Keys : written[k] \in Nat /\ written'[k] \in Nat /\ task[o].latest[k] \in Nat
    BY <2>1, <2>2 DEF TaskOK, Rows
  <2>5. \A i \in 1..task[o].pos : i \in Nat /\ i \in 1..Len(Topic)
    BY <2>1, KeyOf DEF TaskOK
  <2> QED
    BY <2>1, <2>3, <2>4, <2>5, KeyOf DEF TaskWrites, Running
<1>3. StreamShape'
  BY <1>1, AloneStep DEF StreamInv, StreamShape, Alone
<1>4. ASSUME sole' PROVE SoleWriter'
  <2>1. sole
    BY <1>4 DEF Alone
  <2>2. \A o \in Replicas \ {r} : task'[o].pc = "off" /\ ~Running(o)'
    BY <2>1, AloneStep DEF Running
  <2> QED
    BY <2>1, <2>2 DEF StreamInv, SoleWriter, Alone
<1> QED
  BY <1>1, <1>2, <1>3, <1>4 DEF StreamInv

(* The state that a task loads has what was committed.                     *)
LEMMA LoadStep ==
    ASSUME StreamInv, NEW r \in Replicas, LoadState(r)
    PROVE  StreamInv'
<1>1. PICK t : t = [task[r] EXCEPT !.pc = "drain", !.latest = state]
  OBVIOUS
<1>2. Alone(r, t) /\ task[r].pc = "start" /\ UNCHANGED <<owner, groupOffset, state, table, written>>
  BY <1>1 DEF LoadState, Alone, dataVars
<1>3. /\ DOMAIN t = {"pc", "pos", "latest", "dirty", "batch"}
      /\ t.pc = "drain" /\ t.latest = state /\ t.pos = task[r].pos
  BY <1>1 DEF StreamInv, StreamShape, TaskOK
<1>4. owner # r
  BY <1>2 DEF StreamInv, TaskWrites, Running
<1>5. TaskOK(r)' /\ TaskWrites(r)'
  BY <1>2, <1>3, <1>4, AloneStep DEF StreamInv, StreamShape, TaskOK, TaskWrites
<1>6. sole => Holds(table, groupOffset)' /\ Holds(state, groupOffset)' /\ TaskKeeps(r)'
  BY <1>2, <1>3, <1>4, AloneStep DEF StreamInv, SoleWriter, TaskKeeps, Holds
<1>7. \A k \in Keys : written'[k] >= written[k]
  BY <1>2 DEF StreamInv, StreamShape, Rows
<1> QED
  BY <1>2, <1>5, <1>6, <1>7, TaskStep DEF StreamInv, StreamShape, Holds

(* The partition comes with the committed offset.                          *)
LEMMA AssignStep ==
    ASSUME StreamInv, NEW r \in Replicas, Assign(r)
    PROVE  StreamInv'
<1>1. PICK t : t = [task[r] EXCEPT !.pos = groupOffset]
  OBVIOUS
<1>2. /\ Alone(r, t) /\ Running(r) /\ task[r].pc # "off" /\ owner' = r
      /\ UNCHANGED <<groupOffset, state, table, written>>
  BY <1>1 DEF Assign, Alone, dataVars, Running
<1>3. /\ DOMAIN t = {"pc", "pos", "latest", "dirty", "batch"}
      /\ t.pos = groupOffset
      /\ t.pc = task[r].pc /\ t.latest = task[r].latest /\ t.batch = task[r].batch
  BY <1>1 DEF StreamInv, StreamShape, TaskOK
<1>4. TaskOK(r)' /\ Running(r)'
  BY <1>2, <1>3, AloneStep DEF StreamInv, StreamShape, TaskOK, Running
<1>5. TaskWrites(r)'
  BY <1>2, <1>3, <1>4, AloneStep DEF StreamInv, TaskWrites, Holds
<1>6. sole => Holds(table, groupOffset)' /\ Holds(state, groupOffset)' /\ TaskKeeps(r)'
  <2> SUFFICES ASSUME sole PROVE Holds(table, groupOffset)' /\ Holds(state, groupOffset)' /\ TaskKeeps(r)'
    OBVIOUS
  <2>1. TaskKeeps(r) /\ Holds(state, groupOffset) /\ Holds(table, groupOffset)
    BY <1>2 DEF StreamInv, SoleWriter
  <2>2. groupOffset <= groupOffset
    BY KeyOf DEF StreamInv, StreamShape
  <2> QED
    BY <1>2, <1>3, <2>1, <2>2, AloneStep DEF TaskKeeps, Holds
<1>7. \A k \in Keys : written'[k] >= written[k]
  BY <1>2 DEF StreamInv, StreamShape, Rows
<1> QED
  BY <1>2, <1>4, <1>5, <1>6, <1>7, TaskStep DEF StreamInv, StreamShape, Holds

(* A message is read: the newest of its key, as far as the task has come.  *)
LEMMA DrainStep ==
    ASSUME StreamInv, NEW r \in Replicas, Drain(r)
    PROVE  StreamInv'
<1> DEFINE m == task[r].pos + 1
           read == IF Topic[m] = NoKey THEN [task[r] EXCEPT !.pos = m]
                   ELSE [task[r] EXCEPT !.pos = m, !.dirty = TRUE, !.latest[Topic[m]] = m,
                                        !.batch = task[r].batch \cup {Topic[m]}]
<1>a. task' = [task EXCEPT ![r] = read]
  BY DEF Drain
<1>1. PICK i : i = m
  OBVIOUS
<1>b. PICK t : t = read
  OBVIOUS
<1>c. Alone(r, t)
  <2> HIDE DEF read
  <2> QED
    BY <1>a, <1>b DEF Drain, Alone
<1>2. t = IF Topic[i] = NoKey THEN [task[r] EXCEPT !.pos = i]
          ELSE [task[r] EXCEPT !.pos = i, !.dirty = TRUE, !.latest[Topic[i]] = i,
                               !.batch = task[r].batch \cup {Topic[i]}]
  BY <1>1, <1>b
<1> HIDE DEF read
<1>3. /\ Alone(r, t) /\ task[r].pc = "drain" /\ owner = r /\ owner' = r /\ i \in DOMAIN Topic
      /\ UNCHANGED <<groupOffset, state, table, written>>
  BY <1>1, <1>c DEF Drain, dataVars
<1>4. /\ i \in 1..Len(Topic) /\ task[r].pos \in Nat /\ i = task[r].pos + 1
      /\ task[r].latest \in Rows /\ DOMAIN task[r] = {"pc", "pos", "latest", "dirty", "batch"}
  BY <1>1, <1>3, StreamAssumption DEF StreamInv, StreamShape, TaskOK
<1>5. /\ DOMAIN t = {"pc", "pos", "latest", "dirty", "batch"}
      /\ t.pos = i /\ t.pc = "drain"
  BY <1>2, <1>3, <1>4
<1>6. /\ t.latest \in Rows
      /\ \A k \in Keys : t.latest[k] = IF k = Topic[i] THEN i ELSE task[r].latest[k]
      /\ task[r].batch \subseteq t.batch
      /\ Topic[i] # NoKey => Topic[i] \in t.batch
  <2>1. CASE Topic[i] = NoKey
    <3>1. t.latest = task[r].latest /\ t.batch = task[r].batch
      BY <1>2, <1>4, <2>1
    <3> QED
      BY <1>4, <2>1, <3>1 DEF Keys
  <2>2. CASE Topic[i] # NoKey
    <3>1. /\ t.latest = [task[r].latest EXCEPT ![Topic[i]] = i]
          /\ t.batch = task[r].batch \cup {Topic[i]}
      BY <1>2, <1>4, <2>2
    <3> QED
      BY <1>4, <2>2, <3>1, KeyOf DEF Rows
  <2> QED
    BY <2>1, <2>2
<1>7. \A j \in 1..i : /\ j \in 1..Len(Topic) /\ j \in Nat
                      /\ j = i \/ j \in 1..task[r].pos
  BY <1>4, KeyOf
<1>8. \A n \in 0..Len(Topic) : Holds(task[r].latest, n) /\ n <= task[r].pos => Holds(t.latest, n)
  <2> SUFFICES ASSUME NEW n \in 0..Len(Topic), Holds(task[r].latest, n), n <= task[r].pos,
                      NEW j \in 1..n, Topic[j] # NoKey
               PROVE  t.latest[Topic[j]] >= j
    BY DEF Holds
  <2>1. Topic[j] \in Keys /\ j < i /\ j \in Nat /\ i \in Nat
    BY <1>4, KeyOf
  <2>2. task[r].latest[Topic[j]] >= j
    BY DEF Holds
  <2> QED
    BY <1>6, <2>1, <2>2
<1>9. TaskOK(r)' /\ Running(r)'
  BY <1>3, <1>4, <1>5, <1>6, KeyOf, AloneStep DEF TaskOK, Running
<1>10. TaskWrites(r)'
  <2>1. ASSUME NEW j \in 1..i, Topic[j] # NoKey
        PROVE  written[Topic[j]] >= j \/ t.latest[Topic[j]] >= j
    <3>1. Topic[j] \in Keys /\ j \in Nat /\ i \in Nat /\ j <= i
      BY <1>4, <2>1, KeyOf
    <3>2. CASE Topic[j] = Topic[i]
      BY <1>6, <3>1, <3>2
    <3>3. CASE Topic[j] # Topic[i]
      <4>1. j \in 1..task[r].pos
        BY <1>4, <3>1, <3>3
      <4>2. written[Topic[j]] >= j \/ task[r].latest[Topic[j]] >= j
        BY <1>3, <2>1, <4>1 DEF StreamInv, TaskWrites
      <4> QED
        BY <1>6, <3>1, <3>3, <4>2
    <3> QED
      BY <3>2, <3>3
  <2> QED
    BY <1>3, <1>5, <1>9, <2>1, AloneStep DEF TaskWrites
<1>11. sole => Holds(table, groupOffset)' /\ Holds(state, groupOffset)' /\ TaskKeeps(r)'
  <2> SUFFICES ASSUME sole PROVE Holds(table, groupOffset)' /\ Holds(state, groupOffset)' /\ TaskKeeps(r)'
    OBVIOUS
  <2>1. TaskKeeps(r) /\ Holds(state, groupOffset) /\ Holds(table, groupOffset)
    BY <1>3 DEF StreamInv, SoleWriter, Running
  <2>2. groupOffset <= task[r].pos /\ groupOffset <= i /\ groupOffset \in 0..Len(Topic)
    BY <1>3, <1>4, <2>1 DEF TaskKeeps, StreamInv, StreamShape
  <2>3. Holds(t.latest, groupOffset)
    BY <1>3, <1>8, <2>1, <2>2 DEF TaskKeeps
  <2>4. ASSUME NEW j \in 1..i, Topic[j] # NoKey
        PROVE  /\ t.latest[Topic[j]] >= j
               /\ Topic[j] \in t.batch \/ state[Topic[j]] >= j
    <3>1. CASE j = i
      BY <1>4, <1>6, <2>4, <3>1, KeyOf
    <3>2. CASE j # i
      <4>1. j \in 1..task[r].pos /\ task[r].pos \in 0..Len(Topic)
        BY <1>4, <3>2, KeyOf
      <4>2. Holds(t.latest, task[r].pos)
        BY <1>3, <1>4, <1>8, <2>1, <4>1 DEF TaskKeeps
      <4> QED
        BY <1>3, <1>6, <2>1, <2>4, <4>1, <4>2 DEF TaskKeeps, Holds
    <3> QED
      BY <3>1, <3>2
  <2>5. Holds(t.latest, i)
    BY <2>4 DEF Holds
  <2>6. TaskKeeps(r)'
    BY <1>3, <1>5, <2>2, <2>3, <2>4, <2>5, AloneStep DEF TaskKeeps, Holds
  <2> QED
    BY <1>3, <2>1, <2>6 DEF Holds
<1>12. \A k \in Keys : written'[k] >= written[k]
  BY <1>3 DEF StreamInv, StreamShape, Rows
<1> QED
  BY <1>3, <1>9, <1>10, <1>11, <1>12, TaskStep DEF StreamInv, StreamShape, Holds

(* What the batch names is stored.                                         *)
LEMMA PersistStep ==
    ASSUME StreamInv, NEW r \in Replicas, PersistState(r)
    PROVE  StreamInv'
<1>1. PICK t : t = [task[r] EXCEPT !.pc = "persisted"]
  OBVIOUS
<1>2. /\ Alone(r, t) /\ task[r].pc = "drain" /\ UNCHANGED <<owner, groupOffset, table, written>>
      /\ state' = [k \in Keys |-> IF k \in task[r].batch THEN task[r].latest[k] ELSE state[k]]
  BY <1>1 DEF PersistState, Alone
<1>3. /\ DOMAIN t = {"pc", "pos", "latest", "dirty", "batch"} /\ t.pc = "persisted"
      /\ t.pos = task[r].pos /\ t.latest = task[r].latest /\ t.batch = task[r].batch
      /\ t.latest \in Rows /\ t.pos \in 0..Len(Topic)
  BY <1>1 DEF StreamInv, StreamShape, TaskOK
<1>4. TaskOK(r)' /\ Running(r)' /\ Running(r)
  BY <1>2, <1>3, AloneStep DEF TaskOK, Running
<1>5. TaskWrites(r)'
  BY <1>2, <1>3, <1>4, AloneStep DEF StreamInv, TaskWrites
<1>6. state' \in Rows
  BY <1>2, <1>3 DEF StreamInv, StreamShape, Rows
<1>7. sole => Holds(table, groupOffset)' /\ Holds(state, groupOffset)' /\ TaskKeeps(r)'
  <2> SUFFICES ASSUME sole PROVE Holds(table, groupOffset)' /\ Holds(state, groupOffset)' /\ TaskKeeps(r)'
    OBVIOUS
  <2>1. TaskKeeps(r) /\ Holds(state, groupOffset) /\ Holds(table, groupOffset)
    BY <1>4 DEF StreamInv, SoleWriter
  <2>2. \A k \in Keys : /\ k \in task[r].batch => state'[k] = task[r].latest[k]
                        /\ k \notin task[r].batch => state'[k] = state[k]
    BY <1>2
  <2>3. Holds(state, groupOffset)'
    <3>1. groupOffset \in 0..Len(Topic)
      BY DEF StreamInv, StreamShape
    <3>2. \A i \in 1..groupOffset : Topic[i] # NoKey => state'[Topic[i]] >= i
      BY <2>1, <2>2, <3>1, KeyOf DEF TaskKeeps, Holds
    <3> QED
      BY <1>2, <3>2 DEF Holds
  <2>4. ASSUME owner = r, NEW i \in 1..t.pos, Topic[i] # NoKey
        PROVE  state'[Topic[i]] >= i
    <3>1. Topic[i] \in Keys
      BY <1>3, <2>4, KeyOf
    <3> QED
      BY <1>3, <2>1, <2>2, <2>4, <3>1 DEF TaskKeeps, Holds
  <2>5. TaskKeeps(r)'
    BY <1>2, <1>3, <2>1, <2>4, AloneStep DEF TaskKeeps, Holds
  <2> QED
    BY <1>2, <2>1, <2>3, <2>5 DEF Holds
<1>8. \A k \in Keys : written'[k] >= written[k]
  BY <1>2 DEF StreamInv, StreamShape, Rows
<1> QED
  BY <1>2, <1>4, <1>5, <1>6, <1>7, <1>8, TaskStep DEF StreamInv, StreamShape, Holds

(* A snapshot adds to what was ever written.                               *)
LEMMA OverwriteGrows ==
    ASSUME StreamInv, NEW rows \in Rows, Overwrite(rows)
    PROVE  /\ table' = rows /\ written' \in Rows
           /\ \A k \in Keys : written'[k] >= written[k] /\ written'[k] >= rows[k]
           /\ \A n \in 0..Len(Topic) : Holds(written, n) => Holds(written', n)
<1>1. written \in Rows
  BY DEF StreamInv, StreamShape
<1>2. ASSUME NEW k \in Keys
      PROVE  /\ written'[k] = Later(written[k], rows[k])
             /\ written[k] \in Nat /\ rows[k] \in Nat
  BY <1>1 DEF Overwrite, Rows
<1>3. \A a, b \in Nat : Later(a, b) \in Nat /\ Later(a, b) >= a /\ Later(a, b) >= b
  BY DEF Later
<1>4. written' \in Rows
  BY <1>1, <1>3 DEF Overwrite, Rows
<1>5. \A k \in Keys : written'[k] >= written[k] /\ written'[k] >= rows[k] /\ written'[k] \in Nat
  BY <1>2, <1>3
<1>6. ASSUME NEW n \in 0..Len(Topic), Holds(written, n), NEW i \in 1..n, Topic[i] # NoKey
      PROVE  written'[Topic[i]] >= i
  <2>1. Topic[i] \in Keys /\ i \in Nat
    BY <1>6, KeyOf
  <2>2. written[Topic[i]] >= i
    BY <1>6 DEF Holds
  <2> QED
    BY <1>2, <1>5, <2>1, <2>2
<1> QED
  BY <1>4, <1>5, <1>6 DEF Overwrite, Holds

(* The snapshot has all that the task holds.                               *)
LEMMA WriteStep ==
    ASSUME StreamInv, NEW r \in Replicas, WriteSnapshot(r)
    PROVE  StreamInv'
<1>1. PICK t : t = [task[r] EXCEPT !.pc = "landed"]
  OBVIOUS
<1>2. /\ Alone(r, t) /\ task[r].pc = "persisted" /\ UNCHANGED <<owner, groupOffset, state>>
      /\ Overwrite(task[r].latest)
  BY <1>1 DEF WriteSnapshot, Alone
<1>3. /\ DOMAIN t = {"pc", "pos", "latest", "dirty", "batch"} /\ t.pc = "landed"
      /\ t.pos = task[r].pos /\ t.latest = task[r].latest /\ t.batch = task[r].batch
      /\ task[r].latest \in Rows /\ t.pos \in 0..Len(Topic) /\ groupOffset \in 0..Len(Topic)
  BY <1>1 DEF StreamInv, StreamShape, TaskOK
<1>4. TaskOK(r)' /\ Running(r)' /\ Running(r)
  BY <1>2, <1>3, AloneStep DEF TaskOK, Running
<1>5. /\ table' = t.latest /\ written' \in Rows
      /\ \A k \in Keys : written'[k] >= written[k] /\ written'[k] >= t.latest[k]
      /\ \A n \in 0..Len(Topic) : Holds(written, n) => Holds(written', n)
  BY <1>2, <1>3, OverwriteGrows
<1>6. TaskWrites(r)'
  <2>1. ASSUME owner = r, NEW i \in 1..t.pos, Topic[i] # NoKey
        PROVE  written'[Topic[i]] >= i
    <3>1. Topic[i] \in Keys /\ i \in Nat
      BY <1>3, <2>1, KeyOf
    <3>2. written[Topic[i]] >= i \/ t.latest[Topic[i]] >= i
      BY <1>3, <2>1 DEF StreamInv, TaskWrites
    <3>3. written[Topic[i]] \in Nat /\ t.latest[Topic[i]] \in Nat /\ written'[Topic[i]] \in Nat
      BY <1>3, <1>5, <3>1 DEF StreamInv, StreamShape, Rows
    <3> QED
      BY <1>5, <3>1, <3>2, <3>3
  <2> QED
    BY <1>2, <1>3, <1>4, <1>5, <2>1, AloneStep DEF TaskWrites
<1>7. sole => Holds(table, groupOffset)' /\ Holds(state, groupOffset)' /\ TaskKeeps(r)'
  BY <1>2, <1>3, <1>4, <1>5, AloneStep DEF StreamInv, SoleWriter, TaskKeeps, Holds
<1>8. Holds(written, groupOffset)'
  <2>1. Holds(written', groupOffset)
    BY <1>3, <1>5 DEF StreamInv
  <2> QED
    BY <1>2, <2>1 DEF Holds
<1> QED
  BY <1>2, <1>3, <1>4, <1>5, <1>6, <1>7, <1>8, TaskStep DEF StreamInv, StreamShape

(* The sync is recorded, or the cycle fails and keeps its batch.           *)
LEMMA PlaceStep ==
    ASSUME StreamInv, NEW r \in Replicas, RecordSync(r) \/ CycleFails(r)
    PROVE  StreamInv'
<1>1. PICK p : p = IF RecordSync(r) THEN "recorded" ELSE "drain"
  OBVIOUS
<1>2. PICK t : t = [task[r] EXCEPT !.pc = p]
  OBVIOUS
<1>3. /\ Alone(r, t) /\ UNCHANGED <<owner, groupOffset, state, table, written>>
      /\ p \in {"recorded", "drain"} /\ task[r].pc \in {"persisted", "landed", "recorded"}
      /\ p = "recorded" => task[r].pc = "landed"
  BY <1>1, <1>2 DEF RecordSync, CycleFails, Alone, dataVars
<1>4. /\ DOMAIN t = {"pc", "pos", "latest", "dirty", "batch"} /\ t.pc = p
      /\ t.pos = task[r].pos /\ t.latest = task[r].latest /\ t.batch = task[r].batch
      /\ t.latest \in Rows /\ t.pos \in 0..Len(Topic)
  BY <1>2 DEF StreamInv, StreamShape, TaskOK
<1>5. TaskOK(r)' /\ Running(r)' /\ Running(r)
  BY <1>3, <1>4, AloneStep DEF TaskOK, Running
<1>6. TaskWrites(r)'
  BY <1>3, <1>4, <1>5, AloneStep DEF StreamInv, TaskWrites
<1>7. sole => Holds(table, groupOffset)' /\ Holds(state, groupOffset)' /\ TaskKeeps(r)'
  BY <1>3, <1>4, <1>5, AloneStep DEF StreamInv, SoleWriter, TaskKeeps, Holds
<1>8. \A k \in Keys : written'[k] >= written[k]
  BY <1>3 DEF StreamInv, StreamShape, Rows
<1> QED
  BY <1>3, <1>5, <1>6, <1>7, <1>8, TaskStep DEF StreamInv, StreamShape, Holds

(* The position that is committed is behind the snapshot that has landed.  *)
LEMMA OffsetStep ==
    ASSUME StreamInv, NEW r \in Replicas, CommitOffset(r)
    PROVE  StreamInv'
<1>1. PICK t : t = [task[r] EXCEPT !.pc = "drain", !.dirty = FALSE, !.batch = {}]
  OBVIOUS
<1>2. /\ Alone(r, t) /\ task[r].pc = "recorded" /\ UNCHANGED <<owner, state, table, written>>
      /\ groupOffset' = IF owner = r THEN task[r].pos ELSE groupOffset
  BY <1>1 DEF CommitOffset, Alone
<1>3. /\ DOMAIN t = {"pc", "pos", "latest", "dirty", "batch"} /\ t.pc = "drain"
      /\ t.pos = task[r].pos /\ t.latest = task[r].latest
      /\ t.latest \in Rows /\ t.pos \in 0..Len(Topic) /\ groupOffset \in 0..Len(Topic)
  BY <1>1 DEF StreamInv, StreamShape, TaskOK
<1>4. TaskOK(r)' /\ Running(r)' /\ Running(r)
  BY <1>2, <1>3, AloneStep DEF TaskOK, Running
<1>5. TaskWrites(r)'
  BY <1>2, <1>3, <1>4, AloneStep DEF StreamInv, TaskWrites
<1>6. owner = r => Holds(written, task[r].pos)
  <2> SUFFICES ASSUME owner = r, NEW i \in 1..t.pos, Topic[i] # NoKey
               PROVE  written[Topic[i]] >= i
    BY <1>3 DEF Holds
  <2>1. Topic[i] \in Keys /\ i \in Nat
    BY <1>3, KeyOf
  <2>2. /\ written[Topic[i]] >= i \/ t.latest[Topic[i]] >= i
        /\ written[Topic[i]] >= t.latest[Topic[i]]
    BY <1>2, <1>3, <2>1 DEF StreamInv, TaskWrites
  <2>3. written[Topic[i]] \in Nat /\ t.latest[Topic[i]] \in Nat
    BY <1>3, <2>1 DEF StreamInv, StreamShape, Rows
  <2> QED
    BY <2>1, <2>2, <2>3
<1>7. PICK n : n = groupOffset'
  OBVIOUS
<1>8. /\ n \in 0..Len(Topic) /\ Holds(written, n)
      /\ owner = r => n = t.pos
      /\ owner # r => n = groupOffset
  BY <1>2, <1>3, <1>6, <1>7 DEF StreamInv
<1>9. sole => Holds(table, groupOffset)' /\ Holds(state, groupOffset)' /\ TaskKeeps(r)'
  <2> SUFFICES ASSUME sole PROVE Holds(table, groupOffset)' /\ Holds(state, groupOffset)' /\ TaskKeeps(r)'
    OBVIOUS
  <2>1. /\ TaskKeeps(r) /\ Holds(state, groupOffset) /\ Holds(table, groupOffset)
        /\ table = t.latest
    BY <1>2, <1>3, <1>4 DEF StreamInv, SoleWriter, TaskKeeps
  <2>2. Holds(table, n) /\ Holds(state, n)
    BY <1>2, <1>3, <1>8, <2>1 DEF TaskKeeps
  <2>3. owner = r => n <= t.pos
    BY <1>3, <1>8, KeyOf
  <2>4. Holds(table, groupOffset)' /\ Holds(state, groupOffset)'
    BY <1>2, <1>7, <2>2 DEF Holds
  <2>5. TaskKeeps(r)'
    BY <1>2, <1>3, <1>7, <1>8, <2>1, <2>2, <2>3, AloneStep DEF TaskKeeps, Holds
  <2> QED
    BY <2>4, <2>5
<1>10. \A k \in Keys : written'[k] >= written[k]
  BY <1>2 DEF StreamInv, StreamShape, Rows
<1>11. Holds(written, groupOffset)'
  BY <1>2, <1>7, <1>8 DEF Holds
<1> QED
  BY <1>2, <1>4, <1>5, <1>7, <1>8, <1>9, <1>10, <1>11, TaskStep DEF StreamInv, StreamShape

(* The thread of a cancelled task writes: there was more than one writer.  *)
LEMMA OrphanStep ==
    ASSUME StreamInv, OrphanLands
    PROVE  StreamInv'
<1>1. PICK rows \in orphans :
        /\ Overwrite(rows) /\ orphans' = orphans \ {rows}
        /\ UNCHANGED <<task, owner, groupOffset, state, sole>>
  BY DEF OrphanLands
<1>2. rows \in Rows /\ groupOffset \in 0..Len(Topic)
  BY <1>1 DEF StreamInv, StreamShape
<1>3. /\ table' = rows /\ written' \in Rows
      /\ \A k \in Keys : written'[k] >= written[k]
      /\ Holds(written', groupOffset)
  BY <1>1, <1>2, OverwriteGrows DEF StreamInv
<1>4. StreamShape'
  BY <1>1, <1>2, <1>3 DEF StreamInv, StreamShape, TaskOK
<1>5. ASSUME NEW o \in Replicas PROVE TaskWrites(o)'
  <2>1. task'[o] = task[o] /\ owner' = owner /\ TaskOK(o) /\ TaskWrites(o)
    BY <1>1 DEF StreamInv, StreamShape
  <2>2. \A a, b, c \in Nat : a >= b /\ b >= c => a >= c
    OBVIOUS
  <2>3. \A k \in Keys : written[k] \in Nat /\ written'[k] \in Nat /\ task[o].latest[k] \in Nat
    BY <1>3, <2>1 DEF TaskOK, StreamInv, StreamShape, Rows
  <2>4. \A i \in 1..task[o].pos : i \in Nat /\ i \in 1..Len(Topic)
    BY <2>1, KeyOf DEF TaskOK
  <2> QED
    BY <1>3, <2>1, <2>2, <2>3, <2>4, KeyOf DEF TaskWrites, Running
<1>6. ~sole'
  BY <1>1 DEF StreamInv, SoleWriter
<1>7. Holds(written, groupOffset)'
  BY <1>1, <1>3 DEF Holds
<1> QED
  BY <1>4, <1>5, <1>6, <1>7 DEF StreamInv

LEMMA StepStreamInv ==
    ASSUME StreamInv, [StreamNext]_streamVars
    PROVE  StreamInv'
<1>1. ASSUME NEW r \in Replicas, Spawn(r)
      PROVE  StreamInv'
  <2>1. Stopped(r, TRUE) /\ task' = [task EXCEPT ![r] = [Off EXCEPT !.pc = "start"]] /\ UNCHANGED dataVars
    BY <1>1 DEF Spawn
  <2> QED
    BY <2>1, OffIsFresh, StopStep
<1>2. ASSUME NEW r \in Replicas, CancelTask(r) \/ RestartReplica(r)
      PROVE  StreamInv'
  <2>1. PICK threads \in BOOLEAN :
          Stopped(r, threads) /\ task' = [task EXCEPT ![r] = Off] /\ UNCHANGED dataVars
    BY <1>2, Zenon DEF CancelTask, RestartReplica
  <2> QED
    BY <2>1, OffIsFresh, StopStep
<1>3. CASE UNCHANGED streamVars
  BY <1>3 DEF streamVars, StreamInv, StreamShape, TaskOK, TaskWrites, TaskKeeps, SoleWriter, Running, Holds
<1> QED
  BY <1>1, <1>2, <1>3, RequestStep, LoadStep, AssignStep, DrainStep, PersistStep, WriteStep,
     PlaceStep, OffsetStep, OrphanStep DEF StreamNext

(* A committed message is not lost, for any topic, any number of replicas, *)
(* failed cycles, cancellations, crashes and rebalances: its key was       *)
(* written with that message or a later one, and the dataset still holds   *)
(* it as long as there never were two writers.                             *)
THEOREM StreamKeepsCommitted == StreamSpec => []StreamNotLost
<1>1. StreamInv => StreamNotLost
  BY DEF StreamInv, SoleWriter, Holds, StreamNotLost
<1> QED
  BY InitStreamInv, StepStreamInv, <1>1, PTL DEF StreamSpec
=============================================================================
