----------------------------- MODULE ServingStore -----------------------------
(***************************************************************************)
(* The serving store of one ObjectType and its documents in OpenSearch.    *)
(* The catalogue consumer handles one event per sync: it fetches the rows  *)
(* of the lake table, replaces the stored instances in a transaction and   *)
(* writes their documents with a bulk request.  A reindex pages through    *)
(* the store, rewrites documents and purges the ones it did not write.     *)
(* Actions create and delete single objects.  Values stand for whole rows; *)
(* the value that a row fails validation with is left out.                 *)
(***************************************************************************)
EXTENDS Naturals, Sequences, FiniteSets

CONSTANTS Ids,        \* instance ids, numbers from 1
          Vals, None,
          Tables,     \* contents a sync may leave in the lake
          MaxSyncs, MaxReindexes, MaxActions, MaxFaults  \* bounds

VARIABLES table,    \* lake table: id -> value or None
          version,  \* number of its current snapshot
          events,   \* sync events to be handled
          store,    \* object_instance: None or [val, snap]; snap 0 is an action's
          history,  \* the last entry of object_instance_history, or None
          tomb,     \* object_instance_tombstone
          done,     \* structural edits that can be reverted
          index,    \* documents: None or [val, gen, at]
          ingest,   \* the consumer's event in hand
          reindex,  \* the reindex in flight
          clock,    \* time.time()
          behind,   \* ghost: an event went to the dead letter topic
          raced,    \* ghost: a reindex met a concurrent ingest in its window
          spared,   \* ghost: ids brought back without indexing, or refused by _bulk
          adopted,  \* ghost: ids whose first synced value an action had written
          exact,    \* ghost: no change since a reindex purged
          reindexes, actions, faults

vars == <<table, version, events, store, history, tomb, done, index, ingest, reindex,
          clock, behind, raced, spared, adopted, exact, reindexes, actions, faults>>

lake == <<table, version>>
rows == <<store, history, tomb, done>>
ghosts == <<behind, raced, spared, adopted, exact>>
counters == <<reindexes, actions, faults>>

(* rows of object_instance, documents of the index, contents of the lake *)
LakeValues == UNION {{t[i] : i \in Ids} : t \in Tables}
Values == Vals \cup (LakeValues \ {None})
Instance == [val : Values, snap : Nat]
Document == [val : Values, gen : Nat, at : Nat]
Contents == [Ids -> Values \cup {None}]

Idle == [pc |-> "idle"]
Empty == [i \in Ids |-> None]

Init ==
  /\ table = Empty /\ version = 0
  /\ events = <<>>
  /\ store = Empty /\ history = Empty
  /\ tomb = {} /\ done = {}
  /\ index = Empty
  /\ ingest = Idle /\ reindex = Idle
  /\ clock = 1
  /\ behind = FALSE /\ raced = FALSE /\ spared = {} /\ adopted = {} /\ exact = FALSE
  /\ reindexes = 0 /\ actions = 0 /\ faults = 0

(* Connectivity commits a snapshot and announces it *)
Sync(new) ==
  /\ version < MaxSyncs
  /\ table' = new
  /\ version' = version + 1
  /\ events' = Append(events, version + 1)
  /\ UNCHANGED <<rows, index, ingest, reindex, clock, ghosts, counters>>

(***************************************************************************)
(* The catalogue consumer                                                  *)
(***************************************************************************)
(* _fetch_dataset_rows: the table as it is now *)
FetchRows ==
  /\ events # <<>>
  /\ ingest = Idle
  /\ ingest' = [pc |-> "fetched", rows |-> table, snap |-> Head(events)]
  /\ UNCHANGED <<lake, events, rows, index, reindex, clock, ghosts, counters>>

Dirty(r) == IF r = Idle THEN Idle ELSE [r EXCEPT !.clean = FALSE]

(* materialize, in one transaction: history where the data changed, upsert, *)
(* and everything absent from the snapshot deleted                          *)
Materialize ==
  LET new == ingest.rows IN
  /\ ingest.pc = "fetched"
  /\ store' = [i \in Ids |-> IF new[i] = None THEN None ELSE [val |-> new[i], snap |-> ingest.snap]]
  /\ history' = [i \in Ids |->
       IF new[i] # None /\ (store[i] = None \/ store[i].val # new[i]) THEN new[i] ELSE history[i]]
  /\ adopted' = {i \in Ids : new[i] # None /\ store[i] # None /\ store[i].val = new[i]
                             /\ (store[i].snap = 0 \/ i \in adopted)}
  /\ ingest' = [ingest EXCEPT !.pc = "stored"]
  /\ reindex' = Dirty(reindex)
  /\ exact' = FALSE
  /\ UNCHANGED <<lake, events, tomb, done, index, clock, behind, raced, spared, counters>>

(* index_rows: the documents are stamped and built *)
BuildDocuments ==
  /\ ingest.pc = "stored"
  /\ clock' = clock + 1
  /\ ingest' = [pc |-> "built", rows |-> ingest.rows, snap |-> ingest.snap, at |-> clock]
  /\ UNCHANGED <<lake, events, rows, index, reindex, ghosts, counters>>

(* the items of a _bulk request OpenSearch refuses: only the status of the *)
(* whole response is looked at                                             *)
Refuses(items) == IF items = {} THEN UNCHANGED faults ELSE faults < MaxFaults /\ faults' = faults + 1

(* index_rows: _bulk; then the offset is committed *)
LandBulk(refused) ==
  /\ ingest.pc = "built"
  /\ refused \subseteq {i \in Ids : ingest.rows[i] # None} /\ Refuses(refused)
  /\ index' = [i \in Ids |-> IF ingest.rows[i] = None \/ i \in refused THEN index[i]
                             ELSE [val |-> ingest.rows[i], gen |-> 0, at |-> ingest.at]]
  /\ events' = Tail(events)
  /\ ingest' = Idle
  /\ reindex' = IF reindex = Idle THEN Idle
                ELSE [reindex EXCEPT !.clean = FALSE, !.late = @ \/ ingest.at < reindex.started]
  /\ behind' = FALSE
  /\ spared' = (spared \ {i \in Ids : ingest.rows[i] # None}) \cup refused
  /\ exact' = FALSE
  /\ UNCHANGED <<lake, rows, clock, raced, adopted, reindexes, actions>>

(* a failure: the event is tried again from the start, or, when it is not  *)
(* transient or was tried too often, set aside and committed               *)
IngestFails ==
  /\ ingest # Idle
  /\ faults < MaxFaults /\ faults' = faults + 1
  /\ ingest' = Idle
  /\ \/ UNCHANGED <<events, behind>>
     \/ events' = Tail(events) /\ behind' = TRUE
  /\ UNCHANGED <<lake, rows, index, reindex, clock, raced, spared, adopted, exact, reindexes, actions>>

(***************************************************************************)
(* Reindex                                                                 *)
(***************************************************************************)
(* reindex_object_type_search *)
BeginReindex(purge) ==
  /\ reindex = Idle
  /\ reindexes < MaxReindexes
  /\ reindexes' = reindexes + 1
  /\ clock' = clock + 1
  /\ reindex' = [pc |-> "read", started |-> clock, gen |-> reindexes + 1, after |-> 0,
                 row |-> None, purge |-> purge, clean |-> TRUE, late |-> FALSE]
  /\ UNCHANGED <<lake, events, rows, index, ingest, ghosts, actions, faults>>

(* on request, documents of deleted rows are purged; at boot they are not *)
RequestReindex == BeginReindex(TRUE)
BootReindex == BeginReindex(FALSE)

(* list_instances: the next page, of one row, without tombstoned ones *)
ReadPage ==
  LET ahead == {i \in Ids : i > reindex.after /\ store[i] # None /\ i \notin tomb}
      next == CHOOSE i \in ahead : \A j \in ahead : i <= j
  IN
  /\ reindex.pc = "read"
  /\ reindex' = IF ahead = {}
                THEN IF reindex.purge THEN [reindex EXCEPT !.pc = "purge"] ELSE Idle
                ELSE [reindex EXCEPT !.pc = "land", !.after = next, !.row = store[next]]
  /\ UNCHANGED <<lake, events, rows, index, ingest, clock, ghosts, counters>>

LandPage(refused) ==
  LET i == reindex.after IN
  /\ reindex.pc = "land"
  /\ refused \subseteq {i} /\ Refuses(refused)
  /\ index' = IF i \in refused THEN index
              ELSE [index EXCEPT ![i] = [val |-> reindex.row.val, gen |-> reindex.gen,
                                         at |-> reindex.started]]
  /\ raced' = (raced \/ store[i] # reindex.row)
  /\ spared' = (spared \ {i}) \cup refused
  /\ reindex' = [reindex EXCEPT !.pc = "read", !.row = None]
  /\ UNCHANGED <<lake, events, rows, ingest, clock, behind, adopted, exact, reindexes, actions>>

(* Mutant: everything this rebuild did not write is removed *)
Purge_All ==
  /\ reindex.pc = "purge"
  /\ index' = [i \in Ids |-> IF index[i] # None /\ index[i].gen # reindex.gen THEN None ELSE index[i]]
  /\ raced' = (raced \/ reindex.late)
  /\ exact' = reindex.clean
  /\ reindex' = Idle
  /\ UNCHANGED <<lake, events, rows, ingest, clock, behind, spared, adopted, counters>>

(* delete_object_type_documents: another generation and an older stamp *)
Purge ==
  /\ reindex.pc = "purge"
  /\ index' = [i \in Ids |->
       IF index[i] # None /\ index[i].gen # reindex.gen /\ index[i].at < reindex.started
       THEN None ELSE index[i]]
  /\ raced' = (raced \/ reindex.late)
  /\ exact' = reindex.clean
  /\ reindex' = Idle
  /\ UNCHANGED <<lake, events, rows, ingest, clock, behind, spared, adopted, counters>>

(* a request fails or the process dies: the reindex is started over later *)
ReindexDies ==
  /\ reindex # Idle
  /\ faults < MaxFaults /\ faults' = faults + 1
  /\ reindex' = Idle
  /\ UNCHANGED <<lake, events, rows, index, ingest, clock, ghosts, reindexes, actions>>

(***************************************************************************)
(* Structural edits of actions, each in the transaction of its action      *)
(***************************************************************************)
Act == actions < MaxActions /\ actions' = actions + 1
Edit ==
  /\ exact' = FALSE
  /\ reindex' = Dirty(reindex)
  /\ UNCHANGED <<lake, events, history, index, ingest, clock, behind, raced, reindexes, faults>>

(* create_object: clears a tombstone and overwrites a row *)
CreateObject(i, v) ==
  /\ Act /\ Edit
  /\ store' = [store EXCEPT ![i] = [val |-> v, snap |-> 0]]
  /\ tomb' = tomb \ {i}
  /\ done' = done \cup {[kind |-> "create", id |-> i]}
  /\ UNCHANGED <<spared, adopted>>

(* delete_object: the row stays under a tombstone *)
DeleteObject(i) ==
  /\ Act /\ Edit
  /\ tomb' = tomb \cup {i}
  /\ done' = done \cup {[kind |-> "delete", id |-> i]}
  /\ UNCHANGED <<store, spared, adopted>>

(* revert_structural: a create deletes the row that is still an action's,  *)
(* a delete lifts the tombstone                                            *)
RevertEdit(e) ==
  /\ e \in done
  /\ Edit
  /\ done' = done \ {e}
  /\ IF e.kind = "create"
     THEN /\ store' = IF store[e.id] # None /\ store[e.id].snap = 0
                      THEN [store EXCEPT ![e.id] = None] ELSE store
          /\ UNCHANGED <<tomb, spared>>
     ELSE /\ tomb' = tomb \ {e.id}
          /\ spared' = spared \cup ({e.id} \cap tomb)
          /\ UNCHANGED store
  /\ UNCHANGED <<adopted, actions>>

Next ==
  \/ \E new \in Tables : Sync(new)
  \/ FetchRows \/ Materialize \/ BuildDocuments \/ IngestFails
  \/ RequestReindex \/ BootReindex
  \/ ReadPage \/ Purge \/ ReindexDies
  \/ \E refused \in SUBSET Ids : LandBulk(refused) \/ LandPage(refused)
  \/ \E i \in Ids : DeleteObject(i) \/ \E v \in Vals : CreateObject(i, v)
  \/ \E e \in done : RevertEdit(e)

Spec == Init /\ [][Next]_vars

(***************************************************************************)
(* With no event to handle, every synced row that is not tombstoned has a  *)
(* document with its value: also while a reindex runs, after one that died *)
(* half-way, and after a sync beside it.  Not covered: rows an action      *)
(* brought back, documents OpenSearch refused, the last event in the dead  *)
(* letter topic, and a reindex whose page or purge met an ingest in its    *)
(* window.                                                                 *)
(***************************************************************************)
SearchComplete ==
  events = <<>> /\ ~behind /\ ~raced =>
    \A i \in Ids \ (tomb \cup spared) : store[i] # None /\ store[i].snap # 0 =>
      index[i] # None /\ index[i].val = store[i].val

(***************************************************************************)
(* After an explicit reindex that nothing overlapped, search shows nothing *)
(* that was deleted, by a sync or by an action.                            *)
(***************************************************************************)
SearchPurged ==
  exact /\ ~raced => \A i \in Ids : index[i] # None => store[i] # None /\ i \notin tomb

(***************************************************************************)
(* The last history entry of a synced row is its current value, except for *)
(* a row an action had created with that very value.                       *)
(***************************************************************************)
HistoryCurrent ==
  \A i \in Ids \ adopted : store[i] # None /\ store[i].snap # 0 => history[i] = store[i].val
=============================================================================
