--------------------------- MODULE StreamConnector ---------------------------
(***************************************************************************)
(* A Kafka stream of Connectivity: one registered source, one single-      *)
(* partition topic, and on every replica at most one consumer task that    *)
(* folds the messages into latest_by_key and overwrites the dataset with   *)
(* it.  A message is its offset; its key is Topic[offset].  A cycle of the *)
(* task is: drain, persist_state, write_snapshot in a thread, record_sync, *)
(* consumer.commit.  The Kafka group protocol is external: it gives the    *)
(* partition to one running task and hands over the committed offset.      *)
(***************************************************************************)
EXTENDS Naturals, Sequences, FiniteSets

CONSTANTS Replicas,   \* processes of the service
          Topic,      \* Topic[i] is the key of message i, or NoKey
          NoKey,      \* the key of a message without the key field
          Nobody,     \* the owner of an unassigned partition
          MaxFaults,  \* bound on failures, crashes and forced rebalances
          MaxRequests \* bound on registry requests

ASSUME StreamAssumption ==
  /\ Len(Topic) \in Nat /\ DOMAIN Topic = 1..Len(Topic)
  /\ Nobody \notin Replicas

VARIABLES source,     \* the kafka_stream_source row
          todo,       \* task changes a replica's handlers still have to make
          task,       \* the consumer task of each replica
          owner,      \* the replica that holds the partition
          groupOffset, \* offset committed to the group
          state,      \* kafka_stream_state: offset stored for each key
          table,      \* the dataset: offset of the row of each key
          announced,  \* ghost: newest offset of each key in a recorded sync
          written,    \* ghost: newest offset of each key in any snapshot
          orphans,    \* snapshot writes left behind by cancelled tasks
          sole,       \* ghost: there never were two writers of the dataset
          faults,     \* counts what MaxFaults bounds
          requests    \* counts what MaxRequests bounds

streamVars == <<source, todo, task, owner, groupOffset, state, table, announced,
          written, orphans, sole, faults, requests>>

Keys == {Topic[i] : i \in DOMAIN Topic} \ {NoKey}
Empty == [k \in Keys |-> 0]
Later(i, j) == IF i > j THEN i ELSE j

(* consume_stream_forever before its loop *)
Off == [pc |-> "off", pos |-> 0, latest |-> Empty, dirty |-> FALSE, batch |-> {}]
Running(r) == task[r].pc \notin {"off", "start"}

StreamInit ==
  /\ source \in {"absent", "active"}
  /\ todo = [r \in Replicas |-> IF source = "active" THEN {"spawn"} ELSE {}]
  /\ task = [r \in Replicas |-> Off]
  /\ owner = Nobody
  /\ groupOffset = 0
  /\ state = Empty /\ table = Empty /\ announced = Empty /\ written = Empty
  /\ orphans = {}
  /\ sole = TRUE
  /\ faults = 0 /\ requests = 0

rowVars == <<source, todo, requests>>
dataVars == <<groupOffset, state, table, announced, written>>

(***************************************************************************)
(* Registry handlers: the row changes, then the replica that served the    *)
(* request changes its own task.                                           *)
(***************************************************************************)
Leave(r, op) ==
  /\ requests < MaxRequests
  /\ requests' = requests + 1
  /\ todo' = [todo EXCEPT ![r] = @ \cup {op}]

(* register_kafka_stream: an existing row is overwritten and reactivated *)
Register(r) ==
  /\ source' = "active"
  /\ Leave(r, "spawn")
  /\ UNCHANGED <<task, owner, dataVars, orphans, sole, faults>>

(* enable_kafka_stream *)
Enable(r) ==
  /\ source # "absent"
  /\ source' = "active"
  /\ Leave(r, "spawn")
  /\ UNCHANGED <<task, owner, dataVars, orphans, sole, faults>>

(* disable_kafka_stream *)
Disable(r) ==
  /\ source # "absent"
  /\ source' = "disabled"
  /\ Leave(r, "cancel")
  /\ UNCHANGED <<task, owner, dataVars, orphans, sole, faults>>

(* delete_kafka_stream: the row and the stored state, in one transaction;
   the offsets of the consumer group stay *)
Delete(r) ==
  /\ source # "absent"
  /\ source' = "absent"
  /\ state' = Empty
  /\ sole' = FALSE
  /\ Leave(r, "cancel")
  /\ UNCHANGED <<task, owner, groupOffset, table, announced, written, orphans, faults>>

(* Task.cancel: the write_snapshot thread, if it runs, is not interrupted *)
Stopped(r, threads) ==
  /\ orphans' = IF threads /\ task[r].pc = "persisted"
                THEN orphans \cup {task[r].latest} ELSE orphans
  /\ sole' = (sole /\ orphans' = {} /\ \A q \in Replicas \ {r} : task[q].pc = "off")
  /\ owner' = IF owner = r THEN Nobody ELSE owner

(* _spawn_kafka_stream_task *)
Spawn(r) ==
  /\ "spawn" \in todo[r]
  /\ todo' = [todo EXCEPT ![r] = @ \ {"spawn"}]
  /\ Stopped(r, TRUE)
  /\ task' = [task EXCEPT ![r] = [Off EXCEPT !.pc = "start"]]
  /\ UNCHANGED <<source, requests, dataVars, faults>>

(* _cancel_kafka_stream_task *)
CancelTask(r) ==
  /\ "cancel" \in todo[r]
  /\ todo' = [todo EXCEPT ![r] = @ \ {"cancel"}]
  /\ Stopped(r, TRUE)
  /\ task' = [task EXCEPT ![r] = Off]
  /\ UNCHANGED <<source, requests, dataVars, faults>>

(***************************************************************************)
(* The consumer task                                                       *)
(***************************************************************************)
(* Mutant: the consumer starts from an empty latest_by_key *)
LoadState_Empty(r) ==
  /\ task[r].pc = "start"
  /\ task' = [task EXCEPT ![r].pc = "drain"]
  /\ UNCHANGED <<rowVars, owner, dataVars, orphans, sole, faults>>

(* load_state *)
LoadState(r) ==
  /\ task[r].pc = "start"
  /\ task' = [task EXCEPT ![r].pc = "drain", ![r].latest = state]
  /\ UNCHANGED <<rowVars, owner, dataVars, orphans, sole, faults>>

(* the group gives the partition to a running task, at the committed offset *)
Assign(r) ==
  /\ Running(r) /\ owner # r
  /\ owner = Nobody \/ faults < MaxFaults
  /\ faults' = IF owner = Nobody THEN faults ELSE faults + 1
  /\ owner' = r
  /\ task' = [task EXCEPT ![r].pos = groupOffset]
  /\ UNCHANGED <<rowVars, dataVars, orphans, sole>>

(* _drain and the loop over its messages *)
Drain(r) ==
  LET i == task[r].pos + 1 IN
  /\ task[r].pc = "drain" /\ owner = r /\ i \in DOMAIN Topic
  /\ task' = [task EXCEPT ![r] =
       IF Topic[i] = NoKey THEN [task[r] EXCEPT !.pos = i]
       ELSE [task[r] EXCEPT !.pos = i, !.dirty = TRUE, !.latest[Topic[i]] = i,
                            !.batch = task[r].batch \cup {Topic[i]}]]
  /\ UNCHANGED <<rowVars, owner, dataVars, orphans, sole, faults>>

(* persist_state of the keys of the batch *)
PersistState(r) ==
  /\ task[r].pc = "drain" /\ task[r].dirty
  /\ state' = [k \in Keys |-> IF k \in task[r].batch THEN task[r].latest[k]
                              ELSE state[k]]
  /\ task' = [task EXCEPT ![r].pc = "persisted"]
  /\ UNCHANGED <<rowVars, owner, groupOffset, table, announced, written, orphans,
                 sole, faults>>

Overwrite(rows) ==
  /\ table' = rows
  /\ written' = [k \in Keys |-> Later(written[k], rows[k])]

(* write_snapshot *)
WriteSnapshot(r) ==
  /\ task[r].pc = "persisted"
  /\ Overwrite(task[r].latest)
  /\ task' = [task EXCEPT ![r].pc = "landed"]
  /\ UNCHANGED <<rowVars, owner, groupOffset, state, announced, orphans, sole, faults>>

(* record_sync *)
RecordSync(r) ==
  /\ task[r].pc = "landed"
  /\ announced' = [k \in Keys |-> Later(announced[k], task[r].latest[k])]
  /\ task' = [task EXCEPT ![r].pc = "recorded"]
  /\ UNCHANGED <<rowVars, owner, groupOffset, state, table, written, orphans, sole, faults>>

(* consumer.commit, of the position in the partitions this task still holds *)
CommitOffset(r) ==
  /\ task[r].pc = "recorded"
  /\ groupOffset' = IF owner = r THEN task[r].pos ELSE groupOffset
  /\ task' = [task EXCEPT ![r].pc = "drain", ![r].dirty = FALSE, ![r].batch = {}]
  /\ UNCHANGED <<rowVars, owner, state, table, announced, written, orphans, sole, faults>>

(* Mutant: a failed cycle forgets that there is something to write *)
CycleFails_Clean(r) ==
  /\ task[r].pc \in {"persisted", "landed", "recorded"}
  /\ faults < MaxFaults
  /\ faults' = faults + 1
  /\ task' = [task EXCEPT ![r].pc = "drain", ![r].dirty = FALSE, ![r].batch = {}]
  /\ UNCHANGED <<rowVars, owner, dataVars, orphans, sole>>

(* an exception in the cycle: dirty and the batch are kept for the next one *)
CycleFails(r) ==
  /\ task[r].pc \in {"persisted", "landed", "recorded"}
  /\ faults < MaxFaults
  /\ faults' = faults + 1
  /\ task' = [task EXCEPT ![r].pc = "drain"]
  /\ UNCHANGED <<rowVars, owner, dataVars, orphans, sole>>

(* the thread of a cancelled task finishes its write *)
OrphanLands ==
  \E rows \in orphans :
    /\ Overwrite(rows)
    /\ orphans' = orphans \ {rows}
    /\ UNCHANGED <<rowVars, task, owner, groupOffset, state, announced, sole, faults>>

(* the process dies and boots again: lifespan spawns every active stream *)
RestartReplica(r) ==
  /\ faults < MaxFaults
  /\ faults' = faults + 1
  /\ Stopped(r, FALSE)
  /\ task' = [task EXCEPT ![r] = Off]
  /\ todo' = [todo EXCEPT ![r] = IF source = "active" THEN {"spawn"} ELSE {}]
  /\ UNCHANGED <<source, requests, dataVars>>

StreamNext ==
  \/ \E r \in Replicas :
       \/ Register(r) \/ Enable(r) \/ Disable(r) \/ Delete(r)
       \/ Spawn(r) \/ CancelTask(r)
       \/ LoadState(r) \/ Assign(r)
       \/ Drain(r) \/ PersistState(r) \/ WriteSnapshot(r) \/ RecordSync(r) \/ CommitOffset(r)
       \/ CycleFails(r) \/ RestartReplica(r)
  \/ OrphanLands

(* the next step of a task, the end of its drain window aside *)
Work(r) == LoadState(r) \/ Drain(r) \/ WriteSnapshot(r) \/ RecordSync(r) \/ CommitOffset(r)

(* The event loop keeps running its tasks and Kafka assigns an unassigned
   partition.  A drain window ends, so a dirty task reaches its snapshot
   however many messages arrive. *)
StreamFairness ==
  \A r \in Replicas :
    /\ WF_streamVars(Work(r)) /\ WF_streamVars(owner = Nobody /\ Assign(r))
    /\ SF_streamVars(PersistState(r))

StreamSpec == StreamInit /\ [][StreamNext]_streamVars /\ StreamFairness

(***************************************************************************)
(* A committed message is not lost: its key was written to the dataset     *)
(* with that message or a later one, and, as long as there never were two  *)
(* writers of the dataset, the dataset still holds it.  A                  *)
(* crash, a failed cycle or a disable between two of the four steps of a   *)
(* cycle must not commit an offset whose row a later snapshot drops.       *)
(***************************************************************************)
StreamNotLost ==
  \A i \in 1..groupOffset : Topic[i] # NoKey =>
    /\ written[Topic[i]] >= i
    /\ sole => table[Topic[i]] >= i

(***************************************************************************)
(* A stream that stays active, with a consumer task that is left alone,    *)
(* eventually writes, records and commits every message that has a key,    *)
(* whatever cycle failed on the way.                                       *)
(***************************************************************************)
StreamCatchesUp ==
  <>[](/\ source = "active"
       /\ \E r \in Replicas : task[r].pc # "off"
       /\ \A r \in Replicas : todo[r] = {})
  => <>(\A i \in DOMAIN Topic : Topic[i] # NoKey =>
          groupOffset >= i /\ announced[Topic[i]] >= i)
=============================================================================
