--------------------------- MODULE ExecutionCache ---------------------------
(***************************************************************************)
(* Analytics plans of Knowledge: a plan is pinned to the latest catalogued *)
(* version of every dataset it reads, looked up in execution_run by the    *)
(* hash of those pins, and otherwise run over the current tables.  The     *)
(* cache is shared by all readers and masked for each one.  Meanwhile the  *)
(* lake gets snapshots, the catalogue follows, the ObjectType's mapping is *)
(* republished and an execution adapter comes and goes.                    *)
(***************************************************************************)
EXTENDS Integers, Sequences, SequencesExt, FiniteSets

CONSTANTS Clients, None,
          MaxChanges, MaxRequests  \* bounds: commits and other changes, plans

Datasets == {"source", "bridge", "target"}
Mappings == {"plain", "secret"}  \* columns of a property; secret is confidential
(* a group_by over the property is an aggregate or a grouping by its values; *)
(* in a join the property is one of the target type                         *)
Ops == {"filter", "aggregate", "grouping", "join", "bridged"}

VARIABLES table,       \* Iceberg: the current snapshot of each dataset
          catalogued,  \* the latest dataset_version of each, 0 before the first
          mapping,     \* the column the property of the plans maps to
          adapter,     \* an active execution adapter of the ObjectType
          runs,        \* execution_run: what is stored per hash
          request,     \* per client, None or the plan under way
          answered,    \* ghost: the answer this step gives, or None
          changes, requests

vars == <<table, catalogued, mapping, adapter, runs, request, answered, changes, requests>>
world == <<table, catalogued, mapping, adapter>>

(* the order in which the versions are looked up, and the tables scanned *)
PinOrder(op) == CASE op = "join" -> <<"source", "target">>
                  [] op = "bridged" -> <<"source", "target", "bridge">>
                  [] OTHER -> <<"source">>
ScanOrder(op) == IF op = "bridged" THEN <<"source", "bridge", "target">> ELSE PinOrder(op)
Needs(op) == ToSet(PinOrder(op))

Unread == [d \in {} |-> 0]

(* what execute_plan holds between two awaits, per dataset it has looked at *)
Versions == UNION {[ds -> Nat] : ds \in SUBSET Datasets}
Plan == [op : Ops, pc : {"pin", "lookup", "scan", "store"}, column : Mappings,
         pins : Versions, snaps : Versions, by : {"duckdb", "adapter"},
         least : [Datasets -> Nat], quiet : BOOLEAN]

(* _compute_plan_hash: the operation and the pins, not the column *)
Hash(r) == [op |-> r.op, pins |-> [d \in Needs(r.op) |-> r.pins[d]]]

Init ==
  /\ table = [d \in Datasets |-> 1]
  /\ catalogued \in [Datasets -> {0, 1}]
  /\ mapping = "secret" /\ adapter = FALSE
  /\ runs = {}
  /\ request = [c \in Clients |-> None] /\ answered = None
  /\ changes = 0 /\ requests = 0

(***************************************************************************)
(* What changes meanwhile                                                  *)
(***************************************************************************)
(* a sync commits a snapshot: no request that reads the table is quiet *)
Commit(d) ==
  /\ changes < MaxChanges /\ changes' = changes + 1
  /\ table' = [table EXCEPT ![d] = @ + 1]
  /\ request' = [c \in Clients |-> IF request[c] # None /\ d \in Needs(request[c].op)
                                   THEN [request[c] EXCEPT !.quiet = FALSE] ELSE request[c]]
  /\ answered' = None /\ UNCHANGED <<catalogued, mapping, adapter, runs, requests>>

(* its event reaches the catalogue later *)
Catalogue(d) ==
  /\ catalogued[d] < table[d]
  /\ catalogued' = [catalogued EXCEPT ![d] = @ + 1]
  /\ answered' = None /\ UNCHANGED <<table, mapping, adapter, runs, request, changes, requests>>

Republish ==
  /\ changes < MaxChanges /\ changes' = changes + 1
  /\ \E column \in Mappings : column # mapping /\ mapping' = column
  /\ answered' = None /\ UNCHANGED <<table, catalogued, adapter, runs, request, requests>>

(* register_execution_adapter_plugin, set_execution_adapter_status *)
SwitchAdapter ==
  /\ changes < MaxChanges /\ changes' = changes + 1
  /\ adapter' = ~adapter
  /\ answered' = None /\ UNCHANGED <<table, catalogued, mapping, runs, request, requests>>

(***************************************************************************)
(* Execution                                                               *)
(***************************************************************************)
Keep(c, r) == request' = [request EXCEPT ![c] = r]
Fail(c) == Keep(c, None) /\ answered' = None /\ UNCHANGED <<world, runs, changes, requests>>

(* execute_plan: the mapping is read before anything is pinned *)
Begin(c, op) ==
  /\ request[c] = None /\ requests < MaxRequests
  /\ requests' = requests + 1
  /\ Keep(c, [op |-> op, pc |-> "pin", column |-> mapping, pins |-> Unread,
              snaps |-> Unread, by |-> "duckdb", least |-> catalogued,
              quiet |-> \A d \in Needs(op) : table[d] = catalogued[d]])
  /\ answered' = None /\ UNCHANGED <<world, runs, changes>>

(* a dataset that was never synced refuses the plan *)
With(f, d, n) == [e \in DOMAIN f \cup {d} |-> IF e = d THEN n ELSE f[e]]
Pin(c) ==
  /\ request[c] # None /\ request[c].pc = "pin"
  /\ LET r == request[c]
         order == PinOrder(r.op)
         d == order[Cardinality(DOMAIN r.pins) + 1]
     IN IF catalogued[d] = 0 THEN Keep(c, None)
        ELSE Keep(c, [r EXCEPT !.pins = With(@, d, catalogued[d]),
                               !.pc = IF d = Last(order) THEN "lookup" ELSE "pin"])
  /\ answered' = None /\ UNCHANGED <<world, runs, changes, requests>>

(* mutant: every result is masked by what the property maps to now *)
Masked_ByMapping(op, column, result, known) == column = "secret"
(* for a reader without the clearance: _mask_confidential_properties goes  *)
(* by the columns of the rows, those of a join's target only if its type   *)
(* is known; _mask_group_by_aggregate goes by what the property maps to    *)
(* for this request, and masks the aggregate, never the group values       *)
Masked(op, column, result, known) ==
  CASE op = "grouping" -> FALSE
    [] op = "aggregate" -> column = "secret"
    [] op = "filter" -> result.column = "secret"
    [] OTHER -> result.column = "secret" /\ known

Answer(op, result, column, least, known) ==
  answered' = [op |-> op, result |-> result, column |-> column, least |-> least,
               known |-> known, masked |-> Masked(op, column, result, known)]
(* /execute: a target that is not known refuses the plan *)
Reply(r, result) == Answer(r.op, result, r.column, r.least, TRUE)

Lookup(c) ==
  /\ request[c] # None /\ request[c].pc = "lookup"
  /\ LET hits == {run \in runs : run.hash = Hash(request[c])}
     IN IF hits = {}
        THEN Keep(c, [request[c] EXCEPT !.pc = "scan"]) /\ answered' = None
        ELSE Keep(c, None) /\ \E run \in hits : Reply(request[c], run.result)
  /\ UNCHANGED <<world, runs, changes, requests>>

(* only filter and count may go to the adapter, which reads its own data *)
AskAdapter(c) ==
  /\ request[c] # None /\ request[c].pc = "scan" /\ request[c].snaps = Unread
  /\ request[c].op = "filter" /\ adapter
  /\ Keep(c, [request[c] EXCEPT !.pc = "store", !.by = "adapter"])
  /\ answered' = None /\ UNCHANGED <<world, runs, changes, requests>>

(* one table after the other, each in its current state *)
Scan(c) ==
  /\ request[c] # None /\ request[c].pc = "scan"
  /\ ~(request[c].op = "filter" /\ adapter)
  /\ LET r == request[c]
         order == ScanOrder(r.op)
         d == order[Cardinality(DOMAIN r.snaps) + 1]
     IN Keep(c, [r EXCEPT !.snaps = With(@, d, table[d]),
                          !.pc = IF d = Last(order) THEN "store" ELSE "scan"])
  /\ answered' = None /\ UNCHANGED <<world, runs, changes, requests>>

(* ON CONFLICT DO NOTHING: the first result stays, each gets its own *)
Result(r) == [snaps |-> r.snaps, column |-> r.column, by |-> r.by]
Store(c) ==
  /\ request[c] # None /\ request[c].pc = "store"
  /\ LET r == request[c] IN
     /\ runs' = IF \E run \in runs : run.hash = Hash(r) THEN runs
                ELSE runs \cup {[hash |-> Hash(r), pins |-> r.pins, result |-> Result(r),
                                 quiet |-> r.quiet]}
     /\ Reply(r, Result(r))
  /\ Keep(c, None)
  /\ UNCHANGED <<world, changes, requests>>

(***************************************************************************)
(* replay: the frozen plan again, by DuckDB, at the pinned snapshots; the  *)
(* target type of a join may have been deleted since                       *)
(***************************************************************************)
AtPins(run) == [snaps |-> run.pins, column |-> run.result.column, by |-> "duckdb"]
Replay(run, known) ==
  /\ requests < MaxRequests /\ requests' = requests + 1
  /\ run \in runs
  /\ Answer(run.hash.op, AtPins(run), mapping, run.pins, known)
  /\ UNCHANGED <<world, runs, request, changes>>

Next ==
  \/ \E d \in Datasets : Commit(d) \/ Catalogue(d)
  \/ Republish \/ SwitchAdapter
  \/ \E c \in Clients :
       \/ \E op \in Ops : Begin(c, op)
       \/ Pin(c) \/ Lookup(c) \/ AskAdapter(c) \/ Scan(c) \/ Store(c)
       \/ request[c] # None /\ Fail(c)
  \/ \E run \in runs, known \in BOOLEAN : Replay(run, known)

Spec == Init /\ [][Next]_vars

(***************************************************************************)
(* Properties                                                              *)
(***************************************************************************)
(* What execution_run holds was read at the pinned versions or later ones,  *)
(* and a replay reproduces it, unless an adapter answered or some table of  *)
(* the plan moved, or was ahead of the catalogue, while it ran.             *)
StoredAtPins ==
  \A run \in {u \in runs : u.result.by = "duckdb"} :
    /\ \A d \in Needs(run.hash.op) : run.result.snaps[d] >= run.pins[d]
    /\ run.quiet => AtPins(run) = run.result

(* An answer, cached or not, is never older than what the catalogue held    *)
(* when it was asked for, on any side of a join.                            *)
AnswerIsFresh ==
  answered # None /\ answered.result.by = "duckdb" =>
    \A d \in Needs(answered.op) : answered.result.snaps[d] >= answered.least[d]

(* A reader who may not see the confidential column does not get it from    *)
(* the shared cache or a replay, whatever the property maps to meanwhile.   *)
(* Not so the values a group_by groups by, an aggregate whose property was  *)
(* mapped to another column since, and the target side of a replayed join   *)
(* whose target type is gone.                                               *)
MaskedForReader ==
  answered # None /\ answered.result.column = "secret" /\ ~answered.masked =>
    \/ answered.op = "grouping"
    \/ answered.op = "aggregate" /\ answered.column # "secret"
    \/ answered.op \in {"join", "bridged"} /\ ~answered.known

(* Results are stored under what they were read from, fresh when answered   *)
(* and masked for their reader.                                             *)
ExecutionSound == StoredAtPins /\ AnswerIsFresh /\ MaskedForReader
=============================================================================
