---------------------------- MODULE SourceRegistry ----------------------------
(***************************************************************************)
(* The source registries of Connectivity, for one tenant and one dataset   *)
(* name: five tables of sources, one per connector kind, their connections *)
(* (one per kind), the connector plugins and the Kafka streams that claim  *)
(* a dataset too, and the parent_workspace relationships in SpiceDB.  A    *)
(* handler awaits between reading a row and writing it, so requests of     *)
(* several clients interleave.  A configuration that fails its own         *)
(* validation changes nothing and is left out; what a connection stores is *)
(* in SourceConnections.                                                   *)
(***************************************************************************)
EXTENDS Naturals, FiniteSets

CONSTANTS Clients, Workspaces,
          Kinds,        \* the connector kinds in use
          None,         \* absence of a row
          MaxRequests,  \* bound on requests
          MaxFaults     \* bound on SpiceDB failures and lost requests

VARIABLES row,          \* sources: None or [status, ws, conn]
          connection,   \* whether the connection of each kind exists
          plugin,       \* status of the plugin that claims the dataset
          stream,       \* status of the stream that claims the dataset
          linked,       \* workspaces with a parent_workspace link to the source
          backfilled,   \* the authz_backfill_v1 flag
          request,      \* each client's request in flight
          overlapped,   \* ghost: two requests were in flight together
          unchecked,    \* ghost: a claim was made active beside another one
          reused,       \* ghost: two kinds had a row of this name
          broken,       \* ghost: a request died, or a clean-up failed
          requests, faults

vars == <<row, connection, plugin, stream, linked, backfilled, request,
          overlapped, unchecked, reused, broken, requests, faults>>

Idle == [op |-> "idle"]

Init ==
  /\ connection = [k \in Kinds |-> FALSE]
  /\ plugin \in {"none", "disabled"} /\ stream \in {"none", "disabled"}
  /\ row = [k \in Kinds |-> None]
  /\ linked = {}
  /\ backfilled = FALSE
  /\ request = [c \in Clients |-> Idle]
  /\ overlapped = FALSE /\ unchecked = FALSE /\ reused = FALSE /\ broken = FALSE
  /\ requests = 0 /\ faults = 0

ghosts == <<unchecked, reused, broken, faults>>
tables == <<row, connection, plugin, stream, linked, backfilled>>

Active(k) == row[k] # None /\ row[k].status = "active"
Owners == {k \in Kinds : Active(k)} \cup {p \in {"plugin"} : plugin = "active"}
          \cup {s \in {"stream"} : stream = "active"}

Arrive(c, r) ==
  /\ request[c] = Idle
  /\ requests < MaxRequests
  /\ requests' = requests + 1
  /\ request' = [request EXCEPT ![c] = r]
  /\ overlapped' = (overlapped \/ \E d \in Clients \ {c} : request[d] # Idle)

Step(c, pc) == request' = [request EXCEPT ![c].pc = pc] /\ UNCHANGED <<overlapped, requests>>
Done(c) == request' = [request EXCEPT ![c] = Idle] /\ UNCHANGED <<overlapped, requests>>
At(c, op, pc) == request[c].op = op /\ request[c].pc = pc

(* a request that reads and writes without an await in between *)
Single ==
  /\ requests < MaxRequests
  /\ requests' = requests + 1
  /\ overlapped' = (overlapped \/ \E d \in Clients : request[d] # Idle)
  /\ UNCHANGED request

(***************************************************************************)
(* Connections                                                             *)
(***************************************************************************)
(* register_connection *)
RegisterConnection(k) ==
  /\ Single
  /\ connection' = [connection EXCEPT ![k] = TRUE]
  /\ UNCHANGED <<row, plugin, stream, linked, backfilled, ghosts>>

(* delete_connection_if_unused, its read *)
CheckUnused(c, k) ==
  /\ connection[k]
  /\ row[k] # None => ~row[k].conn
  /\ Arrive(c, [op |-> "drop", pc |-> "checked", kind |-> k])
  /\ UNCHANGED <<tables, ghosts>>

(* delete_connection_if_unused, its delete *)
DropConnection(c) ==
  /\ At(c, "drop", "checked")
  /\ connection' = [connection EXCEPT ![request[c].kind] = FALSE]
  /\ Done(c)
  /\ UNCHANGED <<row, plugin, stream, linked, backfilled, ghosts>>

(***************************************************************************)
(* Sources                                                                 *)
(***************************************************************************)
(* _authorize_source_update: a source stays in its workspace *)
BeginRegister(c, k, ws, conn) ==
  /\ row[k] # None => row[k].ws = ws
  /\ conn \/ k = "rest"
  /\ Arrive(c, [op |-> "register", pc |-> "begun", kind |-> k, ws |-> ws, conn |-> conn,
                existed |-> row[k] # None])
  /\ UNCHANGED <<tables, ghosts>>

(* Mutant: the plugin table is not consulted *)
DatasetAvailable_NoPlugin(k) == stream # "active" /\ \A j \in Kinds \ {k} : ~Active(j)

(* assert_dataset_available, with the names of the active streams reserved *)
DatasetAvailable(k) ==
  /\ stream # "active"
  /\ plugin # "active"
  /\ \A j \in Kinds \ {k} : ~Active(j)

(* register_source, up to its insert *)
CheckRegister(c) ==
  LET r == request[c] IN
  /\ At(c, "register", "begun")
  /\ IF (r.conn => connection[r.kind]) /\ DatasetAvailable(r.kind)
     THEN Step(c, "checked") ELSE Done(c)
  /\ UNCHANGED <<tables, ghosts>>

(* register_source: INSERT ... ON CONFLICT DO UPDATE, which reactivates *)
InsertSource(c) ==
  LET r == request[c] IN
  /\ At(c, "register", "checked")
  /\ row' = [row EXCEPT ![r.kind] = [status |-> "active", ws |-> r.ws, conn |-> r.conn]]
  /\ reused' = (reused \/ \E j \in Kinds \ {r.kind} : row[j] # None)
  /\ Step(c, "inserted")
  /\ UNCHANGED <<connection, plugin, stream, linked, backfilled, unchecked, broken, faults>>

(* _seed_source_authz *)
SeedSource(c) ==
  /\ At(c, "register", "inserted")
  /\ linked' = linked \cup {request[c].ws}
  /\ Done(c)
  /\ UNCHANGED <<row, connection, plugin, stream, backfilled, ghosts>>

(* _seed_source_authz: SpiceDB fails, and a row that is new is deleted *)
SeedFails(c) ==
  LET r == request[c] IN
  /\ At(c, "register", "inserted")
  /\ faults < MaxFaults
  /\ faults' = faults + 1
  /\ row' = IF r.existed THEN row ELSE [row EXCEPT ![r.kind] = None]
  /\ Done(c)
  /\ UNCHANGED <<connection, plugin, stream, linked, backfilled, unchecked, reused, broken>>

(* _set_source_status: enabling does not look at other claims *)
SetStatus(k, status) ==
  /\ row[k] # None
  /\ Single
  /\ row' = [row EXCEPT ![k].status = status]
  /\ unchecked' = (unchecked \/ (status = "active" /\ Owners \ {k} # {}))
  /\ UNCHANGED <<connection, plugin, stream, linked, backfilled, reused, broken, faults>>

(* _delete_registered_source: the row *)
DeleteSource(c, k) ==
  /\ row[k] # None
  /\ Arrive(c, [op |-> "delete", pc |-> "deleted", ws |-> row[k].ws])
  /\ row' = [row EXCEPT ![k] = None]
  /\ UNCHANGED <<connection, plugin, stream, linked, backfilled, ghosts>>

(* _unlink_resource_authz, which may fail silently *)
Unlink(c) ==
  /\ At(c, "delete", "deleted")
  /\ \/ /\ linked' = linked \ {request[c].ws}
        /\ UNCHANGED <<broken, faults>>
     \/ /\ faults < MaxFaults
        /\ faults' = faults + 1 /\ broken' = TRUE
        /\ UNCHANGED linked
  /\ Done(c)
  /\ UNCHANGED <<row, connection, plugin, stream, backfilled, unchecked, reused>>

(* register_plugin: only streams and other plugins are checked *)
RegisterPlugin ==
  /\ stream # "active"
  /\ Single
  /\ plugin' = "active"
  /\ unchecked' = (unchecked \/ Owners \ {"plugin"} # {})
  /\ UNCHANGED <<row, connection, stream, linked, backfilled, reused, broken, faults>>

(* set_plugin_status *)
SetPluginStatus(status) ==
  /\ plugin # "none"
  /\ Single
  /\ plugin' = status
  /\ unchecked' = (unchecked \/ (status = "active" /\ Owners \ {"plugin"} # {}))
  /\ UNCHANGED <<row, connection, stream, linked, backfilled, reused, broken, faults>>

(* register_kafka_stream and enable_kafka_stream: only streams are checked *)
ClaimStream ==
  /\ Single
  /\ stream' = "active"
  /\ unchecked' = (unchecked \/ Owners \ {"stream"} # {})
  /\ UNCHANGED <<row, connection, plugin, linked, backfilled, reused, broken, faults>>

(* ensure_authz_seeded at boot *)
Backfill ==
  LET wanted == {row[k].ws : k \in {j \in Kinds : row[j] # None}} IN
  /\ ~backfilled
  /\ \/ linked' = linked \cup wanted /\ backfilled' = TRUE /\ UNCHANGED faults
     \/ /\ faults < MaxFaults /\ faults' = faults + 1
        /\ \E done \in SUBSET wanted : linked' = linked \cup done
        /\ UNCHANGED backfilled
  /\ UNCHANGED <<row, connection, plugin, stream, request, overlapped, requests,
                 unchecked, reused, broken>>

(* the process dies with a request in flight *)
RequestDies(c) ==
  /\ request[c] # Idle
  /\ faults < MaxFaults
  /\ faults' = faults + 1
  /\ broken' = TRUE
  /\ Done(c)
  /\ UNCHANGED <<tables, unchecked, reused>>

Next ==
  \/ \E c \in Clients :
       \/ \E k \in Kinds :
            \/ \E ws \in Workspaces, conn \in BOOLEAN : BeginRegister(c, k, ws, conn)
            \/ CheckUnused(c, k) \/ DeleteSource(c, k)
       \/ DropConnection(c) \/ CheckRegister(c) \/ InsertSource(c)
       \/ SeedSource(c) \/ SeedFails(c) \/ Unlink(c) \/ RequestDies(c)
  \/ \E k \in Kinds : RegisterConnection(k)
  \/ \E k \in Kinds, s \in {"active", "disabled"} : SetStatus(k, s)
  \/ \E s \in {"active", "disabled"} : SetPluginStatus(s)
  \/ RegisterPlugin \/ ClaimStream \/ Backfill

Spec == Init /\ [][Next]_vars

(***************************************************************************)
(* As long as requests do not overlap and no claim is switched on beside   *)
(* another one (enabling and plugins skip the check), one dataset name has *)
(* one active owner among five source tables, plugins and streams.         *)
(***************************************************************************)
DatasetOwnedOnce == ~overlapped /\ ~unchecked => Cardinality(Owners) <= 1

(***************************************************************************)
(* Between requests every source can be used: its workspace is linked in   *)
(* SpiceDB and its connection exists.  A failed SpiceDB write must be      *)
(* undone for that.  It does not hold after requests that overlapped or    *)
(* died, or when two kinds shared the name, whose link is the same.        *)
(***************************************************************************)
SourceUsable ==
  ~overlapped /\ ~broken /\ ~reused /\ (\A c \in Clients : request[c] = Idle) =>
    \A k \in Kinds : row[k] # None =>
      row[k].ws \in linked /\ (row[k].conn => connection[k])
=============================================================================
