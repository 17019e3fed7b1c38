---------------------------- MODULE ModelRegistry ----------------------------
(***************************************************************************)
(* One model name of Intelligence: its artifacts in S3, one per version,   *)
(* its row, and its link to a workspace in SpiceDB.  Each client is of a   *)
(* tenant of its own; the name is shared by all tenants.                   *)
(***************************************************************************)
EXTENDS Naturals, FiniteSets

CONSTANTS Clients, Versions, None,
          MaxRegistrations, MaxOthers, MaxFaults  \* bounds

VARIABLES row,        \* None or [tenant, version, schema, status]
          artifact,   \* per version None or the registration that put it
          linked,     \* SpiceDB: tenants whose model of this name has a workspace
          request,    \* per client, None or what it is doing
          predicted,  \* ghost: None or the artifact and the schema of a prediction
          reused,     \* ghost: versions put by more than one registration
          raced,      \* ghost: two first registrations were under way at once, or a link
                      \* that failed was made all the same
          crossed,    \* ghost: a tenant replaced another's row
          cut,        \* ghost: tenants whose registration died before the link
          kept,       \* ghost: a registration succeeded and was not undone since
          lost,       \* ghost: a compensation deleted a row another registration wrote
          registrations, others, faults

vars == <<row, artifact, linked, request, predicted, reused, raced, crossed, cut, kept, lost,
          registrations, others, faults>>

ModelRow == [tenant : Clients, version : Versions, status : {"active", "disabled"}, schema : Nat]
Registration == [pc : {"put", "upsert", "seed"}, id : Nat, version : Versions, first : BOOLEAN]
Loading == [pc : {"load"}, version : Versions, schema : Nat]

Init ==
  /\ row = None /\ artifact = [v \in Versions |-> None] /\ linked = {}
  /\ request = [c \in Clients |-> None] /\ predicted = None
  /\ reused = {} /\ raced = FALSE /\ crossed = FALSE /\ cut = {} /\ kept = FALSE /\ lost = FALSE
  /\ registrations = 0 /\ others = 0 /\ faults = 0

Done(c) == request' = [request EXCEPT ![c] = None]
At(c, pc) == request[c] # None /\ request[c].pc = pc
Registering(c) == request[c] # None /\ request[c].pc \in {"put", "upsert", "seed"}

(* register_model: a new name needs the workspace, a known one the model of *)
(* the caller's tenant, whoever the row belongs to                          *)
Begin(c, v) ==
  /\ request[c] = None /\ registrations < MaxRegistrations
  /\ row # None => c \in linked
  /\ registrations' = registrations + 1
  /\ request' = [request EXCEPT ![c] =
       [pc |-> "put", id |-> registrations', version |-> v, first |-> row = None]]
  /\ raced' = (raced \/ (row = None /\ \E d \in Clients : Registering(d) /\ request[d].first))
  /\ UNCHANGED <<row, artifact, linked, predicted, reused, crossed, cut, kept, lost, others, faults>>

(* the artifact of the version is replaced before the row is written *)
Put(c) ==
  /\ At(c, "put")
  /\ LET v == request[c].version IN
     /\ artifact' = [artifact EXCEPT ![v] = request[c].id]
     /\ reused' = IF artifact[v] = None THEN reused ELSE reused \cup {v}
  /\ request' = [request EXCEPT ![c].pc = "upsert"]
  /\ UNCHANGED <<row, linked, predicted, raced, crossed, cut, kept, lost, registrations, others,
                 faults>>

(* ON CONFLICT (name) DO UPDATE, the tenant included *)
Written(c) ==
  [tenant |-> c, version |-> request[c].version, status |-> "active", schema |-> request[c].id]

(* a row that was there when the request began is taken to be linked *)
Upsert(c) ==
  /\ At(c, "upsert")
  /\ row' = Written(c)
  /\ crossed' = (crossed \/ (row # None /\ row.tenant # c))
  /\ IF request[c].first THEN request' = [request EXCEPT ![c].pc = "seed"] /\ UNCHANGED kept
     ELSE Done(c) /\ kept' = TRUE
  /\ UNCHANGED <<artifact, linked, predicted, reused, raced, cut, lost, registrations, others, faults>>

Seed(c) ==
  /\ At(c, "seed") /\ Done(c)
  /\ linked' = linked \cup {c} /\ kept' = TRUE
  /\ UNCHANGED <<row, artifact, predicted, reused, raced, crossed, cut, lost, registrations, others,
                 faults>>

(* the compensation deletes the row by its name, whoever wrote it, and     *)
(* leaves the link alone, which may have been made                         *)
SeedFails(c) ==
  /\ At(c, "seed") /\ Done(c)
  /\ faults < MaxFaults /\ faults' = faults + 1
  /\ lost' = (lost \/ (row # None /\ row.schema # request[c].id))
  /\ row' = None /\ kept' = (kept /\ row # None /\ row.schema # request[c].id)
  /\ \/ UNCHANGED <<linked, raced>>
     \/ linked' = linked \cup {c} /\ raced' = TRUE
  /\ UNCHANGED <<artifact, predicted, reused, crossed, cut, registrations, others>>

SetStatus(c) ==
  /\ others < MaxOthers /\ others' = others + 1
  /\ row # None /\ c \in linked
  /\ \E s \in {"active", "disabled"} : row' = [row EXCEPT !.status = s]
  /\ UNCHANGED <<artifact, linked, request, predicted, reused, raced, crossed, cut, kept, lost,
                 registrations, faults>>

(* predict reads the row, then the artifact of its version *)
AskPrediction(c) ==
  /\ others < MaxOthers /\ others' = others + 1
  /\ request[c] = None /\ row # None /\ row.status = "active" /\ c \in linked
  /\ request' = [request EXCEPT ![c] = [pc |-> "load", version |-> row.version, schema |-> row.schema]]
  /\ UNCHANGED <<row, artifact, linked, predicted, reused, raced, crossed, cut, kept, lost,
                 registrations, faults>>
Predict(c) ==
  /\ At(c, "load") /\ Done(c)
  /\ predicted' = [version |-> request[c].version, schema |-> request[c].schema,
                   artifact |-> artifact[request[c].version]]
  /\ UNCHANGED <<row, artifact, linked, reused, raced, crossed, cut, kept, lost, registrations,
                 others, faults>>

(* the service dies, or S3 or the database fails, and nothing is undone *)
Cut(c) ==
  /\ request[c] # None /\ faults < MaxFaults /\ faults' = faults + 1
  /\ Done(c)
  /\ cut' = IF At(c, "seed") THEN cut \cup {c} ELSE cut
  /\ UNCHANGED <<row, artifact, linked, predicted, reused, raced, crossed, kept, lost,
                 registrations, others>>

Next ==
  \E c \in Clients :
    \/ \E v \in Versions : Begin(c, v)
    \/ Put(c) \/ Upsert(c) \/ Seed(c) \/ SeedFails(c)
    \/ SetStatus(c) \/ AskPrediction(c) \/ Predict(c) \/ Cut(c)

Spec == Init /\ [][Next]_vars

(***************************************************************************)
(* Properties                                                              *)
(***************************************************************************)
(* A prediction runs the artifact that came with the schema its features    *)
(* were arranged by, unless its version was registered more than once.      *)
PredictionCoherent ==
  predicted # None => predicted.artifact = predicted.schema \/ predicted.version \in reused

(* The row belongs to a tenant that governs it or is about to, unless that  *)
(* registration died; a tenant replaces another's row, and a compensation   *)
(* deletes another's registration, only after first registrations raced or  *)
(* a link outlived the row that was taken back.                             *)
ModelGoverned ==
  /\ row # None => \/ row.tenant \in linked \cup cut
                   \/ \E c \in Clients : At(c, "seed") /\ c = row.tenant
                   \/ raced
  /\ crossed \/ lost => raced

(* A registration that succeeded leaves an active or disabled model behind, *)
(* whatever others did, unless first registrations raced or a link outlived *)
(* its row.                                                                 *)
ModelKept == kept => row # None \/ raced

(* Predictions run what was registered, and a model stays governed and kept. *)
ModelsSound == PredictionCoherent /\ ModelGoverned /\ ModelKept
=============================================================================
