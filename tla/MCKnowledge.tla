----------------------------- MODULE MCKnowledge -----------------------------
(***************************************************************************)
(* The registries, the stores and the analytics plans of Knowledge on one  *)
(* instance.  They share no state in the model, so each behaviour          *)
(* exercises one: the one in focus.                                        *)
(***************************************************************************)
EXTENDS Naturals, Sequences, TLC

CONSTANTS Clients, None,
          Interfaces, Base, Derived,      \* InterfaceContracts
          Payloads, Projects, Drafts,     \* TypeRegistry
          Ids, Vals, Tables,              \* ServingStore
          Refreshers, Columns, Consumer,  \* LinkStore
          MaxRequests, MaxSyncs, MaxReindexes, MaxActions, MaxChanges, MaxWrites, MaxCommits,
          MaxPlans, MaxFaults             \* bounds

VARIABLES focus,
  iface, object, outbound, action, pending, contractRaced, loosened, asked,
  kind, row, revision, linked, project, used, branch, applied, request, typeRaced,
  ungoverned, requests, typeFaults,
  table, version, events, store, history, tomb, done, index, ingest, reindex, clock,
  behind, raced, spared, adopted, exact, reindexes, actions, faults,
  content, joinEvents, catalogued, relation, stored, label, overlay, linkEdits, worker,
  wanted, linkRaced, reshaped, linkBehind, changes, writes,
  snapshots, latest, mapping, adapter, runs, plan, answered, commits, plans

contractVars == <<iface, object, outbound, action, pending, contractRaced, loosened, asked>>
typeVars == <<kind, row, revision, linked, project, used, branch, applied, request, typeRaced,
              ungoverned, requests, typeFaults>>
storeVars == <<table, version, events, store, history, tomb, done, index, ingest, reindex,
               clock, behind, raced, spared, adopted, exact, reindexes, actions, faults>>
linkVars == <<content, joinEvents, catalogued, relation, stored, label, overlay, linkEdits,
              worker, wanted, linkRaced, reshaped, linkBehind, changes, writes>>
planVars == <<snapshots, latest, mapping, adapter, runs, plan, answered, commits, plans>>
vars == <<focus, contractVars, typeVars, storeVars, linkVars, planVars>>

Contracts == INSTANCE InterfaceContracts WITH
  MaxRequests <- 2, relation <- outbound, raced <- contractRaced
TypeRows == INSTANCE TypeRegistry WITH raced <- typeRaced, faults <- typeFaults
Serving == INSTANCE ServingStore
Links == INSTANCE LinkStore WITH
  events <- joinEvents, done <- linkEdits, raced <- linkRaced, behind <- linkBehind
Plans == INSTANCE ExecutionCache WITH
  MaxChanges <- MaxCommits, MaxRequests <- MaxPlans, table <- snapshots, catalogued <- latest,
  request <- plan, changes <- commits, requests <- plans

ASSUME KnowledgeAssumption ==
  /\ MaxRequests \in Nat /\ Drafts \subseteq TypeRows!Proposals
  /\ None \notin Payloads \cup TypeRows!TypeRow \cup TypeRows!Branch \cup TypeRows!Request
  /\ Ids \subseteq Nat \ {0} /\ None \notin Vals /\ Tables \subseteq Serving!Contents
  /\ None \notin Serving!Instance \cup Serving!Document
  /\ None \notin Columns \cup {"fk", "add", "delete"} /\ "fk" \notin Columns
  /\ Consumer \notin Refreshers
  /\ None \notin Links!Jobs \cup Links!Pairs /\ None \notin Nat

(* Both rows, then a changed first row alone, in any order. *)
TwoTables == {<<"x", "x">>, <<"y", None>>}

(* A proposal that says nothing of the project, one that sets it, one that *)
(* clears it.                                                              *)
ThreeDrafts == {[payload |-> "x", project |-> None], [payload |-> "y", project |-> "p"],
                [payload |-> "x", project |-> "clear"]}

(* Clients and columns differ only by name; the properties are invariants. *)
Symmetry == Permutations(Clients) \cup Permutations(Columns)

(* every dataset is catalogued, or the source is not yet *)
PlansInit == Plans!Init /\ latest["bridge"] = 1 /\ latest["target"] = 1

Init ==
  /\ focus \in {"contracts", "types", "serving", "links", "plans"}
  /\ Contracts!Init /\ TypeRows!Init /\ Serving!Init /\ Links!Init /\ PlansInit
  /\ focus # "contracts" => /\ iface[Derived].parents = {} /\ object.implements = {}
                            /\ object.type = "any" /\ action = "none"
  /\ focus # "types" => kind = "value"
  /\ focus # "links" => relation = None
  /\ focus # "plans" => latest["source"] = 1

Next ==
  /\ UNCHANGED focus
  /\ \/ /\ focus = "contracts" /\ Contracts!Next
        /\ UNCHANGED <<typeVars, storeVars, linkVars, planVars>>
     \/ /\ focus = "types" /\ TypeRows!Next
        /\ UNCHANGED <<contractVars, storeVars, linkVars, planVars>>
     \/ /\ focus = "serving" /\ Serving!Next
        /\ UNCHANGED <<contractVars, typeVars, linkVars, planVars>>
     \/ /\ focus = "links" /\ Links!Next
        /\ UNCHANGED <<contractVars, typeVars, storeVars, planVars>>
     \/ /\ focus = "plans" /\ Plans!Next
        /\ UNCHANGED <<contractVars, typeVars, storeVars, linkVars>>

Spec == Init /\ [][Next]_vars

(* Interfaces form a sound hierarchy and implementers keep their contracts: *)
(* see InterfaceContracts.                                                  *)
InterfacesSound == focus = "contracts" => Contracts!ContractsHold /\ Contracts!HierarchySound
(* A registered type keeps its revisions, its parents in SpiceDB and the    *)
(* proposals merged into it: see TypeRegistry.                              *)
TypesGoverned == TypeRows!RevisionsFaithful /\ TypeRows!TypeGoverned /\ TypeRows!MergedIsApplied
(* Search and history follow the serving store: see ServingStore.           *)
SearchFollowsStore == Serving!SearchComplete /\ Serving!SearchPurged /\ Serving!HistoryCurrent
(* Stored links follow the lake and keep link writes: see LinkStore.        *)
LinksFaithful == Links!LabelHonest /\ Links!LinksCurrent /\ Links!LinkWriteKept
(* Cached plans are the plans at their pinned versions: see ExecutionCache. *)
ExecutionSound == Plans!ExecutionSound
=============================================================================
