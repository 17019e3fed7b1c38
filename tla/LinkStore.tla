------------------------------ MODULE LinkStore ------------------------------
(***************************************************************************)
(* The links of one RelationType stored as a join dataset: the pairs read  *)
(* from the lake (relation_link), the snapshot they are labelled with      *)
(* (relation_link_sync) and the overlays of link writes.  One pair is      *)
(* followed.  Whether the lake holds it depends on the snapshot and on the *)
(* join columns.  Pairs are replaced by the catalogue consumer after a     *)
(* sync and by refreshers: a changed relation, a first graph read, a boot. *)
(***************************************************************************)
EXTENDS Naturals, Sequences

CONSTANTS Refreshers, Columns, None,
          Consumer,   \* the catalogue consumer
          MaxSyncs, MaxChanges, MaxWrites  \* bounds

VARIABLES content,    \* lake: per snapshot, the columns under which the pair exists
          events,     \* sync events to be handled
          catalogued, \* latest dataset_version, 0 if none
          relation,   \* None or the join columns; "fk" is another storage kind
          stored,     \* None or [read, cols, present]: snapshot and columns used
          label,      \* relation_link_sync, None if never synced
          overlay,    \* None, "add" or "delete"
          done,       \* link writes that can be reverted: their prior overlay
          worker,     \* None or [pc, label, cols, read, absorbed, stale]
          wanted,     \* ghost: link write the lake has not caught up with
          raced,      \* ghost: a worker overtook another, or a write
          reshaped,   \* ghost: columns changed while the label was current
          behind,     \* ghost: an event was quarantined, no current replace since
          changes, writes

vars == <<content, events, catalogued, relation, stored, label, overlay, done, worker,
          wanted, raced, reshaped, behind, changes, writes>>

Workers == Refreshers \cup {Consumer}
links == <<stored, label>>
overlays == <<overlay, done, wanted, writes>>

Init ==
  /\ content = <<>> /\ events = <<>> /\ catalogued = 0
  /\ relation \in {None} \cup Columns
  /\ stored = None /\ label = None
  /\ overlay = None /\ done = {}
  /\ worker = [w \in Workers |-> None]
  /\ wanted = None /\ raced = FALSE /\ reshaped = FALSE /\ behind = FALSE
  /\ changes = 0 /\ writes = 0

(* the pair as graph reads see it: merge_pair_set *)
Present == overlay = "add" \/ (overlay = None /\ stored # None /\ stored.present)

(* a snapshot in which the pair exists under the columns cs *)
Sync(cs) ==
  /\ Len(content) < MaxSyncs
  /\ content' = Append(content, cs)
  /\ events' = Append(events, Len(content) + 1)
  /\ UNCHANGED <<catalogued, relation, links, overlays, worker, raced, reshaped, behind, changes>>

(***************************************************************************)
(* Replacing the pairs                                                     *)
(***************************************************************************)
Jobs == [pc : {"fetch", "fetched", "listed"}, label : Nat, cols : Columns, read : Nat,
         absorbed : BOOLEAN, stale : BOOLEAN]
Pairs == [read : Nat, cols : Columns, present : BOOLEAN]
Job(pc, snapshot) == [pc |-> pc, label |-> snapshot, cols |-> relation, read |-> 0,
                      absorbed |-> FALSE, stale |-> FALSE]

(* _catalogue_sync, then _materialize_join_links up to its early returns *)
CatalogueEvent ==
  /\ events # <<>>
  /\ worker[Consumer] = None
  /\ catalogued' = Head(events)
  /\ IF relation \in Columns /\ label # Head(events)
     THEN /\ worker' = [worker EXCEPT ![Consumer] = Job("fetch", Head(events))]
          /\ UNCHANGED events
     ELSE events' = Tail(events) /\ UNCHANGED worker
  /\ UNCHANGED <<content, relation, links, overlays, raced, reshaped, behind, changes>>

(* refresh_join_links_for_relation: the label is read before the rows; the *)
(* early return leaves the pairs of the old columns                        *)
BeginRefresh(w) ==
  /\ worker[w] = None
  /\ relation \in Columns
  /\ label # catalogued
  /\ worker' = [worker EXCEPT ![w] = Job("fetch", catalogued)]
  /\ UNCHANGED <<content, events, catalogued, relation, links, overlays, raced, reshaped, behind, changes>>

(* ensure_join_links_materialized: only when there is no label yet *)
EnsureLinks(w) == label = None /\ BeginRefresh(w)

(* backfill_join_links at boot *)
BackfillLinks(w) == BeginRefresh(w)

(* _fetch_dataset_rows; a refresher gives up when there is no table *)
FetchJoinRows(w) ==
  /\ worker[w] # None /\ worker[w].pc = "fetch"
  /\ worker' = [worker EXCEPT ![w] =
       IF content = <<>> THEN None ELSE [@ EXCEPT !.pc = "fetched", !.read = Len(content)]]
  /\ UNCHANGED <<content, events, catalogued, relation, links, overlays, raced, reshaped, behind, changes>>

(* pairs_from_join_rows: whether the pair is among the rows read *)
PairIn(j) == j.cols \in content[j.read]

(* Mutant: an overlay is dropped whatever the lake says *)
Absorbed_Always(op, present) == op # None

(* overlays_absorbed_by_pairs *)
Absorbed(op, present) == op # None /\ (op = "add") = present

(* _replace_join_pairs_for_relations: the overlays are listed *)
ListOverlays(w) ==
  /\ worker[w] # None /\ worker[w].pc = "fetched"
  /\ worker' = [worker EXCEPT ![w].pc = "listed", ![w].absorbed = Absorbed(overlay, PairIn(worker[w]))]
  /\ UNCHANGED <<content, events, catalogued, relation, links, overlays, raced, reshaped, behind, changes>>

(* replace_pairs, upsert_sync and delete_overlays commit; the consumer is  *)
(* done with its event                                                     *)
CommitPairs(w) ==
  LET j == worker[w]
      present == PairIn(j) IN
  /\ j # None /\ j.pc = "listed"
  /\ stored' = [read |-> j.read, cols |-> j.cols, present |-> present]
  /\ label' = j.label
  /\ overlay' = IF j.absorbed THEN None ELSE overlay
  /\ worker' = [v \in Workers |->
       IF v = w THEN None
       ELSE IF worker[v] # None THEN [worker[v] EXCEPT !.stale = TRUE] ELSE None]
  /\ wanted' = IF wanted # None /\ (wanted = "add") = present THEN None ELSE wanted
  /\ raced' = (raced \/ j.stale)
  /\ behind' = (behind /\ j.label # catalogued)
  /\ events' = IF w = Consumer THEN Tail(events) ELSE events
  /\ UNCHANGED <<content, catalogued, relation, done, writes, reshaped, changes>>

(* a refresh fails or its process dies; the consumer tries again ... *)
WorkerFails(w) ==
  /\ worker[w] # None
  /\ changes < MaxChanges /\ changes' = changes + 1
  /\ worker' = [worker EXCEPT ![w] = None]
  /\ UNCHANGED <<content, events, catalogued, relation, links, overlays, raced, reshaped, behind>>

(* ... or, after its attempts, sets the event aside and commits: the       *)
(* version may be recorded, its pairs are not read                         *)
QuarantineEvent ==
  /\ events # <<>>
  /\ changes < MaxChanges /\ changes' = changes + 1
  /\ events' = Tail(events)
  /\ worker' = [worker EXCEPT ![Consumer] = None]
  /\ behind' = TRUE
  /\ UNCHANGED <<content, catalogued, relation, links, overlays, raced, reshaped>>

(***************************************************************************)
(* The RelationType                                                        *)
(***************************************************************************)
Overtaken == [v \in Workers |-> IF worker[v] = None THEN None ELSE [worker[v] EXCEPT !.stale = TRUE]]

(* sync_join_links_after_relation_change, after the write: pairs are       *)
(* dropped when the storage is no longer a join, refreshed otherwise       *)
DefineRelation(w, def) ==
  /\ worker[w] = None
  /\ changes < MaxChanges /\ changes' = changes + 1
  /\ relation # def
  /\ relation' = def
  /\ IF def = "fk"
     THEN /\ stored' = None /\ label' = None
          /\ worker' = Overtaken /\ UNCHANGED reshaped
     ELSE /\ UNCHANGED links
          /\ IF label = catalogued
             THEN worker' = Overtaken /\ reshaped' = (reshaped \/ stored # None)
             ELSE /\ worker' = [Overtaken EXCEPT ![w] = [Job("fetch", catalogued) EXCEPT !.cols = def]]
                  /\ UNCHANGED reshaped
  /\ UNCHANGED <<content, events, catalogued, overlays, raced, behind>>

CreateRelation(w, def) == relation = None /\ DefineRelation(w, def)
UpdateRelation(w, def) == relation # None /\ DefineRelation(w, def)

(* delete_relation_type *)
DeleteRelation ==
  /\ relation # None
  /\ changes < MaxChanges /\ changes' = changes + 1
  /\ relation' = None
  /\ stored' = None /\ label' = None
  /\ overlay' = None /\ wanted' = None /\ done' = {}
  /\ worker' = Overtaken
  /\ UNCHANGED <<content, events, catalogued, writes, raced, reshaped, behind>>

(***************************************************************************)
(* Link writes                                                             *)
(***************************************************************************)
(* upsert_link, from an action or from the link endpoint *)
WriteLink(op) ==
  /\ relation \in Columns
  /\ writes < MaxWrites /\ writes' = writes + 1
  /\ overlay' = op
  /\ done' = done \cup {overlay}
  /\ wanted' = IF (op = "add") = (stored # None /\ stored.present) THEN None ELSE op
  /\ raced' = (raced \/ \E w \in Workers : worker[w] # None /\ worker[w].pc = "listed")
  /\ UNCHANGED <<content, events, catalogued, relation, links, worker, reshaped, behind, changes>>

(* revert_structural: the overlay that was there before *)
RevertLink(prior) ==
  /\ prior \in done
  /\ overlay' = prior
  /\ done' = done \ {prior}
  /\ wanted' = IF prior = None \/ (prior = "add") = (stored # None /\ stored.present) THEN None ELSE prior
  /\ raced' = (raced \/ \E w \in Workers : worker[w] # None /\ worker[w].pc = "listed")
  /\ UNCHANGED <<content, events, catalogued, relation, links, worker, reshaped, behind, changes, writes>>

Next ==
  \/ \E cs \in SUBSET Columns : Sync(cs)
  \/ CatalogueEvent \/ QuarantineEvent
  \/ \E w \in Refreshers :
       \/ EnsureLinks(w) \/ BackfillLinks(w)
       \/ \E def \in Columns \cup {"fk"} : CreateRelation(w, def) \/ UpdateRelation(w, def)
  \/ \E w \in Workers : FetchJoinRows(w) \/ ListOverlays(w) \/ CommitPairs(w) \/ WorkerFails(w)
  \/ DeleteRelation
  \/ \E op \in {"add", "delete"} : WriteLink(op)
  \/ \E prior \in done : RevertLink(prior)

Spec == Init /\ [][Next]_vars

(***************************************************************************)
(* The pairs are at least as new as their label says: a skip on an equal   *)
(* label never leaves older pairs behind.                                  *)
(***************************************************************************)
LabelHonest == label # None => stored # None /\ stored.read >= label

(***************************************************************************)
(* With no event and no worker left, and unless a worker overtook another  *)
(* or an event was quarantined with no replace at the catalogued version   *)
(* since, the pairs are those of the latest snapshot, under the columns of *)
(* the RelationType unless those changed while the label was current.      *)
(***************************************************************************)
LinksCurrent ==
  events = <<>> /\ (\A w \in Workers : worker[w] = None) /\ ~raced /\ ~behind
    /\ label # None /\ relation \in Columns =>
    stored.read >= catalogued /\ (~reshaped => stored.cols = relation)

(***************************************************************************)
(* A link write shows until the lake agrees with it, whatever is synced in *)
(* between, unless it landed inside a running replace.                     *)
(***************************************************************************)
LinkWriteKept == wanted # None /\ ~raced => Present = (wanted = "add")
=============================================================================
