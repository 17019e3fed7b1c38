---------------------------- MODULE GovernedReads ----------------------------
(***************************************************************************)
(* Reads of the instances of one ObjectType by one principal, for itself   *)
(* or on behalf of a mandant: markings drop rows, then confidential values *)
(* are masked.  A client walks the pages of a list, reads one instance or  *)
(* follows a link, while the store, the markings, the clearances and the   *)
(* policy change.  Each instance points at a parent of another type; the   *)
(* parent shows an aggregate of its children, and the graph endpoint walks *)
(* the links both ways.                                                    *)
(***************************************************************************)
EXTENDS Integers, Sequences, SequencesExt, FiniteSets, FiniteSetsExt

CONSTANTS Ids,        \* numbers of the instances, in the order of the store
          Parents, Markings,
          Mixed,      \* the markings of the category that any one of them satisfies
          Values,
          PageSize, Factor, MinBatch, MaxBatches,  \* _resolve_many: 3, 16 and 32
          Ttl,        \* ticks a visibility decision is kept
          MaxNodes,   \* nodes of a graph
          None,
          MaxChanges, MaxReads, MaxTicks  \* bounds

VARIABLES store,     \* per id, None or [parent, value]
          marks,     \* instance_marking: per id, None or a set; {} once cleared
          registry,  \* the markings of the tenant
          holds,     \* SpiceDB: markings the principal holds
          mandate,   \* None or the markings its mandant holds
          typeRead,  \* SpiceDB: the principal may read the type
          indexed,   \* OpenSearch: per id None or the markings of its document
          policy,    \* OPA: the principal's country sees confidential values
          visible,   \* _cache: None or [answer, age]
          request,   \* None or the read under way
          token,     \* the page token the client has: 0 at first, an id, None at the end
          seen,      \* rows the walk delivered
          always,    \* ghost: ids readable ever since the walk began
          sometime,  \* ghost: ids readable at some time during the request
          answers,   \* ghost: what OPA would have said in each of the last ticks
          allowed,   \* ghost: OPA would have said yes within Ttl of the request, or during it
          capped,    \* ghost: a page ran out of batches
          withheld,  \* ghost: a row or a value was delivered that never was to be seen
          changes, reads, ticks

vars == <<store, marks, registry, holds, mandate, typeRead, indexed, policy, visible, request, token, seen,
          always, sometime, answers, allowed, capped, withheld, changes, reads, ticks>>

data == <<store, marks, registry, holds, mandate, typeRead, indexed>>
walk == <<token, seen>>

(***************************************************************************)
(* Markings                                                                *)
(***************************************************************************)
(* category_groups_satisfied: one marking of a disjunctive category is     *)
(* enough, all of a conjunctive one are needed                             *)
Satisfied(applied) ==
  /\ applied \cap Mixed # {} => applied \cap Mixed \cap holds # {}
  /\ applied \ Mixed \subseteq holds
(* _authorize_markings: a name the registry does not know fails closed *)
Cleared(applied) == applied = {} \/ (applied \subseteq registry /\ Satisfied(applied))

(* _filter_by_instance_markings *)
Readable(i) == store[i] # None /\ (marks[i] = None \/ Cleared(marks[i]))
ReadableIds == {i \in Ids : Readable(i)}

Init ==
  /\ store = [i \in Ids |-> [parent |-> CHOOSE p \in Parents : TRUE, value |-> CHOOSE v \in Values : TRUE]]
  /\ registry \in {Markings, Mixed}
  /\ \E m \in registry : marks \in [Ids -> {None, {m}}]
  /\ holds \in SUBSET registry /\ mandate \in {None} \cup SUBSET registry
  /\ indexed = [i \in Ids |-> IF marks[i] = None THEN {} ELSE marks[i]]
  /\ typeRead = TRUE /\ policy \in BOOLEAN /\ visible = None
  /\ request = None /\ token = 0 /\ seen = <<>>
  /\ always = ReadableIds /\ sometime = {} /\ allowed = FALSE
  /\ answers = [k \in 0..Ttl |-> IF k = 0 THEN {policy} ELSE {}]
  /\ capped = FALSE /\ withheld = FALSE
  /\ changes = 0 /\ reads = 0 /\ ticks = 0

(***************************************************************************)
(* What changes meanwhile                                                  *)
(***************************************************************************)
Change ==
  /\ changes < MaxChanges /\ changes' = changes + 1
  /\ always' = always \cap ReadableIds'
  /\ sometime' = IF request = None THEN {} ELSE sometime \cup ReadableIds'
  /\ UNCHANGED <<policy, visible, request, walk, answers, allowed, capped, withheld, reads, ticks>>

(* a sync or an action writes or removes an instance *)
Materialize(i) ==
  /\ \/ \E p \in Parents, v \in Values :
          /\ store[i] # [parent |-> p, value |-> v]
          /\ store' = [store EXCEPT ![i] = [parent |-> p, value |-> v]]
     \/ store[i] # None /\ store' = [store EXCEPT ![i] = None]
  /\ UNCHANGED <<marks, registry, holds, mandate, typeRead, indexed>>
  /\ Change

(* set_instance_markings: every name must be registered; the row stays when *)
(* the list becomes empty, and the search document is left as it is         *)
Registered(ms) == ms \subseteq registry
SetInstanceMarkings(i, ms) ==
  /\ Registered(ms)
  /\ marks' = [marks EXCEPT ![i] = ms]
  /\ UNCHANGED <<store, registry, holds, mandate, typeRead, indexed>>
  /\ Change

(* the row, then its creator as admin, who holds it; the second step may fail *)
InsertMarking(m) == m \notin registry /\ registry' = registry \cup {m}
CreateMarking(m, mine) ==
  /\ InsertMarking(m)
  /\ holds' = IF mine THEN holds \cup {m} ELSE holds
  /\ UNCHANGED <<store, marks, mandate, typeRead, indexed>>
  /\ Change

GrantMarkingAccess(m) ==
  /\ m \in registry
  /\ \/ m \notin holds /\ holds' = holds \cup {m} /\ UNCHANGED mandate
     \/ mandate # None /\ m \notin mandate /\ mandate' = mandate \cup {m} /\ UNCHANGED holds
  /\ UNCHANGED <<store, marks, registry, typeRead, indexed>>
  /\ Change
RevokeMarkingAccess(m) ==
  /\ m \in registry
  /\ \/ m \in holds /\ holds' = holds \ {m} /\ UNCHANGED mandate
     \/ mandate # None /\ m \in mandate /\ mandate' = mandate \ {m} /\ UNCHANGED holds
  /\ UNCHANGED <<store, marks, registry, typeRead, indexed>>
  /\ Change

ChangeTypeAccess ==
  /\ typeRead' = ~typeRead
  /\ UNCHANGED <<store, marks, registry, holds, mandate, indexed>>
  /\ Change

(* a sync or a reindex writes the documents, with the markings of the moment *)
Index ==
  /\ indexed' = [i \in Ids |-> IF store[i] = None THEN None ELSE IF marks[i] = None THEN {} ELSE marks[i]]
  /\ indexed' # indexed
  /\ UNCHANGED <<store, marks, registry, holds, mandate, typeRead>>
  /\ Change

ChangePolicy ==
  /\ changes < MaxChanges /\ changes' = changes + 1
  /\ policy' = ~policy
  /\ answers' = [answers EXCEPT ![0] = @ \cup {policy'}]
  /\ allowed' = (allowed \/ (request # None /\ policy'))
  /\ UNCHANGED <<data, visible, request, walk, always, sometime, capped, withheld, reads, ticks>>

(* the call to OPA of the read under way *)
Asked == request # None /\ request.asked # None

Tick ==
  /\ ticks < MaxTicks /\ ticks' = ticks + 1
  /\ answers' = [k \in 0..Ttl |-> IF k = 0 THEN {policy} ELSE answers[k - 1]]
  /\ visible' = IF visible = None \/ visible.age >= Ttl THEN None ELSE [visible EXCEPT !.age = @ + 1]
  /\ request' = IF Asked THEN [request EXCEPT !.asked.age = @ + 1] ELSE request
  /\ UNCHANGED <<data, policy, walk, always, sometime, allowed, capped, withheld, changes, reads>>

(***************************************************************************)
(* A read: fetch a batch, filter it, mask what is left                     *)
(***************************************************************************)
Read(kind, among, after, limit) ==
  [kind |-> kind, among |-> among, after |-> after, limit |-> limit, pc |-> "fetch",
   rows |-> <<>>, batch |-> <<>>, full |-> FALSE, batches |-> 0, asked |-> None]

Start(read) ==
  /\ request = None /\ reads < MaxReads
  /\ typeRead  \* _authorize_object_type
  /\ request' = read /\ reads' = reads + 1
  /\ sometime' = ReadableIds /\ allowed' = (TRUE \in UNION {answers[k] : k \in 0..Ttl})
  /\ UNCHANGED <<data, policy, visible, walk, always, answers, capped, withheld, changes, ticks>>

(* list_generic_objects asks for one row more than the page *)
ReadPage ==
  /\ token # None
  /\ Start(Read("page", Ids, token, PageSize + 1))
ReadOne(i) == Start(Read("one", {i}, 0, None))
Children(p) == {i \in Ids : store[i] # None /\ store[i].parent = p}
ReadLinks(p) == Start(Read("links", Children(p), 0, None))
ExportObjects == Start(Read("export", Ids, 0, None))

BatchLimit ==
  IF request.limit = None THEN Cardinality(Ids)
  ELSE LET need == request.limit - Len(request.rows) IN Max({need * Factor, need, MinBatch})
(* mutant: the cursor's own row is listed again *)
Listed_FromCursor ==
  LET found == SetToSortSeq({i \in request.among : i >= request.after /\ store[i] # None}, <)
  IN SubSeq(found, 1, Min({BatchLimit, Len(found)}))
(* list_instances: in the order of the ids, strictly after the cursor *)
Listed ==
  LET found == SetToSortSeq({i \in request.among : i > request.after /\ store[i] # None}, <)
  IN SubSeq(found, 1, Min({BatchLimit, Len(found)}))

(* page_from_resolved: a token only if a row beyond the page survived *)
Respond(rows, final) ==
  /\ withheld' = (withheld \/ \E k \in DOMAIN rows :
                               rows[k].id \notin sometime \/ (rows[k].value /\ ~allowed))
  /\ IF request.kind = "page"
     THEN LET items == SubSeq(rows, 1, Min({PageSize, Len(rows)})) IN
          /\ seen' = seen \o items
          /\ token' = IF Len(rows) > PageSize THEN Last(items).id ELSE None
          /\ capped' = (capped \/ ~final)
     ELSE UNCHANGED <<seen, token, capped>>
  /\ request' = None /\ sometime' = {} /\ allowed' = FALSE

Fetch ==
  /\ request # None /\ request.pc = "fetch"
  /\ IF Listed = <<>> THEN Respond(request.rows, TRUE)
     ELSE /\ request' = [request EXCEPT !.pc = "filter", !.batch = Listed]
          /\ UNCHANGED <<seen, token, capped, withheld, sometime, allowed>>
  /\ UNCHANGED <<data, policy, visible, always, answers, changes, reads, ticks>>

(* the cursor and the end of the store are those of the unfiltered batch *)
Filter ==
  /\ request # None /\ request.pc = "filter"
  /\ request' = [request EXCEPT !.pc = "mask", !.batches = @ + 1, !.after = Last(request.batch),
                                !.full = (Len(request.batch) = BatchLimit),
                                !.batch = SelectSeq(@, Readable)]
  /\ UNCHANGED <<data, policy, visible, walk, always, sometime, answers, allowed, capped, withheld,
                 changes, reads, ticks>>

(* confidential_visible: OPA answers, and a failed call is a no *)
AskPolicy ==
  /\ request # None /\ request.pc = "mask" /\ visible = None /\ request.asked = None
  /\ \E answer \in {policy, FALSE} :
       request' = [request EXCEPT !.asked = [answer |-> answer, age |-> 0]]
  /\ UNCHANGED <<data, policy, visible, walk, always, sometime, answers, allowed, capped, withheld,
                 changes, reads, ticks>>

(* mutant: the time to live runs from the arrival of the answer *)
Kept_FromArrival == [request.asked EXCEPT !.age = 0]
(* the answer is kept from the time of the call on, so that a late one has expired *)
Kept == IF request.asked.age > Ttl THEN None ELSE request.asked
Decision == IF Asked THEN request.asked.answer ELSE visible.answer

(* a masked value is None *)
Row(i) == [id |-> i, value |-> Decision]

Mask ==
  /\ request # None /\ request.pc = "mask" /\ (Asked \/ visible # None)
  /\ visible' = IF Asked THEN Kept ELSE visible
  /\ LET rows == request.rows \o [k \in DOMAIN request.batch |-> Row(request.batch[k])]
         enough == request.limit # None /\ Len(rows) >= request.limit
         exhausted == request.limit = None \/ ~request.full
     IN IF enough \/ exhausted \/ request.batches = MaxBatches
        THEN Respond(IF enough THEN SubSeq(rows, 1, request.limit) ELSE rows, enough \/ exhausted)
        ELSE /\ request' = [request EXCEPT !.pc = "fetch", !.rows = rows, !.asked = None]
             /\ UNCHANGED <<seen, token, capped, withheld, sometime, allowed>>
  /\ UNCHANGED <<data, policy, always, answers, changes, reads, ticks>>

(* SpiceDB or the database fails: the request does, and the client keeps *)
(* its token                                                             *)
ReadFails ==
  /\ request # None
  /\ request' = None /\ sometime' = {} /\ allowed' = FALSE
  /\ UNCHANGED <<data, policy, visible, walk, always, answers, capped, withheld, changes, reads, ticks>>

Next ==
  \/ \E i \in Ids : Materialize(i) \/ ReadOne(i) \/ \E ms \in SUBSET Markings : SetInstanceMarkings(i, ms)
  \/ \E m \in Markings : GrantMarkingAccess(m) \/ RevokeMarkingAccess(m) \/ \E mine \in BOOLEAN : CreateMarking(m, mine)
  \/ ChangeTypeAccess \/ Index \/ ChangePolicy \/ Tick
  \/ ReadPage \/ ExportObjects \/ \E p \in Parents : ReadLinks(p)
  \/ Fetch \/ Filter \/ AskPolicy \/ Mask \/ ReadFails

Spec == Init /\ [][Next]_vars

(***************************************************************************)
(* Aggregates over the children of a parent                                *)
(***************************************************************************)
(* None when there is nothing to add up *)
Reduced(S, shown) ==
  [count |-> Cardinality(S),
   sum |-> IF S = {} \/ ~shown THEN None ELSE MapThenSumSet(LAMBDA i : store[i].value, S)]

(* _compute_link_aggregate: over the neighbours as the principal reads them *)
LinkAggregate(p, shown) ==
  Reduced(IF typeRead THEN {i \in Children(p) : Readable(i)} ELSE {}, shown)

(* aggregate_fk_children: one query over the stored rows of the unmarked   *)
(* children, and the marked ones apart                                     *)
Unmarked(p) == {i \in Children(p) : marks[i] = None}
(* of which the principal's own are added; an empty list is not one of them *)
Allowed(p) == {i \in Children(p) \ Unmarked(p) : marks[i] # {} /\ Cleared(marks[i])}
FkAggregate(p) == Reduced(Unmarked(p) \cup Allowed(p), TRUE)

(* _apply_derived_properties: the one query where the relation is a foreign *)
(* key of the children, the neighbours otherwise                            *)
DerivedAggregate(p, foreignKey, visibly) ==
  IF foreignKey THEN FkAggregate(p) ELSE LinkAggregate(p, visibly)

(***************************************************************************)
(* Search: filtered by tokens inside OpenSearch                            *)
(***************************************************************************)
(* held_marking_names: what a mandant does not hold is not held on its behalf *)
HeldMarkings == registry \cap holds \cap (IF mandate = None THEN holds ELSE mandate)
(* _marking_filter: every required marking must be held, whatever its category *)
Found(i) == typeRead /\ indexed[i] # None /\ indexed[i] \subseteq HeldMarkings

(***************************************************************************)
(* The graph around an instance                                            *)
(***************************************************************************)
Child(i) == <<"child", i>>
Parent(p) == <<"parent", p>>
(* what the principal reads one link away, each step as a sequence *)
Neighbors(n) ==
  IF n[1] = "child" THEN <<Parent(store[n[2]].parent)>>
  ELSE IF typeRead
  THEN LET ids == SetToSortSeq({i \in Children(n[2]) : Readable(i)}, <)
       IN [k \in DOMAIN ids |-> Child(ids[k])]
  ELSE <<>>

(* one neighbour met from node from; at the limit it is not even an edge *)
Meet(graph, from, n) ==
  IF Cardinality(graph.nodes) >= MaxNodes THEN [graph EXCEPT !.truncated = TRUE]
  ELSE [graph EXCEPT !.nodes = @ \cup {n}, !.edges = @ \cup {{from, n}},
                     !.next = IF n \in graph.nodes THEN @ ELSE Append(@, n)]
MeetAll(graph, from) == FoldLeft(LAMBDA g, n : Meet(g, from, n), graph, Neighbors(from))
(* _traverse_neighborhood *)
Hop(graph) ==
  IF graph.truncated THEN graph
  ELSE FoldLeft(MeetAll, [graph EXCEPT !.next = <<>>], graph.next)
Graph(i, hops) ==
  FoldLeft(LAMBDA g, h : Hop(g),
           [nodes |-> {Child(i)}, edges |-> {}, next |-> <<Child(i)>>, truncated |-> FALSE],
           [h \in 1..hops |-> h])

(***************************************************************************)
(* Properties                                                              *)
(***************************************************************************)
(* A walk over the pages delivers no row twice, and once it is over, every  *)
(* row that was readable all along, whatever was inserted, removed, marked  *)
(* or cleared between its requests, unless a page ran out of batches.       *)
WalkCovers ==
  /\ \A j, k \in DOMAIN seen : seen[j].id = seen[k].id => j = k
  /\ token = None /\ ~capped => always \subseteq {seen[k].id : k \in DOMAIN seen}

(* No row is delivered that its principal could not read at any moment of   *)
(* the request, and no confidential value that the policy withheld all      *)
(* through the request and the time to live of a decision before it.        *)
NothingWithheld == ~withheld

(* A cached decision lets confidential values be seen only if the policy    *)
(* did since OPA was asked, which was no longer than the time to live ago.  *)
VisibilityFresh ==
  visible # None => /\ visible.age <= Ttl
                    /\ visible.answer => \E k \in 0..visible.age : TRUE \in answers[k]

(* For a principal who reads the child type and its values, the one-query   *)
(* aggregate is the reduction of the children it can read; a child whose    *)
(* markings were cleared is left out of the query.  (The query takes the    *)
(* stored values, also where the principal would read them masked.)         *)
AggregatesAgree ==
  \A p \in Parents :
    (typeRead /\ \A i \in Children(p) : marks[i] # {}) =>
      DerivedAggregate(p, TRUE, TRUE) = DerivedAggregate(p, FALSE, TRUE)

(* The graph has no more nodes than its limit, no edge to a node that is    *)
(* not there, and shows exactly the readable instances within its hops      *)
(* unless it says it is truncated.                                          *)
GraphSound ==
  \A i \in ReadableIds : \A hops \in 1..2 :
    LET g == Graph(i, hops)
        siblings == {j \in Children(store[i].parent) : typeRead /\ Readable(j)}
    IN /\ Cardinality(g.nodes) <= MaxNodes
       /\ \A e \in g.edges : e \subseteq g.nodes
       /\ ~g.truncated => g.nodes = {Child(i), Parent(store[i].parent)}
                            \cup (IF hops = 2 THEN {Child(j) : j \in siblings} ELSE {})

(* Search agrees with reads on a row whose markings are those it was        *)
(* indexed with: what it finds can be read, and what can be read is found,  *)
(* except under two markings of a category that one would satisfy, or under *)
(* one that the mandant does not hold: reads ask for the principal's only.  *)
SearchAgrees ==
  \A i \in Ids :
    store[i] # None /\ typeRead /\ indexed[i] = (IF marks[i] = None THEN {} ELSE marks[i]) =>
      /\ Found(i) => Readable(i)
      /\ Readable(i) /\ Cardinality(indexed[i] \cap Mixed) <= 1
           /\ (mandate # None => indexed[i] \subseteq mandate) => Found(i)

(* Every way to read an instance respects its markings and agrees with the  *)
(* others.                                                                  *)
ReadsGoverned ==
  /\ WalkCovers /\ NothingWithheld /\ VisibilityFresh
  /\ AggregatesAgree /\ GraphSound /\ SearchAgrees

(* "Marked rows stay out of the aggregate: a marking the caller does not    *)
(* hold must not change the count.  The caller adds back the ones they may  *)
(* see." (serving_store.aggregate_fk_children)                              *)
CountsWhatIsRead ==
  \A p \in Parents : typeRead => FkAggregate(p).count = LinkAggregate(p, TRUE).count
=============================================================================
