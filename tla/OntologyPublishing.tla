------------------------ MODULE OntologyPublishing ------------------------
(***************************************************************************)
(* The life of one ObjectType of Knowledge: its creation with the ReBAC    *)
(* seed and its compensation, drafts, publication, branches and reviews,   *)
(* the in-process definition cache and the reconcile of parent_project in  *)
(* SpiceDB (services/knowledge/app/ontology/publishing.py, branching.py,   *)
(* object_types.py, definition_cache.py and the handlers of                *)
(* routers/ontology_admin/object_types.py).                                *)
(*                                                                         *)
(* A handler is a coroutine: it gives way at every await, so it is cut     *)
(* into one action per statement or transaction it sends to PostgreSQL     *)
(* or SpiceDB.  Everything a coroutine holds between two of them is its    *)
(* record in req.  A handler that raises goes back to idle and changes     *)
(* nothing more.                                                           *)
(***************************************************************************)
EXTENDS Naturals, Sequences, FiniteSets

CONSTANTS
    Requests,    \* handlers that may be in flight together
    Branches,    \* names of ontology branches
    Defs,        \* definitions a caller may propose: [pk, life, project]
    None,        \* the null of Python and SQL
    MaxVersion,  \* bound: version numbers
    MaxRequests  \* bound: handlers started

Versions == 1 .. MaxVersion
LifecycleStatuses == {"experimental", "active", "promoted", "deprecated", "example"}

\* A definition as it may be stored, and the rows of the tables.
AllDefs == [pk : {d.pk : d \in Defs}, life : LifecycleStatuses,
            project : {None} \cup {d.project : d \in Defs}]
TypeRow == [version : Versions, d : AllDefs]
VersionRow == [status : {"draft", "published"}, d : AllDefs]
BranchRow == [status : {"open", "merged"}, version : Versions]

ASSUME PublishingAssumption ==
    /\ MaxVersion \in Nat \ {0} /\ MaxRequests \in Nat
    /\ Defs \subseteq AllDefs
    /\ None \notin TypeRow /\ None \notin VersionRow /\ None \notin BranchRow

VARIABLES
    row,        \* the live object_type row, None when there is none
    versions,   \* object_type_version
    branch,     \* ontology_branch
    reviews,    \* ontology_review
    relLife,    \* lifecycle_status of a RelationType that touches the type
    events,     \* knowledge.objecttype.published in the outbox
    cache,      \* the entry ot:{urn} of definition_cache
    spice,      \* SpiceDB's parent_workspace and parent_project of the type
    req,        \* the handlers
    started,    \* handlers started so far
    overlapped, \* history: two handlers have been in flight together
    clobbered,  \* history: a create wrote over a row past version 1
    linkLost    \* history: SpiceDB refused, or a crash cut off, a reconcile

store == <<row, versions, branch, reviews, relLife, events>>
history == <<overlapped, clobbered, linkLost>>
vars == <<store, cache, spice, req, started, history>>

Idle == [pc |-> "idle", kind |-> None, b |-> None, d |-> None, v |-> 0, cur |-> None, next |-> None]
Active(life) == life \in {"active", "promoted"}
Cascading(life) == life \in {"experimental", "deprecated", "example"}

Init ==
    /\ row \in {None} \cup {[version |-> 1, d |-> d] : d \in Defs}
    /\ versions = [v \in Versions |-> None]
    /\ branch = [b \in Branches |-> None]
    /\ reviews = {} /\ events = <<>>
    /\ relLife = "active"
    /\ cache = None
    /\ spice = [parent |-> row # None, project |-> IF row = None THEN None ELSE row.d.project]
    /\ req = [r \in Requests |-> Idle]
    /\ started = 0
    /\ overlapped = FALSE /\ clobbered = FALSE /\ linkLost = FALSE

-----------------------------------------------------------------------------
(* Moves of one handler. *)

\* The caller is authorised and handler r starts; an unauthorised call changes nothing.
Begin(r) ==
    /\ req[r].pc = "idle" /\ started < MaxRequests
    /\ started' = started + 1
    /\ overlapped' = (overlapped \/ \E o \in Requests : req[o].pc # "idle")

Goto(r, change) == req' = [req EXCEPT ![r] = change]
Raise(r) == req' = [req EXCEPT ![r] = Idle]

\* get_object_type: a hit answers at once, a miss reads the row now and caches it when it resumes.
GetObjectType(r, state, next) ==
    IF cache # None
    THEN Goto(r, [state EXCEPT !.pc = next, !.cur = cache])
    ELSE Goto(r, [state EXCEPT !.pc = "put", !.cur = row, !.next = next])

\* definition_cache.put, after the await of get_object_type.
Put(r) ==
    /\ req[r].pc = "put"
    /\ cache' = IF req[r].cur # None THEN req[r].cur ELSE cache
    /\ Goto(r, [req[r] EXCEPT !.pc = req[r].next, !.next = None])
    /\ UNCHANGED <<store, spice, started, history>>

\* Mutant: definition_cache.get answers without a look at the entry's age.
Expire_Unchecked ==
    /\ cache # None /\ cache = row
    /\ cache' = None
    /\ UNCHANGED <<store, spice, req, started, history>>

\* An entry outlives its time to live.
Expire ==
    /\ cache # None
    /\ cache' = None
    /\ UNCHANGED <<store, spice, req, started, history>>

-----------------------------------------------------------------------------
(* Creation. *)

CreateObjectType(r, d) ==
    /\ Begin(r)
    /\ GetObjectType(r, [Idle EXCEPT !.kind = "create", !.d = d], "create")
    /\ UNCHANGED <<store, cache, spice, clobbered, linkLost>>

\* The upsert and the UPDATE of the metadata: they follow the read of another transaction,
\* and the UPDATE has no condition on the version.
UpsertObjectType(r) ==
    /\ req[r].pc = "create"
    /\ IF req[r].cur # None
       THEN Raise(r) /\ UNCHANGED <<row, cache, clobbered>>
       ELSE /\ row' = IF row = None THEN [version |-> 1, d |-> [req[r].d EXCEPT !.project = None]]
                      ELSE [row EXCEPT !.d = [req[r].d EXCEPT !.project = row.d.project]]
            /\ clobbered' = (clobbered \/ (row # None /\ row.version > 1))
            /\ cache' = None
            /\ Goto(r, [req[r] EXCEPT !.pc = "seed"])
    /\ UNCHANGED <<versions, branch, reviews, relLife, events, spice, started, overlapped, linkLost>>

SeedParentWorkspace(r) ==
    /\ req[r].pc = "seed"
    /\ \/ spice' = [spice EXCEPT !.parent = TRUE] /\ Raise(r)
       \/ Goto(r, [req[r] EXCEPT !.pc = "undo"]) /\ UNCHANGED spice
    /\ UNCHANGED <<store, cache, started, history>>

\* delete_object_type refuses once a version or a branch exists.
DeletableObjectType ==
    /\ row # None
    /\ \A v \in Versions : versions[v] = None
    /\ \A b \in Branches : branch[b] = None

\* The compensating delete, which may fail: the type is then left without a parent.
UndoCreate(r) ==
    /\ req[r].pc = "undo"
    /\ \/ DeletableObjectType /\ row' = None /\ cache' = None
       \/ UNCHANGED <<row, cache>>
    /\ Raise(r)
    /\ UNCHANGED <<versions, branch, reviews, relLife, events, spice, started, history>>

-----------------------------------------------------------------------------
(* Drafts and branches: create_branch and update_branch_draft wrap a proposal. *)

ProposeVersion(r, d) ==
    /\ Begin(r)
    /\ GetObjectType(r, [Idle EXCEPT !.kind = "propose", !.d = d], "max")
    /\ UNCHANGED <<store, cache, spice, clobbered, linkLost>>

CreateBranch(r, b, d) ==
    /\ Begin(r)
    /\ branch[b] = None
    /\ GetObjectType(r, [Idle EXCEPT !.kind = "branch", !.b = b, !.d = d], "max")
    /\ UNCHANGED <<store, cache, spice, clobbered, linkLost>>

UpdateBranchDraft(r, b, d) ==
    /\ Begin(r)
    /\ branch[b] # None /\ branch[b].status = "open"
    /\ GetObjectType(r, [Idle EXCEPT !.kind = "redraft", !.b = b, !.d = d], "max")
    /\ UNCHANGED <<store, cache, spice, clobbered, linkLost>>

MaxOf(S) == CHOOSE m \in S : \A n \in S : n <= m

\* SELECT MAX(version): the next number is above every version and above the definition read.
NextVersion(r) ==
    /\ req[r].pc = "max"
    /\ IF req[r].cur = None
       THEN Raise(r)
       ELSE LET n == 1 + MaxOf({req[r].cur.version, 0} \cup {v \in Versions : versions[v] # None})
            IN  n \in Versions /\ Goto(r, [req[r] EXCEPT !.pc = "insert", !.v = n])
    /\ UNCHANGED <<store, cache, spice, started, history>>

\* Mutant: the INSERT of a draft replaces a version of that number.
DraftRefused_Upsert(r) == row = None

\* UNIQUE (object_type_urn, version) and the foreign key to object_type refuse the row.
DraftRefused(r) == row = None \/ versions[req[r].v] # None

InsertDraft(r) ==
    /\ req[r].pc = "insert"
    /\ IF DraftRefused(r)
       THEN Raise(r) /\ UNCHANGED versions
       ELSE /\ versions' = [versions EXCEPT ![req[r].v] = [status |-> "draft", d |-> req[r].d]]
            /\ IF req[r].kind = "propose" THEN Raise(r) ELSE Goto(r, [req[r] EXCEPT !.pc = "point"])
    /\ UNCHANGED <<row, branch, reviews, relLife, events, cache, spice, started, history>>

\* INSERT of a new branch (its name is unique), or the unconditional UPDATE of its version.
PointBranch(r) ==
    /\ req[r].pc = "point"
    /\ branch' = IF req[r].kind = "redraft" THEN [branch EXCEPT ![req[r].b].version = req[r].v]
                 ELSE IF branch[req[r].b] = None
                      THEN [branch EXCEPT ![req[r].b] = [status |-> "open", version |-> req[r].v]]
                      ELSE branch
    /\ Raise(r)
    /\ UNCHANGED <<row, versions, reviews, relLife, events, cache, spice, started, history>>

-----------------------------------------------------------------------------
(* Publication and the merge gate. *)

\* publish_object_type_version: the draft is read first, then the definition it would replace.
PublishVersion(r, v) ==
    /\ Begin(r)
    /\ versions[v] # None /\ versions[v].status = "draft"
    /\ GetObjectType(r, [Idle EXCEPT !.kind = "publish", !.v = v, !.d = versions[v].d], "publish")
    /\ UNCHANGED <<store, cache, spice, clobbered, linkLost>>

\* review_branch with decision approved: the branch, its version and the definition are read.
ApproveBranch(r, b) ==
    /\ Begin(r)
    /\ branch[b] # None /\ branch[b].status = "open"
    /\ versions[branch[b].version].status = "draft"
    /\ GetObjectType(r, [Idle EXCEPT !.kind = "review", !.b = b, !.v = branch[b].version,
                                     !.d = versions[branch[b].version].d], "publish")
    /\ UNCHANGED <<store, cache, spice, clobbered, linkLost>>

\* review_branch with decision changes_requested: recorded, and the branch stays as it is.
RequestChanges(r, b) ==
    /\ Begin(r)
    /\ branch[b] # None /\ branch[b].status = "open"
    /\ reviews' = reviews \cup {[b |-> b, v |-> branch[b].version, decision |-> "changes_requested"]}
    /\ UNCHANGED <<row, versions, branch, relLife, events, cache, spice, req, clobbered, linkLost>>

\* _run_publish_validations, outside the transaction and against the definition read.  What it
\* checks of interfaces, markings, formats and types is refused by RefusePublish.
ValidToPublish(d, cur) == cur # None /\ Active(cur.d.life) => d.pk = cur.d.pk

RefusePublish(r) ==
    /\ req[r].pc = "publish"
    /\ Raise(r)
    /\ UNCHANGED <<store, cache, spice, started, history>>

\* cascade_lifecycle_from_object_type.
CascadedLife(life) ==
    IF life = "deprecated" THEN "deprecated"
    ELSE IF Cascading(life) /\ ~Cascading(relLife) THEN life ELSE relLife

\* Mutant: the event carries the version the caller read before its validations.
PreviousVersion_Stale(r) == req[r].cur.version

\* What _write_publish puts in the event: the version read under the lock.
PreviousVersion(r) == row.version

\* The second check of monotonicity, under FOR UPDATE.
Regresses(r) == row = None \/ req[r].v <= row.version

\* Mutant: the branch is marked merged by a statement of its own, after the transaction.
MergeBranch_Split(r) ==
    /\ reviews' = reviews \cup {[b |-> req[r].b, v |-> req[r].v, decision |-> "approved"]}
    /\ UNCHANGED branch

\* What an approval adds to the transaction of _write_publish.
MergeBranch(r) ==
    /\ reviews' = reviews \cup {[b |-> req[r].b, v |-> req[r].v, decision |-> "approved"]}
    /\ branch' = [branch EXCEPT ![req[r].b].status = "merged"]

\* _write_publish under FOR UPDATE, with the review and the merge of a branch in one transaction.
WritePublish(r) ==
    /\ req[r].pc = "publish"
    /\ req[r].cur # None => req[r].v > req[r].cur.version
    /\ ValidToPublish(req[r].d, req[r].cur)
    /\ IF Regresses(r)
       THEN Raise(r) /\ UNCHANGED store
       ELSE /\ versions' = [versions EXCEPT ![req[r].v].status = "published"]
            /\ row' = [version |-> req[r].v, d |-> req[r].d]
            /\ relLife' = CascadedLife(req[r].d.life)
            /\ events' = Append(events, [version |-> req[r].v, previous |-> PreviousVersion(r)])
            /\ IF req[r].kind = "review"
               THEN MergeBranch(r)
               ELSE UNCHANGED <<reviews, branch>>
            /\ Goto(r, [req[r] EXCEPT !.pc = "invalidate"])
    /\ UNCHANGED <<cache, spice, started, history>>

\* Mutant: the definition read before the publication is left in the cache.
InvalidateCache_Missing(r) ==
    /\ req[r].pc = "invalidate"
    /\ Goto(r, [req[r] EXCEPT !.pc = "reread"])
    /\ UNCHANGED <<store, cache, spice, started, history>>

\* _invalidate_published_cache once the transaction has committed.
InvalidateCache(r) ==
    /\ req[r].pc = "invalidate"
    /\ cache' = None
    /\ Goto(r, [req[r] EXCEPT !.pc = "reread"])
    /\ UNCHANGED <<store, spice, started, history>>

\* The handler reads the definition back for its answer and for the project to link.
ReadBack(r) ==
    /\ req[r].pc = "reread"
    /\ GetObjectType(r, req[r], "link")
    /\ UNCHANGED <<store, cache, spice, started, history>>

\* _link_object_type_to_project: SpiceDB may refuse, and the handler answers 503.
LinkProject(r) ==
    /\ req[r].pc = "link"
    /\ \/ spice' = [spice EXCEPT !.project = req[r].cur.d.project] /\ UNCHANGED linkLost
       \/ linkLost' = TRUE /\ UNCHANGED spice
    /\ Raise(r)
    /\ UNCHANGED <<store, cache, started, overlapped, clobbered>>

\* The process restarts: its handlers and its cache are gone.
Crash ==
    /\ \E r \in Requests : req[r].pc # "idle"
    /\ linkLost' = (linkLost \/ \E r \in Requests : req[r].pc \in {"put", "invalidate", "reread", "link"})
    /\ req' = [r \in Requests |-> Idle]
    /\ cache' = None
    /\ UNCHANGED <<store, spice, started, overlapped, clobbered>>

Step(r) ==
    \/ Put(r) \/ UpsertObjectType(r) \/ SeedParentWorkspace(r) \/ UndoCreate(r)
    \/ NextVersion(r) \/ InsertDraft(r) \/ PointBranch(r)
    \/ WritePublish(r) \/ InvalidateCache(r) \/ ReadBack(r) \/ LinkProject(r)

Call(r) ==
    \/ \E d \in Defs : CreateObjectType(r, d) \/ ProposeVersion(r, d)
    \/ \E b \in Branches, d \in Defs : CreateBranch(r, b, d) \/ UpdateBranchDraft(r, b, d)
    \/ \E v \in Versions : PublishVersion(r, v)
    \/ \E b \in Branches : ApproveBranch(r, b) \/ RequestChanges(r, b)

Next == Expire \/ Crash \/ \E r \in Requests : Call(r) \/ Step(r) \/ RefusePublish(r)

Spec == Init /\ [][Next]_vars

\* An entry expires by the clock alone, and the event loop resumes every coroutine.
FairSpec == Spec /\ WF_vars(Expire) /\ \A r \in Requests : WF_vars(Step(r) \/ RefusePublish(r))
-----------------------------------------------------------------------------
(* Properties. *)

\* What the live row shows was published: past version 1 it is the definition of a published
\* version of that number, unless a create that had read no row wrote over it
\* (_write_publish and create_object_type).
LiveIsPublished ==
    row # None /\ row.version > 1 /\ ~clobbered =>
        versions[row.version] = [status |-> "published", d |-> row.d]

\* The published events tell the history of the row without a gap, also when publications race:
\* each one's previous_version is the version of the one before, and the last is the live one.
EventChain ==
    \A i \in 1 .. Len(events) :
        /\ events[i].previous = IF i = 1 THEN 1 ELSE events[i - 1].version
        /\ events[i].previous < events[i].version
        /\ i = Len(events) => row # None /\ row.version = events[i].version

\* A merged branch was approved by a review of a version that is published: the review, the
\* publication and the merge are one transaction, whatever crashes between two handlers.
MergedWasReviewed ==
    \A b \in Branches : branch[b] # None =>
        (branch[b].status = "merged" <=>
            \E v \in Versions : /\ [b |-> b, v |-> v, decision |-> "approved"] \in reviews
                               /\ versions[v].status = "published")

\* When handlers came one at a time and SpiceDB refused none, parent_project in SpiceDB is the
\* project of the live definition once they have answered (_link_object_type_to_project).
ProjectLinkSettles ==
    (\A r \in Requests : req[r].pc = "idle") /\ ~overlapped /\ ~linkLost /\ row # None =>
        spice.project = row.d.project

\* Once the last handler is done, reads settle on the live definition: a definition read before
\* a publication and cached after its invalidation does not survive its time to live.
EventuallyFresh == <>[](cache = None \/ cache = row)
=============================================================================
