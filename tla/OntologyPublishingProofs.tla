---------------------- MODULE OntologyPublishingProofs ----------------------
(***************************************************************************)
(* What the transactions of publication and review give, for any sets of   *)
(* handlers, branches and definitions: the live row was published, the     *)
(* events tell its history, a merge has its review.                        *)
(***************************************************************************)
EXTENDS OntologyPublishing, TLAPS

Places == {"idle", "put", "create", "seed", "undo", "max", "insert", "point",
           "publish", "invalidate", "reread", "link"}

(* Where a handler is, or goes once it has cached what it read.            *)
At(q) == IF q.pc = "put" THEN q.next ELSE q.pc

EventRow == [version : Versions, previous : Versions]

TypesOK ==
    /\ row \in TypeRow \cup {None} /\ cache \in TypeRow \cup {None}
    /\ versions \in [Versions -> VersionRow \cup {None}]
    /\ branch \in [Branches -> BranchRow \cup {None}]
    /\ reviews \subseteq [b : Branches, v : Versions, decision : {"approved", "changes_requested"}]
    /\ events \in Seq(EventRow)

JobShape(q) == DOMAIN q = {"pc", "kind", "b", "d", "v", "cur", "next"}

(* What handler r holds still stands when it comes to use it: no version   *)
(* or branch goes away, and no version changes its definition.             *)
JobOK(r) ==
    LET q == req[r] IN
    /\ JobShape(q)
    /\ q.pc \in Places /\ q.cur \in TypeRow \cup {None}
    /\ At(q) \in Places \ {"put"}
    /\ At(q) \in {"create", "seed", "undo"} => q.d \in Defs
    /\ At(q) \in {"max", "insert", "point"} =>
          /\ q.kind \in {"propose", "branch", "redraft"} /\ q.d \in Defs
          /\ q.kind # "propose" => q.b \in Branches
          /\ q.kind = "redraft" => branch[q.b] # None
    /\ At(q) \in {"insert", "point"} => q.v \in Versions
    /\ At(q) = "point" => q.kind # "propose" /\ versions[q.v] # None
    /\ At(q) = "publish" =>
          /\ q.kind \in {"publish", "review"}
          /\ q.v \in Versions /\ versions[q.v] # None /\ versions[q.v].d = q.d
          /\ q.kind = "review" => q.b \in Branches /\ branch[q.b] # None

JobsOK ==
    /\ req = [r \in Requests |-> req[r]]
    /\ \A r \in Requests : JobOK(r)

(* The foreign keys, and what an approval left behind.                     *)
StoreOK ==
    /\ row = None => (\A v \in Versions : versions[v] = None) /\ Len(events) = 0
    /\ row # None /\ row.version > 1 => versions[row.version] # None
    /\ row # None /\ Len(events) = 0 => row.version = 1
    /\ \A b \in Branches : branch[b] # None => versions[branch[b].version] # None
    /\ \A w \in reviews : w.decision = "approved" =>
          /\ branch[w.b] # None /\ branch[w.b].status = "merged"
          /\ versions[w.v] # None /\ versions[w.v].status = "published"

PubInv ==
    /\ TypesOK /\ JobsOK /\ StoreOK
    /\ LiveIsPublished /\ EventChain /\ MergedWasReviewed

(* An idle handler holds nothing.                                          *)
LEMMA IdleOK ==
    /\ JobShape(Idle) /\ Idle.pc = "idle" /\ Idle.cur = None /\ At(Idle) = "idle"
BY DEF Idle, JobShape, At

(* At the start there is at most a live row, of version 1.                 *)
LEMMA InitPubInv == Init => PubInv
<1> SUFFICES ASSUME Init PROVE PubInv
  OBVIOUS
<1>1. 1 \in Versions /\ Defs \subseteq AllDefs
  BY PublishingAssumption DEF Versions
<1>2. row \in TypeRow \cup {None}
  BY <1>1 DEF Init, TypeRow
<1>3. TypesOK
  BY <1>2 DEF Init, TypesOK
<1>4. JobsOK
  BY IdleOK DEF Init, JobsOK, JobOK, Places
<1>5. row # None => row.version = 1
  BY DEF Init
<1>6. /\ \A v \in Versions : versions[v] = None
      /\ \A b \in Branches : branch[b] = None
      /\ reviews = {} /\ events = <<>>
  BY DEF Init
<1>7. StoreOK
  BY <1>5, <1>6 DEF StoreOK
<1>8. LiveIsPublished /\ EventChain /\ MergedWasReviewed
  BY <1>5, <1>6 DEF LiveIsPublished, EventChain, MergedWasReviewed
<1> QED
  BY <1>3, <1>4, <1>7, <1>8 DEF PubInv

(* A handler that moves on without writing to the store.                   *)
LEMMA MoveStep ==
    ASSUME PubInv, NEW r \in Requests, NEW q, req' = [req EXCEPT ![r] = q],
           UNCHANGED <<row, versions, branch, reviews, events, clobbered>>,
           cache' \in TypeRow \cup {None}, JobOK(r)'
    PROVE  PubInv'
<1> USE DEF PubInv
<1>1. /\ \A o \in Requests \ {r} : req'[o] = req[o]
      /\ req' = [o \in Requests |-> req'[o]]
  BY DEF JobsOK
<1>2. TypesOK' /\ StoreOK' /\ LiveIsPublished' /\ EventChain' /\ MergedWasReviewed'
  <2>1. TypesOK' /\ LiveIsPublished'
    BY DEF TypesOK, LiveIsPublished
  <2>2. StoreOK'
    BY DEF StoreOK
  <2>3. EventChain'
    BY DEF EventChain
  <2>4. MergedWasReviewed'
    BY DEF MergedWasReviewed
  <2> QED
    BY <2>1, <2>2, <2>3, <2>4
<1>3. JobsOK'
  <2>1. ASSUME NEW o \in Requests \ {r} PROVE JobOK(o)'
    BY <1>1 DEF JobsOK, JobOK, At
  <2> QED
    BY <1>1, <2>1 DEF JobsOK
<1> QED
  BY <1>2, <1>3

(* A handler that answers, or raises.                                      *)
LEMMA DoneOK ==
    ASSUME PubInv, NEW r \in Requests, Raise(r)
    PROVE  req'[r] = Idle /\ JobOK(r)'
<1>1. req'[r] = Idle
  BY DEF PubInv, JobsOK, Raise
<1> QED
  BY <1>1, IdleOK DEF JobOK, Places

(* get_object_type: the handler holds a row, and goes on where it was to.  *)
LEMMA ReadOK ==
    ASSUME PubInv, NEW r \in Requests, NEW state, JobShape(state),
           NEW next \in Places \ {"put"}, GetObjectType(r, state, next)
    PROVE  \E q : /\ req' = [req EXCEPT ![r] = q] /\ req'[r] = q
                  /\ JobShape(q) /\ At(q) = next /\ q.cur \in TypeRow \cup {None}
                  /\ q.pc \in {next, "put"}
                  /\ q.kind = state.kind /\ q.b = state.b /\ q.d = state.d /\ q.v = state.v
                  /\ q.cur = IF cache # None THEN cache ELSE row
                  /\ q.pc = next => cache # None
<1> USE DEF PubInv
<1>0. req = [o \in Requests |-> req[o]] /\ row \in TypeRow \cup {None} /\ cache \in TypeRow \cup {None}
  BY DEF JobsOK, TypesOK
<1>1. CASE cache # None
  <2> DEFINE q == [state EXCEPT !.pc = next, !.cur = cache]
  <2>1. req' = [req EXCEPT ![r] = q]
    BY <1>1 DEF GetObjectType, Goto
  <2>2. /\ JobShape(q) /\ q.pc = next /\ q.cur = cache
        /\ q.kind = state.kind /\ q.b = state.b /\ q.d = state.d /\ q.v = state.v
    BY DEF JobShape
  <2> HIDE DEF q
  <2>3. req'[r] = q /\ At(q) = next
    BY <1>0, <2>1, <2>2 DEF At
  <2> QED
    BY <1>0, <1>1, <2>1, <2>2, <2>3
<1>2. CASE cache = None
  <2> DEFINE q == [state EXCEPT !.pc = "put", !.cur = row, !.next = next]
  <2>1. req' = [req EXCEPT ![r] = q]
    BY <1>2 DEF GetObjectType, Goto
  <2>2. /\ JobShape(q) /\ q.pc = "put" /\ q.cur = row /\ q.next = next
        /\ q.kind = state.kind /\ q.b = state.b /\ q.d = state.d /\ q.v = state.v
    BY DEF JobShape
  <2> HIDE DEF q
  <2>3. req'[r] = q /\ At(q) = next
    BY <1>0, <2>1, <2>2 DEF At
  <2> QED
    BY <1>0, <1>2, <2>1, <2>2, <2>3, PublishingAssumption
<1> QED
  BY <1>1, <1>2

(* A call that is taken on.                                                *)
LEMMA CallStep ==
    ASSUME PubInv, NEW r \in Requests, Call(r)
    PROVE  PubInv'
<1> USE DEF PubInv
<1>0. /\ \A d \in Defs : d \in AllDefs
      /\ Idle = [pc |-> "idle", kind |-> None, b |-> None, d |-> None, v |-> 0,
                 cur |-> None, next |-> None]
  BY PublishingAssumption DEF Idle
<1>a. cache \in TypeRow \cup {None}
  BY DEF TypesOK
<1>1. ASSUME NEW d \in Defs, CreateObjectType(r, d) PROVE PubInv'
  <2> DEFINE state == [Idle EXCEPT !.kind = "create", !.d = d]
  <2>1. JobShape(state) /\ state.kind = "create" /\ state.d = d
    BY DEF Idle, JobShape
  <2>2. GetObjectType(r, state, "create") /\ UNCHANGED <<store, cache, clobbered>>
    BY <1>1 DEF CreateObjectType
  <2> HIDE DEF state
  <2>3. PICK q : /\ req' = [req EXCEPT ![r] = q] /\ req'[r] = q
                 /\ JobShape(q) /\ At(q) = "create" /\ q.cur \in TypeRow \cup {None}
                 /\ q.pc \in {"create", "put"} /\ q.d = state.d
    BY <2>1, <2>2, ReadOK DEF Places
  <2>4. JobOK(r)'
    BY <2>1, <2>3 DEF JobOK, Places
  <2> QED
    BY <1>a, <2>2, <2>3, <2>4, MoveStep DEF store
<1>2. ASSUME NEW d \in Defs, ProposeVersion(r, d) PROVE PubInv'
  <2> DEFINE state == [Idle EXCEPT !.kind = "propose", !.d = d]
  <2>1. JobShape(state) /\ state.kind = "propose" /\ state.d = d
    BY DEF Idle, JobShape
  <2>2. GetObjectType(r, state, "max") /\ UNCHANGED <<store, cache, clobbered>>
    BY <1>2 DEF ProposeVersion
  <2> HIDE DEF state
  <2>3. PICK q : /\ req' = [req EXCEPT ![r] = q] /\ req'[r] = q
                 /\ JobShape(q) /\ At(q) = "max" /\ q.cur \in TypeRow \cup {None}
                 /\ q.pc \in {"max", "put"} /\ q.d = state.d /\ q.kind = state.kind
    BY <2>1, <2>2, ReadOK DEF Places
  <2>4. JobOK(r)'
    BY <2>1, <2>3 DEF JobOK, Places
  <2> QED
    BY <1>a, <2>2, <2>3, <2>4, MoveStep DEF store
<1>3. ASSUME NEW b \in Branches, NEW d \in Defs, CreateBranch(r, b, d) PROVE PubInv'
  <2> DEFINE state == [Idle EXCEPT !.kind = "branch", !.b = b, !.d = d]
  <2>1. JobShape(state) /\ state.kind = "branch" /\ state.d = d /\ state.b = b
    BY DEF Idle, JobShape
  <2>2. GetObjectType(r, state, "max") /\ UNCHANGED <<store, cache, clobbered>>
    BY <1>3 DEF CreateBranch
  <2> HIDE DEF state
  <2>3. PICK q : /\ req' = [req EXCEPT ![r] = q] /\ req'[r] = q
                 /\ JobShape(q) /\ At(q) = "max" /\ q.cur \in TypeRow \cup {None}
                 /\ q.pc \in {"max", "put"}
                 /\ q.d = state.d /\ q.kind = state.kind /\ q.b = state.b
    BY <2>1, <2>2, ReadOK DEF Places
  <2>4. JobOK(r)'
    BY <2>1, <2>3 DEF JobOK, Places
  <2> QED
    BY <1>a, <2>2, <2>3, <2>4, MoveStep DEF store
<1>4. ASSUME NEW b \in Branches, NEW d \in Defs, UpdateBranchDraft(r, b, d) PROVE PubInv'
  <2> DEFINE state == [Idle EXCEPT !.kind = "redraft", !.b = b, !.d = d]
  <2>1. JobShape(state) /\ state.kind = "redraft" /\ state.d = d /\ state.b = b
    BY DEF Idle, JobShape
  <2>2. /\ GetObjectType(r, state, "max") /\ UNCHANGED <<store, cache, clobbered>>
        /\ branch[b] # None
    BY <1>4 DEF UpdateBranchDraft
  <2> HIDE DEF state
  <2>3. PICK q : /\ req' = [req EXCEPT ![r] = q] /\ req'[r] = q
                 /\ JobShape(q) /\ At(q) = "max" /\ q.cur \in TypeRow \cup {None}
                 /\ q.pc \in {"max", "put"}
                 /\ q.d = state.d /\ q.kind = state.kind /\ q.b = state.b
    BY <2>1, <2>2, ReadOK DEF Places
  <2>4. JobOK(r)'
    BY <2>1, <2>2, <2>3 DEF JobOK, Places, store
  <2> QED
    BY <1>a, <2>2, <2>3, <2>4, MoveStep DEF store
<1>5. ASSUME NEW v \in Versions, PublishVersion(r, v) PROVE PubInv'
  <2> DEFINE state == [Idle EXCEPT !.kind = "publish", !.v = v, !.d = versions[v].d]
  <2>1. JobShape(state) /\ state.kind = "publish" /\ state.v = v /\ state.d = versions[v].d
    BY DEF Idle, JobShape
  <2>2. /\ GetObjectType(r, state, "publish") /\ UNCHANGED <<store, cache, clobbered>>
        /\ versions[v] # None
    BY <1>5 DEF PublishVersion
  <2> HIDE DEF state
  <2>3. PICK q : /\ req' = [req EXCEPT ![r] = q] /\ req'[r] = q
                 /\ JobShape(q) /\ At(q) = "publish" /\ q.cur \in TypeRow \cup {None}
                 /\ q.pc \in {"publish", "put"}
                 /\ q.d = state.d /\ q.kind = state.kind /\ q.v = state.v
    BY <2>1, <2>2, ReadOK DEF Places
  <2>4. JobOK(r)'
    BY <2>1, <2>2, <2>3 DEF JobOK, Places, store
  <2> QED
    BY <1>a, <2>2, <2>3, <2>4, MoveStep DEF store
<1>6. ASSUME NEW b \in Branches, ApproveBranch(r, b) PROVE PubInv'
  <2> DEFINE state == [Idle EXCEPT !.kind = "review", !.b = b, !.v = branch[b].version,
                                   !.d = versions[branch[b].version].d]
  <2>1. /\ JobShape(state) /\ state.kind = "review" /\ state.b = b
        /\ state.v = branch[b].version /\ state.d = versions[branch[b].version].d
    BY DEF Idle, JobShape
  <2>2. /\ GetObjectType(r, state, "publish") /\ UNCHANGED <<store, cache, clobbered>>
        /\ branch[b] # None
    BY <1>6 DEF ApproveBranch
  <2> HIDE DEF state
  <2>3. PICK q : /\ req' = [req EXCEPT ![r] = q] /\ req'[r] = q
                 /\ JobShape(q) /\ At(q) = "publish" /\ q.cur \in TypeRow \cup {None}
                 /\ q.pc \in {"publish", "put"}
                 /\ q.d = state.d /\ q.kind = state.kind /\ q.v = state.v /\ q.b = state.b
    BY <2>1, <2>2, ReadOK DEF Places
  <2>4. branch[b].version \in Versions /\ versions[branch[b].version] # None
    BY <2>2 DEF TypesOK, BranchRow, StoreOK
  <2>5. JobOK(r)'
    BY <2>1, <2>2, <2>3, <2>4 DEF JobOK, Places, store
  <2> QED
    BY <1>a, <2>2, <2>3, <2>5, MoveStep DEF store
<1>7. ASSUME NEW b \in Branches, RequestChanges(r, b) PROVE PubInv'
  <2> DEFINE w == [b |-> b, v |-> branch[b].version, decision |-> "changes_requested"]
  <2>1. /\ reviews' = reviews \cup {w} /\ branch[b] # None
        /\ UNCHANGED <<row, versions, branch, events, cache, req, clobbered>>
    BY <1>7 DEF RequestChanges
  <2>2. w \in [b : Branches, v : Versions, decision : {"approved", "changes_requested"}]
    BY <2>1 DEF TypesOK, BranchRow
  <2>3. w.decision # "approved"
    OBVIOUS
  <2> HIDE DEF w
  <2>4. TypesOK' /\ StoreOK'
    BY <2>1, <2>2, <2>3 DEF TypesOK, StoreOK
  <2>5. JobsOK' /\ LiveIsPublished' /\ EventChain'
    BY <2>1 DEF JobsOK, JobOK, LiveIsPublished, EventChain
  <2>6. \A b2, v : [b |-> b2, v |-> v, decision |-> "approved"] \in reviews'
                   <=> [b |-> b2, v |-> v, decision |-> "approved"] \in reviews
    BY <2>1, <2>3
  <2>7. MergedWasReviewed'
    BY <2>1, <2>6 DEF MergedWasReviewed
  <2> QED
    BY <2>4, <2>5, <2>7
<1> QED
  BY <1>1, <1>2, <1>3, <1>4, <1>5, <1>6, <1>7 DEF Call

(* Steps of a handler that leave the store alone.                          *)
LEMMA QuietStep ==
    ASSUME PubInv, NEW r \in Requests,
           \/ Put(r) \/ SeedParentWorkspace(r) \/ NextVersion(r) \/ InvalidateCache(r)
           \/ ReadBack(r) \/ LinkProject(r) \/ RefusePublish(r)
    PROVE  PubInv'
<1> USE DEF PubInv
<1>0. /\ JobOK(r) /\ req = [o \in Requests |-> req[o]]
      /\ cache \in TypeRow \cup {None} /\ None \in TypeRow \cup {None}
  BY DEF JobsOK, TypesOK
<1>a. ASSUME NEW q, Goto(r, q) PROVE req' = [req EXCEPT ![r] = q] /\ req'[r] = q
  BY <1>0, <1>a DEF Goto
<1>b. ASSUME Raise(r), UNCHANGED <<store, clobbered>>, cache' = cache PROVE PubInv'
  BY <1>0, <1>b, DoneOK, MoveStep DEF Raise, store
<1>1. CASE Put(r)
  <2> DEFINE q == [req[r] EXCEPT !.pc = req[r].next, !.next = None]
  <2>1. Goto(r, q) /\ UNCHANGED <<store, clobbered>> /\ cache' \in TypeRow \cup {None}
    BY <1>0, <1>1 DEF Put, history, JobOK
  <2>2. /\ JobShape(q) /\ q.pc = req[r].next /\ q.kind = req[r].kind /\ q.b = req[r].b
        /\ q.d = req[r].d /\ q.v = req[r].v /\ q.cur = req[r].cur
    BY <1>0 DEF JobShape, JobOK
  <2> HIDE DEF q
  <2>3. At(q) = At(req[r]) /\ q.pc = At(q)
    BY <1>0, <1>1, <2>2 DEF At, Put, JobOK
  <2>4. JobOK(r)'
    BY <1>0, <1>a, <2>1, <2>2, <2>3 DEF JobOK, store
  <2> QED
    BY <1>a, <2>1, <2>4, MoveStep DEF store
<1>2. CASE SeedParentWorkspace(r)
  <2>1. CASE Raise(r)
    BY <1>2, <1>b, <2>1 DEF SeedParentWorkspace, history
  <2>2. CASE Goto(r, [req[r] EXCEPT !.pc = "undo"])
    <3> DEFINE q == [req[r] EXCEPT !.pc = "undo"]
    <3>1. Goto(r, q) /\ UNCHANGED <<store, cache, clobbered>> /\ req[r].pc = "seed"
      BY <1>2, <2>2 DEF SeedParentWorkspace, history
    <3>2. /\ JobShape(q) /\ q.pc = "undo" /\ q.d = req[r].d /\ q.cur = req[r].cur
      BY <1>0 DEF JobShape, JobOK
    <3> HIDE DEF q
    <3>3. JobOK(r)'
      BY <1>0, <1>a, <3>1, <3>2 DEF JobOK, At, Places
    <3> QED
      BY <1>0, <1>a, <3>1, <3>3, MoveStep DEF store
  <2> QED
    BY <1>2, <2>1, <2>2 DEF SeedParentWorkspace
<1>3. CASE NextVersion(r)
  <2>1. CASE Raise(r)
    BY <1>3, <1>b, <2>1 DEF NextVersion, history
  <2>2. ASSUME NEW n \in Versions, Goto(r, [req[r] EXCEPT !.pc = "insert", !.v = n])
        PROVE  PubInv'
    <3> DEFINE q == [req[r] EXCEPT !.pc = "insert", !.v = n]
    <3>1. Goto(r, q) /\ UNCHANGED <<store, cache, clobbered>> /\ req[r].pc = "max"
      BY <1>3, <2>2 DEF NextVersion, history
    <3>2. /\ JobShape(q) /\ q.pc = "insert" /\ q.kind = req[r].kind /\ q.b = req[r].b
          /\ q.d = req[r].d /\ q.v = n /\ q.cur = req[r].cur
      BY <1>0 DEF JobShape, JobOK
    <3> HIDE DEF q
    <3>3. JobOK(r)'
      BY <1>0, <1>a, <3>1, <3>2 DEF JobOK, At, Places, store
    <3> QED
      BY <1>0, <1>a, <3>1, <3>3, MoveStep DEF store
  <2> QED
    BY <1>3, <2>1, <2>2 DEF NextVersion
<1>4. CASE InvalidateCache(r)
  <2> DEFINE q == [req[r] EXCEPT !.pc = "reread"]
  <2>1. /\ Goto(r, q) /\ UNCHANGED <<store, clobbered>> /\ cache' = None
    BY <1>4 DEF InvalidateCache, history
  <2>2. JobShape(q) /\ q.pc = "reread" /\ q.cur = req[r].cur
    BY <1>0 DEF JobShape, JobOK
  <2> HIDE DEF q
  <2>3. JobOK(r)'
    BY <1>0, <1>a, <2>1, <2>2 DEF JobOK, At, Places
  <2> QED
    BY <1>0, <1>a, <2>1, <2>3, MoveStep DEF store
<1>5. CASE ReadBack(r)
  <2>1. GetObjectType(r, req[r], "link") /\ UNCHANGED <<store, cache, clobbered>>
    BY <1>5 DEF ReadBack, history
  <2>2. PICK q : /\ req' = [req EXCEPT ![r] = q] /\ req'[r] = q
                 /\ JobShape(q) /\ At(q) = "link" /\ q.cur \in TypeRow \cup {None}
                 /\ q.pc \in {"link", "put"}
    BY <1>0, <2>1, ReadOK DEF Places, JobOK
  <2>3. JobOK(r)'
    BY <2>2 DEF JobOK, Places
  <2> QED
    BY <1>0, <2>1, <2>2, <2>3, MoveStep DEF store
<1>6. CASE LinkProject(r) \/ RefusePublish(r)
  BY <1>b, <1>6 DEF LinkProject, RefusePublish, history
<1> QED
  BY <1>1, <1>2, <1>3, <1>4, <1>5, <1>6

(* create_object_type's writes and their compensation.                     *)
LEMMA CreateStep ==
    ASSUME PubInv, NEW r \in Requests, UpsertObjectType(r) \/ UndoCreate(r)
    PROVE  PubInv'
<1> USE DEF PubInv
<1>0. /\ JobOK(r) /\ req = [o \in Requests |-> req[o]]
      /\ row \in TypeRow \cup {None} /\ cache \in TypeRow \cup {None}
      /\ Defs \subseteq AllDefs /\ None \notin TypeRow /\ 1 \in Versions
  BY PublishingAssumption DEF JobsOK, TypesOK, Versions
<1>a. ASSUME NEW q, req' = [req EXCEPT ![r] = q], JobOK(r)',
             UNCHANGED <<versions, branch>>
      PROVE  JobsOK'
  <2>1. /\ \A o \in Requests \ {r} : req'[o] = req[o]
        /\ req' = [o \in Requests |-> req'[o]]
    BY <1>0, <1>a
  <2>2. ASSUME NEW o \in Requests \ {r} PROVE JobOK(o)'
    BY <1>a, <2>1 DEF JobsOK, JobOK, At
  <2> QED
    BY <1>a, <2>1, <2>2 DEF JobsOK
<1>1. CASE UpsertObjectType(r) /\ req[r].cur # None
  BY <1>0, <1>1, DoneOK, MoveStep DEF UpsertObjectType, Raise
<1>2. CASE UpsertObjectType(r) /\ req[r].cur = None
  <2> DEFINE q == [req[r] EXCEPT !.pc = "seed"]
             d0 == [req[r].d EXCEPT !.project = None]
             d1 == [req[r].d EXCEPT !.project = row.d.project]
  <2>1. /\ row' = IF row = None THEN [version |-> 1, d |-> d0] ELSE [row EXCEPT !.d = d1]
        /\ clobbered' = (clobbered \/ (row # None /\ row.version > 1))
        /\ cache' = None /\ req' = [req EXCEPT ![r] = q]
        /\ UNCHANGED <<versions, branch, reviews, events>>
        /\ req[r].pc = "create"
    BY <1>2 DEF UpsertObjectType, Goto
  <2>2. req[r].d \in AllDefs
    BY <1>0, <2>1 DEF JobOK, At
  <2>3. d0 \in AllDefs
    BY <2>2 DEF AllDefs
  <2>4. row # None => d1 \in AllDefs
    BY <1>0, <2>2 DEF AllDefs, TypeRow
  <2>5. /\ JobShape(q) /\ q.pc = "seed" /\ q.d = req[r].d /\ q.cur = req[r].cur
    BY <1>0 DEF JobShape, JobOK
  <2> HIDE DEF q, d0, d1
  <2>6. /\ row' \in TypeRow
        /\ row = None => row'.version = 1
        /\ row # None => row'.version = row.version
    BY <1>0, <2>1, <2>3, <2>4 DEF TypeRow
  <2>7. row' # None
    BY <1>0, <2>6
  <2>8. JobOK(r)'
    BY <1>0, <2>1, <2>5 DEF JobOK, At, Places
  <2>9. JobsOK'
    BY <1>a, <2>1, <2>8
  <2>10. TypesOK'
    BY <2>1, <2>6 DEF TypesOK
  <2>11. StoreOK'
    BY <2>1, <2>6, <2>7 DEF StoreOK
  <2>12. LiveIsPublished'
    <3>1. row # None /\ row.version > 1 => clobbered'
      BY <2>1
    <3> QED
      BY <2>6, <3>1 DEF LiveIsPublished
  <2>13. EventChain'
    BY <1>0, <2>1, <2>6, <2>7 DEF EventChain, StoreOK
  <2>14. MergedWasReviewed'
    BY <2>1 DEF MergedWasReviewed
  <2> QED
    BY <2>9, <2>10, <2>11, <2>12, <2>13, <2>14
<1>3. CASE UndoCreate(r) /\ UNCHANGED <<row, cache>>
  BY <1>0, <1>3, DoneOK, MoveStep DEF UndoCreate, Raise, history
<1>4. CASE UndoCreate(r) /\ DeletableObjectType /\ row' = None /\ cache' = None
  <2>1. /\ Raise(r) /\ UNCHANGED <<versions, branch, reviews, events, clobbered>>
    BY <1>4 DEF UndoCreate, history
  <2>2. JobsOK'
    BY <1>a, <2>1, DoneOK DEF Raise
  <2>3. TypesOK'
    BY <1>4, <2>1 DEF TypesOK
  <2>4. Len(events) = 0
    <3>1. SUFFICES ASSUME Len(events) # 0 PROVE FALSE
      OBVIOUS
    <3>0. events \in Seq(EventRow) /\ Len(events) \in Nat
      BY DEF TypesOK
    <3>a. Len(events) \in 1..Len(events)
      BY <3>0, <3>1
    <3>2. events[Len(events)] \in EventRow
      BY <3>0, <3>a
    <3>3. row # None /\ row.version > 1
      BY <3>0, <3>a, <3>2, PublishingAssumption DEF EventChain, Versions, EventRow
    <3> QED
      BY <1>0, <1>4, <3>3 DEF DeletableObjectType, StoreOK, TypeRow
  <2>5. StoreOK'
    BY <1>4, <2>1, <2>4 DEF StoreOK, DeletableObjectType
  <2>6. LiveIsPublished' /\ EventChain'
    BY <1>4, <2>1, <2>4 DEF LiveIsPublished, EventChain
  <2>7. MergedWasReviewed'
    BY <2>1 DEF MergedWasReviewed
  <2> QED
    BY <2>2, <2>3, <2>5, <2>6, <2>7
<1> QED
  BY <1>1, <1>2, <1>3, <1>4 DEF UndoCreate

(* What handlers hold survives a store in which versions and branches stay *)
(* and keep their definitions.                                             *)
LEMMA JobsKept ==
    ASSUME PubInv, NEW r \in Requests, NEW q, req' = [req EXCEPT ![r] = q], JobOK(r)',
           \A v \in Versions : versions[v] # None =>
               versions'[v] # None /\ versions'[v].d = versions[v].d,
           \A b \in Branches : branch[b] # None => branch'[b] # None
    PROVE  JobsOK'
<1>1. /\ \A o \in Requests \ {r} : req'[o] = req[o]
      /\ req' = [o \in Requests |-> req'[o]]
  BY DEF PubInv, JobsOK
<1>2. ASSUME NEW o \in Requests \ {r} PROVE JobOK(o)'
  BY <1>1 DEF PubInv, JobsOK, JobOK, At
<1> QED
  BY <1>1, <1>2 DEF JobsOK

(* INSERT of a draft, which no version of that number and a live row allow.*)
LEMMA InsertDraftStep ==
    ASSUME PubInv, NEW r \in Requests, InsertDraft(r)
    PROVE  PubInv'
<1> USE DEF PubInv
<1>0. /\ JobOK(r) /\ req = [o \in Requests |-> req[o]]
      /\ cache \in TypeRow \cup {None} /\ Defs \subseteq AllDefs /\ None \notin VersionRow
  BY PublishingAssumption DEF JobsOK, TypesOK
<1>1. CASE DraftRefused(r)
  BY <1>0, <1>1, DoneOK, MoveStep DEF InsertDraft, Raise, history
<1>2. CASE ~DraftRefused(r)
  <2> DEFINE v == req[r].v
             draft == [status |-> "draft", d |-> req[r].d]
  <2>1. /\ row # None /\ versions[v] = None /\ versions' = [versions EXCEPT ![v] = draft]
        /\ UNCHANGED <<row, branch, reviews, events, cache, clobbered>> /\ req[r].pc = "insert"
    BY <1>2 DEF InsertDraft, DraftRefused, history
  <2>2. v \in Versions /\ draft \in VersionRow
    BY <1>0, <2>1 DEF JobOK, At, VersionRow
  <2>3. draft # None
    BY <1>0, <2>2
  <2> HIDE DEF draft
  <2>4. /\ versions' \in [Versions -> VersionRow \cup {None}]
        /\ versions'[v] = draft /\ \A u \in Versions \ {v} : versions'[u] = versions[u]
    BY <2>1, <2>2 DEF TypesOK
  <2>5. TypesOK'
    BY <2>1, <2>4 DEF TypesOK
  <2>6. \E q : req' = [req EXCEPT ![r] = q] /\ JobOK(r)'
    <3>1. CASE req[r].kind = "propose"
      <4>1. Raise(r)
        BY <1>2, <3>1 DEF InsertDraft
      <4> QED
        BY <4>1, DoneOK DEF Raise
    <3>2. CASE req[r].kind # "propose"
      <4> DEFINE q == [req[r] EXCEPT !.pc = "point"]
      <4>1. req' = [req EXCEPT ![r] = q]
        BY <1>2, <3>2 DEF InsertDraft, Goto
      <4>2. /\ JobShape(q) /\ q.pc = "point" /\ q.kind = req[r].kind /\ q.b = req[r].b
            /\ q.d = req[r].d /\ q.v = v /\ q.cur = req[r].cur
        BY <1>0 DEF JobShape, JobOK
      <4> HIDE DEF q
      <4>3. req'[r] = q
        BY <1>0, <4>1
      <4>4. JobOK(r)'
        BY <1>0, <2>1, <2>3, <2>4, <3>2, <4>2, <4>3 DEF JobOK, At, Places
      <4> QED
        BY <4>1, <4>4
    <3> QED
      BY <3>1, <3>2
  <2>7. JobsOK'
    BY <2>1, <2>4, <2>6, JobsKept
  <2>8. \A u \in Versions : versions[u] # None => versions'[u] = versions[u]
    BY <2>1, <2>4
  <2>9. StoreOK'
    <3>1. \A b \in Branches : branch[b] # None => branch[b].version \in Versions
      BY DEF TypesOK, BranchRow
    <3>2. row.version \in Versions
      BY <2>1 DEF TypesOK, TypeRow
    <3>3. \A w \in reviews : w.v \in Versions
      BY DEF TypesOK
    <3> QED
      BY <2>1, <2>8, <3>1, <3>2, <3>3 DEF StoreOK
  <2>10. LiveIsPublished' /\ EventChain'
    <3>1. row.version \in Versions
      BY <2>1 DEF TypesOK, TypeRow
    <3> QED
      BY <2>1, <2>8, <3>1 DEF LiveIsPublished, EventChain, StoreOK
  <2>11. MergedWasReviewed'
    <3>1. ASSUME NEW b \in Branches, NEW u \in Versions,
                 [b |-> b, v |-> u, decision |-> "approved"] \in reviews
          PROVE  versions'[u] = versions[u]
      <4>1. PICK w : w = [b |-> b, v |-> u, decision |-> "approved"]
        OBVIOUS
      <4>2. w \in reviews /\ w.v = u /\ w.decision = "approved"
        BY <3>1, <4>1
      <4> QED
        BY <2>8, <4>2 DEF StoreOK
    <3>0. branch' = branch /\ reviews' = reviews
      BY <2>1
    <3> SUFFICES ASSUME NEW b \in Branches, branch[b] # None
                 PROVE  branch[b].status = "merged" <=>
                           \E u \in Versions :
                               /\ [b |-> b, v |-> u, decision |-> "approved"] \in reviews
                               /\ versions'[u].status = "published"
      BY <3>0 DEF MergedWasReviewed
    <3>2. branch[b].status = "merged" <=>
             \E u \in Versions : /\ [b |-> b, v |-> u, decision |-> "approved"] \in reviews
                                /\ versions[u].status = "published"
      BY DEF MergedWasReviewed
    <3> QED
      BY <3>1, <3>2
  <2> QED
    BY <2>5, <2>7, <2>9, <2>10, <2>11
<1> QED
  BY <1>1, <1>2

(* A branch is opened on its draft, or moved to a new one.                 *)
LEMMA PointBranchStep ==
    ASSUME PubInv, NEW r \in Requests, PointBranch(r)
    PROVE  PubInv'
<1> USE DEF PubInv
<1> DEFINE b0 == req[r].b
<1>0. /\ JobOK(r) /\ None \notin BranchRow /\ req[r].pc = "point"
      /\ UNCHANGED <<row, versions, reviews, events, cache, clobbered>> /\ Raise(r)
  BY PublishingAssumption DEF JobsOK, PointBranch, history
<1>1. /\ b0 \in Branches /\ req[r].v \in Versions /\ versions[req[r].v] # None
      /\ req[r].kind = "redraft" => branch[b0] # None
  BY <1>0 DEF JobOK, At
<1> HIDE DEF b0
<1>2. /\ branch' \in [Branches -> BranchRow \cup {None}]
      /\ \A b \in Branches \ {b0} : branch'[b] = branch[b]
      /\ branch'[b0] # None
      /\ branch[b0] # None => /\ branch'[b0].status = branch[b0].status
                              /\ branch'[b0].version \in {branch[b0].version, req[r].v}
      /\ branch[b0] = None => branch'[b0].status = "open" /\ branch'[b0].version = req[r].v
  <2>1. CASE branch[b0] = None
    <3>1. branch' = [branch EXCEPT ![b0] = [status |-> "open", version |-> req[r].v]]
      BY <1>1, <2>1 DEF PointBranch, b0
    <3>2. [status |-> "open", version |-> req[r].v] \in BranchRow
      BY <1>1 DEF BranchRow
    <3> QED
      BY <1>0, <1>1, <2>1, <3>1, <3>2 DEF TypesOK
  <2>2. CASE branch[b0] # None /\ req[r].kind = "redraft"
    <3>1. branch' = [branch EXCEPT ![b0] = [branch[b0] EXCEPT !.version = req[r].v]]
      BY <2>2 DEF PointBranch, b0
    <3>2. branch[b0] \in BranchRow
      BY <1>1, <2>2 DEF TypesOK
    <3>3. /\ [branch[b0] EXCEPT !.version = req[r].v] \in BranchRow
          /\ [branch[b0] EXCEPT !.version = req[r].v].status = branch[b0].status
          /\ [branch[b0] EXCEPT !.version = req[r].v].version = req[r].v
      BY <1>1, <3>2 DEF BranchRow
    <3> QED
      BY <1>0, <1>1, <2>2, <3>1, <3>3 DEF TypesOK
  <2>3. CASE branch[b0] # None /\ req[r].kind # "redraft"
    <3>1. branch' = branch
      BY <2>3 DEF PointBranch, b0
    <3> QED
      BY <1>0, <1>1, <2>3, <3>1 DEF TypesOK
  <2> QED
    BY <2>1, <2>2, <2>3
<1>3. TypesOK'
  BY <1>0, <1>2 DEF TypesOK
<1>4. JobsOK'
  BY <1>0, <1>2, DoneOK, JobsKept DEF Raise
<1>5. StoreOK'
  <2>1. \A w \in reviews : w.decision = "approved" =>
           branch'[w.b] # None /\ branch'[w.b].status = "merged"
    <3>1. \A w \in reviews : w.b \in Branches
      BY DEF TypesOK
    <3> QED
      BY <1>2, <3>1 DEF StoreOK
  <2>2. \A b \in Branches : branch'[b] # None => versions[branch'[b].version] # None
    BY <1>1, <1>2 DEF StoreOK
  <2> QED
    BY <1>0, <2>1, <2>2 DEF StoreOK
<1>6. LiveIsPublished' /\ EventChain'
  BY <1>0 DEF LiveIsPublished, EventChain
<1>7. MergedWasReviewed'
  <2>1. ASSUME NEW u \in Versions, [b |-> b0, v |-> u, decision |-> "approved"] \in reviews
        PROVE  branch[b0] # None
    <3>1. PICK w : w = [b |-> b0, v |-> u, decision |-> "approved"]
      OBVIOUS
    <3>2. w \in reviews /\ w.b = b0 /\ w.decision = "approved"
      BY <2>1, <3>1
    <3> QED
      BY <3>2 DEF StoreOK
  <2>2. \A b \in Branches : branch[b] # None =>
           branch'[b] # None /\ branch'[b].status = branch[b].status
    BY <1>2
  <2>3. \A b \in Branches : branch[b] = None /\ branch'[b] # None =>
           b = b0 /\ branch'[b].status = "open"
    BY <1>2
  <2> SUFFICES ASSUME NEW b \in Branches, branch'[b] # None
               PROVE  branch'[b].status = "merged" <=>
                         \E u \in Versions :
                             /\ [b |-> b, v |-> u, decision |-> "approved"] \in reviews
                             /\ versions[u].status = "published"
    BY <1>0 DEF MergedWasReviewed
  <2>4. CASE branch[b] # None
    <3>1. branch[b].status = "merged" <=>
             \E u \in Versions : /\ [b |-> b, v |-> u, decision |-> "approved"] \in reviews
                                /\ versions[u].status = "published"
      BY <2>4 DEF MergedWasReviewed
    <3>2. branch'[b].status = branch[b].status
      BY <2>2, <2>4
    <3> QED
      BY <3>1, <3>2
  <2>5. CASE branch[b] = None
    BY <2>1, <2>3, <2>5
  <2> QED
    BY <2>4, <2>5
<1> QED
  BY <1>3, <1>4, <1>5, <1>6, <1>7

(* _write_publish: the version, the row, the event, the review and the     *)
(* merge, in one transaction.                                              *)
LEMMA WritePublishStep ==
    ASSUME PubInv, NEW r \in Requests, WritePublish(r)
    PROVE  PubInv'
<1> USE DEF PubInv
<1>0. /\ JobOK(r) /\ req = [o \in Requests |-> req[o]] /\ req[r].pc = "publish"
      /\ cache' = cache /\ clobbered' = clobbered /\ cache \in TypeRow \cup {None}
      /\ None \notin VersionRow /\ None \notin BranchRow /\ None \notin TypeRow
  BY PublishingAssumption DEF JobsOK, TypesOK, WritePublish, history
<1>1. CASE Regresses(r)
  BY <1>0, <1>1, DoneOK, MoveStep DEF WritePublish, Raise, store
<1>2. CASE ~Regresses(r)
  <2> DEFINE v == req[r].v
             d == req[r].d
             q == [req[r] EXCEPT !.pc = "invalidate"]
  <2>1. /\ versions' = [versions EXCEPT ![v].status = "published"]
        /\ row' = [version |-> v, d |-> d]
        /\ events' = Append(events, [version |-> v, previous |-> row.version])
        /\ req' = [req EXCEPT ![r] = q]
        /\ row # None /\ ~(v <= row.version)
    BY <1>2 DEF WritePublish, Regresses, Goto, PreviousVersion
  <2>2. /\ v \in Versions /\ versions[v] # None /\ versions[v].d = d
        /\ req[r].kind \in {"publish", "review"}
        /\ req[r].kind = "review" => req[r].b \in Branches /\ branch[req[r].b] # None
    BY <1>0 DEF JobOK, At
  <2>3. JobShape(q) /\ q.pc = "invalidate" /\ q.cur = req[r].cur
    BY <1>0 DEF JobShape, JobOK
  <2> HIDE DEF q, v, d
  <2>4. versions[v] \in VersionRow /\ d \in AllDefs
    BY <2>2 DEF TypesOK, VersionRow
  <2>5. /\ versions' \in [Versions -> VersionRow \cup {None}]
        /\ versions'[v] = [status |-> "published", d |-> d] /\ versions'[v] \in VersionRow
        /\ versions'[v].status = "published" /\ versions'[v].d = d
        /\ \A u \in Versions \ {v} : versions'[u] = versions[u]
    <3>1. versions' = [versions EXCEPT ![v] = [versions[v] EXCEPT !.status = "published"]]
      BY <2>1
    <3>2. [versions[v] EXCEPT !.status = "published"] = [status |-> "published", d |-> d]
      BY <2>2, <2>4 DEF VersionRow
    <3>3. [status |-> "published", d |-> d] \in VersionRow
      BY <2>4 DEF VersionRow
    <3> QED
      BY <2>2, <3>1, <3>2, <3>3 DEF TypesOK
  <2>6. row' \in TypeRow /\ row' # None /\ row'.version = v /\ row'.d = d
    BY <1>0, <2>1, <2>2, <2>4 DEF TypeRow
  <2>7. /\ row.version \in Versions /\ v \in Nat /\ row.version \in Nat
        /\ row.version >= 1 /\ v > row.version
    <3>1. row.version \in Versions
      BY <2>1 DEF TypesOK, TypeRow
    <3> QED
      BY <2>1, <2>2, <3>1, PublishingAssumption DEF Versions
  <2> DEFINE e == [version |-> v, previous |-> row.version]
             n == Len(events) + 1
  <2>8. e \in EventRow /\ e.version = v /\ e.previous = row.version
    BY <2>2, <2>7 DEF EventRow
  <2> HIDE DEF e
  <2>9. /\ events' \in Seq(EventRow) /\ Len(events') = n /\ Len(events) \in Nat
        /\ events'[n] = e /\ \A i \in 1..Len(events) : events'[i] = events[i]
    <3>1. events \in Seq(EventRow) /\ events' = Append(events, e)
      BY <2>1 DEF TypesOK, e
    <3> QED
      BY <2>8, <3>1
  <2>10. /\ branch' \in [Branches -> BranchRow \cup {None}]
         /\ \A b \in Branches : /\ branch[b] # None => branch'[b] # None
                                /\ branch'[b] # None => branch[b] # None
                                /\ branch'[b] # None => branch'[b].version = branch[b].version
         /\ \/ branch' = branch /\ reviews' = reviews
            \/ /\ req[r].b \in Branches /\ branch[req[r].b] # None
               /\ reviews' = reviews \cup {[b |-> req[r].b, v |-> v, decision |-> "approved"]}
               /\ branch'[req[r].b].status = "merged"
               /\ \A b \in Branches \ {req[r].b} : branch'[b] = branch[b]
    <3>1. CASE req[r].kind # "review"
      BY <1>2, <3>1 DEF WritePublish, TypesOK
    <3>2. CASE req[r].kind = "review"
      <4> DEFINE b0 == req[r].b
      <4>1. /\ reviews' = reviews \cup {[b |-> b0, v |-> v, decision |-> "approved"]}
            /\ branch' = [branch EXCEPT ![b0] = [branch[b0] EXCEPT !.status = "merged"]]
        BY <1>2, <3>2 DEF WritePublish, MergeBranch, v
      <4>2. b0 \in Branches /\ branch[b0] # None
        BY <2>2, <3>2
      <4> HIDE DEF b0
      <4>3. branch[b0] \in BranchRow
        BY <4>2 DEF TypesOK
      <4>4. /\ [branch[b0] EXCEPT !.status = "merged"] \in BranchRow
            /\ [branch[b0] EXCEPT !.status = "merged"].status = "merged"
            /\ [branch[b0] EXCEPT !.status = "merged"].version = branch[b0].version
        BY <4>3 DEF BranchRow
      <4>5. /\ branch' \in [Branches -> BranchRow \cup {None}]
            /\ branch'[b0] \in BranchRow /\ branch'[b0].status = "merged"
            /\ branch'[b0].version = branch[b0].version
            /\ \A b \in Branches \ {b0} : branch'[b] = branch[b]
        BY <4>1, <4>2, <4>4 DEF TypesOK
      <4> QED
        BY <1>0, <4>1, <4>2, <4>5 DEF b0
    <3> QED
      BY <3>1, <3>2
  <2>11. TypesOK'
    <3>1. reviews' \subseteq [b : Branches, v : Versions,
                              decision : {"approved", "changes_requested"}]
      BY <2>2, <2>10 DEF TypesOK
    <3> QED
      BY <1>0, <2>5, <2>6, <2>9, <2>10, <3>1 DEF TypesOK
  <2>12. JobsOK'
    <3>1. req'[r] = q
      BY <1>0, <2>1
    <3>2. JobOK(r)'
      BY <1>0, <2>3, <3>1 DEF JobOK, At, Places
    <3> QED
      BY <1>0, <2>1, <2>2, <2>5, <2>10, <3>2, JobsKept
  <2>13. \A u \in Versions : /\ versions[u] # None => versions'[u] # None
                             /\ versions[u].status = "published" => versions'[u].status = "published"
    BY <1>0, <2>5
  <2>14. StoreOK'
    <3>1. \A b \in Branches : branch'[b] # None => versions'[branch'[b].version] # None
      <4>1. \A b \in Branches : branch[b] # None => branch[b].version \in Versions
        BY DEF TypesOK, BranchRow
      <4> QED
        BY <2>10, <2>13, <4>1 DEF StoreOK
    <3>2. ASSUME NEW w \in reviews', w.decision = "approved"
          PROVE  /\ branch'[w.b] # None /\ branch'[w.b].status = "merged"
                 /\ versions'[w.v] # None /\ versions'[w.v].status = "published"
      <4>1. CASE w \in reviews
        <5>1. w.b \in Branches /\ w.v \in Versions
          BY <4>1 DEF TypesOK
        <5> QED
          BY <2>10, <2>13, <3>2, <4>1, <5>1 DEF StoreOK
      <4>2. CASE w \notin reviews
        BY <1>0, <2>2, <2>5, <2>10, <3>2, <4>2
      <4> QED
        BY <4>1, <4>2
    <3>3. versions'[row'.version] # None
      BY <1>0, <2>5, <2>6
    <3> QED
      BY <2>6, <2>9, <3>1, <3>2, <3>3 DEF StoreOK
  <2>15. LiveIsPublished'
    BY <2>5, <2>6 DEF LiveIsPublished
  <2>16. EventChain'
    <3> SUFFICES ASSUME NEW i \in 1..n
                 PROVE  /\ events'[i].previous = IF i = 1 THEN 1 ELSE events'[i - 1].version
                        /\ events'[i].previous < events'[i].version
                        /\ i = n => row' # None /\ row'.version = events'[i].version
      BY <2>9 DEF EventChain
    <3>1. CASE i \in 1..Len(events)
      <4>1. i - 1 \in 1..Len(events) \/ i = 1
        BY <2>9, <3>1
      <4> QED
        BY <2>9, <3>1, <4>1 DEF EventChain
    <3>2. CASE i = n /\ Len(events) = 0
      BY <2>1, <2>6, <2>7, <2>8, <2>9, <3>2 DEF StoreOK
    <3>3. CASE i = n /\ Len(events) # 0
      <4>1. n - 1 = Len(events) /\ Len(events) \in 1..Len(events) /\ n # 1
        BY <2>9, <3>3
      <4>2. events'[n - 1].version = row.version
        BY <2>9, <4>1 DEF EventChain
      <4> QED
        BY <2>6, <2>7, <2>8, <2>9, <3>3, <4>1, <4>2
    <3> QED
      BY <2>9, <3>1, <3>2, <3>3
  <2>17. MergedWasReviewed'
    <3> SUFFICES ASSUME NEW b \in Branches, branch'[b] # None
                 PROVE  branch'[b].status = "merged" <=>
                           \E u \in Versions :
                               /\ [b |-> b, v |-> u, decision |-> "approved"] \in reviews'
                               /\ versions'[u].status = "published"
      BY DEF MergedWasReviewed
    <3>1. CASE branch'[b].status = "merged"
      <4>1. CASE branch'[b] = branch[b]
        BY <2>10, <2>13, <3>1, <4>1 DEF MergedWasReviewed
      <4>2. CASE branch'[b] # branch[b]
        <5>1. b = req[r].b /\ [b |-> b, v |-> v, decision |-> "approved"] \in reviews'
          BY <2>10, <4>2
        <5> QED
          BY <2>2, <2>5, <3>1, <5>1
      <4> QED
        BY <4>1, <4>2
    <3>2. ASSUME NEW u \in Versions, [b |-> b, v |-> u, decision |-> "approved"] \in reviews'
          PROVE  branch'[b].status = "merged"
      <4>1. PICK w : w = [b |-> b, v |-> u, decision |-> "approved"]
        OBVIOUS
      <4>2. w \in reviews' /\ w.b = b /\ w.decision = "approved"
        BY <3>2, <4>1
      <4> QED
        BY <2>14, <4>2 DEF StoreOK
    <3> QED
      BY <3>1, <3>2
  <2> QED
    BY <2>11, <2>12, <2>14, <2>15, <2>16, <2>17
<1> QED
  BY <1>1, <1>2

(* Every step keeps the invariant.                                         *)
LEMMA StepPubInv ==
    ASSUME PubInv, [Next]_vars
    PROVE  PubInv'
<1> USE DEF PubInv
<1>1. ASSUME UNCHANGED <<row, versions, branch, reviews, events, clobbered>>,
             cache' \in {cache, None}, JobsOK'
      PROVE  PubInv'
  <2>1. TypesOK' /\ LiveIsPublished'
    BY <1>1 DEF TypesOK, LiveIsPublished
  <2>2. StoreOK'
    BY <1>1 DEF StoreOK
  <2>3. EventChain'
    BY <1>1 DEF EventChain
  <2>4. MergedWasReviewed'
    BY <1>1 DEF MergedWasReviewed
  <2> QED
    BY <1>1, <2>1, <2>2, <2>3, <2>4
<1>2. CASE Expire
  BY <1>1, <1>2 DEF Expire, store, history, JobsOK, JobOK
<1>3. CASE UNCHANGED vars
  BY <1>1, <1>3 DEF vars, store, history, JobsOK, JobOK
<1>4. CASE Crash
  <2>1. req' = [r \in Requests |-> Idle]
    BY <1>4 DEF Crash
  <2>2. JobsOK'
    BY <2>1, IdleOK DEF JobsOK, JobOK, Places
  <2> QED
    BY <1>1, <1>4, <2>2 DEF Crash, store
<1> QED
  BY <1>2, <1>3, <1>4, CallStep, QuietStep, CreateStep, InsertDraftStep, PointBranchStep,
     WritePublishStep DEF Next, Step

(* Past version 1, the live row is a published version's definition,       *)
(* unless a create that had read no row wrote over it.                     *)
THEOREM RowIsPublished == Spec => []LiveIsPublished
<1>1. PubInv => LiveIsPublished
  BY DEF PubInv
<1> QED
  BY InitPubInv, StepPubInv, <1>1, PTL DEF Spec

(* The published events tell the row's history without a gap, also when    *)
(* publications race.                                                      *)
THEOREM EventsTellHistory == Spec => []EventChain
<1>1. PubInv => EventChain
  BY DEF PubInv
<1> QED
  BY InitPubInv, StepPubInv, <1>1, PTL DEF Spec

(* A branch is merged exactly when a review approved a version of it that  *)
(* is published, whatever crashes or races between two handlers.           *)
THEOREM MergeHasReview == Spec => []MergedWasReviewed
<1>1. PubInv => MergedWasReviewed
  BY DEF PubInv
<1> QED
  BY InitPubInv, StepPubInv, <1>1, PTL DEF Spec

-----------------------------------------------------------------------------
(* One handler at a time, and no reconcile lost.                           *)
Calm == ~overlapped /\ ~linkLost

Busy(r) == req[r].pc # "idle"

(* The handler has still to reconcile SpiceDB.                             *)
Linking(r) == At(req[r]) \in {"invalidate", "reread", "link"}

(* What the handler has read is the live row.                              *)
ReadIsLive(r) ==
    LET q == req[r] IN
    /\ q.pc = "put" => q.next \in {"create", "max", "publish", "link"}
    /\ q.pc \in {"put", "create", "link"} => q.cur = row
    /\ Linking(r) => row # None
    /\ q.pc \in {"seed", "undo"} => row # None /\ row.d.project = None

LiveProject == IF row = None THEN None ELSE row.d.project

CalmOK ==
    /\ \A r, o \in Requests : Busy(r) /\ Busy(o) => r = o
    /\ \A r \in Requests : ReadIsLive(r)
    /\ cache \in {None, row} \/ \E r \in Requests : req[r].pc = "invalidate"
    /\ (\E r \in Requests : Linking(r)) \/ spice.project = LiveProject

LinkInv ==
    /\ DOMAIN spice = {"parent", "project"}
    /\ Calm => CalmOK

(* At the start no handler is at work and SpiceDB agrees with the row.     *)
LEMMA InitLinkInv == Init => LinkInv
<1> SUFFICES ASSUME Init PROVE LinkInv
  OBVIOUS
<1>1. \A r \in Requests : req[r] = Idle
  BY DEF Init
<1>2. \A r \in Requests : ~Busy(r) /\ ReadIsLive(r)
  BY <1>1, IdleOK DEF Busy, ReadIsLive, Linking
<1>3. spice.project = LiveProject /\ cache = None /\ DOMAIN spice = {"parent", "project"}
  BY DEF Init, LiveProject
<1> QED
  BY <1>2, <1>3 DEF LinkInv, CalmOK

(* In a calm run a step is about the one handler at work.                  *)
LEMMA AloneStep ==
    ASSUME PubInv, CalmOK, NEW r \in Requests,
           Busy(r) \/ \A o \in Requests : ~Busy(o),
           NEW q, req' = [req EXCEPT ![r] = q],
           ReadIsLive(r)',
           cache' \in {None, row'} \/ req'[r].pc = "invalidate",
           Linking(r)' \/ spice'.project = LiveProject'
    PROVE  CalmOK'
<1>1. ASSUME NEW o \in Requests \ {r} PROVE req'[o] = req[o] /\ req[o].pc = "idle"
  <2>1. ~Busy(o)
    BY DEF CalmOK
  <2> QED
    BY <2>1 DEF PubInv, JobsOK, Busy
<1>2. ASSUME NEW o \in Requests \ {r} PROVE ~Busy(o)' /\ ReadIsLive(o)'
  BY <1>1, <1>2 DEF Busy, ReadIsLive, Linking, At
<1> QED
  BY <1>2 DEF CalmOK

(* What the one handler at work knows of the cache and of SpiceDB.         *)
LEMMA AloneKnows ==
    ASSUME CalmOK, NEW r \in Requests, Busy(r) \/ \A o \in Requests : ~Busy(o)
    PROVE  /\ req[r].pc # "invalidate" => cache \in {None, row}
           /\ ~Linking(r) => spice.project = LiveProject
<1>1. \A o \in Requests \ {r} : ~Busy(o)
  BY DEF CalmOK
<1>2. \A o \in Requests \ {r} : req[o].pc # "invalidate" /\ ~Linking(o)
  BY <1>1 DEF Busy, Linking, At
<1> QED
  BY <1>2 DEF CalmOK

(* The calls that read the definition first.                               *)
LEMMA CallLinkStep ==
    ASSUME PubInv, LinkInv, NEW r \in Requests, Begin(r),
           NEW state, JobShape(state), NEW next \in {"create", "max", "publish"},
           GetObjectType(r, state, next), UNCHANGED <<row, cache, spice, linkLost>>
    PROVE  LinkInv'
<1> SUFFICES ASSUME Calm' PROVE CalmOK'
  BY DEF LinkInv
<1>1. Calm /\ \A o \in Requests : ~Busy(o)
  BY DEF Calm, Begin, Busy
<1>2. CalmOK /\ req[r].pc = "idle" /\ ~Linking(r)
  BY <1>1 DEF LinkInv, Busy, Linking, At
<1>3. cache \in {None, row} /\ spice.project = LiveProject
  BY <1>1, <1>2, AloneKnows
<1>4. next \in Places \ {"put"}
  BY DEF Places
<1>5. PICK q : /\ req' = [req EXCEPT ![r] = q] /\ req'[r] = q /\ At(q) = next
               /\ q.pc \in {next, "put"} /\ q.cur = IF cache # None THEN cache ELSE row
  BY <1>4, ReadOK
<1>6. q.cur = row
  BY <1>3, <1>5
<1>7. ~Linking(r)' /\ ReadIsLive(r)'
  BY <1>5, <1>6 DEF Linking, ReadIsLive, At
<1> QED
  BY <1>1, <1>2, <1>3, <1>5, <1>7, AloneStep DEF LiveProject

(* A handler that writes no row and has nothing to reconcile.              *)
LEMMA PlainLinkStep ==
    ASSUME PubInv, LinkInv, NEW r \in Requests,
           req[r].pc \in {"max", "insert", "point", "publish"},
           NEW q, req' = [req EXCEPT ![r] = q], q.pc \in {"idle", "insert", "point"},
           UNCHANGED <<row, cache, spice, overlapped, linkLost>>
    PROVE  LinkInv'
<1> SUFFICES ASSUME Calm' PROVE CalmOK'
  BY DEF LinkInv
<1>1. CalmOK /\ Busy(r) /\ ~Linking(r)
  BY DEF LinkInv, Calm, Busy, Linking, At
<1>2. cache \in {None, row} /\ spice.project = LiveProject
  BY <1>1, AloneKnows
<1>3. req'[r] = q
  BY DEF PubInv, JobsOK
<1>4. ReadIsLive(r)'
  BY <1>3 DEF ReadIsLive, Linking, At
<1> QED
  BY <1>1, <1>2, <1>4, AloneStep DEF LiveProject

(* definition_cache.put: what is cached is the live row.                   *)
LEMMA PutLinkStep ==
    ASSUME PubInv, LinkInv, NEW r \in Requests, Put(r)
    PROVE  LinkInv'
<1>0. UNCHANGED <<row, spice, overlapped, linkLost>> /\ req[r].pc = "put"
  BY DEF Put, store, history
<1> SUFFICES ASSUME Calm' PROVE CalmOK'
  BY <1>0 DEF LinkInv
<1>1. CalmOK /\ Busy(r)
  BY <1>0 DEF LinkInv, Calm, Busy
<1>2. /\ cache \in {None, row}
      /\ ~Linking(r) => spice.project = LiveProject
  BY <1>0, <1>1, AloneKnows
<1>3. /\ req[r].next \in {"create", "max", "publish", "link"} /\ req[r].cur = row
      /\ Linking(r) => row # None
  BY <1>0, <1>1 DEF CalmOK, ReadIsLive
<1> DEFINE q == [req[r] EXCEPT !.pc = req[r].next, !.next = None]
<1>4. req' = [req EXCEPT ![r] = q]
  BY DEF Put, Goto
<1>5. q.pc = req[r].next /\ q.cur = row
  BY <1>3 DEF PubInv, JobsOK, JobOK, JobShape
<1> HIDE DEF q
<1>6. req'[r] = q
  BY <1>4 DEF PubInv, JobsOK
<1>7. (Linking(r)' <=> Linking(r)) /\ ReadIsLive(r)'
  BY <1>0, <1>3, <1>5, <1>6 DEF Linking, At, ReadIsLive
<1>8. cache' \in {None, row'}
  BY <1>0, <1>2, <1>3 DEF Put
<1> QED
  BY <1>0, <1>1, <1>2, <1>4, <1>7, <1>8, AloneStep DEF LiveProject

(* Creation, its seed and its compensation: a new type has no project.     *)
LEMMA CreateLinkStep ==
    ASSUME PubInv, LinkInv, NEW r \in Requests,
           UpsertObjectType(r) \/ SeedParentWorkspace(r) \/ UndoCreate(r)
    PROVE  LinkInv'
<1>0. /\ UNCHANGED <<overlapped, linkLost>> /\ req[r].pc \in {"create", "seed", "undo"}
      /\ DOMAIN spice' = {"parent", "project"} /\ spice'.project = spice.project
  BY DEF UpsertObjectType, SeedParentWorkspace, UndoCreate, history, LinkInv
<1> SUFFICES ASSUME Calm' PROVE CalmOK'
  BY <1>0 DEF LinkInv
<1>1. CalmOK /\ Busy(r) /\ ~Linking(r)
  BY <1>0 DEF LinkInv, Calm, Busy, Linking, At
<1>2. cache \in {None, row} /\ spice.project = LiveProject
  BY <1>0, <1>1, AloneKnows
<1>3. ReadIsLive(r) /\ JobOK(r) /\ req = [o \in Requests |-> req[o]] /\ None \notin TypeRow
  BY <1>1, PublishingAssumption DEF CalmOK, PubInv, JobsOK
<1>4. ASSUME Raise(r), LiveProject' = LiveProject, cache' \in {None, row'} PROVE CalmOK'
  <2>1. ReadIsLive(r)'
    BY <1>4, IdleOK, DoneOK DEF ReadIsLive, Linking
  <2> QED
    BY <1>0, <1>1, <1>2, <1>4, <2>1, AloneStep DEF Raise
<1>5. CASE UpsertObjectType(r)
  <2>1. CASE req[r].cur # None
    BY <1>2, <1>4, <1>5, <2>1 DEF UpsertObjectType, LiveProject
  <2>2. CASE req[r].cur = None
    <3> DEFINE q == [req[r] EXCEPT !.pc = "seed"]
               d == [req[r].d EXCEPT !.project = None]
    <3>1. row = None
      BY <1>3, <1>5, <2>2 DEF UpsertObjectType, ReadIsLive
    <3>2. row' = [version |-> 1, d |-> d] /\ cache' = None /\ req' = [req EXCEPT ![r] = q]
      BY <1>5, <2>2, <3>1 DEF UpsertObjectType, Goto
    <3>3. q.pc = "seed" /\ q.cur = req[r].cur
      BY <1>3 DEF JobOK, JobShape
    <3>4. d \in AllDefs /\ d.project = None
      <4>1. req[r].d \in AllDefs
        BY <1>3, <1>5, PublishingAssumption DEF JobOK, At, UpsertObjectType
      <4> QED
        BY <4>1 DEF AllDefs
    <3> HIDE DEF q, d
    <3>5. row' \in TypeRow /\ row'.d = d
      <4>1. 1 \in Versions
        BY PublishingAssumption DEF Versions
      <4> QED
        BY <3>2, <3>4, <4>1 DEF TypeRow
    <3>6. row' # None /\ row'.d.project = None
      BY <1>3, <3>4, <3>5
    <3>7. req'[r] = q
      BY <1>3, <3>2
    <3>8. ReadIsLive(r)'
      BY <3>3, <3>6, <3>7 DEF ReadIsLive, Linking, At
    <3>9. LiveProject' = None /\ LiveProject = None
      BY <3>1, <3>6 DEF LiveProject
    <3> QED
      BY <1>0, <1>1, <1>2, <3>2, <3>8, <3>9, AloneStep
  <2> QED
    BY <2>1, <2>2
<1>6. CASE SeedParentWorkspace(r)
  <2>0. UNCHANGED <<row, cache>> /\ req[r].pc = "seed"
    BY <1>6 DEF SeedParentWorkspace, store
  <2>1. CASE Raise(r)
    BY <1>2, <1>4, <2>0, <2>1 DEF LiveProject
  <2>2. CASE ~Raise(r)
    <3> DEFINE q == [req[r] EXCEPT !.pc = "undo"]
    <3>1. req' = [req EXCEPT ![r] = q]
      BY <1>6, <2>2 DEF SeedParentWorkspace, Goto
    <3>2. q.pc = "undo" /\ q.cur = req[r].cur
      BY <1>3 DEF JobOK, JobShape
    <3> HIDE DEF q
    <3>3. req'[r] = q
      BY <1>3, <3>1
    <3>4. ReadIsLive(r)'
      BY <1>3, <2>0, <3>2, <3>3 DEF ReadIsLive, Linking, At
    <3> QED
      BY <1>0, <1>1, <1>2, <2>0, <3>1, <3>4, AloneStep DEF LiveProject
  <2> QED
    BY <2>1, <2>2
<1>7. CASE UndoCreate(r)
  <2>1. LiveProject = None
    BY <1>3, <1>7 DEF ReadIsLive, UndoCreate, LiveProject
  <2> QED
    BY <1>2, <1>4, <1>7, <2>1 DEF UndoCreate, LiveProject
<1> QED
  BY <1>5, <1>6, <1>7

(* Publication, from its transaction to the reconcile.                     *)
LEMMA PublishLinkStep ==
    ASSUME PubInv, LinkInv, NEW r \in Requests,
           WritePublish(r) \/ InvalidateCache(r) \/ ReadBack(r)
    PROVE  LinkInv'
<1>0. /\ UNCHANGED <<spice, overlapped, linkLost>>
      /\ req[r].pc \in {"publish", "invalidate", "reread"}
  BY DEF WritePublish, InvalidateCache, ReadBack, history
<1>3. JobOK(r) /\ req = [o \in Requests |-> req[o]] /\ None \notin TypeRow
  BY PublishingAssumption DEF PubInv, JobsOK
<1>4. CASE WritePublish(r) /\ Regresses(r)
  BY <1>0, <1>4, IdleOK, PlainLinkStep DEF WritePublish, Raise, store
<1> SUFFICES ASSUME Calm', ~(WritePublish(r) /\ Regresses(r)) PROVE CalmOK'
  BY <1>0, <1>4 DEF LinkInv
<1>1. CalmOK /\ Busy(r) /\ ReadIsLive(r)
  BY <1>0 DEF LinkInv, Calm, Busy, CalmOK
<1>2. req[r].pc # "invalidate" => cache \in {None, row}
  BY <1>1, AloneKnows
<1>5. ASSUME NEW pc \in {"invalidate", "reread"}, row' # None,
             req' = [req EXCEPT ![r] = [req[r] EXCEPT !.pc = pc]],
             cache' \in {None, row'} \/ pc = "invalidate"
      PROVE  CalmOK'
  <2> DEFINE q == [req[r] EXCEPT !.pc = pc]
  <2>1. q.pc = pc
    BY <1>3 DEF JobOK, JobShape
  <2>2. req' = [req EXCEPT ![r] = q]
    BY <1>5
  <2> HIDE DEF q
  <2>3. req'[r] = q
    BY <1>3, <2>2
  <2>4. Linking(r)' /\ ReadIsLive(r)'
    BY <1>5, <2>1, <2>3 DEF Linking, ReadIsLive, At
  <2> QED
    BY <1>1, <1>5, <2>1, <2>2, <2>3, <2>4, AloneStep
<1>6. CASE WritePublish(r)
  <2> DEFINE v == req[r].v
             d == req[r].d
  <2>1. row' = [version |-> v, d |-> d] /\ req' = [req EXCEPT ![r] = [req[r] EXCEPT !.pc = "invalidate"]]
    BY <1>6 DEF WritePublish, Goto
  <2>2. PubInv' /\ v \in Versions /\ versions[v] # None /\ versions[v].d = d
    BY <1>3, <1>6, WritePublishStep DEF JobOK, At, WritePublish
  <2>3. versions[v] \in VersionRow
    BY <2>2 DEF PubInv, TypesOK
  <2>4. row' \in TypeRow
    BY <2>1, <2>2, <2>3 DEF VersionRow, TypeRow
  <2> QED
    BY <1>3, <1>5, <2>1, <2>4
<1>7. CASE InvalidateCache(r)
  <2>1. row' # None
    BY <1>1, <1>7 DEF ReadIsLive, Linking, At, InvalidateCache, store
  <2> QED
    BY <1>5, <1>7, <2>1 DEF InvalidateCache, Goto
<1>8. CASE ReadBack(r)
  <2>1. row # None /\ UNCHANGED <<row, cache>> /\ req[r].pc = "reread"
    BY <1>1, <1>8 DEF ReadIsLive, Linking, At, ReadBack, store
  <2>2. JobShape(req[r]) /\ GetObjectType(r, req[r], "link") /\ "link" \in Places \ {"put"}
    BY <1>3, <1>8 DEF ReadBack, JobOK, Places
  <2>3. PICK q : /\ req' = [req EXCEPT ![r] = q] /\ req'[r] = q /\ At(q) = "link"
                 /\ q.pc \in {"link", "put"} /\ q.cur = IF cache # None THEN cache ELSE row
    BY <2>2, ReadOK
  <2>4. q.cur = row
    BY <1>2, <2>1, <2>3
  <2>5. Linking(r)' /\ ReadIsLive(r)'
    BY <2>1, <2>3, <2>4 DEF Linking, ReadIsLive, At
  <2> QED
    BY <1>1, <1>2, <2>1, <2>3, <2>5, AloneStep
<1> QED
  BY <1>6, <1>7, <1>8

(* The reconcile writes the project of the live row, or is lost.           *)
LEMMA ReconcileLinkStep ==
    ASSUME PubInv, LinkInv, NEW r \in Requests, LinkProject(r)
    PROVE  LinkInv'
<1>0. /\ UNCHANGED <<row, cache, overlapped>> /\ req[r].pc = "link" /\ Raise(r)
      /\ DOMAIN spice' = {"parent", "project"}
  BY DEF LinkProject, store, LinkInv
<1> SUFFICES ASSUME Calm' PROVE CalmOK'
  BY <1>0 DEF LinkInv
<1>1. linkLost' = linkLost /\ spice'.project = req[r].cur.d.project
  BY DEF LinkProject, Calm, LinkInv
<1>2. CalmOK /\ Busy(r)
  BY <1>0, <1>1 DEF LinkInv, Calm, Busy
<1>3. cache \in {None, row} /\ req[r].cur = row /\ row # None
  BY <1>0, <1>2, AloneKnows DEF CalmOK, ReadIsLive, Linking, At
<1>4. ReadIsLive(r)'
  BY <1>0, IdleOK, DoneOK DEF ReadIsLive, Linking
<1>5. spice'.project = LiveProject'
  BY <1>0, <1>1, <1>3 DEF LiveProject
<1> QED
  BY <1>0, <1>2, <1>3, <1>4, <1>5, AloneStep DEF Raise

(* Every step keeps it.                                                    *)
LEMMA StepLinkInv ==
    ASSUME PubInv, LinkInv, [Next]_vars
    PROVE  LinkInv'
<1>1. CASE UNCHANGED vars \/ Expire
  <2>1. UNCHANGED <<row, spice, req, overlapped, linkLost>> /\ cache' \in {cache, None}
    BY <1>1 DEF vars, store, history, Expire
  <2> QED
    BY <2>1 DEF LinkInv, Calm, CalmOK, Busy, ReadIsLive, Linking, At, LiveProject
<1>2. CASE Crash
  <2>1. UNCHANGED <<row, spice, overlapped>> /\ cache' = None /\ \A r \in Requests : req'[r] = Idle
    BY <1>2 DEF Crash, store
  <2>2. \A r \in Requests : ~Busy(r)' /\ ReadIsLive(r)'
    BY <2>1, IdleOK DEF Busy, ReadIsLive, Linking
  <2>3. ASSUME Calm' PROVE Calm /\ \A r \in Requests : ~Linking(r)
    BY <1>2, <2>3 DEF Crash, Calm, Linking, At
  <2> QED
    BY <2>1, <2>2, <2>3 DEF LinkInv, CalmOK, LiveProject
<1>3. ASSUME NEW r \in Requests, Call(r) PROVE LinkInv'
  <2>1. CASE \E b \in Branches : RequestChanges(r, b)
    <3>1. UNCHANGED <<row, cache, spice, req, linkLost>> /\ Begin(r)
      BY <2>1 DEF RequestChanges
    <3>2. Calm' => Calm
      BY <3>1 DEF Calm, Begin
    <3> QED
      BY <3>1, <3>2 DEF LinkInv, CalmOK, Busy, ReadIsLive, Linking, At, LiveProject
  <2>2. ASSUME NEW d \in Defs, CreateObjectType(r, d) \/ ProposeVersion(r, d) PROVE LinkInv'
    <3>1. JobShape([Idle EXCEPT !.kind = "create", !.d = d]) /\ JobShape([Idle EXCEPT !.kind = "propose", !.d = d])
      BY DEF Idle, JobShape
    <3> QED
      BY <2>2, <3>1, CallLinkStep DEF CreateObjectType, ProposeVersion, store
  <2>3. ASSUME NEW b \in Branches, NEW d \in Defs, CreateBranch(r, b, d) \/ UpdateBranchDraft(r, b, d)
        PROVE  LinkInv'
    <3>1. /\ JobShape([Idle EXCEPT !.kind = "branch", !.b = b, !.d = d])
          /\ JobShape([Idle EXCEPT !.kind = "redraft", !.b = b, !.d = d])
      BY DEF Idle, JobShape
    <3> QED
      BY <2>3, <3>1, CallLinkStep DEF CreateBranch, UpdateBranchDraft, store
  <2>4. ASSUME NEW v \in Versions, PublishVersion(r, v) PROVE LinkInv'
    <3>1. JobShape([Idle EXCEPT !.kind = "publish", !.v = v, !.d = versions[v].d])
      BY DEF Idle, JobShape
    <3> QED
      BY <2>4, <3>1, CallLinkStep DEF PublishVersion, store
  <2>5. ASSUME NEW b \in Branches, ApproveBranch(r, b) PROVE LinkInv'
    <3>1. JobShape([Idle EXCEPT !.kind = "review", !.b = b, !.v = branch[b].version,
                                !.d = versions[branch[b].version].d])
      BY DEF Idle, JobShape
    <3> QED
      BY <2>5, <3>1, CallLinkStep DEF ApproveBranch, store
  <2> QED
    BY <1>3, <2>1, <2>2, <2>3, <2>4, <2>5 DEF Call
<1>4. ASSUME NEW r \in Requests, NextVersion(r) \/ InsertDraft(r) \/ PointBranch(r) \/ RefusePublish(r)
      PROVE  LinkInv'
  <2>1. /\ UNCHANGED <<row, cache, spice, overlapped, linkLost>>
        /\ req[r].pc \in {"max", "insert", "point", "publish"}
    BY <1>4 DEF NextVersion, InsertDraft, PointBranch, RefusePublish, store, history
  <2>2. CASE Raise(r)
    BY <2>1, <2>2, IdleOK, PlainLinkStep DEF Raise
  <2>3. CASE ~Raise(r)
    <3>1. \/ req' = [req EXCEPT ![r] = [req[r] EXCEPT !.pc = "point"]]
          \/ \E n \in Versions : req' = [req EXCEPT ![r] = [req[r] EXCEPT !.pc = "insert", !.v = n]]
      BY <1>4, <2>3 DEF NextVersion, InsertDraft, PointBranch, RefusePublish, Goto
    <3>2. /\ [req[r] EXCEPT !.pc = "point"].pc = "point"
          /\ \A n \in Versions : [req[r] EXCEPT !.pc = "insert", !.v = n].pc = "insert"
      BY DEF PubInv, JobsOK, JobOK, JobShape
    <3> QED
      BY <2>1, <3>1, <3>2, PlainLinkStep
  <2> QED
    BY <2>2, <2>3
<1> QED
  BY <1>1, <1>2, <1>3, <1>4, PutLinkStep, CreateLinkStep, PublishLinkStep, ReconcileLinkStep
  DEF Next, Step

(* When handlers come one at a time and SpiceDB refuses none, SpiceDB's    *)
(* parent_project is the live definition's once they have answered.        *)
THEOREM ProjectFollowsRow == Spec => []ProjectLinkSettles
<1>1. PubInv /\ LinkInv => ProjectLinkSettles
  <2> SUFFICES ASSUME LinkInv, Calm, \A r \in Requests : ~Busy(r), row # None
               PROVE  spice.project = row.d.project
    BY DEF ProjectLinkSettles, Calm, Busy
  <2>1. \A r \in Requests : ~Linking(r)
    BY DEF Busy, Linking, At
  <2> QED
    BY <2>1 DEF LinkInv, CalmOK, LiveProject
<1> QED
  BY InitPubInv, StepPubInv, InitLinkInv, StepLinkInv, <1>1, PTL DEF Spec
=============================================================================
