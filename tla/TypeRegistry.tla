----------------------------- MODULE TypeRegistry -----------------------------
(***************************************************************************)
(* One governed type of the ontology registry: a ValueType (versioned,     *)
(* with archived revisions), a SharedPropertyType (used by ObjectTypes) or *)
(* a RelationType; its parents in SpiceDB; and one branch whose review     *)
(* merges a proposal into it.  Handlers read, await and write, so their    *)
(* steps interleave; only the insert and update transactions are atomic.   *)
(***************************************************************************)
EXTENDS Naturals

CONSTANTS Clients, Payloads, Projects, None,
          Drafts,       \* the proposals branches are opened with or changed to
          MaxRequests,  \* bound on requests
          MaxFaults     \* bound on SpiceDB failures and dying processes

VARIABLES kind,      \* which registry this type lives in
          row,       \* None or [version, payload, project, active]
          revision,  \* value_type_revision: version -> payload or None
          linked,    \* SpiceDB: parent_workspace is written
          project,   \* SpiceDB: parent_project, or None
          used,      \* a published ObjectType refers to the type
          branch,    \* None or [status, proposal]
          applied,   \* ghost: the proposal the last merge applied
          request,   \* per client: None or the request in flight
          raced,     \* ghost: a request went on after another one's write
          ungoverned,\* ghost: SpiceDB failed, or a merge skipped it
          requests, faults

vars == <<kind, row, revision, linked, project, used, branch, applied, request,
          raced, ungoverned, requests, faults>>

spice == <<linked, project>>
ghosts == <<raced, ungoverned>>
counters == <<requests, faults>>
Versions == 1..(MaxRequests + 1)
NoRevisions == [v \in Versions |-> None]

(* a row of the registry, a branch of it, and what a handler holds between *)
(* two awaits                                                              *)
TypeRow == [version : Versions, payload : Payloads, project : Projects \cup {None},
            active : BOOLEAN]
(* ... a proposal may also name a project, or clear the one there is *)
Proposals == [payload : Payloads, project : Projects \cup {None, "clear"}]
Branch == [status : {"open", "merged"}, proposal : Proposals]
Request ==
  [op : {"create"}, pc : {"checked", "inserted", "link"}, new : TypeRow, stale : BOOLEAN]
    \cup [op : {"update"}, pc : {"checked", "link"}, current : TypeRow, new : TypeRow,
           stale : BOOLEAN]
    \cup [op : {"delete"}, pc : {"checked", "deleted"}, used : BOOLEAN, stale : BOOLEAN]
    \cup [op : {"draft"}, pc : {"checked"}, proposal : Proposals, stale : BOOLEAN]
    \cup [op : {"review"}, pc : {"read", "applied"}, definition : Proposals,
           existing : TypeRow \cup {None}, stale : BOOLEAN]

Init ==
  /\ kind \in {"value", "shared", "relation"}
  /\ row = None /\ revision = NoRevisions
  /\ linked = FALSE /\ project = None
  /\ used = FALSE
  /\ branch = None /\ applied = None
  /\ request = [c \in Clients |-> None]
  /\ raced = FALSE /\ ungoverned = FALSE
  /\ requests = 0 /\ faults = 0

(***************************************************************************)
(* Requests in flight                                                      *)
(***************************************************************************)
Arrive(c, r) ==
  /\ request[c] = None
  /\ requests < MaxRequests /\ ~raced
  /\ requests' = requests + 1
  /\ request' = [request EXCEPT ![c] = r]
  /\ UNCHANGED <<kind, row, revision, spice, used, branch, applied, ghosts, faults>>

At(c, op, pc) == request[c] # None /\ request[c].op = op /\ request[c].pc = pc

(* c goes on (to None when it is done); with a write, the others are stale *)
Move(c, r, wrote) ==
  /\ request' = [d \in Clients |->
       IF d = c THEN r
       ELSE IF request[d] # None /\ wrote THEN [request[d] EXCEPT !.stale = TRUE]
       ELSE request[d]]
  /\ raced' = (raced \/ (wrote /\ request[c].stale))
Then(c, pc) == [request[c] EXCEPT !.pc = pc]

Fault == faults < MaxFaults /\ faults' = faults + 1

(***************************************************************************)
(* Rows                                                                    *)
(***************************************************************************)
(* _insert_revision: INSERT ... ON CONFLICT DO NOTHING *)
Archived(rs, v, payload) == IF rs[v] = None THEN [rs EXCEPT ![v] = payload] ELSE rs

(* create_value_type, create_shared_property_type, create_relation_type *)
Insert(new) ==
  /\ row' = new
  /\ revision' = IF kind = "value" THEN Archived(revision, 1, new.payload) ELSE revision

(* update_value_type: a new payload is a new version, computed from the    *)
(* row read before; the other registries have no version                   *)
Update(current, new) ==
  /\ row' = new
  /\ revision' = IF kind = "value" /\ new.version # current.version
                 THEN Archived(Archived(revision, current.version, current.payload),
                               new.version, new.payload)
                 ELSE revision

(* what an update writes, given the row it read; the payload of a shared   *)
(* property type is not accepted                                           *)
Updated(current, payload, proj, active) ==
  [current EXCEPT !.payload = IF kind = "shared" THEN @ ELSE payload,
                  !.version = IF kind = "value" /\ payload # current.payload THEN @ + 1 ELSE @,
                  !.project = proj, !.active = active]

(* the router finds no row of this name *)
CheckCreate(c, payload, proj) ==
  /\ row = None
  /\ Arrive(c, [op |-> "create", pc |-> "checked",
                new |-> [version |-> 1, payload |-> payload, project |-> proj, active |-> FALSE],
                stale |-> FALSE])

(* the insert; on a duplicate key nothing happens *)
InsertRow(c) ==
  /\ At(c, "create", "checked")
  /\ IF row = None
     THEN Insert(request[c].new) /\ Move(c, Then(c, "inserted"), TRUE)
     ELSE UNCHANGED <<row, revision>> /\ Move(c, None, FALSE)
  /\ UNCHANGED <<kind, spice, used, branch, applied, ungoverned, counters>>

(* _seed_value_type_authz and its siblings *)
SeedLink(c) ==
  /\ At(c, "create", "inserted")
  /\ linked' = TRUE
  /\ Move(c, Then(c, "link"), TRUE)
  /\ UNCHANGED <<kind, row, revision, project, used, branch, applied, ungoverned, counters>>

(* Mutant: the row stays when its parent could not be written *)
SeedFails_Kept(c) ==
  /\ At(c, "create", "inserted")
  /\ Fault
  /\ Move(c, None, TRUE)
  /\ UNCHANGED <<kind, row, revision, spice, used, branch, applied, ungoverned, requests>>

(* ... on failure the row is deleted again, or that fails as well: always  *)
(* when an ObjectType already uses the shared property type                *)
SeedFails(c) ==
  /\ At(c, "create", "inserted")
  /\ Fault
  /\ \/ /\ ~(kind = "shared" /\ used)
        /\ row' = None /\ revision' = NoRevisions
        /\ UNCHANGED ungoverned
     \/ ungoverned' = TRUE /\ UNCHANGED <<row, revision>>
  /\ Move(c, None, TRUE)
  /\ UNCHANGED <<kind, spice, used, branch, applied, requests>>

(* _link_resource_to_project, after a create or an update; 503 on failure *)
LinkProject(c) ==
  /\ At(c, "create", "link") \/ At(c, "update", "link")
  /\ \/ project' = request[c].new.project /\ UNCHANGED <<ungoverned, faults>>
     \/ Fault /\ ungoverned' = TRUE /\ UNCHANGED project
  /\ Move(c, None, TRUE)
  /\ UNCHANGED <<kind, row, revision, linked, used, branch, applied, requests>>

(* update_*: the read *)
CheckUpdate(c, payload, proj, active) ==
  /\ row # None
  /\ Arrive(c, [op |-> "update", pc |-> "checked", current |-> row,
                new |-> Updated(row, payload, proj, active), stale |-> FALSE])

(* update_*: the transaction; SpiceDB follows when the project was given *)
ApplyUpdate(c) ==
  LET r == request[c] IN
  /\ At(c, "update", "checked")
  /\ IF row = None
     THEN UNCHANGED <<row, revision>> /\ Move(c, None, FALSE)
     ELSE /\ Update(r.current, r.new)
          /\ Move(c, IF r.new.project # r.current.project THEN Then(c, "link") ELSE None, TRUE)
  /\ UNCHANGED <<kind, spice, used, branch, applied, ungoverned, counters>>

(* delete_shared_property_type, delete_relation_type: the read *)
CheckDelete(c) ==
  /\ kind # "value"
  /\ row # None
  /\ kind = "relation" => ~row.active
  /\ Arrive(c, [op |-> "delete", pc |-> "checked", used |-> used, stale |-> FALSE])

(* the transaction; detaching an ObjectType raises on its version query,   *)
(* whose column does not exist, and rolls everything back                  *)
DeleteRow(c) ==
  /\ At(c, "delete", "checked")
  /\ IF kind = "shared" /\ request[c].used /\ used
     THEN UNCHANGED row /\ Move(c, None, FALSE)
     ELSE row' = None /\ Move(c, Then(c, "deleted"), TRUE)
  /\ UNCHANGED <<kind, revision, spice, used, branch, applied, ungoverned, counters>>

(* the parents in SpiceDB; failures are only logged *)
Unlink(c) ==
  /\ At(c, "delete", "deleted")
  /\ \/ linked' = FALSE /\ project' = None /\ UNCHANGED <<ungoverned, faults>>
     \/ Fault /\ ungoverned' = TRUE /\ UNCHANGED spice
  /\ Move(c, None, TRUE)
  /\ UNCHANGED <<kind, row, revision, used, branch, applied, requests>>

(* a version of an ObjectType is published that refers to the type, or no  *)
(* longer does                                                             *)
PublishUse(yes) ==
  /\ kind = "shared"
  /\ used # yes
  /\ yes => row # None
  /\ used' = yes
  /\ UNCHANGED <<kind, row, revision, spice, branch, applied, request, ghosts, counters>>

(* ensure_authz_seeded_all: a process boots *)
Backfill ==
  /\ row # None
  /\ linked' = TRUE /\ project' = row.project
  /\ ungoverned' = FALSE
  /\ request' = [c \in Clients |->
                   IF request[c] = None THEN None ELSE [request[c] EXCEPT !.stale = TRUE]]
  /\ UNCHANGED <<kind, row, revision, used, branch, applied, raced, counters>>

(***************************************************************************)
(* Branches                                                                *)
(***************************************************************************)
(* create_resource_branch *)
OpenBranch(proposal) ==
  /\ branch = None
  /\ branch' = [status |-> "open", proposal |-> proposal]
  /\ UNCHANGED <<kind, row, revision, spice, used, applied, request, ghosts, counters>>

(* update_resource_branch_draft: the read *)
CheckDraft(c, proposal) ==
  /\ branch # None /\ branch.status = "open"
  /\ Arrive(c, [op |-> "draft", pc |-> "checked", proposal |-> proposal, stale |-> FALSE])

(* ... and the update, by id whatever the status is now *)
WriteDraft(c) ==
  /\ At(c, "draft", "checked")
  /\ branch' = [branch EXCEPT !.proposal = request[c].proposal]
  /\ Move(c, None, TRUE)
  /\ UNCHANGED <<kind, row, revision, spice, used, applied, ungoverned, counters>>

(* review_resource_branch: an approval reads the branch and the resource *)
Review(c) ==
  /\ branch # None /\ branch.status = "open"
  /\ Arrive(c, [op |-> "review", pc |-> "read", definition |-> branch.proposal,
                existing |-> row, stale |-> FALSE])

(* _create_resource, _update_resource: what a merge writes.  The project   *)
(* is the proposal's (that of a shared property type is not passed on), an *)
(* update keeps the one there is when none is given.                       *)
CreateResource(definition) ==
  [version |-> 1, payload |-> definition.payload, active |-> FALSE,
   project |-> IF kind = "shared" \/ definition.project = "clear" THEN None
               ELSE definition.project]
UpdateResource(existing, definition) ==
  LET proj == IF kind = "shared" \/ definition.project = None THEN existing.project
              ELSE IF definition.project = "clear" THEN None ELSE definition.project
  IN Updated(existing, definition.payload, proj, existing.active)

(* the merge of a review; no SpiceDB parent is written, so a new type, or  *)
(* one whose project the proposal changes, is left ungoverned              *)
ApplyMerge(c) ==
  LET r == request[c]
      possible == (r.existing = None) <=> (row = None)
  IN
  /\ At(c, "review", "read")
  /\ IF ~possible
     THEN UNCHANGED <<row, revision, applied, ungoverned>> /\ Move(c, None, FALSE)
     ELSE /\ IF r.existing = None
             THEN Insert(CreateResource(r.definition))
             ELSE Update(r.existing, UpdateResource(r.existing, r.definition))
          /\ applied' = r.definition
          /\ ungoverned' = \/ ungoverned \/ r.existing = None
                           \/ row'.project # r.existing.project
          /\ Move(c, Then(c, "applied"), TRUE)
  /\ UNCHANGED <<kind, spice, used, branch, counters>>

(* UPDATE ontology_branch SET status = 'merged' *)
MarkMerged(c) ==
  /\ At(c, "review", "applied")
  /\ branch' = [branch EXCEPT !.status = "merged"]
  /\ Move(c, None, TRUE)
  /\ UNCHANGED <<kind, row, revision, spice, used, applied, ungoverned, counters>>

(* the process dies with a request in flight *)
RequestDies(c) ==
  /\ request[c] # None
  /\ Fault
  /\ request' = [request EXCEPT ![c] = None]
  /\ ungoverned' = (ungoverned \/ request[c].pc \in {"inserted", "link", "deleted"})
  /\ UNCHANGED <<kind, row, revision, spice, used, branch, applied, raced, requests>>

Next ==
  \/ \E c \in Clients :
       \/ \E x \in Payloads, p \in Projects \cup {None} :
            CheckCreate(c, x, p) \/ \E a \in BOOLEAN : CheckUpdate(c, x, p, a)
       \/ \E x \in Drafts : CheckDraft(c, x)
       \/ CheckDelete(c) \/ Review(c)
       \/ InsertRow(c) \/ SeedLink(c) \/ SeedFails(c) \/ LinkProject(c)
       \/ ApplyUpdate(c) \/ DeleteRow(c) \/ Unlink(c) \/ WriteDraft(c)
       \/ ApplyMerge(c) \/ MarkMerged(c) \/ RequestDies(c)
  \/ \E x \in Drafts : OpenBranch(x)
  \/ \E yes \in BOOLEAN : PublishUse(yes)
  \/ Backfill

Spec == Init /\ [][Next]_vars

Quiet == \A c \in Clients : request[c] = None

(***************************************************************************)
(* Unless a request went on after another one's write, every version a     *)
(* ValueType has had is archived, and the archived copy of the live        *)
(* version is the live definition: also when a merge died half-way and was *)
(* approved again.                                                         *)
(***************************************************************************)
RevisionsFaithful ==
  kind = "value" /\ row # None /\ ~raced =>
    /\ \A v \in 1..row.version : revision[v] # None
    /\ \A v \in 1..(row.version - 1) : revision[v] # revision[v + 1]
    /\ revision[row.version] = row.payload

(***************************************************************************)
(* Between requests PostgreSQL and SpiceDB agree: a type has its workspace *)
(* and its project as parents, a deleted one has none.  It takes the undo  *)
(* of a create whose seed failed.  A merge that creates the type or changes *)
(* its project, and a failure that is only reported, leave it ungoverned   *)
(* until a boot.                                                           *)
(***************************************************************************)
TypeGoverned ==
  Quiet /\ ~raced /\ ~ungoverned =>
    IF row = None THEN ~linked /\ project = None ELSE linked /\ project = row.project

(***************************************************************************)
(* Unless a draft or a review raced, a merged branch shows exactly the     *)
(* proposal that was applied, whatever died before.                        *)
(***************************************************************************)
MergedIsApplied ==
  branch # None /\ branch.status = "merged" /\ ~raced => applied = branch.proposal
=============================================================================
