---------------------------- MODULE Applications ----------------------------
(***************************************************************************)
(* Experience: the versions of one application.  A save edits the draft in *)
(* place or starts the next version, a promotion freezes the draft, both   *)
(* after asking Knowledge and Intelligence for everything the definition   *)
(* refers to.  SpiceDB holds the edges to the workspace and the project.   *)
(***************************************************************************)
EXTENDS Naturals, Sequences, FiniteSets

CONSTANTS Authors, Projects, None,
          MaxVersions, MaxRequests, MaxChanges, MaxFaults  \* bounds

Definitions == {"list", "agent"}
(* what _validate_definition asks for, in its order *)
References(d) == IF d = "list" THEN <<"type", "action">> ELSE <<"type", "tool">>

VARIABLES rows,     \* the versions; a row's position is its version and its id
          named,    \* the rows have their URN (legacy rows have none)
          linked,   \* SpiceDB: the application has its parent workspace
          edges,    \* SpiceDB: its parent projects
          known,    \* what Knowledge and Intelligence have of the references
          boot,     \* "seed", "link" or "up"
          request,  \* per author, None or the request under way
          severed,  \* ghost: a step between a row and its workspace edge was lost
          mixed,    \* ghost: a project change overlapped another, a new version or a fault
          requests, changes, faults

vars == <<rows, named, linked, edges, known, boot, request, severed, mixed, requests, changes, faults>>
stored == <<rows, named, linked, edges>>
ghosts == <<severed, mixed>>

Found == {"type", "action", "tool"} \cup Projects
VersionRow == [definition : Definitions, status : {"draft", "promoted"},
               project : Projects \cup {None}, vouched : SUBSET Found, raced : BOOLEAN]
Edit == [pc : {"validate", "reread", "write", "link", "promote", "edges", "replace", "column"},
         op : {"save", "promote", "project"}, definition : Definitions, found : SUBSET Found,
         created : BOOLEAN, id : Nat, fresh : BOOLEAN, project : Projects \cup {None}]

Version(d, project) ==
  [definition |-> d, status |-> "draft", project |-> project,
   vouched |-> {},     \* ghost: the references the last promotion found
   raced |-> FALSE]    \* ghost: an edit landed during or after a promotion

(* nothing yet, or one version from before applications had a URN *)
Init ==
  /\ known = {"type", "action", "tool"}
  /\ \/ rows = <<>> /\ named = TRUE
     \/ rows = <<Version("list", None)>> /\ named = FALSE
  /\ linked = FALSE /\ edges = {} /\ boot = "seed"
  /\ request = [c \in Authors |-> None]
  /\ severed = FALSE /\ mixed = FALSE /\ requests = 0 /\ changes = 0 /\ faults = 0

(***************************************************************************)
(* Start: backfill_urns, then an edge for every name it returned; a failed *)
(* attempt is repeated from the beginning                                  *)
(***************************************************************************)
BackfillUrns ==
  /\ boot = "seed"
  /\ boot' = IF named THEN "up" ELSE "link"
  /\ named' = TRUE
  /\ UNCHANGED <<rows, linked, edges, known, request, ghosts, requests, changes, faults>>

SeedEdge ==
  /\ boot = "link"
  /\ boot' = "up" /\ linked' = TRUE
  /\ UNCHANGED <<rows, named, edges, known, request, ghosts, requests, changes, faults>>

SeedFails ==
  /\ boot = "link" /\ faults < MaxFaults
  /\ boot' = "seed" /\ severed' = TRUE /\ faults' = faults + 1
  /\ UNCHANGED <<stored, known, request, mixed, requests, changes>>

(***************************************************************************)
(* Requests                                                                *)
(***************************************************************************)
At(c, pc) == request[c] # None /\ request[c].pc = pc
Keep(c, r) == request' = [request EXCEPT ![c] = r]
Exists == rows # <<>>
Latest == rows[Len(rows)]
(* an author's rights come from the workspace: the application must hang on it *)
Authorized == Exists => linked

Begin(c, r) ==
  /\ boot = "up" /\ request[c] = None /\ requests < MaxRequests
  /\ Authorized
  /\ Keep(c, r) /\ requests' = requests + 1
  /\ UNCHANGED <<stored, known, boot, changes, faults>>

Save(c, d) ==
  /\ Begin(c, [pc |-> "validate", op |-> "save", definition |-> d, found |-> {},
               created |-> ~Exists, id |-> 0, fresh |-> FALSE, project |-> None])
  /\ UNCHANGED ghosts

Promote(c) ==
  /\ Exists /\ Latest.status = "draft"
  /\ Begin(c, [pc |-> "validate", op |-> "promote", definition |-> Latest.definition,
               found |-> {}, created |-> FALSE, id |-> Len(rows), fresh |-> FALSE, project |-> None])
  /\ UNCHANGED ghosts

(* a reference that is not there refuses the definition *)
Validate(c) ==
  /\ At(c, "validate")
  /\ LET r == request[c]
         refs == References(r.definition)
         asked == refs[Cardinality(r.found) + 1]
     IN IF asked \notin known THEN Keep(c, None)
        ELSE Keep(c, [r EXCEPT !.found = @ \cup {asked},
                               !.pc = IF Cardinality(r.found) + 1 < Len(refs) THEN "validate"
                                      ELSE IF r.op = "save" THEN "reread" ELSE "promote"])
  /\ UNCHANGED <<stored, known, boot, ghosts, requests, changes, faults>>

(* the latest version as the save finds it decides what it writes *)
Reread(r) ==
  [r EXCEPT !.pc = "write",
            !.fresh = ~(Exists /\ Latest.status = "draft"),
            !.id = IF Exists /\ Latest.status = "draft" THEN Len(rows) ELSE Len(rows) + 1,
            !.project = IF Exists THEN Latest.project ELSE None]
Decide(c) ==
  /\ At(c, "reread")
  /\ Keep(c, Reread(request[c]))
  /\ UNCHANGED <<stored, known, boot, ghosts, requests, changes, faults>>

Promoting(id) == \E c \in Authors : request[c] # None /\ request[c].op = "promote" /\ request[c].id = id
SettingProject == \E c \in Authors : request[c] # None /\ request[c].op = "project"

(* UNIQUE (tenant, name, version) refuses the second insert of a version *)
Insert(c) ==
  /\ At(c, "write") /\ request[c].fresh
  /\ LET r == request[c] IN
     IF r.id <= Len(rows)
     THEN Keep(c, None) /\ UNCHANGED <<rows, mixed>>
     ELSE /\ r.id <= MaxVersions
          /\ rows' = Append(rows, Version(r.definition, r.project))
          /\ mixed' = (mixed \/ SettingProject \/ (Exists /\ r.project # Latest.project))
          /\ Keep(c, IF r.created THEN [r EXCEPT !.pc = "link"] ELSE None)
  /\ UNCHANGED <<named, linked, edges, known, boot, severed, requests, changes, faults>>

(* by id alone: the row may have been promoted since it was read *)
Update(c) ==
  /\ At(c, "write") /\ ~request[c].fresh
  /\ LET r == request[c] IN
     /\ rows' = [rows EXCEPT ![r.id].definition = r.definition,
                             ![r.id].raced = @ \/ Promoting(r.id) \/ rows[r.id].status = "promoted"]
     /\ Keep(c, IF r.created THEN [r EXCEPT !.pc = "link"] ELSE None)
  /\ UNCHANGED <<named, linked, edges, known, boot, ghosts, requests, changes, faults>>

(* write_relationship, by the save that found no application *)
Link(c) ==
  /\ At(c, "link")
  /\ linked' = TRUE /\ Keep(c, None)
  /\ UNCHANGED <<rows, named, edges, known, boot, ghosts, requests, changes, faults>>

MarkPromoted(c) ==
  /\ At(c, "promote")
  /\ rows' = [rows EXCEPT ![request[c].id].status = "promoted",
                          ![request[c].id].vouched = request[c].found]
  /\ Keep(c, None)
  /\ UNCHANGED <<named, linked, edges, known, boot, ghosts, requests, changes, faults>>

(* the edges first, then the column of every version *)
SetProject(c, p) ==
  /\ Exists
  /\ Begin(c, [pc |-> "edges", op |-> "project", definition |-> "list", found |-> {},
               created |-> FALSE, id |-> 0, fresh |-> FALSE, project |-> p])
  /\ mixed' = (mixed \/ SettingProject \/ \E b \in Authors : At(b, "write"))
  /\ UNCHANGED severed

(* set_single_subject reads the edges, then drops what it read and adds its own *)
ReadEdges(c) ==
  /\ At(c, "edges")
  /\ Keep(c, [request[c] EXCEPT !.pc = "replace", !.found = edges])
  /\ UNCHANGED <<stored, known, boot, ghosts, requests, changes, faults>>

ReplaceEdges(c) ==
  /\ At(c, "replace")
  /\ LET target == {request[c].project} \ {None}
     IN edges' = (edges \ request[c].found) \cup target
  /\ Keep(c, [request[c] EXCEPT !.pc = "column"])
  /\ UNCHANGED <<rows, named, linked, known, boot, ghosts, requests, changes, faults>>

SetColumn(c) ==
  /\ At(c, "column")
  /\ rows' = [v \in 1..Len(rows) |-> [rows[v] EXCEPT !.project = request[c].project]]
  /\ Keep(c, None)
  /\ UNCHANGED <<named, linked, edges, known, boot, ghosts, requests, changes, faults>>

(* an upstream call fails, or the service dies: the request is gone *)
Cut(c) ==
  /\ request[c] # None /\ faults < MaxFaults
  /\ severed' = (severed \/ At(c, "link")) /\ mixed' = (mixed \/ request[c].op = "project")
  /\ Keep(c, None) /\ faults' = faults + 1
  /\ UNCHANGED <<stored, known, boot, requests, changes>>

(* a type, an action or a tool comes or goes elsewhere *)
ChangeKnown(x) ==
  /\ changes < MaxChanges /\ changes' = changes + 1
  /\ known' = IF x \in known THEN known \ {x} ELSE known \cup {x}
  /\ UNCHANGED <<stored, boot, request, ghosts, requests, faults>>

Next ==
  \/ BackfillUrns \/ SeedEdge \/ SeedFails
  \/ \E c \in Authors :
       \/ \E d \in Definitions : Save(c, d)
       \/ \E p \in Projects \cup {None} : SetProject(c, p)
       \/ Promote(c) \/ Validate(c) \/ Decide(c) \/ Insert(c) \/ Update(c) \/ Link(c)
       \/ MarkPromoted(c) \/ ReadEdges(c) \/ ReplaceEdges(c) \/ SetColumn(c) \/ Cut(c)
  \/ \E x \in {"type", "action", "tool"} : ChangeKnown(x)

Spec == Init /\ [][Next]_vars
-----------------------------------------------------------------------------
(* However saves and promotions overlap, every version but the latest is    *)
(* promoted: create_or_update_draft starts a version only above one that    *)
(* was, and no write takes a promotion back.                                *)
OnlyLatestIsDraft == \A v \in 1..Len(rows) : v < Len(rows) => rows[v].status = "promoted"

(* promote asks again before it freezes: a promoted definition is one whose *)
(* every reference was there at the promotion, unless an edit of the draft  *)
(* landed while it ran or after it.                                         *)
PromotedWasChecked ==
  \A v \in 1..Len(rows) : rows[v].status = "promoted" /\ ~rows[v].raced =>
    rows[v].vouched = {References(rows[v].definition)[i] : i \in 1..Len(References(rows[v].definition))}

(* An application is reachable through its workspace, or a request or the   *)
(* start is about to make it so, or a step in between was lost: which       *)
(* nothing repairs, as backfill_urns only looks at rows without a URN.      *)
ApplicationReachable ==
  Exists /\ boot = "up" => linked \/ severed \/ \E c \in Authors : At(c, "link")

(* SpiceDB mirrors the project column of every version when no change of    *)
(* project is under way and none met another, a new version or a failure.   *)
ProjectMirrored ==
  ~mixed /\ ~SettingProject =>
    \A v \in 1..Len(rows) : edges = {rows[v].project} \ {None}

(* The drafts, promotions, governance and project of an application.        *)
ApplicationsSound == OnlyLatestIsDraft /\ PromotedWasChecked /\ ApplicationReachable /\ ProjectMirrored
=============================================================================
