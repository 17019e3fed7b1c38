--------------------------- MODULE PluginRegistry ---------------------------
(***************************************************************************)
(* plugin_registration: plugins of one kind that claim the same key (a     *)
(* tool, format or function name, or the ObjectType an adapter serves).    *)
(* Agent tools also live next to the actions of Knowledge and are linked   *)
(* to their workspace in SpiceDB.                                          *)
(***************************************************************************)
EXTENDS Naturals, FiniteSets

CONSTANTS Clients, Plugins, None,
          MaxRequests, MaxCrashes  \* bounds

VARIABLES tool,       \* the plugins are agent tools
          row,        \* per plugin None, "active" or "disabled"
          linked,     \* SpiceDB: plugins with a parent workspace
          action,     \* Knowledge has an action with the tool's name
          booted,     \* the backfill's done flag
          request,    \* per client, None or the registration under way
          overlapped, \* ghost: two registrations were between check and insert
          reenabled,  \* ghost: a disabled plugin was enabled again
          shadowed,   \* ghost: the action came after a registration asked for the actions
          orphaned,   \* ghost: plugins whose service died before they were linked
          undone,     \* ghost: plugins deleted by a compensation
          registered, \* ghost: plugins whose registration succeeded
          requests, crashes

vars == <<tool, row, linked, action, booted, request, overlapped, reenabled, shadowed, orphaned,
          undone, registered, requests, crashes>>
Request == [plugin : Plugins, pc : {"check", "insert", "seed"}, taken : BOOLEAN]
ghosts == <<overlapped, reenabled, shadowed, orphaned, undone, registered>>

Init ==
  /\ tool \in BOOLEAN
  /\ row = [p \in Plugins |-> None] /\ linked = {}
  /\ action \in (IF tool THEN BOOLEAN ELSE {FALSE})
  /\ booted = ~tool  \* only Intelligence backfills
  /\ request = [c \in Clients |-> None]
  /\ overlapped = FALSE /\ reenabled = FALSE /\ shadowed = FALSE
  /\ orphaned = {} /\ undone = {} /\ registered = {}
  /\ requests = 0 /\ crashes = 0

Active == {p \in Plugins : row[p] = "active"}
Step(c, pc) == request' = [request EXCEPT ![c].pc = pc]
Done(c) == request' = [request EXCEPT ![c] = None]
At(c, pc) == request[c] # None /\ request[c].pc = pc

(* the names of the actions are fetched before anything else *)
Register(c, p) ==
  /\ request[c] = None /\ requests < MaxRequests
  /\ requests' = requests + 1
  /\ request' = [request EXCEPT ![c] = [plugin |-> p, pc |-> "check", taken |-> action]]
  /\ UNCHANGED <<tool, row, linked, action, booted, ghosts, crashes>>

(* mutant: a disabled or another plugin's claim is not looked at *)
Conflict_ActionsOnly(r) == r.taken
(* _conflict_check: a name of Knowledge's, or an active plugin of another name *)
Conflict(r) == r.taken \/ Active \ {r.plugin} # {}

Check(c) ==
  /\ At(c, "check")
  /\ IF Conflict(request[c]) THEN Done(c) ELSE Step(c, "insert")
  /\ overlapped' = (overlapped \/ \E d \in Clients \ {c} : At(d, "insert"))
  /\ UNCHANGED <<tool, row, linked, action, booted, reenabled, shadowed, orphaned, undone,
                 registered, requests, crashes>>

(* register: an upsert that activates *)
Insert(c) ==
  /\ At(c, "insert")
  /\ row' = [row EXCEPT ![request[c].plugin] = "active"]
  /\ undone' = undone \ {request[c].plugin}
  /\ IF tool THEN Step(c, "seed") /\ UNCHANGED registered
     ELSE Done(c) /\ registered' = registered \cup {request[c].plugin}
  /\ UNCHANGED <<tool, linked, action, booted, overlapped, reenabled, shadowed, orphaned,
                 requests, crashes>>

(* _seed_tool_plugin_authz *)
Seed(c) ==
  /\ At(c, "seed") /\ Done(c)
  /\ linked' = linked \cup {request[c].plugin}
  /\ registered' = registered \cup {request[c].plugin}
  /\ UNCHANGED <<tool, row, action, booted, overlapped, reenabled, shadowed, orphaned, undone,
                 requests, crashes>>

(* its compensation deletes the row, also one that was there before *)
SeedFails(c) ==
  /\ At(c, "seed") /\ Done(c)
  /\ row' = [row EXCEPT ![request[c].plugin] = None]
  /\ undone' = undone \cup {request[c].plugin}
  /\ UNCHANGED <<tool, linked, action, booted, overlapped, reenabled, shadowed, orphaned,
                 registered, requests, crashes>>

(* disable and enable of an agent tool need its link to a workspace; *)
(* enable checks no conflict                                         *)
SetStatus(p) ==
  /\ requests < MaxRequests /\ requests' = requests + 1
  /\ row[p] # None /\ (tool => p \in linked)
  /\ row' = [row EXCEPT ![p] = IF @ = "active" THEN "disabled" ELSE "active"]
  /\ reenabled' = (reenabled \/ row[p] = "disabled")
  /\ UNCHANGED <<tool, linked, action, booted, request, overlapped, shadowed, orphaned, undone,
                 registered, crashes>>

(* Knowledge publishes an action without asking the plugins *)
CreateAction ==
  /\ tool /\ ~action /\ action' = TRUE
  /\ shadowed' = (shadowed \/ Active # {} \/ \E c \in Clients : request[c] # None)
  /\ UNCHANGED <<tool, row, linked, booted, request, overlapped, reenabled, orphaned, undone,
                 registered, requests, crashes>>
DeleteAction ==
  /\ tool /\ action /\ action' = FALSE
  /\ UNCHANGED <<tool, row, linked, booted, request, ghosts, requests, crashes>>

Crash ==
  /\ crashes < MaxCrashes /\ crashes' = crashes + 1
  /\ orphaned' = orphaned \cup {request[c].plugin : c \in {d \in Clients : At(d, "seed")}}
  /\ request' = [c \in Clients |-> None]
  /\ UNCHANGED <<tool, row, linked, action, booted, overlapped, reenabled, shadowed, undone,
                 registered, requests>>

(* ensure_authz_seeded: the flag is set after a clean pass only, and ends *)
(* the backfill for good                                                  *)
Boot(failed) ==
  /\ ~booted /\ \A c \in Clients : request[c] = None
  /\ linked' = linked \cup ({p \in Plugins : row[p] # None} \ failed)
  /\ booted' = (failed \cap {p \in Plugins : row[p] # None} = {})
  /\ orphaned' = orphaned \ linked'
  /\ UNCHANGED <<tool, row, action, request, overlapped, reenabled, shadowed, undone, registered,
                 requests, crashes>>

(* _list_tools: plugins come after the actions and take their entries *)
Resolved == IF Active # {} THEN Active ELSE IF action THEN {"action"} ELSE {}

Next ==
  \/ \E c \in Clients : \/ \E p \in Plugins : Register(c, p)
                        \/ Check(c) \/ Insert(c) \/ Seed(c) \/ SeedFails(c)
  \/ \E p \in Plugins : SetStatus(p)
  \/ CreateAction \/ DeleteAction \/ Crash \/ \E failed \in SUBSET Plugins : Boot(failed)

Spec == Init /\ [][Next]_vars

(***************************************************************************)
(* Properties                                                              *)
(***************************************************************************)
(* Two active plugins claim one key only after two registrations overlapped *)
(* between their check and their insert, or one was enabled again; and a    *)
(* plugin takes the place of an action of Knowledge only if the action came *)
(* later or the plugin was enabled again.                                   *)
OneClaim ==
  /\ Cardinality(Active) > 1 => overlapped \/ reenabled
  /\ action /\ Resolved # {"action"} => shadowed \/ reenabled

(* A registration that succeeded stays, linked to its workspace, unless a   *)
(* later one of the same plugin failed to be linked and undid it; what is   *)
(* not linked was interrupted.                                              *)
RegistrationKept ==
  \A p \in Plugins :
    /\ p \in registered => row[p] # None \/ p \in undone
    /\ tool /\ row[p] # None =>
         p \in linked \cup orphaned \cup {request[c].plugin : c \in {d \in Clients : At(d, "seed")}}

(* One claim per name, and a registration that is kept.                     *)
PluginsSound == OneClaim /\ RegistrationKept
=============================================================================
