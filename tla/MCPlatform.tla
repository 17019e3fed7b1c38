----------------------------- MODULE MCPlatform -----------------------------
(***************************************************************************)
(* The agent runtime and the registries of Intelligence, the sources of    *)
(* Connectivity, the applications of Experience and the submission of      *)
(* actions to Knowledge.  They share no state in the model, so each        *)
(* behaviour exercises one: the one in focus.                              *)
(***************************************************************************)
EXTENDS Integers, Sequences, TLC

CONSTANTS Clients, Plugins, Versions, Projects, Instances, Workspaces, None,
          Tokens, MaxUses, Budget, Quota, Rpm,  \* AgentSession
          Limit, Requested,              \* AgentChain
          SourceKinds,                   \* SourceRegistry
          MaxTurns, MaxRestarts, MaxEvents, MaxRequests, MaxCrashes,
          MaxRegistrations, MaxOthers, MaxVersions, MaxEdits, MaxSubmissions, MaxChanges,
          MaxFaults                      \* bounds, the last one on the faults of each component

VARIABLES focus,
  session, linked, transcript, turn, day, window, completions, actual, returned, unbilled,
  overlapped, lossy, swept, malformed, turns, turnFaults,
  topic, next, committed, calls, started, repeated, deepest, granted, rereads, chainFaults,
  tool, plugin, pluginLinked, action, backfilled, registering, concurrent, reenabled, shadowed,
  orphaned, undone, registered, requests, crashes,
  model, artifact, modelLinked, modelRequest, predicted, reused, raced, crossed, cut, kept, lost,
  registrations, others, modelFaults,
  application, named, applicationLinked, edges, known, boot, edit, severed, mixed, edits, changes,
  editFaults,
  actionType, rule, active, stored, overlay, submission, results, invocations, approvals,
  contended, redefinitions, failures,
  source, connections, claimant, stream, sourceLinked, sourceBackfilled, sourceRequest, crowded,
  unchecked, readopted, broken, sourceRequests, sourceFaults,
  kind, connection, registration, connects

sessionVars == <<session, linked, transcript, turn, day, window, completions, actual, returned,
                 unbilled, overlapped, lossy, swept, malformed, turns, turnFaults>>
chainVars == <<topic, next, committed, calls, started, repeated, deepest, granted, rereads, chainFaults>>
pluginVars == <<tool, plugin, pluginLinked, action, backfilled, registering, concurrent, reenabled,
                shadowed, orphaned, undone, registered, requests, crashes>>
modelVars == <<model, artifact, modelLinked, modelRequest, predicted, reused, raced, crossed, cut,
               kept, lost, registrations, others, modelFaults>>
applicationVars == <<application, named, applicationLinked, edges, known, boot, edit, severed,
                     mixed, edits, changes, editFaults>>
submissionVars == <<actionType, rule, active, stored, overlay, submission, results, invocations,
                    approvals, contended, redefinitions, failures>>
sourceVars == <<source, connections, claimant, stream, sourceLinked, sourceBackfilled, sourceRequest,
                crowded, unchecked, readopted, broken, sourceRequests, sourceFaults>>
connectionVars == <<kind, connection, registration, connects>>
vars == <<focus, sessionVars, chainVars, pluginVars, modelVars, applicationVars,
          submissionVars, sourceVars, connectionVars>>

Agent == INSTANCE AgentSession WITH Drivers <- Clients, faults <- turnFaults
Chain == INSTANCE AgentChain WITH faults <- chainFaults
Tools == INSTANCE PluginRegistry WITH
  row <- plugin, linked <- pluginLinked, booted <- backfilled, request <- registering,
  overlapped <- concurrent
Models == INSTANCE ModelRegistry WITH
  row <- model, linked <- modelLinked, request <- modelRequest, faults <- modelFaults
Apps == INSTANCE Applications WITH
  Authors <- Clients, MaxRequests <- MaxEdits, rows <- application, linked <- applicationLinked,
  request <- edit, requests <- edits, faults <- editFaults
Submissions == INSTANCE ActionSubmission WITH
  Callers <- Clients, MaxRequests <- MaxSubmissions, request <- submission,
  changes <- redefinitions, faults <- failures
Sources == INSTANCE SourceRegistry WITH
  Kinds <- SourceKinds, row <- source, connection <- connections,
  plugin <- claimant, linked <- sourceLinked, backfilled <- sourceBackfilled,
  request <- sourceRequest, overlapped <- crowded, reused <- readopted, requests <- sourceRequests,
  faults <- sourceFaults
Connections == INSTANCE SourceConnections WITH registrations <- connects

ASSUME PlatformAssumption ==
  /\ Budget \in Agent!Counts /\ MaxUses \in Nat
  /\ Tokens \subseteq Nat /\ \E most \in Tokens : \A cost \in Tokens : cost <= most
  /\ None \notin Agent!SessionRow /\ None \notin Agent!TurnState
  /\ Limit \in Nat \ {0} /\ Requested \subseteq Int
  /\ None \notin Tools!Request /\ None \notin {"active", "disabled"}
  /\ None \notin Models!ModelRow \cup Models!Registration \cup Models!Loading /\ None \notin Nat
  /\ None \notin Apps!Edit
  /\ None \notin Submissions!RequestState

SmallBudget == [iterations |-> 2, tools |-> 1, tokens |-> 3]

(* Clients and instances differ only by name; the properties are invariants. *)
Symmetry == Permutations(Clients) \cup Permutations(Instances)

Init ==
  /\ focus \in {"agent", "chain", "tools", "models", "apps", "submit", "sources", "connections"}
  /\ Agent!Init /\ Chain!Init /\ Tools!Init /\ Models!Init /\ Apps!Init
  /\ Submissions!Init /\ Sources!Init /\ Connections!Init
  /\ focus # "chain" => granted = 1
  /\ focus # "tools" => tool /\ ~action
  /\ focus # "apps" => named
  /\ rule = "accepts" /\ active
  /\ focus # "submit" => actionType = "low"
  /\ focus # "sources" => claimant = "none" /\ stream = "none"
  /\ focus # "connections" => kind = "sql"

Next ==
  /\ UNCHANGED focus
  /\ \/ /\ focus = "agent" /\ Agent!Next
        /\ UNCHANGED <<chainVars, pluginVars, modelVars, applicationVars,
                       submissionVars, sourceVars, connectionVars>>
     \/ /\ focus = "chain" /\ Chain!Next
        /\ UNCHANGED <<sessionVars, pluginVars, modelVars, applicationVars,
                       submissionVars, sourceVars, connectionVars>>
     \/ /\ focus = "tools" /\ Tools!Next
        /\ UNCHANGED <<sessionVars, chainVars, modelVars, applicationVars,
                       submissionVars, sourceVars, connectionVars>>
     \/ /\ focus = "models" /\ Models!Next
        /\ UNCHANGED <<sessionVars, chainVars, pluginVars, applicationVars,
                       submissionVars, sourceVars, connectionVars>>
     \/ /\ focus = "apps" /\ Apps!Next
        /\ UNCHANGED <<sessionVars, chainVars, pluginVars, modelVars,
                       submissionVars, sourceVars, connectionVars>>
     \/ /\ focus = "submit" /\ Submissions!Next
        /\ UNCHANGED <<sessionVars, chainVars, pluginVars, modelVars,
                       applicationVars, sourceVars, connectionVars>>
     \/ /\ focus = "sources" /\ Sources!Next
        /\ UNCHANGED <<sessionVars, chainVars, pluginVars, modelVars,
                       applicationVars, submissionVars, connectionVars>>
     \/ /\ focus = "connections" /\ Connections!Next
        /\ UNCHANGED <<sessionVars, chainVars, pluginVars, modelVars,
                       applicationVars, submissionVars, sourceVars>>

Spec == Init /\ [][Next]_vars

(* A session spends within its budget and what it spends is accounted, its  *)
(* transcript is one the model accepts, and a chain goes no deeper than it  *)
(* was granted: see AgentSession and AgentChain.                            *)
AgentsAccounted == /\ focus = "agent" => Agent!AgentAccounted
                   /\ focus = "chain" => Chain!ChainSound
(* Tool plugins, models and applications keep what was registered, stay     *)
(* reachable and are used as they were checked: see PluginRegistry,         *)
(* ModelRegistry and Applications.                                          *)
RegistrationsSound == /\ focus = "tools" => Tools!PluginsSound
                      /\ focus = "models" => Models!ModelsSound
                      /\ focus = "apps" => Apps!ApplicationsSound
(* One active owner per dataset name, a registered source is linked and has *)
(* its connection, and a stored secret never follows a new destination: see *)
(* SourceRegistry and SourceConnections.                                    *)
SourcesSound == /\ focus = "sources" => Sources!DatasetOwnedOnce /\ Sources!SourceUsable
                /\ focus = "connections" => Connections!SecretStaysHome
(* An action is applied once per instance that meets its criterion, with    *)
(* edits that were vetted, and a batch reports what happened to each        *)
(* instance: see ActionSubmission.                                          *)
SubmissionsSound == focus = "submit" => Submissions!SubmissionsSound
=============================================================================
