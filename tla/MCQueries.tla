------------------------------ MODULE MCQueries ------------------------------
(***************************************************************************)
(* What a principal gets to see: the decisions about its access and the    *)
(* governed reads of Knowledge, in a long walk or with a clock and a       *)
(* mandant.  Each behaviour exercises one: the one in focus.               *)
(***************************************************************************)
EXTENDS Naturals, Sequences, TLC

CONSTANTS Clients, Callers, Permissions, Claims,  \* AccessControl
          Markings, Clearance, Parents,           \* GovernedReads
          None

VARIABLES focus,
  row, tenant, workspace, tenantMembers, roles, members, pending, op, used, sessions, call, cache,
  verdict, synced, booted, ops, calls, faults,
  store, marks, registry, holds, mandate, typeRead, indexed, policy, visible, request, token, seen,
  always, sometime, answers, allowed, capped, withheld, changes, reads, ticks

accessVars == <<row, tenant, workspace, tenantMembers, roles, members, pending, op, used, sessions,
                call, cache, verdict, synced, booted, ops, calls, faults>>
readVars == <<store, marks, registry, holds, mandate, typeRead, indexed, policy, visible, request, token,
              seen, always, sometime, answers, allowed, capped, withheld, changes, reads, ticks>>
vars == <<focus, accessVars, readVars>>

Access == INSTANCE AccessControl WITH
  policy <- verdict, MaxOps <- 2, MaxCalls <- 1, MaxFaults <- 1
(* Small pages and batches, so that three rows take several of both. *)
Reads == INSTANCE GovernedReads WITH
  Ids <- 1..3, Mixed <- Markings \ {Clearance}, Values <- {1}, PageSize <- 1, Factor <- 1,
  MinBatch <- 1, MaxBatches <- 2, Ttl <- 1, MaxNodes <- 3, MaxChanges <- 2, MaxReads <- 3,
  MaxTicks <- 2
(* of which a behaviour has either many reads and any one change, or a clock *)
(* and changes of the policy and the clearances                              *)
WalkBound == changes' <= 1 /\ ticks' = 0 /\ UNCHANGED policy
PolicyBound == reads' <= 2 /\ UNCHANGED <<store, marks, registry, typeRead, indexed>>

(* A user whose groups at the IdP make an administrator, then a viewer. *)
TwoLogins == "t1" :> {"viewer", "admin"} @@ "t2" :> {"viewer"}

(* Clients differ only by name; the properties are invariants. *)
Symmetry == Permutations(Clients)

(* a provisioned workspace with its group, or a bare one *)
AccessInit ==
  /\ Access!Init /\ verdict
  /\ \/ row["group"] # None /\ <<"user", "admin">> \notin roles /\ <<"agent", "admin">> \in roles
        /\ members \subseteq {"user"}
     \/ row["group"] = None /\ row["user"] = None /\ roles = {<<"root", "admin">>}

(* the rows of a walk, in a tenant with all markings or the plain ones *)
WalkInit ==
  /\ mandate = None
  /\ \/ registry = Markings /\ holds = {} /\ \A i \in 1..3 : marks[i] \in {None, {Clearance}}
     \/ registry = Markings /\ holds = {CHOOSE m \in Markings : m # Clearance}
        /\ \A i \in 1..3 : marks[i] = None
     \/ registry # Markings /\ holds = {} /\ \A i \in 1..3 : marks[i] = None
(* a row that the clearance opens to a principal with a mandant *)
PolicyInit ==
  /\ registry = Markings /\ holds = {} /\ mandate \in {None, {Clearance}}
  /\ marks = [i \in 1..3 |-> IF i = 1 THEN {Clearance} ELSE None]

Init ==
  /\ focus \in {"access", "reads", "policy"} /\ AccessInit /\ Reads!Init /\ policy
  /\ focus # "access" => row["group"] = None
  /\ IF focus = "reads" THEN WalkInit ELSE PolicyInit
  /\ focus = "access" => mandate = None

Next ==
  /\ UNCHANGED focus
  /\ \/ focus = "access" /\ Access!Next /\ UNCHANGED readVars
     \/ focus = "reads" /\ Reads!Next /\ WalkBound /\ UNCHANGED accessVars
     \/ focus = "policy" /\ Reads!Next /\ PolicyBound /\ UNCHANGED accessVars

Spec == Init /\ [][Next]_vars

(* Denials are cached only while they hold, and logins, boots and group     *)
(* changes leave the access they should: see AccessControl.                 *)
AccessSound == focus = "access" => Access!AccessSound
(* Pages, links, aggregates, graphs and search show what the principal may  *)
(* read: see GovernedReads.                                                 *)
ReadsGoverned == focus # "access" => Reads!ReadsGoverned
=============================================================================
