---------------------------- MODULE AccessControl ----------------------------
(***************************************************************************)
(* Who may do what in one workspace: the rows of Identity, the relations   *)
(* in SpiceDB, the events that announce a change, and the denial cache of  *)
(* a service's PermissionClient.  A request is the sequence of its remote  *)
(* steps (todo), taken one at a time; a failure drops the rest.  The       *)
(* principals are the bootstrap admin, a user, a group and an agent that   *)
(* acts on behalf of the user.                                             *)
(***************************************************************************)
EXTENDS Naturals, Sequences, SequencesExt, FiniteSets

CONSTANTS Clients,     \* requests in flight at once
          Callers,     \* authorize calls in flight at once
          Permissions, \* the permissions asked for
          Claims,      \* per login at the IdP, the roles its groups name
          None,
          MaxOps, MaxCalls, MaxFaults  \* bounds

VARIABLES row,       \* None or [status, linked]: linked to the IdP subject
          tenant, workspace,  \* their status
          tenantMembers,      \* SpiceDB: tenant#member
          roles,     \* SpiceDB: <<subject, relation>>; a group stands for group#member
          members,   \* SpiceDB: members of the group
          pending,   \* per principal, identity events not yet delivered
          op,        \* per client, None or [todo, clean]
          used,      \* logins whose state or assertion was consumed
          sessions,  \* sessions issued, one entry each
          call,      \* per caller, None or [who, perm, pc, raced]
          cache,     \* cached denials: [who, perm, excused]
          policy,    \* OPA's answer
          synced,    \* ghost: role set by the last undisturbed login
          booted,    \* ghost: nothing changed since the last boot
          ops, calls, faults

vars == <<row, tenant, workspace, tenantMembers, roles, members, pending, op, used, sessions,
          call, cache, policy, synced, booted, ops, calls, faults>>

Principals == {"root", "user", "group", "agent"}
Relations == {"viewer", "admin"}
Mandant(p) == IF p = "agent" THEN "user" ELSE None
Parties(p) == {p, Mandant(p)} \ {None}
spice == <<tenantMembers, roles, members>>
directory == <<row, tenant, workspace>>
decisions == <<call, cache, calls>>
ghosts == <<synced, booted>>

Row(status, linked) == [status |-> status, linked |-> linked]
Active(p) == row[p] # None /\ row[p].status = "active"

(* a bootstrapped instance, its user and its group provisioned or not *)
Init ==
  /\ \E u, g \in BOOLEAN :
       row = [p \in Principals |-> IF (p = "user" /\ ~u) \/ (p = "group" /\ ~g) THEN None
                                   ELSE Row("active", p = "user")]
  /\ tenant = "active" /\ workspace = "active"
  /\ tenantMembers = {p \in Principals : row[p] # None}
  /\ members \in SUBSET {p \in {"user", "agent"} : row["group"] # None /\ row[p] # None}
  /\ \E rs \in SUBSET ({"user", "group", "agent"} \X {"admin"}) :
       /\ \A x \in rs : row[x[1]] # None
       /\ roles = rs \cup {<<"root", "admin">>}
  /\ pending = [p \in Principals |-> 0]
  /\ op = [c \in Clients |-> None]
  /\ used = {} /\ sessions = <<>>
  /\ call = [c \in Callers |-> None] /\ cache = {}
  /\ policy \in BOOLEAN
  /\ synced = None /\ booted = FALSE
  /\ ops = 0 /\ calls = 0 /\ faults = 0

(***************************************************************************)
(* Decisions                                                               *)
(***************************************************************************)
(* spicedb-schema.zed: read = viewer + admin, approve = admin *)
Confers(perm) == IF perm = "approve" THEN {"admin"} ELSE Relations
check_rebac(p, perm) ==
  \E r \in Confers(perm) : <<p, r>> \in roles \/ (p \in members /\ <<"group", r>> \in roles)
Allowed(p, perm) == policy /\ \A q \in Parties(p) : check_rebac(q, perm)

Authorize(c, who, perm) ==
  /\ call[c] = None /\ calls < MaxCalls
  /\ row[who] # None
  /\ ~\E k \in cache : k.who = who /\ k.perm = perm  \* a hit answers at once
  /\ call' = [call EXCEPT ![c] = [who |-> who, perm |-> perm, pc |-> "own", raced |-> FALSE]]
  /\ calls' = calls + 1
  /\ UNCHANGED <<directory, spice, pending, op, used, sessions, cache, policy, ghosts, ops, faults>>

(* the next check after the one at pc; an allow ends the call uncached *)
Advance(c, granted) ==
  LET a == call[c] IN
  call' = [call EXCEPT ![c] =
    IF ~granted THEN [a EXCEPT !.pc = "denied"]
    ELSE IF a.pc = "own" /\ Mandant(a.who) # None THEN [a EXCEPT !.pc = "mandant"]
    ELSE IF a.pc # "abac" THEN [a EXCEPT !.pc = "abac"]
    ELSE None]

Check(c) ==
  /\ call[c] # None
  /\ \/ call[c].pc = "own" /\ Advance(c, check_rebac(call[c].who, call[c].perm))
     \/ call[c].pc = "mandant" /\ Advance(c, check_rebac(Mandant(call[c].who), call[c].perm))
     \/ call[c].pc = "abac" /\ Advance(c, policy)
  /\ UNCHANGED <<directory, spice, pending, op, used, sessions, cache, calls, policy, ghosts, ops,
                 faults>>

(* the answer reaches the service: the denial is cached *)
CacheDenial(c) ==
  /\ call[c] # None /\ call[c].pc = "denied"
  /\ cache' = {k \in cache : k.who # call[c].who \/ k.perm # call[c].perm}
                \cup {[who |-> call[c].who, perm |-> call[c].perm, excused |-> call[c].raced]}
  /\ call' = [call EXCEPT ![c] = None]
  /\ UNCHANGED <<directory, spice, pending, op, used, sessions, calls, policy, ghosts, ops, faults>>

(* SpiceDB or OPA fails, or its breaker is open: nothing is cached *)
CheckFails(c) ==
  /\ faults < MaxFaults
  /\ call[c] # None /\ call[c].pc # "denied"
  /\ call' = [call EXCEPT ![c] = None]
  /\ faults' = faults + 1
  /\ UNCHANGED <<directory, spice, pending, op, used, sessions, cache, calls, policy, ghosts, ops>>

(* the time to live has passed *)
Expire(k) ==
  /\ cache' = cache \ {k}
  /\ UNCHANGED <<directory, spice, pending, op, used, sessions, call, calls, policy, ghosts, ops,
                 faults>>

Invalidated_ActorOnly(p) == {k \in cache : p = k.who}
(* invalidate_principal: the cached denials in which p acts or is the mandant *)
Invalidated(p) == {k \in cache : p \in Parties(k.who)}

(* an identity event about p reaches the service; a denial still under way *)
(* is cached after this                                                    *)
Deliver(p) ==
  /\ pending[p] > 0
  /\ pending' = [pending EXCEPT ![p] = @ - 1]
  /\ cache' = cache \ Invalidated(p)
  /\ call' = [c \in Callers |->
       IF call[c] # None /\ p \in Parties(call[c].who) THEN [call[c] EXCEPT !.raced = TRUE] ELSE call[c]]
  /\ UNCHANGED <<directory, spice, op, used, sessions, calls, policy, ghosts, ops, faults>>

(***************************************************************************)
(* Requests: the remote steps of each handler                              *)
(***************************************************************************)
Do(what, p) == [do |-> what, who |-> p, role |-> None]
DoRole(what, p, r) == [do |-> what, who |-> p, role |-> r]

(* _apply_access_change *)
AccessChange(what, p, r) ==
  <<DoRole(what, p, r), Do("event", p)>> \o (IF p = "group" THEN <<Do("fanout", p)>> ELSE <<>>)
MemberChange(what, p) == <<Do(what, p), Do("event", p)>>
ScimMemberChange(what, p) == <<Do(what, p)>>
(* workspace_roles_from_claims: the highest role wins *)
Desired(t) == IF "admin" \in Claims[t] THEN "admin" ELSE IF Claims[t] # {} THEN "viewer" ELSE None
(* _complete_federated_login after the row is found *)
LoginSteps(t) ==
  (IF Desired(t) = None THEN <<>> ELSE <<DoRole("grant", "user", Desired(t))>>)
    \o SetToSeq({DoRole("revoke", "user", r) : r \in Relations \ {Desired(t)}})
    \o <<[do |-> "session", who |-> t, role |-> Desired(t)]>>
(* ensure_instance_bootstrap *)
HasUsableAdmin == \E p \in Principals : <<p, "admin">> \in roles /\ Active(p)
MakeAdmin == <<Do("reset", "root"), Do("enroll", "root"), DoRole("grant", "root", "admin")>>
(* renew: HOLON_BOOTSTRAP_ADMIN_RESET_SECRET is set *)
BootSteps(renew) ==
  (IF ~HasUsableAdmin \/ (renew /\ row["root"] = None) THEN MakeAdmin
   ELSE IF renew THEN <<Do("reset", "root")>> ELSE <<>>)
    \o <<Do("booted", "root")>>

(* principals whose cached denials the rest of a request will drop *)
Announced(todo) ==
  {todo[i].who : i \in {j \in DOMAIN todo : todo[j].do = "event"}}
    \cup (IF \E i \in DOMAIN todo : todo[i].do = "fanout" THEN members ELSE {})
InFlight == UNION {Announced(op[c].todo) : c \in {d \in Clients : op[d] # None}}

(* SpiceDB changed for ps and nobody will say so *)
Unannounced(ps) ==
  /\ cache' = {IF Parties(k.who) \cap ps = {} THEN k ELSE [k EXCEPT !.excused = TRUE] : k \in cache}
  /\ call' = [c \in Callers |-> IF call[c] = None \/ Parties(call[c].who) \cap ps = {} THEN call[c]
                                ELSE [call[c] EXCEPT !.raced = TRUE]]
Affected(p) == IF p = "group" THEN members ELSE {p}

(* _authorize_*_governance: an active administrator of an active workspace; *)
(* current_principal also refuses a disabled tenant                         *)
CanGovern ==
  /\ workspace = "active" /\ tenant = "active"
  /\ \E p \in Principals \ {"group"} : Active(p) /\ \A q \in Parties(p) : check_rebac(q, "approve")

Begin(c, todo) ==
  /\ op' = [op EXCEPT ![c] = [todo |-> todo, clean |-> TRUE]]
  /\ UNCHANGED <<pending, decisions, policy>>
Free(c) == op[c] = None /\ ops < MaxOps
untouched == <<tenant, workspace, spice, sessions, ghosts, faults>>

(* a new row; a name that exists is a unique violation *)
Insert(p, linked) == row[p] = None /\ row' = [row EXCEPT ![p] = Row("active", linked)]

(* principals_create *)
CreatePrincipal(c) ==
  /\ Free(c) /\ CanGovern /\ ops' = ops + 1
  /\ \E p \in {"user", "group"} : Insert(p, FALSE) /\ Begin(c, <<Do("enroll", p)>>)
  /\ UNCHANGED <<untouched, used>>

(* SCIM create_user: a user created inactive is disabled in a second step *)
ScimCreateUser(c) ==
  /\ Free(c) /\ ops' = ops + 1
  /\ \E linked, active \in BOOLEAN :
       /\ Insert("user", linked)
       /\ Begin(c, (IF active THEN <<>> ELSE <<Do("disable", "user")>>) \o <<Do("enroll", "user")>>)
  /\ UNCHANGED <<untouched, used>>

(* SCIM create_group, with any rows of the tenant as its members *)
ScimCreateGroup(c) ==
  /\ Free(c) /\ ops' = ops + 1
  /\ Insert("group", FALSE)
  /\ \E ms \in SUBSET {p \in {"user", "agent"} : row[p] # None} :
       Begin(c, <<Do("enroll", "group")>> \o SetToSeq({Do("join", m) : m \in ms}))
  /\ UNCHANGED <<untouched, used>>

(* grant_access, revoke_access and their project forms *)
ChangeAccess(c) ==
  /\ Free(c) /\ CanGovern /\ ops' = ops + 1
  /\ \E what \in {"grant", "revoke"}, p \in Principals, r \in Relations :
       row[p] # None /\ Begin(c, AccessChange(what, p, r))
  /\ UNCHANGED <<row, untouched, used>>

(* add_group_member refuses a group; remove_group_member does not *)
ChangeMember(c) ==
  /\ Free(c) /\ CanGovern /\ row["group"] # None /\ ops' = ops + 1
  /\ \E what \in {"join", "leave"}, p \in Principals :
       /\ row[p] # None
       /\ what = "join" => p # "group"
       /\ Begin(c, MemberChange(what, p))
  /\ UNCHANGED <<row, untouched, used>>

(* SCIM patch_group: any row of the tenant, no governance, no event *)
ScimPatch(c) ==
  /\ Free(c) /\ row["group"] # None /\ ops' = ops + 1
  /\ \E what \in {"join", "leave"}, p \in Principals :
       row[p] # None /\ Begin(c, ScimMemberChange(what, p))
  /\ UNCHANGED <<row, untouched, used>>

(* enqueue_principal_status_event: the row and its event in one transaction *)
StatusChanged(p, status) ==
  /\ row' = [row EXCEPT ![p].status = status]
  /\ pending' = [pending EXCEPT ![p] = @ + 1]
SetStatus(p, status) ==
  /\ ops < MaxOps /\ row[p] # None /\ ops' = ops + 1
  /\ StatusChanged(p, status)
  /\ booted' = FALSE
  /\ op' = [c \in Clients |-> IF op[c] = None THEN None ELSE [op[c] EXCEPT !.clean = FALSE]]
  /\ UNCHANGED <<tenant, workspace, spice, used, sessions, decisions, policy, synced, faults>>

(* principals_set_status *)
SetPrincipalStatus == CanGovern /\ \E p \in Principals, s \in {"active", "disabled"} : SetStatus(p, s)
(* SCIM patch_user, replace_user, delete_user: users only, no governance *)
ScimSetActive == \E active \in BOOLEAN : SetStatus("user", IF active THEN "active" ELSE "disabled")

(* tenants_set_status, workspaces_set_status: both need an active workspace *)
SetScopeStatus ==
  /\ ops < MaxOps /\ CanGovern /\ ops' = ops + 1
  /\ \E status \in {"active", "disabled"} :
       \/ tenant' = status /\ UNCHANGED workspace
       \/ workspace' = status /\ UNCHANGED tenant
  /\ booted' = FALSE
  /\ UNCHANGED <<row, spice, pending, op, used, sessions, decisions, policy, synced, faults>>

(* oidc_callback, saml_acs: the state or the assertion is consumed first *)
Login(c, t) ==
  /\ Free(c) /\ t \notin used /\ ops' = ops + 1
  /\ used' = used \cup {t}
  /\ \/ /\ tenant = "active" /\ Active("user") /\ row["user"].linked
        /\ Begin(c, LoginSteps(t)) /\ UNCHANGED row
     \/ /\ tenant = "active" /\ row["user"] = None
        /\ row' = [row EXCEPT !["user"] = Row("active", TRUE)]
        /\ Begin(c, <<Do("enroll", "user")>> \o LoginSteps(t))
     \/ /\ ~(tenant = "active" /\ (row["user"] = None \/ (Active("user") /\ row["user"].linked)))
        /\ UNCHANGED <<row, op, pending, decisions, policy>>
  /\ UNCHANGED untouched

(* a replica of Identity starts *)
Boot(c, renew) ==
  /\ Free(c) /\ ops' = ops + 1
  /\ Begin(c, BootSteps(renew))
  /\ UNCHANGED <<row, untouched, used>>

(***************************************************************************)
(* The steps of a request                                                  *)
(***************************************************************************)
(* the head of c's todo is done, rest remains; others that ran meanwhile   *)
(* no longer had the roles of the user to themselves                       *)
Done(c, rest, disturbs) ==
  op' = [d \in Clients |->
    IF d = c THEN (IF rest = <<>> THEN None ELSE [op[c] EXCEPT !.todo = rest])
    ELSE IF op[d] # None /\ disturbs THEN [op[d] EXCEPT !.clean = FALSE] ELSE op[d]]

ChangeSpice(c, s, rest) ==
  /\ roles' = CASE s.do = "grant" -> roles \cup {<<s.who, s.role>>}
                [] s.do = "revoke" -> roles \ {<<s.who, s.role>>}
                [] OTHER -> roles
  /\ members' = CASE s.do = "join" -> members \cup {s.who}
                  [] s.do = "leave" -> members \ {s.who}
                  [] OTHER -> members
  /\ tenantMembers' = IF s.do = "enroll" THEN tenantMembers \cup {s.who} ELSE tenantMembers
  /\ Done(c, rest, s.do # "enroll")
  /\ IF s.do \in {"grant", "join"} THEN Unannounced(Affected(s.who) \ Announced(rest))
     ELSE UNCHANGED <<cache, call>>
  /\ synced' = IF s.do # "enroll" THEN None ELSE synced
  /\ booted' = (booted /\ s.do = "enroll")
  /\ UNCHANGED <<row, pending, sessions>>

(* _set_status_or_fail of a user created inactive *)
Disable(c, s, rest) ==
  /\ StatusChanged(s.who, "disabled")
  /\ Done(c, rest, TRUE)
  /\ booted' = FALSE
  /\ UNCHANGED <<spice, sessions, cache, call, synced>>

Fanout(c, rest) ==
  /\ Done(c, SetToSeq({Do("event", m) : m \in members}) \o rest, FALSE)
  /\ UNCHANGED <<row, spice, pending, sessions, cache, call, ghosts>>

Enqueue(c, s, rest) ==
  /\ pending' = [pending EXCEPT ![s.who] = @ + 1]
  /\ Done(c, rest, FALSE)
  /\ UNCHANGED <<row, spice, sessions, cache, call, ghosts>>

ResetAdmin(c, s, rest) ==
  /\ row' = [row EXCEPT ![s.who] = Row("active", FALSE)]
  /\ Done(c, rest, TRUE)
  /\ UNCHANGED <<spice, pending, sessions, cache, call, ghosts>>

Finish(c, s, rest) ==
  /\ sessions' = IF s.do = "session" THEN Append(sessions, s.who) ELSE sessions
  /\ synced' = IF s.do = "session" /\ op[c].clean THEN [role |-> s.role] ELSE synced
  /\ booted' = IF s.do = "booted" THEN op[c].clean ELSE booted
  /\ Done(c, rest, FALSE)
  /\ UNCHANGED <<row, spice, pending, cache, call>>

Step(c) ==
  /\ op[c] # None
  /\ LET s == Head(op[c].todo)
         rest == Tail(op[c].todo)
     IN \/ s.do \in {"grant", "revoke", "join", "leave", "enroll"} /\ ChangeSpice(c, s, rest)
        \/ s.do = "fanout" /\ Fanout(c, rest)
        \/ s.do = "event" /\ Enqueue(c, s, rest)
        \/ s.do = "disable" /\ Disable(c, s, rest)
        \/ s.do = "reset" /\ ResetAdmin(c, s, rest)
        \/ s.do \in {"session", "booted"} /\ Finish(c, s, rest)
  /\ UNCHANGED <<tenant, workspace, used, calls, policy, ops, faults>>

(* SpiceDB or Postgres fails, or the process stops: the rest is not done. *)
(* A boot is retried.                                                     *)
Fail(c) ==
  /\ op[c] # None /\ faults < MaxFaults
  /\ faults' = faults + 1
  /\ LET s == Head(op[c].todo) IN
       IF s.do \in {"event", "fanout"} THEN Unannounced(Announced(op[c].todo))
       ELSE UNCHANGED <<cache, call>>
  /\ op' = [op EXCEPT ![c] = None]
  /\ UNCHANGED <<directory, spice, pending, used, sessions, calls, policy, ghosts, ops>>

Next ==
  \/ \E c \in Callers :
       \/ \E who \in {"user", "agent"}, perm \in Permissions : Authorize(c, who, perm)
       \/ Check(c) \/ CacheDenial(c) \/ CheckFails(c)
  \/ \E k \in cache : Expire(k)
  \/ \E p \in Principals : Deliver(p)
  \/ \E c \in Clients :
       \/ CreatePrincipal(c) \/ ScimCreateUser(c) \/ ScimCreateGroup(c)
       \/ ChangeAccess(c) \/ ChangeMember(c) \/ ScimPatch(c)
       \/ \E renew \in BOOLEAN : Boot(c, renew)
       \/ \E t \in DOMAIN Claims : Login(c, t)
       \/ Step(c) \/ Fail(c)
  \/ SetPrincipalStatus \/ ScimSetActive \/ SetScopeStatus

Spec == Init /\ [][Next]_vars

(***************************************************************************)
(* Properties                                                              *)
(***************************************************************************)
(* A cached denial that SpiceDB would now turn into an allow is about to be *)
(* dropped by an event, unless the change was never announced or its event  *)
(* overtook the call: what invalidate_principal is for.                     *)
DenialsFresh ==
  \A k \in cache : Allowed(k.who, k.perm) =>
    k.excused \/ \E p \in Parties(k.who) : pending[p] > 0 \/ p \in InFlight

(* After a federated login with no other change of access beside it, the    *)
(* user holds exactly the role its IdP groups name.                         *)
LoginSynced ==
  synced # None => {r \in Relations : <<"user", r>> \in roles} = {synced.role} \ {None}

(* After a boot the instance has an active administrator again; a group     *)
(* that holds the role counts as one even when nobody is in it.             *)
BootRepairs ==
  booted => \E p \in Principals : Active(p) /\ <<p, "admin">> \in roles

(* One answer of the IdP opens one session at most, retries and concurrent  *)
(* callbacks included.                                                      *)
LoginOnce == \A i, j \in DOMAIN sessions : sessions[i] = sessions[j] => i = j

(* Fresh denials, and what logins and boots leave behind.                   *)
AccessSound == DenialsFresh /\ LoginSynced /\ BootRepairs /\ LoginOnce
=============================================================================
