---------------------------- MODULE ActionEngine ----------------------------
(***************************************************************************)
(* Knowledge's actions: request, approve, reject, expire, compensate and   *)
(* revert (services/knowledge/app/actions).  Each request handler is a     *)
(* worker: it reads what it needs outside any transaction, then runs one   *)
(* transaction under PostgreSQL's READ COMMITTED isolation, whose row      *)
(* locks are modelled.                                                     *)
(*                                                                         *)
(* One tenant.  An object_instance_edit row holds the id of the invocation *)
(* whose value it carries, 0 when there is no row: a value is told apart   *)
(* from another only by who wrote it.                                      *)
(***************************************************************************)
EXTENDS Naturals, Sequences, FiniteSets, FiniteSetsExt

CONSTANTS
    Approvals,       \* the action_approval rows that may be created
    Actions,         \* action names
    Instances,       \* object instances
    Props,           \* top-level property names
    Users,           \* principals that request, decide and revert
    Workers,         \* concurrent request handlers, over all replicas
    Definitions,     \* what each action's action_type row may ever say
    InitDef,         \* the action_type registry at the start
    None,            \* no approval
    MaxInvocations   \* bound: action_invocation rows

(* create_action_type: exactly one of edits / edit_function, and a         *)
(* writeback only on a high-risk action.                                   *)
WellFormed(d) ==
    /\ d.edits \subseteq Props
    /\ d.function = (d.edits = {})
    /\ d.risk \in {"low", "high"}
    /\ d.writeback => d.risk = "high"

ASSUME EngineAssumption ==
    /\ \A n \in Actions : \A d \in Definitions[n] : WellFormed(d)
    /\ \A n \in Actions : InitDef[n] \in Definitions[n]
    /\ None \notin Approvals
    /\ MaxInvocations \in Nat

VARIABLES
    def,       \* action_type: the current definition of each action
    appr,      \* action_approval rows
    invs,      \* action_invocation rows, in id order
    overlay,   \* object_instance_edit: the visible edit of each property
    outbox,    \* event_outbox rows
    job        \* what each handler holds between its steps

vars == <<def, appr, invs, overlay, outbox, job>>

Ids == 0..MaxInvocations
NoPrior == [p \in Props |-> 0]

Idle == [pc |-> "idle", appr |-> None, inv |-> 0, action |-> None, inst |-> None,
         actor |-> None, writeback |-> FALSE,
         edits |-> {}, todo |-> {}, wrote |-> {}, prior |-> NoPrior]

Emit(type, ref) == outbox' = outbox \cup {[type |-> type, ref |-> ref]}

(* The property values an applied definition writes: its declared edits,   *)
(* or whatever its function returns, which must not be empty.              *)
Resolve(d) == IF d.function THEN SUBSET Props \ {{}} ELSE {d.edits}

-----------------------------------------------------------------------------
(* Row locks.                                                              *)

(* SELECT without FOR UPDATE: only the upsert locks the row.               *)
Held_NoForUpdate(w) == job[w].wrote

(* The edit rows a transaction has locked: those it wrote, and those it    *)
(* captured that existed (FOR UPDATE locks nothing when there is no row).  *)
Held(w) ==
    LET j == job[w] IN
    j.wrote \cup {p \in j.edits \ j.todo : j.prior[p] # 0}

EditLocked(w, i, p) ==
    \E v \in Workers \ {w} : /\ job[v].pc = "tx"
                             /\ job[v].inst = i
                             /\ p \in Held(v)

ApprovalLocked(a) == \E v \in Workers : job[v].pc = "tx" /\ job[v].appr = a

-----------------------------------------------------------------------------
Init ==
    /\ def = InitDef
    /\ appr = [a \in Approvals |-> [status |-> "none", action |-> None, inst |-> None,
                                    overdue |-> FALSE]]
    /\ invs = <<>>
    /\ overlay = [i \in Instances |-> [p \in Props |-> 0]]
    /\ outbox = {}
    /\ job = [w \in Workers |-> Idle]

(* Handlers in flight that will add an invocation.                         *)
Pending == {w \in Workers : job[w].pc \in {"define", "ready", "tx"}}
RoomForOne == Len(invs) + Cardinality(Pending) < MaxInvocations

(* create_action_type: an upsert of the registry row.                      *)
Redefine(n, d) ==
    /\ def' = [def EXCEPT ![n] = d]
    /\ UNCHANGED <<appr, invs, overlay, outbox, job>>

(* request_generic_action on a high-risk action, once validated: a pending *)
(* approval, that carries the action's name and not its definition.        *)
RequestApproval(a, n, i) ==
    /\ def[n].risk = "high"
    /\ appr[a].status = "none"
    /\ appr' = [appr EXCEPT ![a] = [status |-> "pending", action |-> n, inst |-> i,
                                    overdue |-> FALSE]]
    /\ Emit("requested", a)
    /\ UNCHANGED <<def, invs, overlay, job>>

(* The clock passes expires_at.                                            *)
Overdue(a) ==
    /\ appr[a].status = "pending" /\ ~appr[a].overdue
    /\ appr' = [appr EXCEPT ![a].overdue = TRUE]
    /\ UNCHANGED <<def, invs, overlay, outbox, job>>

(* request_generic_action on a low-risk action: validated, about to call   *)
(* _apply_now, which reads the definition again.                           *)
RequestLowRisk(w, n, i, u) ==
    /\ job[w].pc = "idle" /\ RoomForOne
    /\ def[n].risk = "low"
    /\ job' = [job EXCEPT ![w] = [Idle EXCEPT !.pc = "define", !.action = n,
                                              !.inst = i, !.actor = u]]
    /\ UNCHANGED <<def, appr, invs, overlay, outbox>>

(* A definition read, and the edits it resolves to, before the transaction.*)
Prepare(w, j, pc, edits) ==
    LET d == def[j.action] IN
    /\ edits \in Resolve(d)
    /\ job' = [job EXCEPT ![w] =
                 [j EXCEPT !.pc = pc, !.writeback = d.writeback,
                           !.edits = edits, !.todo = edits]]

(* _apply_now up to its transaction.                                       *)
ApplyNow(w, edits) ==
    /\ job[w].pc = "define"
    /\ Prepare(w, job[w], "tx", edits)
    /\ UNCHANGED <<def, appr, invs, overlay, outbox>>

(* approve_action up to its transaction: the preview and the definition.   *)
ApproveRead(w, a, u, edits) ==
    /\ job[w].pc = "idle" /\ RoomForOne
    /\ appr[a].status # "none"
    /\ Prepare(w, [Idle EXCEPT !.appr = a, !.action = appr[a].action,
                               !.inst = appr[a].inst, !.actor = u], "ready", edits)
    /\ UNCHANGED <<def, appr, invs, overlay, outbox>>

(* The status check left to the preview, before the row was locked.        *)
MayDecide_Unchecked(a) == ~appr[a].overdue

(* The checks approve_action and reject_action make under the row lock.    *)
MayDecide(a) == appr[a].status = "pending" /\ ~appr[a].overdue

(* SELECT ... FOR UPDATE on the approval; a request that is no longer      *)
(* pending, or is overdue, is refused.                                     *)
ApproveLock(w) ==
    LET a == job[w].appr IN
    /\ job[w].pc = "ready" /\ ~ApprovalLocked(a)
    /\ job' = [job EXCEPT ![w] = IF MayDecide(a) THEN [@ EXCEPT !.pc = "tx"] ELSE Idle]
    /\ UNCHANGED <<def, appr, invs, overlay, outbox>>

(* _write_instance_edits, property by property: capture the prior value    *)
(* under FOR UPDATE ...                                                    *)
Capture(w, p) ==
    LET j == job[w] IN
    /\ j.pc = "tx" /\ p \in j.todo
    /\ j.edits \ j.todo = j.wrote
    /\ overlay[j.inst][p] # 0 => ~EditLocked(w, j.inst, p)
    /\ job' = [job EXCEPT ![w].todo = @ \ {p},
                          ![w].prior[p] = overlay[j.inst][p]]
    /\ UNCHANGED <<def, appr, invs, overlay, outbox>>

(* ... then upsert the row, waiting for any transaction that wrote it.     *)
Upsert(w, p) ==
    LET j == job[w] IN
    /\ j.pc = "tx" /\ p \in j.edits \ (j.todo \cup j.wrote)
    /\ ~EditLocked(w, j.inst, p)
    /\ job' = [job EXCEPT ![w].wrote = @ \cup {p}]
    /\ UNCHANGED <<def, appr, invs, overlay, outbox>>

(* The end of the transaction of _apply_now and approve_action: the        *)
(* invocation, the decision if there is one, the event, COMMIT.            *)
ApplyCommit(w) ==
    LET j == job[w]
        n == Len(invs) + 1 IN
    /\ j.pc = "tx" /\ j.wrote = j.edits
    /\ invs' = Append(invs, [action |-> j.action, inst |-> j.inst, actor |-> j.actor,
                             edits |-> j.edits, prior |-> j.prior, reverted |-> FALSE,
                             appr |-> j.appr,
                             writeback |-> j.writeback /\ j.appr # None])
    /\ overlay' = [overlay EXCEPT ![j.inst] =
                     [p \in Props |-> IF p \in j.edits THEN n ELSE @[p]]]
    /\ appr' = IF j.appr = None THEN appr
               ELSE [appr EXCEPT ![j.appr].status = "approved"]
    /\ Emit("invoked", n)
    /\ job' = [job EXCEPT ![w] = Idle]
    /\ UNCHANGED def

(* reject_action.                                                          *)
RejectAction(a) ==
    /\ ~ApprovalLocked(a) /\ MayDecide(a)
    /\ appr' = [appr EXCEPT ![a].status = "rejected"]
    /\ Emit("rejected", a)
    /\ UNCHANGED <<def, invs, overlay, job>>

(* sweep_expired_approvals: one UPDATE over every overdue pending row.     *)
SweepExpired ==
    LET overdue == {a \in Approvals : appr[a].status = "pending" /\ appr[a].overdue} IN
    /\ overdue # {} /\ \A a \in overdue : ~ApprovalLocked(a)
    /\ appr' = [a \in Approvals |-> IF a \in overdue THEN [appr[a] EXCEPT !.status = "expired"]
                                    ELSE appr[a]]
    /\ outbox' = outbox \cup {[type |-> "approval_expired", ref |-> a] : a \in overdue}
    /\ UNCHANGED <<def, invs, overlay, job>>

-----------------------------------------------------------------------------
(* Compensation.                                                           *)

(* The lookup without its action_name filter.                              *)
LatestInvocation_AnyAction(n, i) ==
    Max({k \in DOMAIN invs : invs[k].inst = i})

(* The most recent invocation of this action on this instance.             *)
LatestInvocation(n, i) ==
    Max({k \in DOMAIN invs : invs[k].action = n /\ invs[k].inst = i})

(* The workflow engine calls back about an approval whose event carried    *)
(* edits: the status, then the properties to delete, read without a lock.  *)
CompensateRead(w, a) ==
    /\ job[w].pc = "idle"
    /\ \E k \in DOMAIN invs : invs[k].appr = a /\ invs[k].writeback
    /\ appr[a].status = "approved"
    /\ job' = [job EXCEPT ![w] =
                 [Idle EXCEPT !.pc = "compensate", !.appr = a, !.inst = appr[a].inst,
                    !.edits = invs[LatestInvocation(appr[a].action, appr[a].inst)].edits]]
    /\ UNCHANGED <<def, appr, invs, overlay, outbox>>

(* _compensate_declarative_action's transaction.                           *)
CompensateCommit(w) ==
    LET j == job[w] IN
    /\ j.pc = "compensate"
    /\ \A p \in j.edits : overlay[j.inst][p] # 0 => ~EditLocked(w, j.inst, p)
    /\ overlay' = [overlay EXCEPT ![j.inst] =
                     [p \in Props |-> IF p \in j.edits THEN 0 ELSE @[p]]]
    /\ appr' = [appr EXCEPT ![j.appr].status = "failed"]
    /\ Emit("compensated", j.appr)
    /\ job' = [job EXCEPT ![w] = Idle]
    /\ UNCHANGED <<def, invs>>

-----------------------------------------------------------------------------
(* Revert.                                                                 *)

(* The "later" query restricted to the same action.                        *)
LaterEdit_SameAction(n) ==
    \E k \in DOMAIN invs : /\ k > n /\ invs[k].inst = invs[n].inst /\ ~invs[k].reverted
                           /\ invs[k].action = invs[n].action

(* A later invocation on the same instance that was not itself reverted.   *)
LaterEdit(n) ==
    \E k \in DOMAIN invs : k > n /\ invs[k].inst = invs[n].inst /\ ~invs[k].reverted

(* revert_declarative_action's checks, all made outside the transaction.   *)
RevertRead(w, n, u) ==
    /\ job[w].pc = "idle"
    /\ ~invs[n].reverted
    /\ invs[n].actor = u
    /\ ~def[invs[n].action].writeback
    /\ ~LaterEdit(n)
    /\ job' = [job EXCEPT ![w] = [Idle EXCEPT !.pc = "revert", !.inv = n]]
    /\ UNCHANGED <<def, appr, invs, overlay, outbox>>

(* Its transaction: an UPDATE restores a value that existed, and does      *)
(* nothing if the row is gone; otherwise the row is deleted.               *)
RevertCommit(w) ==
    LET n == job[w].inv
        i == invs[n].inst IN
    /\ job[w].pc = "revert"
    /\ \A p \in invs[n].edits : overlay[i][p] # 0 => ~EditLocked(w, i, p)
    /\ overlay' = [overlay EXCEPT ![i] =
                     [p \in Props |->
                        IF p \in invs[n].edits /\ @[p] # 0 THEN invs[n].prior[p] ELSE @[p]]]
    /\ invs' = [invs EXCEPT ![n].reverted = TRUE]
    /\ Emit("reverted", n)
    /\ job' = [job EXCEPT ![w] = Idle]
    /\ UNCHANGED <<def, appr>>

(* A handler raises, its client goes away, PostgreSQL breaks a deadlock or *)
(* the process dies: the transaction, if any, rolls back.                  *)
Abort(w) ==
    /\ job[w].pc # "idle"
    /\ job' = [job EXCEPT ![w] = Idle]
    /\ UNCHANGED <<def, appr, invs, overlay, outbox>>

-----------------------------------------------------------------------------
Next ==
    \/ \E n \in Actions : \E d \in Definitions[n] : Redefine(n, d)
    \/ \E a \in Approvals :
          \/ \E n \in Actions, i \in Instances : RequestApproval(a, n, i)
          \/ Overdue(a) \/ RejectAction(a)
    \/ SweepExpired
    \/ \E w \in Workers :
          \/ \E n \in Actions, i \in Instances, u \in Users : RequestLowRisk(w, n, i, u)
          \/ \E edits \in SUBSET Props : ApplyNow(w, edits)
          \/ \E a \in Approvals, u \in Users, edits \in SUBSET Props :
                ApproveRead(w, a, u, edits)
          \/ ApproveLock(w)
          \/ \E p \in Props : Capture(w, p) \/ Upsert(w, p)
          \/ ApplyCommit(w)
          \/ \E a \in Approvals : CompensateRead(w, a)
          \/ CompensateCommit(w)
          \/ \E n \in DOMAIN invs, u \in Users : RevertRead(w, n, u)
          \/ RevertCommit(w)
          \/ Abort(w)

Spec == Init /\ [][Next]_vars

-----------------------------------------------------------------------------
TypeOK ==
    /\ \A n \in Actions : def[n] \in Definitions[n]
    /\ \A a \in Approvals :
          appr[a].status \in {"none", "pending", "approved", "rejected", "expired", "failed"}
    /\ Len(invs) <= MaxInvocations
    /\ \A n \in DOMAIN invs : invs[n].edits \in SUBSET Props /\ invs[n].prior \in [Props -> Ids]
    /\ overlay \in [Instances -> [Props -> Ids]]
    /\ \A w \in Workers : /\ job[w].edits \in SUBSET Props
                          /\ job[w].wrote \cup job[w].todo \subseteq job[w].edits

(* Whatever the interleaving of approvers, rejecters, the expiry sweep,    *)
(* compensations and aborted transactions, approvals follow the abstract   *)
(* lifecycle: decided once, applied exactly once if approved.              *)
Lifecycle == INSTANCE ApprovalLifecycle WITH
    status  <- [a \in Approvals |-> appr[a].status],
    applied <- [a \in Approvals |-> Cardinality({n \in DOMAIN invs : invs[n].appr = a})]
ImplementsLifecycle == Lifecycle!LifecycleSpec

(* The value captured for a later undo is the one that gets overwritten:   *)
(* between the capture of an existing row and the commit of the edit that  *)
(* replaces it, no other handler changes the row.                          *)
CapturedIsCurrent ==
    \A w \in Workers : job[w].pc = "tx" =>
        \A p \in job[w].edits \ job[w].todo :
            job[w].prior[p] # 0 => overlay[job[w].inst][p] = job[w].prior[p]

(* One handler at a time, on an object no compensation touched: every      *)
(* property shows the value of the last invocation that edited it and was  *)
(* not reverted, so a chain of reverts is an exact undo.                   *)
OverlayIsReplay ==
    \A i \in Instances, p \in Props :
        (\A a \in Approvals : appr[a].status = "failed" => appr[a].inst # i) =>
            overlay[i][p] = Max({0} \cup {n \in DOMAIN invs : /\ invs[n].inst = i
                                                              /\ p \in invs[n].edits
                                                              /\ ~invs[n].reverted})

(* Once an approval's saga was compensated, no property of any object      *)
(* shows a value that approval wrote, and later undos do not bring it      *)
(* back.  The properties deleted are those of the action's most recent     *)
(* invocation on the object: this is about approvals after which the       *)
(* action wrote no fewer properties there (an action_type redefined since, *)
(* or a function that returned others, leaves the rest in place).          *)
CompensatedEditIsGone ==
    \A k \in DOMAIN invs :
        LET a == invs[k].appr
            since == {m \in k .. Len(invs) : invs[m].action = invs[k].action /\ invs[m].inst = invs[k].inst}
        IN  a # None /\ appr[a].status = "failed" /\ (\A m \in since : invs[k].edits \subseteq invs[m].edits) =>
                \A i \in Instances, p \in Props : overlay[i][p] # k

(* Compensation deletes "the specific object_instance_edit rows this       *)
(* approval wrote", and no other's.                                        *)
CompensationDeletesOwnRows ==
    [][\A w \in Workers : CompensateCommit(w) =>
          \A i \in Instances, p \in Props :
              overlay[i][p] # 0 /\ overlay'[i][p] = 0
                  => invs[overlay[i][p]].appr = job[w].appr]_vars

=============================================================================
