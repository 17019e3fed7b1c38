-------------------------- MODULE ActionSubmission --------------------------
(***************************************************************************)
(* One declarative action that closes an instance, submitted alone or in a *)
(* batch: validated step by step, then applied at once or put up for       *)
(* approval.  The criterion of the action is that the instance is open.    *)
(* What happens to an approval is ActionEngine's; here it is granted.      *)
(***************************************************************************)
EXTENDS Naturals, Sequences, FiniteSets

CONSTANTS Callers, Instances, None,
          MaxRequests, MaxChanges, MaxFaults  \* bounds

(* an Action Type of low risk, one of high risk, one that writes the       *)
(* reason it was invoked with, and one whose edits a function computes     *)
ActionTypes == {"low", "high", "reason", "computed"}
(* the property takes the value, or its type refuses it; it is not         *)
(* editable; it takes the value and must have one                          *)
Rules == {"accepts", "type", "fixed", "required"}
(* the batches asked for: an instance alone, two, or one twice *)
Batches == UNION {[1..n -> Instances] : n \in 1..2}

VARIABLES actionType,  \* the registered Action Type
          rule,        \* what the property's rule says of the value
          active,      \* the function is a registered, active plugin
          stored,      \* the instances the serving store or the lake has
          overlay,     \* the instances closed by an edit
          request,     \* per caller, None or the request under way
          results,     \* the outcomes of each request so far
          invocations, \* action_invocation rows
          approvals,   \* action_approval rows
          contended,   \* ghost: instances validated while an earlier submission was undecided
          changes, faults

vars == <<actionType, rule, active, stored, overlay, request, results, invocations, approvals,
          contended, changes, faults>>
ontology == <<actionType, rule, active>>

(* what the edit was held against *)
Vetting == {"nothing", "editable", "value"}
Outcome == [ok : BOOLEAN, late : BOOLEAN]
RequestState == [n : Nat, batch : Batches, pc : {"type", "rules", "instance", "decide", "write", "tail"},
                 checked : ActionTypes \cup {None}, used : ActionTypes \cup {None},
                 accepted : BOOLEAN, vetted : Vetting]
ApprovalRow == [key : Nat \X Nat, instance : Instances, status : {"pending", "approved"}]
(* the key of an invocation that an approval led to has a third place *)
InvocationRow == [key : Seq(Nat), instance : Instances, checked : ActionTypes \cup {None},
                  used : ActionTypes \cup {None}, vetted : Vetting, reverted : BOOLEAN]

Init ==
  /\ actionType \in ActionTypes
  /\ rule \in Rules /\ active \in BOOLEAN
  /\ stored = Instances /\ overlay = {}
  /\ request = [c \in Callers |-> None]
  /\ results = <<>> /\ invocations = {} /\ approvals = {} /\ contended = {}
  /\ changes = 0 /\ faults = 0

(***************************************************************************)
(* What validation reads                                                   *)
(***************************************************************************)
At(c, pc) == request[c] # None /\ request[c].pc = pc
Keep(c, r) == request' = [request EXCEPT ![c] = r]
(* the place of the instance at hand in its batch *)
Item(r) == Len(results[r.n]) + 1
Instance(r) == r.batch[Item(r)]
Key(r) == <<r.n, Item(r)>>

(* _get_unmasked_instance: the stored row under its edits *)
Seen(i) == IF i \in overlay THEN "closed" ELSE "open"
Criteria(i) == Seen(i) = "open"

(* a submission of i that passed validation and is neither applied nor dropped *)
Undecided(i) ==
  \/ \E c \in Callers : request[c] # None /\ request[c].pc \in {"decide", "write"} /\ Instance(request[c]) = i
  \/ \E a \in approvals : a.instance = i /\ a.status = "pending"

(***************************************************************************)
(* A request                                                               *)
(***************************************************************************)
Request(n, batch) ==
  [n |-> n, batch |-> batch, pc |-> "type", checked |-> None, used |-> None,
   accepted |-> FALSE, vetted |-> "nothing"]

Submit(c, batch) ==
  /\ request[c] = None /\ Len(results) < MaxRequests
  /\ results' = Append(results, <<>>)
  /\ Keep(c, Request(Len(results) + 1, batch))
  /\ UNCHANGED <<ontology, stored, overlay, invocations, approvals, contended, changes, faults>>

(* the loop of the batch: an instance's failure is its own *)
Answer(c, ok, late) ==
  LET r == request[c] IN
  /\ results' = [results EXCEPT ![r.n] = Append(@, [ok |-> ok, late |-> late])]
  /\ Keep(c, IF Item(r) = Len(r.batch) THEN None ELSE Request(r.n, r.batch))

ReadType(c) ==
  /\ At(c, "type")
  /\ Keep(c, [request[c] EXCEPT !.pc = "rules", !.checked = actionType])
  /\ UNCHANGED <<ontology, stored, overlay, results, invocations, approvals, contended, changes, faults>>

(* an edit from the reason is validated as null: it passes a type that     *)
(* would refuse it, and fails where a value is required                    *)
Permits(t) == rule \in IF t = "reason" THEN {"accepts", "type"} ELSE {"accepts", "required"}
Passes(t) == t = "computed" \/ Permits(t)
HeldAgainst(t) ==
  IF t = "computed" \/ ~Permits(t) THEN "nothing" ELSE IF t = "reason" THEN "editable" ELSE "value"

(* mutant: an edit of a property that is not editable leaves no message *)
ReadRules_NoMessage(c) ==
  /\ At(c, "rules")
  /\ Keep(c, [request[c] EXCEPT !.pc = "instance", !.vetted = HeldAgainst(request[c].checked),
                                !.accepted = TRUE])
  /\ UNCHANGED <<ontology, stored, overlay, results, invocations, approvals, contended, changes, faults>>
(* static edits are held against the rules here, computed ones are not known yet *)
ReadRules(c) ==
  /\ At(c, "rules")
  /\ Keep(c, [request[c] EXCEPT !.pc = "instance", !.vetted = HeldAgainst(request[c].checked),
                                !.accepted = Passes(request[c].checked)])
  /\ UNCHANGED <<ontology, stored, overlay, results, invocations, approvals, contended, changes, faults>>

(* the instance last, with the criteria; one message makes the report invalid *)
ReadInstance(c) ==
  /\ At(c, "instance")
  /\ LET r == request[c]
         i == Instance(r) IN
     IF i \in stored /\ Criteria(i) /\ r.accepted
     THEN /\ Keep(c, [r EXCEPT !.pc = "decide"])
          /\ contended' = IF Undecided(i) THEN contended \cup {i} ELSE contended
          /\ UNCHANGED results
     ELSE Answer(c, FALSE, FALSE) /\ UNCHANGED contended
  /\ UNCHANGED <<ontology, stored, overlay, invocations, approvals, changes, faults>>

RequestApproval(c) ==
  /\ At(c, "decide") /\ request[c].checked = "high"
  /\ approvals' = approvals \cup {[key |-> Key(request[c]), instance |-> Instance(request[c]), status |-> "pending"]}
  /\ Answer(c, TRUE, FALSE)
  /\ UNCHANGED <<ontology, stored, overlay, invocations, contended, changes, faults>>

(* _resolve_function_backed_edits refuses what validation could not see *)
FunctionAnswers(i) == active /\ i \in stored /\ Permits("computed")
Resolvable(i) == actionType = "computed" => FunctionAnswers(i)

(* _apply_now reads the definition again *)
ResolveEdits(c) ==
  /\ At(c, "decide") /\ request[c].checked # "high"
  /\ IF Resolvable(Instance(request[c]))
     THEN /\ Keep(c, [request[c] EXCEPT !.pc = "write", !.used = actionType,
                                        !.vetted = IF actionType = "computed" THEN "value" ELSE @])
          /\ UNCHANGED results
     ELSE Answer(c, FALSE, FALSE)
  /\ UNCHANGED <<ontology, stored, overlay, invocations, approvals, contended, changes, faults>>

Invocation(key, i, checked, used, vetted) ==
  [key |-> key, instance |-> i, checked |-> checked, used |-> used, vetted |-> vetted,
   reverted |-> FALSE]

Write(c) ==
  /\ At(c, "write")
  /\ LET r == request[c]
         i == Instance(r) IN
     /\ overlay' = overlay \cup {i}
     /\ invocations' = invocations \cup {Invocation(Key(r), i, r.checked, r.used, r.vetted)}
     /\ Keep(c, [r EXCEPT !.pc = "tail"])
  /\ UNCHANGED <<ontology, stored, results, approvals, contended, changes, faults>>

(* the side effect and the notification, after the commit *)
Conclude(c) ==
  /\ At(c, "tail")
  /\ Answer(c, TRUE, FALSE)
  /\ UNCHANGED <<ontology, stored, overlay, invocations, approvals, contended, changes, faults>>

(* the database fails; _invoke_function_side_effect reads the definition    *)
(* outside its try, so that after the commit this still fails the item      *)
Fails(c) ==
  /\ request[c] # None /\ faults < MaxFaults
  /\ Answer(c, FALSE, At(c, "tail"))
  /\ faults' = faults + 1
  /\ UNCHANGED <<ontology, stored, overlay, invocations, approvals, contended, changes>>

(* approve_action: the definition of now, and no second validation *)
Approve(a) ==
  /\ a \in approvals /\ a.status = "pending"
  /\ Resolvable(a.instance)
  /\ approvals' = (approvals \ {a}) \cup {[a EXCEPT !.status = "approved"]}
  /\ overlay' = overlay \cup {a.instance}
  /\ invocations' = invocations \cup
       {Invocation(Append(a.key, 0), a.instance, "high", actionType, "value")}
  /\ UNCHANGED <<ontology, stored, request, results, contended, changes, faults>>

(* revert_declarative_action: the instance is open again when no other     *)
(* edit is left; ActionEngine has what an undo restores                    *)
Revert(v) ==
  /\ v \in invocations /\ ~v.reverted
  /\ changes < MaxChanges /\ changes' = changes + 1
  /\ invocations' = (invocations \ {v}) \cup {[v EXCEPT !.reverted = TRUE]}
  /\ overlay' = IF \E w \in invocations \ {v} : w.instance = v.instance /\ ~w.reverted
                THEN overlay ELSE overlay \ {v.instance}
  /\ UNCHANGED <<ontology, stored, request, results, approvals, contended, faults>>

(* elsewhere the type, its rules, the plugin and the instances change *)
Change ==
  /\ changes < MaxChanges /\ changes' = changes + 1
  /\ \/ \E t \in ActionTypes \ {actionType} : actionType' = t /\ UNCHANGED <<rule, active, stored>>
     \/ \E r \in Rules \ {rule} : rule' = r /\ UNCHANGED <<actionType, active, stored>>
     \/ active' = ~active /\ UNCHANGED <<actionType, rule, stored>>
     \/ \E i \in stored : stored' = stored \ {i} /\ UNCHANGED ontology
  /\ UNCHANGED <<overlay, request, results, invocations, approvals, contended, faults>>

Next ==
  \/ \E c \in Callers :
       \/ \E batch \in Batches : Submit(c, batch)
       \/ ReadType(c) \/ ReadRules(c) \/ ReadInstance(c) \/ RequestApproval(c)
       \/ ResolveEdits(c) \/ Write(c) \/ Conclude(c) \/ Fails(c)
  \/ \E a \in approvals : Approve(a)
  \/ \E v \in invocations : Revert(v)
  \/ Change

Spec == Init /\ [][Next]_vars
-----------------------------------------------------------------------------
(* The criterion keeps an action that falsifies it from being applied twice *)
(* to one instance, whatever the batch or the callers, before the first was *)
(* reverted, unless a submission was validated while another that had       *)
(* passed was still undecided: nothing looks at the criterion again when    *)
(* the edit is written or the approval granted.                             *)
AppliedOnce ==
  \A v, w \in invocations :
    v # w /\ v.instance = w.instance /\ ~v.reverted /\ ~w.reverted => v.instance \in contended

(* An edit that is written was held against the property's rules, by the    *)
(* validation when the edits are static and by _resolve_function_backed_    *)
(* edits when they are computed, unless the type changed in between.  Of a  *)
(* reason that is written only the property was checked, not the value.     *)
EditsVetted ==
  \A v \in invocations :
    v.checked = v.used => v.vetted = IF v.used = "reason" THEN "editable" ELSE "value"

(* invoke_action_batch reports an outcome per instance: an accepted one has *)
(* one invocation or approval of its own, a failed one has none, unless the *)
(* failure came after the commit.                                           *)
BatchAccounted ==
  \A n \in 1..Len(results) : \A k \in 1..Len(results[n]) :
    LET left == {v \in invocations : v.key = <<n, k>>} \cup {a \in approvals : a.key = <<n, k>>}
    IN Cardinality(left) = IF results[n][k].ok \/ results[n][k].late THEN 1 ELSE 0

(* What is submitted is applied once, vetted and accounted for.             *)
SubmissionsSound == AppliedOnce /\ EditsVetted /\ BatchAccounted
=============================================================================
