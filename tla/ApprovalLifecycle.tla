------------------------- MODULE ApprovalLifecycle -------------------------
(***************************************************************************)
(* What Knowledge promises about an approval (action_approval.status):     *)
(* a request is decided once, its edits are applied once if and only if it *)
(* was approved, and only an approved one can later be compensated.        *)
(* ActionEngine implements this specification; ActionSaga builds on it.    *)
(***************************************************************************)
EXTENDS Naturals

CONSTANT Approvals

VARIABLES
    status,   \* action_approval.status; "none" before the row exists
    applied   \* how many times the request's edits were applied

lifecycleVars == <<status, applied>>

Statuses == {"none", "pending", "approved", "rejected", "expired", "failed"}

LifecycleInit ==
    /\ status = [a \in Approvals |-> "none"]
    /\ applied = [a \in Approvals |-> 0]

Request(a) ==
    /\ status[a] = "none"
    /\ status' = [status EXCEPT ![a] = "pending"]
    /\ UNCHANGED applied

Approve(a) ==
    /\ status[a] = "pending"
    /\ status' = [status EXCEPT ![a] = "approved"]
    /\ applied' = [applied EXCEPT ![a] = @ + 1]

Reject(a) ==
    /\ status[a] = "pending"
    /\ status' = [status EXCEPT ![a] = "rejected"]
    /\ UNCHANGED applied

(* One sweep expires every overdue request it finds.                       *)
Expire(overdue) ==
    /\ \A a \in overdue : status[a] = "pending"
    /\ status' = [a \in Approvals |-> IF a \in overdue THEN "expired" ELSE status[a]]
    /\ UNCHANGED applied

Compensate(a) ==
    /\ status[a] = "approved"
    /\ status' = [status EXCEPT ![a] = "failed"]
    /\ UNCHANGED applied

LifecycleNext ==
    \/ \E a \in Approvals : Request(a) \/ Approve(a) \/ Reject(a) \/ Compensate(a)
    \/ \E overdue \in SUBSET Approvals : Expire(overdue)

LifecycleSpec == LifecycleInit /\ [][LifecycleNext]_lifecycleVars

LifecycleTypeOK ==
    /\ status \in [Approvals -> Statuses]
    /\ applied \in [Approvals -> Nat]

(* A request's edits have been applied exactly once when it was approved,  *)
(* whether or not the saga later failed, and never otherwise.              *)
AppliedOnce ==
    \A a \in Approvals :
        applied[a] = IF status[a] \in {"approved", "failed"} THEN 1 ELSE 0
=============================================================================
