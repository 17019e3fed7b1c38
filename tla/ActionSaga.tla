----------------------------- MODULE ActionSaga -----------------------------
(***************************************************************************)
(* The writeback saga across four services: Knowledge applies an approved  *)
(* action and announces it, the bus delivers the event at least once,      *)
(* Automation's workflow engine (services/automation/app/workflow.py)      *)
(* writes to the source system through Connectivity, and calls Knowledge   *)
(* back to compensate when that fails.                                     *)
(*                                                                         *)
(* Knowledge is the abstract ApprovalLifecycle, which ActionEngine         *)
(* implements.  The outbox is reduced to what EventBusProofs proves of it: *)
(* only committed events, each at least once.  Every approval here is one  *)
(* of an action with a writeback_dataset.                                  *)
(***************************************************************************)
EXTENDS ApprovalLifecycle, Sequences, FiniteSets

CONSTANTS
    MaxCopies,    \* bound: records of one event on the topic
    MaxRestarts,  \* bound: restarts of the consumer
    Faults        \* which calls may go wrong

FaultKinds ==
    {"fetch",        \* reading the action's definition from Knowledge
     "definition",   \* it answers, and the action has no writeback any more
     "write",        \* the write is refused, unreachable, or the breaker is open
     "timeout",      \* the write times out, and may still take effect
     "callback",     \* the compensation callback does not reach Knowledge
     "late",         \* it times out, and may still take effect
     "database",     \* a statement of Automation's own database
     "commit"}       \* the offset commit

ASSUME SagaAssumption ==
    /\ MaxCopies \in Nat \ {0}
    /\ MaxRestarts \in Nat
    /\ Faults \subseteq FaultKinds

VARIABLES
    log,         \* the topic: the approvals named by its invoked events
    position,    \* records handed to the engine
    committed,   \* the group's committed offset
    pc,          \* where the engine is with the record in hand
    execs,       \* workflow_execution rows, with the completion event
    written,     \* approvals whose edits reached the source system
    late,        \* calls given up by the engine and still in progress
    restarts     \* restarts so far

engineVars == <<log, position, committed, pc, execs, written, late, restarts>>
vars == <<lifecycleVars, engineVars>>

Init ==
    /\ LifecycleInit
    /\ log = <<>>
    /\ position = 0
    /\ committed = 0
    /\ pc = "poll"
    /\ execs = <<>>
    /\ written = {}
    /\ late = {}
    /\ restarts = 0

Cur == log[position]

-----------------------------------------------------------------------------
(* Knowledge decides; its outbox relays the event of an approved request.  *)
Decide ==
    /\ \/ \E a \in Approvals : Request(a) \/ Approve(a) \/ Reject(a)
       \/ \E overdue \in SUBSET Approvals \ {{}} : Expire(overdue)
    /\ UNCHANGED engineVars

(* The event enqueued with the request, not with its approval.             *)
Relay_OnRequest(a) ==
    /\ status[a] # "none"
    /\ Cardinality({o \in DOMAIN log : log[o] = a}) < MaxCopies
    /\ log' = Append(log, a)
    /\ UNCHANGED <<lifecycleVars, position, committed, pc, execs, written, late, restarts>>

Relay(a) ==
    /\ applied[a] > 0
    /\ Cardinality({o \in DOMAIN log : log[o] = a}) < MaxCopies
    /\ log' = Append(log, a)
    /\ UNCHANGED <<lifecycleVars, position, committed, pc, execs, written, late, restarts>>

-----------------------------------------------------------------------------
(* The workflow engine.                                                    *)

Goto(next) == pc' = next

(* The next record of the topic.                                           *)
Take ==
    /\ pc = "poll" /\ position < Len(log)
    /\ position' = position + 1
    /\ Goto("fetch")
    /\ UNCHANGED <<lifecycleVars, log, committed, execs, written, late, restarts>>

(* _fetch_writeback_dataset.  An error is logged and skipped; an action    *)
(* without a writeback is passed over without a commit.                    *)
Fetch ==
    /\ pc = "fetch"
    /\ \/ Goto("insert")
       \/ "fetch" \in Faults /\ Goto("commit")
       \/ "definition" \in Faults /\ Goto("poll")
    /\ UNCHANGED <<lifecycleVars, log, position, committed, execs, written, late, restarts>>

(* INSERT INTO workflow_execution: a new row for every delivery.           *)
Insert ==
    /\ pc = "insert"
    /\ execs' = Append(execs, [appr |-> Cur, status |-> "running", event |-> FALSE])
    /\ Goto("call")
    /\ UNCHANGED <<lifecycleVars, log, position, committed, written, late, restarts>>

(* A timeout taken for success: the request was sent, after all.           *)
WriteSource_Optimistic ==
    /\ pc = "call"
    /\ \/ written' = written \cup {Cur} /\ Goto("complete") /\ UNCHANGED late
       \/ "write" \in Faults /\ Goto("fail") /\ UNCHANGED <<written, late>>
       \/ /\ "timeout" \in Faults /\ Goto("complete") /\ UNCHANGED written
          /\ late' = late \cup {[call |-> "write", appr |-> Cur]}
    /\ UNCHANGED <<lifecycleVars, log, position, committed, execs, restarts>>

(* _notify_generic_write_target through the circuit breaker, and           *)
(* Connectivity's UPDATE of the source row.                                *)
WriteSource ==
    /\ pc = "call"
    /\ \/ written' = written \cup {Cur} /\ Goto("complete") /\ UNCHANGED late
       \/ "write" \in Faults /\ Goto("fail") /\ UNCHANGED <<written, late>>
       \/ /\ "timeout" \in Faults /\ Goto("fail") /\ UNCHANGED written
          /\ late' = late \cup {[call |-> "write", appr |-> Cur]}
    /\ UNCHANGED <<lifecycleVars, log, position, committed, execs, restarts>>

(* UPDATE workflow_execution SET status = ...                              *)
SetStatus(s) == execs' = [execs EXCEPT ![Len(execs)].status = s]

(* The callback before the failure is recorded.                            *)
MarkCompensated_Unrecorded ==
    /\ pc = "fail"
    /\ Goto("callback")
    /\ UNCHANGED <<lifecycleVars, log, position, committed, execs, written, late, restarts>>

MarkCompensated ==
    /\ pc = "fail"
    /\ SetStatus("compensated")
    /\ Goto("callback")
    /\ UNCHANGED <<lifecycleVars, log, position, committed, written, late, restarts>>

(* _request_compensation and compensate_from_workflow_engine; Knowledge    *)
(* answers 409 when the approval is not approved.  Whatever goes wrong is  *)
(* logged, and the event is done with.                                     *)
Callback ==
    /\ pc = "callback"
    /\ \/ Compensate(Cur) /\ UNCHANGED late
       \/ /\ status[Cur] # "approved" \/ "callback" \in Faults
          /\ UNCHANGED <<lifecycleVars, late>>
       \/ /\ "late" \in Faults /\ UNCHANGED lifecycleVars
          /\ late' = late \cup {[call |-> "compensate", appr |-> Cur]}
    /\ Goto("commit")
    /\ UNCHANGED <<log, position, committed, execs, written, restarts>>

MarkCompleted ==
    /\ pc = "complete"
    /\ SetStatus("completed")
    /\ Goto("announce")
    /\ UNCHANGED <<lifecycleVars, log, position, committed, written, late, restarts>>

(* outbox.enqueue of automation.workflow.completed, in a transaction of    *)
(* its own.                                                                *)
Announce ==
    /\ pc = "announce"
    /\ execs' = [execs EXCEPT ![Len(execs)].event = TRUE]
    /\ Goto("commit")
    /\ UNCHANGED <<lifecycleVars, log, position, committed, written, late, restarts>>

(* Any other exception is logged, and the event is done with.              *)
DatabaseFails ==
    /\ "database" \in Faults
    /\ pc \in {"insert", "fail", "complete", "announce"}
    /\ Goto("commit")
    /\ UNCHANGED <<lifecycleVars, log, position, committed, execs, written, late, restarts>>

(* The offset after the next record, instead of after this one.            *)
Commit_OffByOne ==
    /\ pc = "commit"
    /\ committed' = position + 1
    /\ Goto("poll")
    /\ UNCHANGED <<lifecycleVars, log, position, execs, written, late, restarts>>

(* EventConsumer.commit: the consumer's position.                          *)
Commit ==
    /\ pc = "commit"
    /\ committed' = position
    /\ Goto("poll")
    /\ UNCHANGED <<lifecycleVars, log, position, execs, written, late, restarts>>

(* A commit error is outside the try block: it ends the consumer task.     *)
CommitFails ==
    /\ pc = "commit" /\ "commit" \in Faults
    /\ Goto("dead")
    /\ UNCHANGED <<lifecycleVars, log, position, committed, execs, written, late, restarts>>

(* The process restarts and resumes at the committed offset.               *)
Restart ==
    /\ restarts < MaxRestarts
    /\ restarts' = restarts + 1
    /\ position' = committed
    /\ Goto("poll")
    /\ UNCHANGED <<lifecycleVars, log, committed, execs, written, late>>

(* A call the engine stopped waiting for takes effect after all, or not.   *)
LateEffect(c) ==
    /\ c \in late
    /\ late' = late \ {c}
    /\ \/ UNCHANGED <<lifecycleVars, written>>
       \/ c.call = "write" /\ written' = written \cup {c.appr} /\ UNCHANGED lifecycleVars
       \/ c.call = "compensate" /\ Compensate(c.appr) /\ UNCHANGED written
    /\ UNCHANGED <<log, position, committed, pc, execs, restarts>>

Engine ==
    \/ Take \/ Fetch \/ Insert \/ WriteSource \/ MarkCompensated \/ Callback
    \/ MarkCompleted \/ Announce \/ DatabaseFails \/ Commit \/ CommitFails

Next == Decide \/ (\E a \in Approvals : Relay(a)) \/ Engine \/ Restart
        \/ \E c \in late : LateEffect(c)

Spec == Init /\ [][Next]_vars

(* The engine's loop never idles with work in hand, and Knowledge's outbox *)
(* delivers (Outbox!EventuallyRelayed).                                    *)
FairSpec ==
    /\ Spec
    /\ WF_vars(Engine)
    /\ \A a \in Approvals : WF_vars(Relay(a) /\ \A o \in DOMAIN log : log[o] # a)

-----------------------------------------------------------------------------
Execs(a, s) == {e \in DOMAIN execs : execs[e].appr = a /\ execs[e].status = s}

TypeOK ==
    /\ LifecycleTypeOK
    /\ log \in Seq(Approvals)
    /\ position \in 0..Len(log)
    /\ committed \in 0..position
    /\ pc \in {"poll", "fetch", "insert", "call", "complete", "announce", "fail",
               "callback", "commit", "dead"}
    /\ execs \in Seq([appr : Approvals, event : BOOLEAN,
                      status : {"running", "completed", "compensated"}])
    /\ written \subseteq Approvals
    /\ late \subseteq [call : {"write", "compensate"}, appr : Approvals]
    /\ restarts \in 0..MaxRestarts

(* The source system is only ever written for a request that was approved, *)
(* whatever is redelivered, times out or crashes.                          *)
NoWriteWithoutApproval == \A a \in written : applied[a] = 1

(* An execution is marked completed only once the source has the edits,    *)
(* and completion is announced only for a completed execution.             *)
CompletedIsWritten ==
    \A e \in DOMAIN execs :
        /\ execs[e].status = "completed" => execs[e].appr \in written
        /\ execs[e].event => execs[e].status = "completed"

(* Knowledge undoes an approved action only when some execution of its     *)
(* workflow recorded the failure.                                          *)
FailedIsRecorded ==
    \A a \in Approvals : status[a] = "failed" => Execs(a, "compensated") # {}

=============================================================================
