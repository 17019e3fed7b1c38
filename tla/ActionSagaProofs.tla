-------------------------- MODULE ActionSagaProofs --------------------------
(***************************************************************************)
(* The safety of the writeback saga, for any set of approvals, any subset  *)
(* of the faults, and any number of redeliveries and restarts.             *)
(***************************************************************************)
EXTENDS ActionSaga, TLAPS

-----------------------------------------------------------------------------
(* The lifecycle the saga builds on, for any set of approvals.             *)

(* A step of the lifecycle keeps the count of applications right, takes    *)
(* back no application, and fails only what was approved.                  *)
LEMMA LifecycleStep ==
    ASSUME LifecycleTypeOK, AppliedOnce, [LifecycleNext]_lifecycleVars
    PROVE  /\ LifecycleTypeOK' /\ AppliedOnce'
           /\ \A a \in Approvals : applied[a] = 1 => applied'[a] = 1
           /\ \A a \in Approvals : status'[a] = "failed" =>
                 status[a] = "failed" \/ Compensate(a)
<1> USE DEF LifecycleTypeOK, AppliedOnce, Statuses
<1>1. ASSUME NEW a \in Approvals, Request(a) \/ Reject(a)
      PROVE  /\ LifecycleTypeOK' /\ AppliedOnce' /\ applied' = applied
             /\ \A b \in Approvals : status'[b] = "failed" => status[b] = "failed"
  BY <1>1 DEF Request, Reject
<1>2. ASSUME NEW a \in Approvals, Approve(a)
      PROVE  /\ LifecycleTypeOK' /\ AppliedOnce'
             /\ \A b \in Approvals : applied[b] = 1 => applied'[b] = 1
             /\ \A b \in Approvals : status'[b] = "failed" => status[b] = "failed"
  BY <1>2 DEF Approve
<1>3. ASSUME NEW a \in Approvals, Compensate(a)
      PROVE  /\ LifecycleTypeOK' /\ AppliedOnce' /\ applied' = applied
             /\ \A b \in Approvals : status'[b] = "failed" => status[b] = "failed" \/ b = a
  BY <1>3 DEF Compensate
<1>4. ASSUME NEW overdue \in SUBSET Approvals, Expire(overdue)
      PROVE  /\ LifecycleTypeOK' /\ AppliedOnce' /\ applied' = applied
             /\ \A b \in Approvals : status'[b] = "failed" => status[b] = "failed"
  BY <1>4 DEF Expire
<1>5. CASE UNCHANGED lifecycleVars
  BY <1>5 DEF lifecycleVars
<1> QED
  BY <1>1, <1>2, <1>3, <1>4, <1>5 DEF LifecycleNext

(* Whatever the order of decisions, sweeps and compensations, the edits of *)
(* a request are applied exactly once if it was approved, and never        *)
(* otherwise (approve_action's effect on action_invocation).               *)
THEOREM LifecycleAppliedOnce == LifecycleSpec => []AppliedOnce
<1>1. LifecycleInit => LifecycleTypeOK /\ AppliedOnce
  BY DEF LifecycleInit, LifecycleTypeOK, AppliedOnce, Statuses
<1>2. LifecycleTypeOK /\ AppliedOnce /\ [LifecycleNext]_lifecycleVars
      => LifecycleTypeOK' /\ AppliedOnce'
  BY LifecycleStep
<1> QED
  BY <1>1, <1>2, PTL DEF LifecycleSpec

-----------------------------------------------------------------------------
(* The saga                                                                *)

Exec == [appr : Approvals, event : BOOLEAN,
         status : {"running", "completed", "compensated"}]

(* Only events of applied requests are on the topic, and the engine always *)
(* has a record in hand outside its poll.                                  *)
RecordInHand ==
    /\ \A o \in DOMAIN log : applied[log[o]] = 1
    /\ pc \notin {"poll", "dead"} => position > 0

(* The execution row the engine is working on: its last one.               *)
ExecInHand ==
    /\ pc \in {"call", "complete", "announce", "fail"} =>
          execs # <<>> /\ execs[Len(execs)].appr = Cur
    /\ pc \in {"call", "complete", "fail"} =>
          execs[Len(execs)].status = "running" /\ ~execs[Len(execs)].event
    /\ pc = "announce" => execs[Len(execs)].status = "completed"
    /\ pc = "complete" => Cur \in written
    /\ pc = "callback" => Execs(Cur, "compensated") # {}

(* A call still in progress was made for an applied request, and a late    *)
(* compensation for one whose failure is recorded.                         *)
LateCalls ==
    \A c \in late : /\ applied[c.appr] = 1
                    /\ c.call = "compensate" => Execs(c.appr, "compensated") # {}

SagaInv ==
    /\ TypeOK
    /\ AppliedOnce
    /\ RecordInHand
    /\ ExecInHand
    /\ LateCalls
    /\ NoWriteWithoutApproval
    /\ CompletedIsWritten
    /\ FailedIsRecorded

(* What a statement on the last execution row leaves alone.                *)
LEMMA UpdateLast ==
    ASSUME execs \in Seq(Exec), execs # <<>>, NEW row \in Exec,
           execs' = [execs EXCEPT ![Len(execs)] = row]
    PROVE  /\ execs' \in Seq(Exec) /\ Len(execs') = Len(execs)
           /\ DOMAIN execs' = DOMAIN execs /\ Len(execs) \in DOMAIN execs
           /\ execs'[Len(execs)] = row
           /\ \A e \in DOMAIN execs : e # Len(execs) => execs'[e] = execs[e]
  OBVIOUS

(* The engine's first state.                                               *)
LEMMA InitSagaInv == Init => SagaInv
<1> SUFFICES ASSUME Init PROVE SagaInv
  OBVIOUS
<1>1. TypeOK
  BY SagaAssumption DEF Init, LifecycleInit, TypeOK, LifecycleTypeOK, Statuses
<1>2. AppliedOnce /\ RecordInHand /\ ExecInHand /\ LateCalls
  BY DEF Init, LifecycleInit, AppliedOnce, RecordInHand, ExecInHand, LateCalls
<1>3. NoWriteWithoutApproval /\ CompletedIsWritten /\ FailedIsRecorded
  BY DEF Init, LifecycleInit, NoWriteWithoutApproval, CompletedIsWritten, FailedIsRecorded
<1> QED
  BY <1>1, <1>2, <1>3 DEF SagaInv

(* Every step of Knowledge, of the engine and of the calls it gave up on   *)
(* keeps the invariant.                                                    *)
LEMMA StepSagaInv == SagaInv /\ [Next]_vars => SagaInv'
<1> SUFFICES ASSUME SagaInv, [Next]_vars PROVE SagaInv'
  OBVIOUS
<1> USE DEF SagaInv
<1>a. /\ log \in Seq(Approvals) /\ execs \in Seq(Exec)
      /\ position \in Nat /\ committed \in Nat /\ Len(execs) \in Nat /\ Len(log) \in Nat
  BY DEF TypeOK, Exec
<1>b. pc \notin {"poll", "dead"} => position \in DOMAIN log /\ Cur \in Approvals /\ applied[Cur] = 1
  BY <1>a DEF RecordInHand, TypeOK, Cur
<1>1. CASE Decide
  <2>1. /\ [LifecycleNext]_lifecycleVars /\ UNCHANGED engineVars
        /\ \A a \in Approvals : status'[a] = "failed" => status[a] = "failed"
    <3>1. ASSUME NEW a \in Approvals, Request(a) \/ Approve(a) \/ Reject(a)
          PROVE  LifecycleNext /\ \A b \in Approvals : status'[b] = "failed" => status[b] = "failed"
      BY <3>1 DEF LifecycleNext, Request, Approve, Reject, TypeOK, LifecycleTypeOK
    <3>2. ASSUME NEW overdue \in SUBSET Approvals \ {{}}, Expire(overdue)
          PROVE  LifecycleNext /\ \A b \in Approvals : status'[b] = "failed" => status[b] = "failed"
      BY <3>2 DEF LifecycleNext, Expire, TypeOK, LifecycleTypeOK
    <3> QED
      BY <1>1, <3>1, <3>2 DEF Decide
  <2>2. /\ LifecycleTypeOK' /\ AppliedOnce'
        /\ \A a \in Approvals : applied[a] = 1 => applied'[a] = 1
    BY <2>1, LifecycleStep DEF TypeOK
  <2>3. TypeOK'
    BY <2>1, <2>2 DEF TypeOK, engineVars
  <2>4. RecordInHand'
    BY <1>a, <2>1, <2>2 DEF RecordInHand, engineVars
  <2>5. ExecInHand' /\ CompletedIsWritten'
    BY <2>1 DEF ExecInHand, CompletedIsWritten, engineVars, Cur, Execs
  <2>6. LateCalls'
    BY <2>1, <2>2 DEF LateCalls, engineVars, Execs, TypeOK
  <2>7. NoWriteWithoutApproval'
    BY <2>1, <2>2 DEF NoWriteWithoutApproval, engineVars, TypeOK
  <2>8. FailedIsRecorded'
    BY <2>1 DEF FailedIsRecorded, engineVars, Execs
  <2> QED
    BY <2>2, <2>3, <2>4, <2>5, <2>6, <2>7, <2>8
<1>2. ASSUME NEW a \in Approvals, Relay(a) PROVE SagaInv'
  <2> USE <1>2 DEF Relay, lifecycleVars
  <2>1. /\ log' \in Seq(Approvals) /\ Len(log') = Len(log) + 1
        /\ \A o \in DOMAIN log : log'[o] = log[o]
        /\ log'[Len(log) + 1] = a /\ DOMAIN log' = DOMAIN log \cup {Len(log) + 1}
    BY <1>a
  <2>2. TypeOK'
    BY <2>1 DEF TypeOK, LifecycleTypeOK
  <2>3. applied[a] = 1
    BY DEF AppliedOnce
  <2>4. RecordInHand'
    BY <2>1, <2>3 DEF RecordInHand
  <2>5. pc \notin {"poll", "dead"} => Cur' = Cur
    BY <1>b, <2>1 DEF Cur
  <2>6. ExecInHand'
    BY <2>5 DEF ExecInHand, Execs
  <2>7. AppliedOnce' /\ LateCalls' /\ NoWriteWithoutApproval' /\ CompletedIsWritten'
        /\ FailedIsRecorded'
    BY DEF AppliedOnce, LateCalls, NoWriteWithoutApproval, CompletedIsWritten,
           FailedIsRecorded, Execs
  <2> QED
    BY <2>2, <2>4, <2>6, <2>7
<1>3. CASE Take
  <2> USE <1>3 DEF Take, Goto, lifecycleVars
  <2>1. TypeOK'
    BY <1>a DEF TypeOK, LifecycleTypeOK
  <2>2. RecordInHand' /\ ExecInHand'
    BY <1>a DEF RecordInHand, ExecInHand
  <2>3. AppliedOnce' /\ LateCalls' /\ NoWriteWithoutApproval' /\ CompletedIsWritten'
        /\ FailedIsRecorded'
    BY DEF AppliedOnce, LateCalls, NoWriteWithoutApproval, CompletedIsWritten,
           FailedIsRecorded, Execs
  <2> QED
    BY <2>1, <2>2, <2>3
<1>4. CASE Fetch \/ DatabaseFails \/ Commit \/ CommitFails \/ Restart
  <2> USE <1>4 DEF Fetch, DatabaseFails, Commit, CommitFails, Restart, Goto, lifecycleVars
  <2>1. TypeOK'
    BY <1>a, SagaAssumption DEF TypeOK, LifecycleTypeOK
  <2>2. RecordInHand' /\ ExecInHand'
    BY <1>a DEF RecordInHand, ExecInHand
  <2>3. AppliedOnce' /\ LateCalls' /\ NoWriteWithoutApproval' /\ CompletedIsWritten'
        /\ FailedIsRecorded'
    BY DEF AppliedOnce, LateCalls, NoWriteWithoutApproval, CompletedIsWritten,
           FailedIsRecorded, Execs
  <2> QED
    BY <2>1, <2>2, <2>3
<1>5. CASE Insert
  <2> USE <1>5 DEF Insert, Goto, lifecycleVars
  <2> DEFINE row == [appr |-> Cur, status |-> "running", event |-> FALSE]
  <2>1. row \in Exec
    BY <1>b DEF Exec
  <2>2. /\ execs' \in Seq(Exec) /\ Len(execs') = Len(execs) + 1
        /\ \A e \in DOMAIN execs : execs'[e] = execs[e]
        /\ execs'[Len(execs) + 1] = row /\ DOMAIN execs' = DOMAIN execs \cup {Len(execs) + 1}
    BY <1>a, <2>1
  <2>3. TypeOK'
    BY <2>2 DEF TypeOK, LifecycleTypeOK, Exec
  <2>4. RecordInHand' /\ ExecInHand'
    BY <2>2, <1>a DEF RecordInHand, ExecInHand, Cur
  <2>5. \A a \in Approvals : Execs(a, "compensated") # {} => Execs(a, "compensated")' # {}
    BY <2>2 DEF Execs
  <2>6. LateCalls' /\ FailedIsRecorded'
    BY <2>5 DEF LateCalls, FailedIsRecorded, TypeOK
  <2>7. AppliedOnce' /\ NoWriteWithoutApproval' /\ CompletedIsWritten'
    BY <2>2 DEF AppliedOnce, NoWriteWithoutApproval, CompletedIsWritten
  <2> QED
    BY <2>3, <2>4, <2>6, <2>7
<1>6. CASE WriteSource
  <2> USE <1>6 DEF WriteSource, Goto, lifecycleVars
  <2>1. TypeOK'
    BY <1>b DEF TypeOK, LifecycleTypeOK
  <2>2. RecordInHand' /\ ExecInHand'
    BY DEF RecordInHand, ExecInHand, Cur
  <2>3. LateCalls' /\ NoWriteWithoutApproval'
    BY <1>b DEF LateCalls, NoWriteWithoutApproval, Execs
  <2>4. AppliedOnce' /\ CompletedIsWritten' /\ FailedIsRecorded'
    BY DEF AppliedOnce, CompletedIsWritten, FailedIsRecorded, Execs
  <2> QED
    BY <2>1, <2>2, <2>3, <2>4
<1>7. CASE MarkCompensated \/ MarkCompleted \/ Announce
  <2> DEFINE n == Len(execs)
  <2> DEFINE row == IF Announce THEN [execs[n] EXCEPT !.event = TRUE]
                    ELSE IF MarkCompleted THEN [execs[n] EXCEPT !.status = "completed"]
                    ELSE [execs[n] EXCEPT !.status = "compensated"]
  <2>0. /\ UNCHANGED <<status, applied, log, position, committed, written, late, restarts>>
        /\ Cur' = Cur
    BY <1>7 DEF MarkCompensated, MarkCompleted, Announce, lifecycleVars, Cur
  <2>1. execs # <<>> /\ n \in DOMAIN execs /\ execs[n] \in Exec /\ execs[n].appr = Cur
    BY <1>7, <1>a DEF MarkCompensated, MarkCompleted, Announce, ExecInHand
  <2>2. row \in Exec /\ row.appr = Cur
    BY <2>1 DEF Exec
  <2>3. execs' = [execs EXCEPT ![Len(execs)] = row]
    BY <1>7, <2>1 DEF MarkCompensated, MarkCompleted, Announce, SetStatus
  <2>4. /\ execs' \in Seq(Exec) /\ Len(execs') = n /\ DOMAIN execs' = DOMAIN execs
        /\ execs'[n] = row /\ \A e \in DOMAIN execs : e # n => execs'[e] = execs[e]
    <3> HIDE DEF row
    <3> QED BY <1>a, <2>1, <2>2, <2>3, UpdateLast
  <2>5. TypeOK'
    BY <1>7, <2>0, <2>4 DEF MarkCompensated, MarkCompleted, Announce, Goto,
       TypeOK, LifecycleTypeOK, Exec
  <2>6. RecordInHand'
    BY <1>7, <2>0, <1>a, <1>b DEF MarkCompensated, MarkCompleted, Announce, Goto, RecordInHand
  <2>7. \A a \in Approvals : Execs(a, "compensated") # {} => Execs(a, "compensated")' # {}
    BY <1>7, <2>1, <2>4 DEF Execs, MarkCompensated, MarkCompleted, Announce, ExecInHand
  <2>8. ExecInHand' /\ CompletedIsWritten'
    <3>1. CASE MarkCompensated
      BY <3>1, <2>0, <2>1, <2>4 DEF MarkCompensated, MarkCompleted, Announce, Goto, ExecInHand,
         CompletedIsWritten, Execs, Exec
    <3>2. CASE MarkCompleted
      BY <3>2, <2>0, <2>1, <2>4 DEF MarkCompensated, MarkCompleted, Announce, Goto, ExecInHand,
         CompletedIsWritten, Execs, Exec
    <3>3. CASE Announce
      BY <3>3, <2>0, <2>1, <2>4 DEF MarkCompensated, MarkCompleted, Announce, Goto, ExecInHand,
         CompletedIsWritten, Execs, Exec
    <3> QED
      BY <1>7, <3>1, <3>2, <3>3
  <2>9. LateCalls' /\ FailedIsRecorded'
    BY <2>0, <2>7 DEF LateCalls, FailedIsRecorded, TypeOK
  <2>10. AppliedOnce' /\ NoWriteWithoutApproval'
    BY <2>0 DEF AppliedOnce, NoWriteWithoutApproval
  <2> QED
    BY <2>5, <2>6, <2>8, <2>9, <2>10
<1>8. CASE Callback
  <2> USE <1>8 DEF Callback, Goto
  <2>1. Execs(Cur, "compensated") # {} /\ Cur \in Approvals /\ applied[Cur] = 1
    BY <1>b DEF ExecInHand
  <2>2. [LifecycleNext]_lifecycleVars
    BY <2>1 DEF LifecycleNext, lifecycleVars
  <2>3. /\ LifecycleTypeOK' /\ AppliedOnce'
        /\ \A a \in Approvals : applied[a] = 1 => applied'[a] = 1
    BY <2>2, LifecycleStep DEF TypeOK
  <2>4. \A a \in Approvals : status'[a] = "failed" => status[a] = "failed" \/ a = Cur
    BY <2>1 DEF Compensate, lifecycleVars, TypeOK, LifecycleTypeOK
  <2>5. late' \in {late, late \cup {[call |-> "compensate", appr |-> Cur]}}
    OBVIOUS
  <2>6. TypeOK'
    BY <2>1, <2>3, <2>5 DEF TypeOK
  <2>7. RecordInHand' /\ ExecInHand'
    BY <1>a, <1>b, <2>3 DEF RecordInHand, ExecInHand
  <2>8. LateCalls'
    BY <2>1, <2>3, <2>5 DEF LateCalls, Execs, TypeOK
  <2>9. NoWriteWithoutApproval' /\ CompletedIsWritten'
    BY <2>3 DEF NoWriteWithoutApproval, CompletedIsWritten, TypeOK
  <2>10. FailedIsRecorded'
    BY <2>1, <2>4 DEF FailedIsRecorded, Execs
  <2> QED
    BY <2>3, <2>6, <2>7, <2>8, <2>9, <2>10
<1>9. ASSUME NEW c \in late, LateEffect(c) PROVE SagaInv'
  <2> USE <1>9 DEF LateEffect
  <2>1. c.appr \in Approvals /\ applied[c.appr] = 1
    BY DEF LateCalls, TypeOK
  <2>2. [LifecycleNext]_lifecycleVars
    BY <2>1 DEF LifecycleNext
  <2>3. /\ LifecycleTypeOK' /\ AppliedOnce'
        /\ \A a \in Approvals : applied[a] = 1 => applied'[a] = 1
    BY <2>2, LifecycleStep DEF TypeOK
  <2>4. \A a \in Approvals : status'[a] = "failed" =>
            status[a] = "failed" \/ (c.call = "compensate" /\ a = c.appr)
    <3>1. CASE UNCHANGED lifecycleVars
      BY <3>1 DEF lifecycleVars
    <3>2. CASE c.call = "compensate" /\ Compensate(c.appr)
      BY <3>2, <2>1 DEF Compensate, TypeOK, LifecycleTypeOK
    <3> QED
      BY <3>1, <3>2
  <2>5. written' \in {written, written \cup {c.appr}} /\ late' = late \ {c}
        /\ Cur' = Cur
    BY DEF Cur
  <2>6. TypeOK'
    BY <2>1, <2>3, <2>5 DEF TypeOK
  <2>7. RecordInHand' /\ ExecInHand'
    BY <1>a, <2>3, <2>5 DEF RecordInHand, ExecInHand, Execs
  <2>8. LateCalls'
    BY <2>3, <2>5 DEF LateCalls, Execs, TypeOK
  <2>9. NoWriteWithoutApproval' /\ CompletedIsWritten'
    BY <2>1, <2>3, <2>5 DEF NoWriteWithoutApproval, CompletedIsWritten, TypeOK
  <2>10. FailedIsRecorded'
    BY <2>4 DEF FailedIsRecorded, LateCalls, Execs
  <2> QED
    BY <2>3, <2>6, <2>7, <2>8, <2>9, <2>10
<1>10. CASE UNCHANGED vars
  BY <1>10 DEF vars, engineVars, lifecycleVars, TypeOK, LifecycleTypeOK, AppliedOnce, RecordInHand,
     ExecInHand, LateCalls, NoWriteWithoutApproval, CompletedIsWritten, FailedIsRecorded, Execs, Cur
<1> QED
  BY <1>1, <1>2, <1>3, <1>4, <1>5, <1>6, <1>7, <1>8, <1>9, <1>10 DEF Next, Engine

(* The saga's variables keep their types, and the committed offset never   *)
(* passes the consumer's position.                                         *)
THEOREM SagaTypeCorrect == Spec => []TypeOK
<1>1. SagaInv => TypeOK
  BY DEF SagaInv
<1> QED
  BY <1>1, InitSagaInv, StepSagaInv, PTL DEF Spec

(* Whatever is redelivered, times out, answers late or restarts, the       *)
(* workflow engine changes the source system only for approved requests.   *)
THEOREM WritesAreApproved == Spec => []NoWriteWithoutApproval
<1>1. SagaInv => NoWriteWithoutApproval
  BY DEF SagaInv
<1> QED
  BY <1>1, InitSagaInv, StepSagaInv, PTL DEF Spec

(* A workflow_execution row says completed only once the source has the    *)
(* edits, and only a completed one is announced.                           *)
THEOREM CompletionIsTrue == Spec => []CompletedIsWritten
<1>1. SagaInv => CompletedIsWritten
  BY DEF SagaInv
<1> QED
  BY <1>1, InitSagaInv, StepSagaInv, PTL DEF Spec

(* Knowledge undoes an approved action only after the engine has recorded  *)
(* a failed execution of it.                                               *)
THEOREM FailureIsRecorded == Spec => []FailedIsRecorded
<1>1. SagaInv => FailedIsRecorded
  BY DEF SagaInv
<1> QED
  BY <1>1, InitSagaInv, StepSagaInv, PTL DEF Spec
=============================================================================
