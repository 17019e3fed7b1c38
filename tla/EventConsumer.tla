--------------------------- MODULE EventConsumer ---------------------------
(***************************************************************************)
(* A consumer group reading one partition of the bus: EventConsumer        *)
(* (libs/holon_common/events.py) under Knowledge's catalogue loop          *)
(* (catalog.consume_events).  A record is an offset of the log; its kind   *)
(* says how the code will take it:                                         *)
(*   "invalid"  fails envelope or registry validation                      *)
(*   "other"    an event type the loop does not handle                     *)
(*   "sync"     connectivity.sync.completed, that the handler can process  *)
(*   "bad"      connectivity.sync.completed, on which it always raises     *)
(***************************************************************************)
EXTENDS Naturals, Sequences

CONSTANTS
    MaxLog,          \* bound: records on the partition
    MaxRestarts,     \* bound: restarts and rebalances
    EventAttempts,   \* _EVENT_ATTEMPTS
    DlqMayFail,      \* the dead letter queue may refuse a publish
    CommitMayFail    \* the broker may refuse an offset commit

VARIABLES
    log,         \* the kinds of the partition's records
    position,    \* records the consumer has been handed
    committed,   \* the group's committed offset
    pc,          \* where the loop is with record number `position'
    attempts,    \* failed attempts at it, saturating at EventAttempts
    handled,     \* records processed to the end, at least once
    dlq,         \* records quarantined, at least once
    refused,     \* ghost: invalid records the dead letter queue did not take
    restarts     \* restarts so far

vars == <<log, position, committed, pc, attempts, handled, dlq, refused, restarts>>

Kinds == {"invalid", "other", "sync", "bad"}
Cur == log[position]

Init ==
    /\ log = <<>>
    /\ position = 0
    /\ committed = 0
    /\ pc = "poll"
    /\ attempts = 0
    /\ handled = {}
    /\ dlq = {}
    /\ refused = {}
    /\ restarts = 0

(* Another service's relay appends a record.                               *)
Produce(k) ==
    /\ Len(log) < MaxLog
    /\ log' = Append(log, k)
    /\ UNCHANGED <<position, committed, pc, attempts, handled, dlq, restarts, refused>>

(* async for msg in the Kafka consumer, the validation, and the filter on  *)
(* the event type.                                                         *)
Poll ==
    /\ pc = "poll" /\ position < Len(log)
    /\ position' = position + 1
    /\ pc' = CASE log[position + 1] = "invalid" -> "skip"
               [] log[position + 1] = "other"   -> "commit"
               [] OTHER                         -> "handle"
    /\ attempts' = 0
    /\ UNCHANGED <<log, committed, handled, dlq, restarts, refused>>

(* _quarantine of an invalid record; when the dead letter queue refuses    *)
(* it, there is no commit and the iterator moves on to the next record.    *)
SkipInvalid ==
    /\ pc = "skip"
    /\ \/ /\ dlq' = dlq \cup {position}
          /\ pc' = "commit"
          /\ UNCHANGED refused
       \/ /\ DlqMayFail
          /\ pc' = "poll"
          /\ refused' = refused \cup {position}
          /\ UNCHANGED dlq
    /\ UNCHANGED <<log, position, committed, attempts, handled, restarts>>

(* _process_sync_completed goes through.                                   *)
HandleOk ==
    /\ pc = "handle" /\ Cur = "sync"
    /\ handled' = handled \cup {position}
    /\ pc' = "commit_handled"
    /\ UNCHANGED <<log, position, committed, attempts, dlq, restarts, refused>>

Failed == IF attempts < EventAttempts THEN attempts + 1 ELSE attempts

(* The count starts again at the limit: a transient error is retried for   *)
(* ever.                                                                   *)
HandleFails_RetriesForEver ==
    /\ pc = "handle"
    /\ attempts' = (attempts + 1) % EventAttempts
    /\ \/ Cur = "sync" /\ pc' = "handle"
       \/ Cur = "bad" /\ pc' = "quarantine"
    /\ UNCHANGED <<log, position, committed, handled, dlq, restarts, refused>>

(* Any exception in the try block: a transient one is retried in place, up *)
(* to _EVENT_ATTEMPTS, every other one goes to quarantine.                 *)
HandleFails ==
    /\ pc = "handle"
    /\ attempts' = Failed
    /\ \/ Cur = "sync" /\ pc' = IF Failed < EventAttempts THEN "handle" ELSE "quarantine"
       \/ Cur = "bad" /\ pc' = "quarantine"
    /\ UNCHANGED <<log, position, committed, handled, dlq, restarts, refused>>

(* On to the next record when the DLQ refuses, as for an invalid record.   *)
Quarantine_GivesUp ==
    /\ pc = "quarantine"
    /\ \/ /\ dlq' = dlq \cup {position}
          /\ pc' = "commit"
       \/ /\ DlqMayFail
          /\ pc' = "poll"
          /\ UNCHANGED dlq
    /\ UNCHANGED <<log, position, committed, attempts, handled, restarts, refused>>

(* quarantine_envelope; when the DLQ refuses, the loop tries the same      *)
(* event again.                                                            *)
Quarantine ==
    /\ pc = "quarantine"
    /\ \/ /\ dlq' = dlq \cup {position}
          /\ pc' = "commit"
       \/ /\ DlqMayFail
          /\ pc' = "handle"
          /\ UNCHANGED dlq
    /\ UNCHANGED <<log, position, committed, attempts, handled, restarts, refused>>

(* commit() without arguments commits the consumer's position.             *)
Commit ==
    /\ pc \in {"commit", "commit_handled"}
    /\ committed' = position
    /\ pc' = "poll"
    /\ UNCHANGED <<log, position, attempts, handled, dlq, restarts, refused>>

(* A refused commit is one more exception to retry inside the try block;   *)
(* outside it, it ends the task, which nothing supervises.                 *)
CommitFails ==
    /\ CommitMayFail
    /\ \/ /\ pc = "commit_handled"
          /\ attempts' = Failed
          /\ pc' \in {"quarantine"} \cup IF Failed < EventAttempts THEN {"handle"} ELSE {}
       \/ /\ pc = "commit"
          /\ pc' = "dead"
          /\ UNCHANGED attempts
    /\ UNCHANGED <<log, position, committed, handled, dlq, restarts, refused>>

(* The process restarts, or a rebalance hands the partition to another     *)
(* replica: reading resumes at the committed offset.                       *)
Restart ==
    /\ restarts < MaxRestarts
    /\ restarts' = restarts + 1
    /\ position' = committed
    /\ pc' = "poll"
    /\ attempts' = 0
    /\ UNCHANGED <<log, committed, handled, dlq, refused>>

Next ==
    \/ \E k \in Kinds : Produce(k)
    \/ Poll \/ SkipInvalid \/ HandleOk \/ HandleFails \/ Quarantine
    \/ Commit \/ CommitFails \/ Restart

Spec == Init /\ [][Next]_vars

(* The loop takes its next step whenever it can.                           *)
Loop == \/ Poll \/ SkipInvalid \/ HandleOk \/ HandleFails \/ Quarantine
        \/ Commit \/ CommitFails

(* A refused quarantine is tried again for as long as it takes: the dead   *)
(* letter queue is one day up.                                             *)
FairSpec == Spec /\ WF_vars(Loop) /\ SF_vars(Quarantine /\ pc' = "commit")

-----------------------------------------------------------------------------
TypeOK ==
    /\ log \in Seq(Kinds) /\ Len(log) <= MaxLog
    /\ position \in 0..Len(log)
    /\ committed \in 0..position
    /\ pc \in {"poll", "skip", "handle", "quarantine", "commit", "commit_handled", "dead"}
    /\ attempts \in 0..EventAttempts
    /\ restarts \in 0..MaxRestarts
    /\ handled \subseteq {o \in 1..Len(log) : log[o] = "sync"}
    /\ dlq \subseteq {o \in 1..Len(log) : log[o] # "other"}

(* Offsets are "committed only after successful processing": no restart,   *)
(* retry, refused commit or DLQ outage lets the committed offset pass a    *)
(* catalogue event that was neither processed nor quarantined.  A record   *)
(* that failed validation is passed without quarantine only once the DLQ   *)
(* refused it: the offset it "leaves uncommitted" is committed with the    *)
(* record after it.                                                        *)
CommittedIsSettled ==
    \A o \in 1..committed :
        /\ log[o] \in {"sync", "bad"} => o \in handled \cup dlq
        /\ log[o] = "invalid" => o \in dlq \cup refused

(* No record blocks the ones after it for ever, however often processing,  *)
(* quarantine and commits fail: every catalogue event is one day behind    *)
(* the committed offset, unless a refused commit ended the task.           *)
EventuallyCommitted ==
    \A o \in 1..MaxLog :
        (o <= Len(log) /\ log[o] \in {"sync", "bad"}) ~> (o <= committed \/ pc = "dead")
=============================================================================
