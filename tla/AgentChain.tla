----------------------------- MODULE AgentChain -----------------------------
(***************************************************************************)
(* Chained agent sessions: Automation listens for session_completed and    *)
(* starts the next session one level deeper, up to the depth the chain was *)
(* started with.  A completion may be on the topic twice, and its consumer *)
(* commits no offset of its own, so a restart or a rebalance between two   *)
(* replicas reads the topic again while requests of the last reading may   *)
(* still be running.  A loop that dies of another error waits for a        *)
(* restart.                                                                *)
(***************************************************************************)
EXTENDS Integers, Sequences

CONSTANTS Limit,         \* no chain may be deeper than this (10 in the code)
          Requested,     \* values of max_chain_depth in requests
          MaxRestarts, MaxFaults, MaxEvents  \* bounds

VARIABLES topic,      \* completions of chained sessions: [depth, max]
          next,       \* position of the consumer that has the partition
          committed,  \* offset of the consumer group
          calls,      \* requests to Intelligence: [pos, read, pc, awaited]
          started,    \* ghost: [pos, read] a session was started for
          repeated,   \* ghost: one reading started two sessions for a record
          deepest,    \* ghost: depth of the deepest session created
          granted,    \* ghost: max_chain_depth of the user's own session
          rereads, faults

vars == <<topic, next, committed, calls, started, repeated, deepest, granted, rereads, faults>>

Reading == [pos : Nat, read : Nat]
Call == [pos : Nat, read : Nat, pc : {"create", "turn"}, awaited : BOOLEAN]

(* create_session: the requested depth is clamped, a deeper session refused *)
Clamp(m) == IF m < 1 THEN 1 ELSE IF m > Limit THEN Limit ELSE m
Refused(depth, m) == depth > Clamp(m)

(* a user starts a chain and its session completes, at depth 0 *)
Init ==
  /\ \E m \in Requested :
       topic = <<[depth |-> 0, max |-> Clamp(m)]>> /\ granted = Clamp(m)
  /\ next = 1 /\ committed = 1 /\ calls = {} /\ started = {} /\ repeated = FALSE
  /\ deepest = 0 /\ rereads = 0 /\ faults = 0

(* the loop waits for this call *)
InHand(c) == c.awaited /\ c.read = rereads
Done(c) == next' = IF InHand(c) THEN next + 1 ELSE next

(* consume_events up to the depth check *)
Cutoff(event) == event.depth + 1 > event.max
Consume ==
  /\ \A c \in calls : ~InHand(c)
  /\ next <= Len(topic)
  /\ IF Cutoff(topic[next])
     THEN next' = next + 1 /\ UNCHANGED calls
     ELSE /\ calls' = calls \cup {[pos |-> next, read |-> rereads, pc |-> "create", awaited |-> TRUE]}
          /\ UNCHANGED next
  /\ UNCHANGED <<topic, committed, started, repeated, deepest, granted, rereads, faults>>

(* POST /sessions; a turn follows when the answer is still awaited *)
CreateSession(c) ==
  LET depth == topic[c.pos].depth + 1
      id == [pos |-> c.pos, read |-> c.read]
  IN
  /\ c.pc = "create"
  /\ IF Refused(depth, topic[c.pos].max)
     THEN calls' = calls \ {c} /\ Done(c) /\ UNCHANGED <<started, repeated, deepest>>
     ELSE /\ calls' = (calls \ {c}) \cup (IF c.awaited THEN {[c EXCEPT !.pc = "turn"]} ELSE {})
          /\ started' = started \cup {id}
          /\ repeated' = (repeated \/ id \in started)
          /\ deepest' = IF depth > deepest THEN depth ELSE deepest
          /\ UNCHANGED next
  /\ UNCHANGED <<topic, committed, granted, rereads, faults>>

(* POST /sessions/../turns: the session completes and says so, in that call *)
RunTurn(c) ==
  /\ c.pc = "turn" /\ Len(topic) < MaxEvents
  /\ topic' = Append(topic, [depth |-> topic[c.pos].depth + 1, max |-> topic[c.pos].max])
  /\ calls' = calls \ {c} /\ Done(c)
  /\ UNCHANGED <<committed, started, repeated, deepest, granted, rereads, faults>>

(* mutant: a request that failed is made again *)
CallFails_Retried(c) ==
  /\ c.awaited /\ faults < MaxFaults
  /\ faults' = faults + 1
  /\ \/ calls' = calls \ {c}
     \/ calls' = (calls \ {c}) \cup {[c EXCEPT !.awaited = FALSE]}
  /\ UNCHANGED <<topic, next, committed, started, repeated, deepest, granted, rereads>>
(* an HTTP error, an open breaker or a timeout is logged and the event is *)
(* skipped; what was asked may still be done                              *)
CallFails(c) ==
  /\ c.awaited /\ faults < MaxFaults
  /\ faults' = faults + 1
  /\ \/ calls' = calls \ {c}
     \/ calls' = (calls \ {c}) \cup {[c EXCEPT !.awaited = FALSE]}
  /\ Done(c)
  /\ UNCHANGED <<topic, committed, started, repeated, deepest, granted, rereads>>

(* a record that is no valid event is set aside, and that is committed *)
SkipPoison ==
  /\ \A c \in calls : ~InHand(c)
  /\ committed' = next
  /\ UNCHANGED <<topic, next, calls, started, repeated, deepest, granted, rereads, faults>>

(* a relay sends a completion a second time *)
Redeliver ==
  /\ Len(topic) < MaxEvents
  /\ \E i \in DOMAIN topic : topic' = Append(topic, topic[i])
  /\ UNCHANGED <<next, committed, calls, started, repeated, deepest, granted, rereads, faults>>

(* Automation restarts, its requests no longer awaited, or the other replica *)
(* gets the partition; either reads from the committed offset                *)
Reread ==
  /\ rereads < MaxRestarts
  /\ rereads' = rereads + 1
  /\ next' = committed
  /\ \/ calls' = {[c EXCEPT !.awaited = FALSE] : c \in calls}
     \/ UNCHANGED calls
  /\ UNCHANGED <<topic, committed, started, repeated, deepest, granted, faults>>

Next ==
  \/ Consume \/ SkipPoison \/ Redeliver \/ Reread
  \/ \E c \in calls : CreateSession(c) \/ RunTurn(c) \/ CallFails(c)

Spec == Init /\ [][Next]_vars

(* No chain grows deeper than its user allowed, whatever is delivered or    *)
(* read again.                                                              *)
ChainBounded == deepest <= granted /\ granted \in 1..Limit

(* One reading of a record starts one session at most, whether its requests *)
(* fail, time out or go on after the partition moved.  Nothing dedupes:     *)
(* each copy of a completion and each rereading has a follower of its own.  *)
OneFollower == ~repeated

(* Depth and followers of a chain.                                          *)
ChainSound == ChainBounded /\ OneFollower
=============================================================================
