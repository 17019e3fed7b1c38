---------------------------- MODULE CircuitBreaker ----------------------------
(***************************************************************************)
(* CircuitBreaker.call, run by concurrent coroutines of one process: the   *)
(* state is read and set before the call and again after it, and other     *)
(* calls start and end in between.                                         *)
(***************************************************************************)
EXTENDS Naturals

CONSTANTS Callers, Threshold

VARIABLES state, failures, cooled,  \* cooled: the cooldown is over
          call,                     \* each caller's call in flight
          healthy                   \* whether the dependency answers

vars == <<state, failures, cooled, call, healthy>>

Init ==
  /\ state = "closed" /\ failures = 0 /\ cooled = FALSE
  /\ call = [c \in Callers |-> "none"]
  /\ healthy = TRUE

(* call, up to its await: an open breaker admits nobody before the cooldown
   is over, and the first caller after it makes the breaker half open *)
Admit(c) ==
  /\ call[c] = "none"
  /\ state = "open" => cooled
  /\ state' = IF state = "open" THEN "half_open" ELSE state
  /\ call' = [call EXCEPT ![c] = "sent"]
  /\ UNCHANGED <<failures, cooled, healthy>>

Ended(c) == call' = [call EXCEPT ![c] = "none"] /\ UNCHANGED healthy

(* Mutant: a success does not close a half-open breaker *)
Succeed_Stays(c) ==
  /\ call[c] = "answered"
  /\ failures' = 0
  /\ UNCHANGED <<state, cooled>>
  /\ Ended(c)

(* the call returned *)
Succeed(c) ==
  /\ call[c] = "answered"
  /\ failures' = 0
  /\ state' = "closed"
  /\ UNCHANGED cooled
  /\ Ended(c)

(* an exception that does not count as a failure: the upstream answered *)
Refused(c) ==
  /\ call[c] = "answered"
  /\ failures' = 0
  /\ state' = IF state = "half_open" THEN "closed" ELSE state
  /\ UNCHANGED cooled
  /\ Ended(c)

(* an exception that counts; the counter is only compared with Threshold *)
Fail(c) ==
  LET n == IF failures < Threshold THEN failures + 1 ELSE failures IN
  /\ call[c] = "failed"
  /\ failures' = n
  /\ IF state = "half_open" \/ n >= Threshold
     THEN state' = "open" /\ cooled' = FALSE
     ELSE UNCHANGED <<state, cooled>>
  /\ Ended(c)

(* the dependency handles a request as it is then *)
Handle(c) ==
  /\ call[c] = "sent"
  /\ call' = [call EXCEPT ![c] = IF healthy THEN "answered" ELSE "failed"]
  /\ UNCHANGED <<state, failures, cooled, healthy>>

(* time.monotonic passes _opened_at + cooldown *)
Cooldown ==
  /\ state = "open" /\ ~cooled
  /\ cooled' = TRUE
  /\ UNCHANGED <<state, failures, call, healthy>>

Outage == healthy' = ~healthy /\ UNCHANGED <<state, failures, cooled, call>>

Step(c) == Admit(c) \/ Handle(c) \/ Succeed(c) \/ Refused(c) \/ Fail(c)

Next ==
  \/ \E c \in Callers : Step(c)
  \/ Cooldown \/ Outage

(* Callers keep calling, every call ends (the HTTP clients have timeouts),
   time passes. *)
Fairness ==
  /\ \A c \in Callers : WF_vars(Step(c))
  /\ WF_vars(Cooldown)

Spec == Init /\ [][Next]_vars /\ Fairness

(***************************************************************************)
(* A breaker never stays open on a dependency that is back: once the       *)
(* dependency is healthy for good the breaker ends up closed for good,     *)
(* whatever answers of the outage are still to come and however the        *)
(* callers of the half-open period interleave.                             *)
(***************************************************************************)
BreakerRecovers == <>[]healthy => <>[](state = "closed")
=============================================================================
