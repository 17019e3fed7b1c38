--------------------------- MODULE MCConnectivity ---------------------------
(***************************************************************************)
(* Connectivity's streams and jobs, the circuit breaker in front of it and *)
(* the consumer of its events.  They share no state in the model, so each  *)
(* behaviour exercises one of them: the one in focus.                      *)
(***************************************************************************)
EXTENDS EventConsumer, StreamConnector

CONSTANTS Callers

VARIABLES focus,
  tenantQueue, globalQueue, running, leader,
  breaker, failures, cooled, call, healthy

jobVars == <<tenantQueue, globalQueue, running, leader>>
breakerVars == <<breaker, failures, cooled, call, healthy>>
mcVars == <<focus, streamVars, jobVars, breakerVars, vars>>

(* Three messages, the second with another key, the last without a key. *)
ThreeMessages == <<"k1", "k2", "-">>
(* Two slots, one per tenant; the jobs of tenant "a" hang. *)
Jobs == INSTANCE JobRunner WITH
  Jobs <- {"a1", "a2", "b1", "b2"},
  TenantOf <- [j \in {"a1", "a2", "b1", "b2"} |-> IF j \in {"a1", "a2"} THEN "a" ELSE "b"],
  Stuck <- {"a"}, MaxConcurrency <- 2, TenantConcurrency <- 1
Breaker == INSTANCE CircuitBreaker WITH Threshold <- 2, state <- breaker

MCInit ==
  /\ focus \in {"streams", "jobs", "breaker", "consumer"}
  /\ Init /\ StreamInit /\ Jobs!Init /\ Breaker!Init
  /\ focus # "streams" => source = "absent"

MCNext ==
  /\ UNCHANGED focus
  /\ \/ /\ focus = "streams" /\ StreamNext
        /\ UNCHANGED <<jobVars, breakerVars, vars>>
     \/ /\ focus = "jobs" /\ Jobs!Next
        /\ UNCHANGED <<streamVars, breakerVars, vars>>
     \/ /\ focus = "breaker" /\ Breaker!Next
        /\ UNCHANGED <<streamVars, jobVars, vars>>
     \/ /\ focus = "consumer" /\ Next
        /\ UNCHANGED <<streamVars, jobVars, breakerVars>>

(* The fairness of each component, while it is in focus. *)
MCFairness ==
  /\ \A r \in Replicas :
       /\ WF_streamVars(focus = "streams" /\ Work(r))
       /\ WF_streamVars(focus = "streams" /\ owner = Nobody /\ Assign(r))
       /\ SF_streamVars(focus = "streams" /\ PersistState(r))
  /\ \A t \in {"a", "b"} : WF_jobVars(focus = "jobs" /\ Jobs!TakeTenantSlot(t))
  /\ \A j \in {"a1", "a2", "b1", "b2"} : WF_jobVars(focus = "jobs" /\ Jobs!Finish(j))
  /\ WF_jobVars(focus = "jobs" /\ Jobs!TakeGlobalSlot)
  /\ \A c \in Callers : WF_breakerVars(focus = "breaker" /\ Breaker!Step(c))
  /\ WF_breakerVars(focus = "breaker" /\ Breaker!Cooldown)
  /\ WF_vars(focus = "consumer" /\ Loop)
  /\ SF_vars(focus = "consumer" /\ Quarantine /\ pc' = "commit")

MCSpec == MCInit /\ [][MCNext]_mcVars /\ MCFairness

(* One tenant never starves another: see JobRunner. *)
NoStarvation == Jobs!NoStarvation
(* The breaker closes once its dependency is back: see CircuitBreaker. *)
BreakerRecovers == focus = "breaker" => Breaker!BreakerRecovers
=============================================================================
