------------------------------ MODULE JobRunner ------------------------------
(***************************************************************************)
(* ScheduledJobRunner: every scheduled job waits for a slot of its tenant, *)
(* then for a slot of the process.  Both semaphores are asyncio's, which   *)
(* wake their waiters first come, first served.  The jobs of a Stuck       *)
(* tenant (a source that never answers) do not end by themselves.          *)
(***************************************************************************)
EXTENDS Naturals, Sequences, FiniteSets, SequencesExt

CONSTANTS Jobs,           \* keys of the jobs
          TenantOf,       \* the tenant of each job
          Stuck,          \* tenants whose jobs hang
          MaxConcurrency, \* slots of the process
          TenantConcurrency

VARIABLES tenantQueue,  \* waiters of each tenant's semaphore, oldest first
          globalQueue,  \* jobs with a tenant slot that wait for a global one
          running,
          leader        \* the scheduler loop submits jobs while it leads

vars == <<tenantQueue, globalQueue, running, leader>>

Tenants == {TenantOf[j] : j \in Jobs}
Waiting(t) == ToSet(tenantQueue[t])
InHand(t) == {j \in ToSet(globalQueue) \cup running : TenantOf[j] = t}

Init ==
  /\ tenantQueue = [t \in Tenants |-> <<>>]
  /\ globalQueue = <<>>
  /\ running = {}
  /\ leader = FALSE

(* is_running: queued or running under the same key *)
Pending(j) == j \in Waiting(TenantOf[j]) \cup InHand(TenantOf[j])

(* submit, from a poll of the scheduler *)
Submit(j) ==
  /\ leader
  /\ ~Pending(j)
  /\ tenantQueue' = [tenantQueue EXCEPT ![TenantOf[j]] = Append(@, j)]
  /\ UNCHANGED <<globalQueue, running, leader>>

(* Mutant: the global slot is taken by a job that still waits for its tenant *)
TakeTenantSlot_GlobalFirst(t) ==
  /\ tenantQueue[t] # <<>>
  /\ globalQueue' = Append(globalQueue, Head(tenantQueue[t]))
  /\ tenantQueue' = [tenantQueue EXCEPT ![t] = Tail(@)]
  /\ UNCHANGED <<running, leader>>

(* _run: async with tenant *)
TakeTenantSlot(t) ==
  /\ tenantQueue[t] # <<>>
  /\ Cardinality(InHand(t)) < TenantConcurrency
  /\ globalQueue' = Append(globalQueue, Head(tenantQueue[t]))
  /\ tenantQueue' = [tenantQueue EXCEPT ![t] = Tail(@)]
  /\ UNCHANGED <<running, leader>>

(* _run: async with self._global *)
TakeGlobalSlot ==
  /\ globalQueue # <<>>
  /\ Cardinality(running) < MaxConcurrency
  /\ running' = running \cup {Head(globalQueue)}
  /\ globalQueue' = Tail(globalQueue)
  /\ UNCHANGED <<tenantQueue, leader>>

(* _run: the job returns or its exception is logged; both slots are released *)
Finish(j) ==
  /\ j \in running
  /\ TenantOf[j] \notin Stuck
  /\ running' = running \ {j}
  /\ UNCHANGED <<tenantQueue, globalQueue, leader>>

(* run_scheduler_forever: the session lock is won *)
Lead ==
  /\ ~leader
  /\ leader' = TRUE
  /\ UNCHANGED <<tenantQueue, globalQueue, running>>

(* cancel_all: the lock's connection is lost, and every job is cancelled *)
CancelAll ==
  /\ leader
  /\ leader' = FALSE
  /\ tenantQueue' = [t \in Tenants |-> <<>>]
  /\ globalQueue' = <<>>
  /\ running' = {}

Next ==
  \/ \E j \in Jobs : Submit(j) \/ Finish(j)
  \/ \E t \in Tenants : TakeTenantSlot(t)
  \/ TakeGlobalSlot \/ Lead \/ CancelAll

(* The event loop wakes the waiters of a free slot, and a job of a tenant
   that is not stuck ends. *)
Fairness ==
  /\ \A t \in Tenants : WF_vars(TakeTenantSlot(t))
  /\ \A j \in Jobs : WF_vars(Finish(j))
  /\ WF_vars(TakeGlobalSlot)

Spec == Init /\ [][Next]_vars /\ Fairness

(***************************************************************************)
(* One tenant never starves another: a job of a tenant that is not stuck,  *)
(* once submitted, runs to its end or is cancelled with the leadership,    *)
(* while the jobs of the stuck tenants hold their slots for ever.          *)
(***************************************************************************)
NoStarvation ==
  \A j \in Jobs : TenantOf[j] \notin Stuck => (Pending(j) ~> ~Pending(j))
=============================================================================
