------------------------------ MODULE Denylist ------------------------------
(***************************************************************************)
(* The JWT denylist of one process of one service: Identity's durable      *)
(* tables, the identity events its outbox relays, and the in-memory sets   *)
(* that libs/holon_common/auth.py keeps and principal_status.py feeds from *)
(* the bus and from a snapshot read at boot and then on an interval.       *)
(*                                                                         *)
(* Each host has a consumer group of its own, so one process stands for    *)
(* all of them.  The relay is what EventBusProofs proves of Outbox: events *)
(* of one principal reach the bus in order, a record may be repeated.      *)
(***************************************************************************)
EXTENDS Naturals, Sequences, FiniteSets

CONSTANTS
    Principals,
    Tokens,        \* the jti of each issued token
    FreshGroup,    \* the host's consumer group has no committed offset yet
    CommitMayFail, \* the broker may refuse an offset commit
    MaxEvents,     \* bound: changes made at Identity
    MaxCopies,     \* bound: records of one event on the topic
    MaxRestarts    \* bound: restarts of the process

ASSUME DenylistAssumption ==
    /\ Principals \cap Tokens = {}
    /\ FreshGroup \in BOOLEAN /\ CommitMayFail \in BOOLEAN
    /\ MaxEvents \in Nat /\ MaxCopies \in Nat /\ MaxRestarts \in Nat

VARIABLES
    disabled,   \* principal rows whose status is not active
    revoked,    \* revoked_token rows
    expired,    \* tokens past their exp, which no service accepts
    events,     \* identity events, in commit order
    log,        \* the topic: indices into events
    group,      \* the group's committed offset, once it has one
    position,   \* records handed to the consumer
    consumer,   \* the task of consume_identity_auth_events
    task,       \* where the hydrate is, at boot or in the refresh loop
    snap,       \* the snapshot being read
    captured,   \* events applied while a snapshot request is in flight
    denied,     \* _disabled_principal_urns
    jtis,       \* _revoked_jtis
    serving,    \* start_principal_status has returned
    restarts    \* restarts so far

identityVars == <<disabled, revoked, expired, events>>
busVars == <<log, group>>
consumerVars == <<position, consumer>>
hydrateVars == <<task, snap, serving>>
memory == <<captured, denied, jtis>>
vars == <<identityVars, busVars, consumerVars, hydrateVars, memory, restarts>>

NoSnap == [disabled |-> {}, jtis |-> {}]
Event == [kind : {"disabled", "enabled"}, id : Principals] \cup [kind : {"jti"}, id : Tokens]

Init ==
    /\ disabled = {} /\ revoked = {} /\ expired = {}
    /\ events = <<>> /\ log = <<>>
    /\ group = [joined |-> ~FreshGroup, offset |-> 0]
    /\ position = 0
    /\ consumer = "off"
    /\ task = "boot"
    /\ snap = NoSnap
    /\ captured = <<>>
    /\ denied = {} /\ jtis = {}
    /\ serving = FALSE
    /\ restarts = 0

-----------------------------------------------------------------------------
(* Identity.                                                               *)

Enqueue(e) == Len(events) < MaxEvents /\ events' = Append(events, e)

(* enqueue_principal_status_event; the status may be the one it already    *)
(* had.                                                                    *)
SetStatus(p, kind) ==
    /\ Enqueue([kind |-> kind, id |-> p])
    /\ disabled' = IF kind = "disabled" THEN disabled \cup {p} ELSE disabled \ {p}
    /\ UNCHANGED <<revoked, expired, busVars, consumerVars, hydrateVars, memory, restarts>>

(* logout, enqueue_token_revoked: a token may be revoked twice.            *)
Revoke(t) ==
    /\ t \notin expired
    /\ Enqueue([kind |-> "jti", id |-> t])
    /\ revoked' = revoked \cup {t}
    /\ UNCHANGED <<disabled, expired, busVars, consumerVars, hydrateVars, memory, restarts>>

Expire(t) ==
    /\ t \notin expired
    /\ expired' = expired \cup {t}
    /\ UNCHANGED <<disabled, revoked, events, busVars, consumerVars, hydrateVars, memory, restarts>>

OnTopic(i) == \E o \in DOMAIN log : log[o] = i

(* The outbox relay, at least once and in order for each principal.        *)
Relay(i) ==
    /\ Cardinality({o \in DOMAIN log : log[o] = i}) < MaxCopies
    /\ \A j \in 1..(i - 1) : events[j].id = events[i].id => OnTopic(j)
    /\ log' = Append(log, i)
    /\ UNCHANGED <<identityVars, group, consumerVars, hydrateVars, memory, restarts>>

-----------------------------------------------------------------------------
(* The process's consumer.                                                 *)

Capturing == task \in {"asked", "half", "answered"}

(* Every start at the end of the topic, as with a group per process.       *)
StartConsumer_Latest ==
    /\ consumer = "off" /\ serving
    /\ position' = Len(log)
    /\ consumer' = "poll"
    /\ UNCHANGED <<identityVars, busVars, hydrateVars, memory, restarts>>

(* The consumer joins once the boot hydrate is done: at the committed      *)
(* offset, or at the end of the topic when the group has none.             *)
StartConsumer ==
    /\ consumer = "off" /\ serving
    /\ position' = IF group.joined THEN group.offset ELSE Len(log)
    /\ consumer' = "poll"
    /\ UNCHANGED <<identityVars, busVars, hydrateVars, memory, restarts>>

(* The note skipped: the event is applied, and not remembered.             *)
Noted_Never(e) == captured

(* _note_revocation: an open capture records every change.                 *)
Noted(e) == IF Capturing THEN Append(captured, e) ELSE captured

(* _apply_identity_auth_event.                                             *)
Consume ==
    /\ consumer = "poll" /\ position < Len(log)
    /\ LET e == events[log[position + 1]] IN
       /\ denied' = CASE e.kind = "disabled" -> denied \cup {e.id}
                      [] e.kind = "enabled"  -> denied \ {e.id}
                      [] OTHER               -> denied
       /\ jtis' = IF e.kind = "jti" THEN jtis \cup {e.id} ELSE jtis
       /\ captured' = Noted(e)
    /\ position' = position + 1
    /\ consumer' = "commit"
    /\ UNCHANGED <<identityVars, busVars, hydrateVars, restarts>>

CommitOffset ==
    /\ consumer = "commit"
    /\ group' = [joined |-> TRUE, offset |-> position]
    /\ consumer' = "poll"
    /\ UNCHANGED <<identityVars, log, position, hydrateVars, memory, restarts>>

(* A refused commit ends the task, which nothing restarts.                 *)
CommitFails ==
    /\ consumer = "commit" /\ CommitMayFail
    /\ consumer' = "dead"
    /\ UNCHANGED <<identityVars, busVars, position, hydrateVars, memory, restarts>>

-----------------------------------------------------------------------------
(* hydrate_revocation_snapshot, at boot and every 30 seconds.              *)

Ask ==
    /\ task \in {"boot", "sleep"}
    /\ task' = "asked"
    /\ captured' = <<>>
    /\ UNCHANGED <<identityVars, busVars, consumerVars, snap, serving, denied, jtis, restarts>>

(* load_revocation_snapshot at Identity, in statements of their own: rows  *)
(* of expired tokens are purged, then each set is read.                    *)
ReadDisabled ==
    /\ task = "asked"
    /\ revoked' = revoked \ expired
    /\ snap' = [snap EXCEPT !.disabled = disabled]
    /\ task' = "half"
    /\ UNCHANGED <<disabled, expired, events, busVars, consumerVars, serving, memory, restarts>>

ReadJtis ==
    /\ task = "half"
    /\ snap' = [snap EXCEPT !.jtis = revoked \ expired]
    /\ task' = "answered"
    /\ UNCHANGED <<identityVars, busVars, consumerVars, serving, memory, restarts>>

(* The status the last captured event gives a principal, if any does.      *)
LastCaptured(p, kind) ==
    \E i \in DOMAIN captured :
        /\ captured[i] = [kind |-> kind, id |-> p]
        /\ \A j \in DOMAIN captured : j > i => captured[j].id # p

CapturedJtis == {t \in Tokens : \E i \in DOMAIN captured : captured[i].id = t}

(* The refresh loop never gets past its first snapshot.                    *)
Replace_OnlyAtBoot ==
    /\ task = "answered" /\ ~serving
    /\ denied' = snap.disabled
    /\ jtis' = snap.jtis
    /\ captured' = <<>>
    /\ snap' = NoSnap
    /\ task' = "sleep"
    /\ serving' = TRUE
    /\ UNCHANGED <<identityVars, busVars, consumerVars, restarts>>

(* The answer: both sets are replaced, then the captured events applied    *)
(* again, with no await in between.                                        *)
Replace ==
    /\ task = "answered"
    /\ denied' = {p \in Principals : \/ LastCaptured(p, "disabled")
                                     \/ p \in snap.disabled /\ ~LastCaptured(p, "enabled")}
    /\ jtis' = snap.jtis \cup CapturedJtis
    /\ captured' = <<>>
    /\ snap' = NoSnap
    /\ task' = "sleep"
    /\ serving' = TRUE
    /\ UNCHANGED <<identityVars, busVars, consumerVars, restarts>>

(* Identity does not answer: boot tries again, the refresh loop keeps the  *)
(* denylist it has.                                                        *)
HydrateFails ==
    /\ Capturing
    /\ task' = IF serving THEN "sleep" ELSE "boot"
    /\ snap' = NoSnap
    /\ captured' = <<>>
    /\ UNCHANGED <<identityVars, busVars, consumerVars, serving, denied, jtis, restarts>>

(* The process restarts with empty sets.                                   *)
Restart ==
    /\ restarts < MaxRestarts
    /\ restarts' = restarts + 1
    /\ position' = 0
    /\ consumer' = "off"
    /\ task' = "boot"
    /\ snap' = NoSnap
    /\ captured' = <<>>
    /\ denied' = {} /\ jtis' = {}
    /\ serving' = FALSE
    /\ UNCHANGED <<identityVars, busVars>>

-----------------------------------------------------------------------------
Process == StartConsumer \/ Consume \/ CommitOffset \/ CommitFails

Next ==
    \/ \E p \in Principals, kind \in {"disabled", "enabled"} : SetStatus(p, kind)
    \/ \E t \in Tokens : Revoke(t) \/ Expire(t)
    \/ \E i \in 1..Len(events) : Relay(i)
    \/ Process
    \/ Ask \/ ReadDisabled \/ ReadJtis \/ Replace \/ HydrateFails
    \/ Restart

Spec == Init /\ [][Next]_vars

(* The outbox delivers (Outbox!EventuallyRelayed), the tasks run, and the  *)
(* refresh, tried for ever, is one day answered.                           *)
FairSpec ==
    /\ Spec
    /\ \A i \in 1..MaxEvents : WF_vars(i \in DOMAIN events /\ ~OnTopic(i) /\ Relay(i))
    /\ WF_vars(Process) /\ WF_vars(Ask)
    /\ SF_vars(ReadDisabled) /\ SF_vars(ReadJtis) /\ SF_vars(Replace)

-----------------------------------------------------------------------------
TypeOK ==
    /\ disabled \subseteq Principals /\ denied \subseteq Principals
    /\ revoked \subseteq Tokens /\ expired \subseteq Tokens /\ jtis \subseteq Tokens
    /\ events \in Seq(Event) /\ captured \in Seq(Event)
    /\ log \in Seq(1..Len(events))
    /\ position \in 0..Len(log)
    /\ group \in [joined : BOOLEAN, offset : 0..Len(log)]
    /\ consumer \in {"off", "poll", "commit", "dead"}
    /\ task \in {"boot", "sleep", "asked", "half", "answered"}
    /\ snap \in [disabled : SUBSET Principals, jtis : SUBSET Tokens]
    /\ serving \in BOOLEAN
    /\ restarts \in 0..MaxRestarts

(* "A revoke that lands while that request is in flight is applied again   *)
(* after the snapshot replace, so the replace cannot drop it": while the   *)
(* process runs, a revoked token leaves the denylist only once expired.    *)
ReplaceDropsNothing ==
    [][~UNCHANGED restarts \/ jtis \ jtis' \subseteq expired]_vars

(* The last record of each principal is of its last change: no record was  *)
(* repeated after a newer one.                                             *)
InOrder ==
    \A o \in DOMAIN log, i \in DOMAIN events :
        /\ events[i].id = events[log[o]].id
        /\ i > log[o]
        => \E q \in DOMAIN log : q > o /\ log[q] = i

(* A process that has read every identity event agrees with Identity,      *)
(* however the events and the snapshots were interleaved.                  *)
CaughtUpAgrees ==
    /\ consumer \in {"poll", "commit"} /\ position = Len(log)
    /\ \A i \in DOMAIN events : OnTopic(i)
    /\ InOrder
    => denied = disabled /\ revoked \ expired \subseteq jtis

(* When Identity stops changing, every process one day agrees with it and  *)
(* stays in agreement, whatever was repeated, missed or lost on the way.   *)
EventuallyAgrees ==
    <>[](serving /\ denied = disabled /\ revoked \ expired \subseteq jtis)
=============================================================================
