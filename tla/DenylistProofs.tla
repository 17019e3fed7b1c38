--------------------------- MODULE DenylistProofs ---------------------------
(***************************************************************************)
(* The snapshot replace never revives a token, for any sets of principals  *)
(* and tokens and any number of events, repeats and restarts.              *)
(***************************************************************************)
EXTENDS Denylist, TLAPS

(* Every revocation on the bus, captured or in memory is in Identity's     *)
(* tables, where the event's own transaction put it, until it expires.     *)
Durable ==
    /\ \A i \in DOMAIN events : events[i].id \in Tokens => events[i].id \in revoked \cup expired
    /\ jtis \subseteq revoked \cup expired
    /\ snap.jtis \subseteq revoked \cup expired
    /\ CapturedJtis \subseteq revoked \cup expired

(* An answer on its way, with the events captured since it was asked for,  *)
(* covers all that the denylist holds.                                     *)
AnswerCovers ==
    task = "answered" => jtis \subseteq snap.jtis \cup CapturedJtis \cup expired

DenyInv == TypeOK /\ Durable /\ AnswerCovers

(* A capture adds at most the event applied.                               *)
LEMMA CaptureGrows ==
    ASSUME TypeOK, NEW e \in Event, captured' = Noted(e), task' = task
    PROVE  /\ captured' \in Seq(Event)
           /\ CapturedJtis' \subseteq CapturedJtis \cup {e.id}
           /\ Capturing => CapturedJtis' = CapturedJtis \cup ({e.id} \cap Tokens)
<1>1. CASE Capturing
  <2>1. captured' = Append(captured, e) /\ captured \in Seq(Event)
    BY <1>1 DEF Noted, TypeOK
  <2>2. /\ captured' \in Seq(Event)
        /\ DOMAIN captured' = DOMAIN captured \cup {Len(captured) + 1}
        /\ captured'[Len(captured) + 1] = e
        /\ \A i \in DOMAIN captured : captured'[i] = captured[i]
    BY <2>1
  <2> QED
    BY <2>2 DEF CapturedJtis
<1>2. CASE ~Capturing
  BY <1>2 DEF Noted, TypeOK, CapturedJtis
<1> QED
  BY <1>1, <1>2

(* Nothing is revoked, captured or denied at the start.                    *)
LEMMA InitDenyInv == Init => DenyInv
<1> SUFFICES ASSUME Init PROVE DenyInv
  OBVIOUS
<1>0. serving \in BOOLEAN
  BY Zenon DEF Init
<1>b. (~FreshGroup) \in BOOLEAN
  BY Zenon
<1>c. group \in [joined : BOOLEAN, offset : 0..Len(log)]
  BY <1>b DEF Init
<1>1. TypeOK
  BY <1>0, <1>c, DenylistAssumption DEF Init, TypeOK, NoSnap
<1>2. CapturedJtis = {}
  BY DEF Init, CapturedJtis
<1> QED
  BY <1>1, <1>2 DEF Init, DenyInv, Durable, AnswerCovers, NoSnap

(* Every step keeps the invariant, and drops no token that is still good.  *)
LEMMA StepDenyInv ==
    ASSUME DenyInv, [Next]_vars
    PROVE  DenyInv' /\ (restarts' = restarts => jtis \ jtis' \subseteq expired)
<1> USE DEF DenyInv
<1>a. /\ events \in Seq(Event) /\ captured \in Seq(Event) /\ log \in Seq(1..Len(events))
      /\ Len(events) \in Nat /\ Len(log) \in Nat
  BY DEF TypeOK
<1>e. <<>> \in Seq(Event)
  OBVIOUS
<1>1. ASSUME NEW e \in Event, Enqueue(e), e.id \in Tokens => e.id \in revoked',
             revoked \subseteq revoked', revoked' \subseteq Tokens, disabled' \subseteq Principals,
             UNCHANGED <<expired, busVars, consumerVars, hydrateVars, memory, restarts>>
      PROVE  DenyInv' /\ jtis' = jtis
  <2> USE <1>1 DEF busVars, consumerVars, hydrateVars, memory
  <2>1. /\ events' \in Seq(Event) /\ Len(events') = Len(events) + 1
        /\ DOMAIN events' = DOMAIN events \cup {Len(events) + 1}
        /\ events'[Len(events) + 1] = e
        /\ \A i \in DOMAIN events : events'[i] = events[i]
    BY <1>a DEF Enqueue
  <2>2. log' \in Seq(1..Len(events'))
    BY <1>a, <2>1
  <2>3. TypeOK'
    BY <2>1, <2>2 DEF TypeOK
  <2>4. CapturedJtis' = CapturedJtis
    BY DEF CapturedJtis
  <2> QED
    BY <2>1, <2>3, <2>4 DEF Durable, AnswerCovers
<1>2. ASSUME NEW p \in Principals, NEW kind \in {"disabled", "enabled"}, SetStatus(p, kind)
      PROVE  DenyInv' /\ jtis' = jtis
  <2>1. [kind |-> kind, id |-> p] \in Event /\ p \notin Tokens
    BY DenylistAssumption DEF Event
  <2> QED
    BY <1>1, <1>2, <2>1 DEF SetStatus, TypeOK
<1>3. ASSUME NEW t \in Tokens, Revoke(t) PROVE DenyInv' /\ jtis' = jtis
  <2>1. [kind |-> "jti", id |-> t] \in Event
    BY DEF Event
  <2> QED
    BY <1>1, <1>3, <2>1 DEF Revoke, TypeOK
<1>4. ASSUME NEW t \in Tokens, Expire(t) PROVE DenyInv' /\ jtis' = jtis
  BY <1>4 DEF Expire, busVars, consumerVars, hydrateVars, memory, TypeOK, Durable,
     AnswerCovers, CapturedJtis
<1>5. ASSUME NEW i \in 1..Len(events), Relay(i) PROVE DenyInv' /\ jtis' = jtis
  <2> USE <1>5 DEF Relay, identityVars, consumerVars, hydrateVars, memory
  <2>1. log' \in Seq(1..Len(events)) /\ Len(log') = Len(log) + 1
    BY <1>a
  <2>2. TypeOK'
    BY <1>a, <2>1 DEF TypeOK
  <2> QED
    BY <2>2 DEF Durable, AnswerCovers, CapturedJtis
<1>6. CASE StartConsumer \/ CommitOffset \/ CommitFails
  <2> USE <1>6 DEF StartConsumer, CommitOffset, CommitFails, identityVars, busVars,
                   hydrateVars, memory
  <2>1. position' \in 0..Len(log) /\ group' \in [joined : BOOLEAN, offset : 0..Len(log)]
    <3>1. CASE StartConsumer
      BY <3>1, <1>a DEF TypeOK
    <3>2. CASE CommitOffset
      <4>1. TRUE \in BOOLEAN /\ position \in 0..Len(log)
        BY DEF TypeOK
      <4>2. group' = [joined |-> TRUE, offset |-> position] /\ position' = position
        BY <3>2
      <4> QED
        BY <4>1, <4>2
    <3>3. CASE CommitFails
      BY <3>3 DEF TypeOK
    <3> QED
      BY <1>6, <3>1, <3>2, <3>3
  <2>2. TypeOK'
    BY <2>1 DEF TypeOK
  <2> QED
    BY <2>2 DEF Durable, AnswerCovers, CapturedJtis
<1>7. CASE Consume
  <2> DEFINE e == events[log[position + 1]]
  <2> USE <1>7 DEF Consume, identityVars, busVars, hydrateVars
  <2>1. position + 1 \in DOMAIN log /\ log[position + 1] \in DOMAIN events /\ e \in Event
    BY <1>a DEF TypeOK
  <2>2. e.id \in Tokens => e.id \in revoked \cup expired
    BY <2>1 DEF Durable
  <2>3. /\ e.kind = "jti" => e.id \in Tokens
        /\ e.kind \in {"disabled", "enabled"} => e.id \in Principals
        /\ e.kind \in {"jti", "disabled", "enabled"}
    BY <2>1 DEF Event
  <2>4. /\ captured' \in Seq(Event)
        /\ CapturedJtis' \subseteq CapturedJtis \cup {e.id}
        /\ Capturing => CapturedJtis' = CapturedJtis \cup ({e.id} \cap Tokens)
    <3> HIDE DEF e
    <3>1. captured' = Noted(e) /\ task' = task
      BY DEF e
    <3> QED
      BY <2>1, <3>1, CaptureGrows
  <2>5. jtis' = IF e.kind = "jti" THEN jtis \cup {e.id} ELSE jtis
    OBVIOUS
  <2>6. denied' \subseteq Principals
    BY <2>3 DEF TypeOK
  <2>7. TypeOK'
    <3>1. jtis' \subseteq Tokens
      BY <2>3, <2>5 DEF TypeOK
    <3>2. position' \in 0..Len(log)
      BY <1>a DEF TypeOK
    <3> QED
      BY <2>4, <2>6, <3>1, <3>2 DEF TypeOK
  <2>8. Durable'
    BY <2>2, <2>3, <2>4, <2>5 DEF Durable, CapturedJtis
  <2>9. AnswerCovers'
    BY <2>3, <2>4, <2>5 DEF AnswerCovers, Capturing
  <2> QED
    BY <2>5, <2>7, <2>8, <2>9
<1>8. CASE Ask \/ ReadDisabled \/ HydrateFails
  <2> USE <1>8 DEF Ask, ReadDisabled, HydrateFails, identityVars, busVars, consumerVars, memory
  <2>1. TypeOK'
    <3>1. snap' \in [disabled : SUBSET Principals, jtis : SUBSET Tokens]
      BY DEF TypeOK, NoSnap
    <3>2. captured' = captured \/ captured' = <<>>
      OBVIOUS
    <3>3. captured' \in Seq(Event)
      BY <3>2, <1>a, <1>e, Zenon
    <3> QED
      BY <3>1, <3>3 DEF TypeOK
  <2>2. CapturedJtis' \subseteq CapturedJtis /\ task' # "answered" /\ jtis' = jtis
    BY DEF CapturedJtis
  <2>3. snap'.jtis \subseteq revoked \cup expired
    BY DEF Durable, NoSnap, TypeOK
  <2>4. Durable'
    BY <2>2, <2>3 DEF Durable
  <2> QED
    BY <2>1, <2>2, <2>4 DEF AnswerCovers
<1>9. CASE ReadJtis
  <2> USE <1>9 DEF ReadJtis, identityVars, busVars, consumerVars, memory
  <2>1. TypeOK'
    BY <1>a DEF TypeOK
  <2>2. CapturedJtis' = CapturedJtis
    BY DEF CapturedJtis
  <2> QED
    BY <2>1, <2>2 DEF Durable, AnswerCovers, TypeOK
<1>10. CASE Replace
  <2> USE <1>10 DEF Replace, identityVars, busVars, consumerVars
  <2>1. CapturedJtis' = {} /\ CapturedJtis \subseteq Tokens
    BY DEF CapturedJtis
  <2>2. TypeOK'
    BY <1>a, <2>1 DEF TypeOK, NoSnap
  <2>3. jtis \ jtis' \subseteq expired
    BY DEF AnswerCovers
  <2> QED
    BY <2>1, <2>2, <2>3 DEF Durable, AnswerCovers, NoSnap
<1>11. CASE Restart
  <2> USE <1>11 DEF Restart, identityVars, busVars
  <2>0. serving' \in BOOLEAN
    BY Zenon
  <2>1. TypeOK' /\ restarts' # restarts
    BY <2>0, <1>a, DenylistAssumption DEF TypeOK, NoSnap
  <2> QED
    BY <2>1 DEF Durable, AnswerCovers, NoSnap, CapturedJtis
<1>12. CASE UNCHANGED vars
  BY <1>12 DEF vars, identityVars, busVars, consumerVars, hydrateVars, memory, TypeOK,
     Durable, AnswerCovers, CapturedJtis
<1> QED
  BY <1>2, <1>3, <1>4, <1>5, <1>6, <1>7, <1>8, <1>9, <1>10, <1>11, <1>12
  DEF Next, Process, memory

(* The tables, the topic and the in-memory sets stay well formed.          *)
THEOREM DenylistTypeCorrect == Spec => []TypeOK
<1>1. DenyInv /\ [Next]_vars => DenyInv'
  BY StepDenyInv
<1>2. DenyInv => TypeOK
  BY DEF DenyInv
<1> QED
  BY <1>1, <1>2, InitDenyInv, PTL DEF Spec

(* hydrate_revocation_snapshot's capture and replay are enough: while a    *)
(* process runs, no revoked token is accepted again before it expires.     *)
THEOREM NoTokenRevived == Spec => ReplaceDropsNothing
<1>1. DenyInv /\ [Next]_vars => DenyInv'
  BY StepDenyInv
<1>2. DenyInv /\ [Next]_vars => [~UNCHANGED restarts \/ jtis \ jtis' \subseteq expired]_vars
  BY StepDenyInv
<1> QED
  BY <1>1, <1>2, InitDenyInv, PTL DEF Spec, ReplaceDropsNothing

-----------------------------------------------------------------------------
(* A process that has read every event agrees with Identity.               *)

(* What the record at offset o is about.                                   *)
Rec(o) == events[log[o]]

(* Records the process, or before it the group, is past.                   *)
Read == IF consumer = "off" THEN group.offset ELSE position

(* The last of the first m records that is about p.                        *)
LastRecord(p, m, o) ==
    /\ o \in 1..m /\ Rec(o).id = p
    /\ \A q \in 1..m : q > o => Rec(q).id # p
NoRecord(p, m) == \A o \in 1..m : Rec(o).id # p

LastRead(p, o) == LastRecord(p, Read, o)
NoneRead(p) == NoRecord(p, Read)

(* Event i gave principal p the status k.                                  *)
Said(p, k, i) == i \in DOMAIN events /\ events[i].id = p /\ events[i].kind = k

(* The status k of p is that of an event at least as new as p's last       *)
(* record read so far.                                                     *)
Fresh(p, k) ==
    \/ NoneRead(p) /\ (k = "enabled" \/ \E i \in Nat : Said(p, k, i))
    \/ \E o, i \in Nat : LastRead(p, o) /\ i >= log[o] /\ Said(p, k, i)

FreshSet(set) ==
    \A p \in Principals : /\ p \in set => Fresh(p, "disabled")
                          /\ p \notin set => Fresh(p, "enabled")

(* Identity's tables hold what its last events said.                       *)
LastEvent(p, i) ==
    /\ i \in DOMAIN events /\ events[i].id = p
    /\ events[i].kind = IF p \in disabled THEN "disabled" ELSE "enabled"
    /\ \A j \in DOMAIN events : j > i => events[j].id # p

TablesAreLast ==
    /\ \A p \in Principals :
          \/ p \notin disabled /\ \A i \in DOMAIN events : events[i].id # p
          \/ \E i \in Nat : LastEvent(p, i)
    /\ \A t \in revoked : \E i \in DOMAIN events : events[i].id = t

(* The consumer runs in a process that serves, and never falls behind the  *)
(* group's offset.                                                         *)
KeepsUp ==
    /\ group.joined = TRUE
    /\ group.offset <= Read
    /\ consumer # "off" => serving = TRUE

HasLast ==
    \A m \in 0..Len(log), p \in Principals :
        NoRecord(p, m) \/ \E o \in Nat : LastRecord(p, m, o)

ServedIsFresh ==
    serving = TRUE =>
        /\ FreshSet(denied)
        /\ \A o \in 1..Read : Rec(o).id \in Tokens => Rec(o).id \in jtis \cup expired

NotCaptured(p) == \A i \in DOMAIN captured : captured[i].id # p

(* The last captured event of p is of the same kind as its last record.    *)
LastNoted(p) ==
    \E i \in DOMAIN captured, o \in Nat :
        /\ LastRead(p, o)
        /\ captured[i] = Rec(o)
        /\ \A j \in DOMAIN captured : j > i => captured[j].id # p

(* What a replace would install: the last captured event of a principal is *)
(* its last record, and the snapshot is fresh for all the others.          *)
AnswerIsFresh ==
    /\ Capturing => \A p \in Principals : NotCaptured(p) \/ LastNoted(p)
    /\ task \in {"half", "answered"} => \A p \in Principals :
          NotCaptured(p) => /\ p \in snap.disabled => Fresh(p, "disabled")
                            /\ p \notin snap.disabled => Fresh(p, "enabled")
    /\ task = "answered" => \A o \in 1..Read :
          Rec(o).id \in Tokens => Rec(o).id \in snap.jtis \cup CapturedJtis \cup expired

AgreeInv ==
    DenyInv /\ TablesAreLast /\ KeepsUp /\ HasLast /\ ServedIsFresh /\ AnswerIsFresh

(* Events and records are only ever added.                                 *)
Extends ==
    /\ Len(events) <= Len(events') /\ \A i \in 1..Len(events) : events'[i] = events[i]
    /\ Len(log) <= Len(log') /\ \A o \in 1..Len(log) : log'[o] = log[o]

(* The types that the lemmas below use.                                    *)
LEMMA Shapes ==
    ASSUME TypeOK
    PROVE  /\ events \in Seq(Event) /\ Len(events) \in Nat /\ DOMAIN events = 1..Len(events)
           /\ Len(log) \in Nat /\ DOMAIN log = 1..Len(log)
           /\ \A o \in 1..Len(log) : log[o] \in 1..Len(events)
           /\ Read \in 0..Len(log) /\ Read \in Nat
           /\ captured \in Seq(Event) /\ Len(captured) \in Nat
           /\ DOMAIN captured = 1..Len(captured)
           /\ \A i \in 1..Len(events) : events[i] \in Event
BY DEF TypeOK, Read

(* What was last stays last when nothing more is read.                     *)
LEMMA Kept ==
    ASSUME TypeOK, TypeOK', Extends
    PROVE  /\ \A o \in 1..Len(log) : Rec(o)' = Rec(o)
           /\ \A p, o : \A m \in 0..Len(log) : LastRecord(p, m, o) => LastRecord(p, m, o)'
           /\ \A p : \A m \in 0..Len(log) : NoRecord(p, m) => NoRecord(p, m)'
           /\ \A p, k, i : Said(p, k, i) => Said(p, k, i)'
           /\ Read' = Read => /\ \A p, o : LastRead(p, o) => LastRead(p, o)'
                              /\ \A p : NoneRead(p) => NoneRead(p)'
                              /\ \A p, k : Fresh(p, k) => Fresh(p, k)'
<1>1. \A o \in 1..Len(log) : Rec(o)' = Rec(o)
  BY Shapes DEF Extends, Rec
<1>2. \A p, o : \A m \in 0..Len(log) : LastRecord(p, m, o) => LastRecord(p, m, o)'
  <2> SUFFICES ASSUME NEW p, NEW o, NEW m \in 0..Len(log), LastRecord(p, m, o)
               PROVE  LastRecord(p, m, o)'
    OBVIOUS
  <2>1. Len(log) \in Nat
    BY Shapes
  <2>2. \A q \in 1..m : q \in 1..Len(log)
    BY <2>1
  <2> QED
    BY <1>1, <2>2 DEF LastRecord
<1>3. \A p : \A m \in 0..Len(log) : NoRecord(p, m) => NoRecord(p, m)'
  <2> SUFFICES ASSUME NEW p, NEW m \in 0..Len(log), NoRecord(p, m)
               PROVE  NoRecord(p, m)'
    OBVIOUS
  <2>1. Len(log) \in Nat
    BY Shapes
  <2>2. \A q \in 1..m : q \in 1..Len(log)
    BY <2>1
  <2> QED
    BY <1>1, <2>2 DEF NoRecord
<1>4. \A p, k, i : Said(p, k, i) => Said(p, k, i)'
  <2>1. DOMAIN events = 1..Len(events) /\ Len(events) \in Nat
    BY Shapes
  <2>2. DOMAIN events' = 1..Len(events') /\ Len(events') \in Nat
    BY DEF TypeOK
  <2> QED
    BY <2>1, <2>2 DEF Said, Extends
<1>5. ASSUME Read' = Read
      PROVE  /\ \A p, o : LastRead(p, o) => LastRead(p, o)'
             /\ \A p : NoneRead(p) => NoneRead(p)'
             /\ \A p, k : Fresh(p, k) => Fresh(p, k)'
  <2>0. PICK m : m = Read /\ m = Read' /\ m \in 0..Len(log)
    BY <1>5, Shapes
  <2>1. ASSUME NEW p, NEW o, LastRead(p, o) PROVE LastRead(p, o)'
    <3>1. LastRecord(p, m, o)
      BY <2>0, <2>1 DEF LastRead
    <3>2. LastRecord(p, m, o)'
      BY <1>2, <2>0, <3>1
    <3> QED
      BY <2>0, <3>2 DEF LastRead, LastRecord
  <2>2. ASSUME NEW p, NoneRead(p) PROVE NoneRead(p)'
    <3>1. NoRecord(p, m)
      BY <2>0, <2>2 DEF NoneRead
    <3>2. NoRecord(p, m)'
      BY <1>3, <2>0, <3>1
    <3> QED
      BY <2>0, <3>2 DEF NoneRead, NoRecord
  <2>3. \A p, o : LastRead(p, o) => log'[o] = log[o]
    BY Shapes DEF LastRead, LastRecord, Extends
  <2>4. \A p, k : Fresh(p, k) => Fresh(p, k)'
    BY <1>4, <2>1, <2>2, <2>3 DEF Fresh
  <2> QED
    BY <2>1, <2>2, <2>4
<1> QED
  BY <1>1, <1>2, <1>3, <1>4, <1>5

(* Reading one more record changes what is last only for its principal.    *)
LEMMA ConsumeReads ==
    ASSUME TypeOK, TypeOK', Consume, NEW n, n = position + 1, NEW e, e = Rec(n)
    PROVE  /\ e \in Event /\ Read = position /\ Read' = position + 1
           /\ \A o \in 1..Len(log) : Rec(o)' = Rec(o)
           /\ \A p, o : p # e.id /\ LastRead(p, o) => LastRead(p, o)'
           /\ \A p : p # e.id /\ NoneRead(p) => NoneRead(p)'
           /\ \A p, k : p # e.id /\ Fresh(p, k) => Fresh(p, k)'
           /\ LastRead(e.id, n)'
           /\ Fresh(e.id, e.kind)'
<1>1. /\ events' = events /\ log' = log /\ consumer = "poll" /\ consumer' = "commit"
      /\ position' = position + 1 /\ position < Len(log) /\ position \in Nat
  BY DEF Consume, identityVars, busVars, TypeOK
<1>2. Read = position /\ Read' = position + 1
  BY <1>1 DEF Read
<1>3. /\ position + 1 \in 1..Len(log) /\ Len(log) \in Nat
      /\ log[position + 1] \in 1..Len(events) /\ DOMAIN events = 1..Len(events)
  BY <1>1, Shapes
<1>4. e \in Event
  BY <1>3, Shapes DEF Rec
<1>5. \A o : Rec(o)' = Rec(o)
  BY <1>1 DEF Rec
<1>6. \A o \in 1..(position + 1) : o \in 1..position \/ o = position + 1
  BY <1>1
<1>7. \A p, o : p # e.id /\ LastRead(p, o) => LastRead(p, o)'
  <2> SUFFICES ASSUME NEW p, NEW o, p # e.id, LastRead(p, o)
               PROVE  LastRead(p, o)'
    OBVIOUS
  <2>1. o \in 1..(position + 1) /\ Rec(o).id = p
    BY <1>1, <1>2 DEF LastRead, LastRecord
  <2>2. \A q \in 1..(position + 1) : q > o => Rec(q).id # p
    BY <1>2, <1>6 DEF LastRead, LastRecord
  <2> QED
    BY <1>2, <1>5, <2>1, <2>2 DEF LastRead, LastRecord
<1>8. \A p : p # e.id /\ NoneRead(p) => NoneRead(p)'
  <2> SUFFICES ASSUME NEW p, p # e.id, NoneRead(p)
               PROVE  NoneRead(p)'
    OBVIOUS
  <2>1. \A q \in 1..(position + 1) : Rec(q).id # p
    BY <1>2, <1>6 DEF NoneRead, NoRecord
  <2> QED
    BY <1>2, <1>5, <2>1 DEF NoneRead, NoRecord
<1>9. \A p, k, i : Said(p, k, i) => Said(p, k, i)'
  BY <1>1 DEF Said
<1>10. \A p, k : p # e.id /\ Fresh(p, k) => Fresh(p, k)'
  BY <1>1, <1>7, <1>8, <1>9 DEF Fresh
<1>11. LastRead(e.id, n)'
  <2>1. n \in 1..n /\ ~ \E q \in 1..n : q > n
    BY <1>1
  <2>2. Rec(n)'.id = e.id
    BY <1>5
  <2> QED
    BY <1>2, <1>5, <2>1, <2>2 DEF LastRead, LastRecord
<1>12. Fresh(e.id, e.kind)'
  <2>1. PICK i : i = log[n]
    OBVIOUS
  <2>2. Said(e.id, e.kind, i)'
    BY <1>1, <1>3, <2>1 DEF Said, Rec
  <2>3. i \in Nat /\ n \in Nat /\ i >= log'[n]
    BY <1>1, <1>3, <2>1
  <2> QED
    BY <1>11, <2>2, <2>3 DEF Fresh
<1> QED
  BY <1>2, <1>4, <1>5, <1>7, <1>8, <1>10, <1>11, <1>12

(* Identity's own table is as fresh as anything read.                      *)
LEMMA TableIsFresh ==
    ASSUME AgreeInv
    PROVE  FreshSet(disabled)
<1> USE DEF AgreeInv, DenyInv
<1>0. /\ Read \in 0..Len(log) /\ Len(log) \in Nat /\ Read \in Nat
      /\ DOMAIN events = 1..Len(events) /\ Len(events) \in Nat
      /\ \A o \in 1..Read : log[o] \in 1..Len(events)
  BY Shapes
<1> SUFFICES ASSUME NEW p \in Principals, NEW k, k = IF p \in disabled THEN "disabled" ELSE "enabled"
             PROVE  Fresh(p, k)
  BY DEF FreshSet
<1>1. CASE p \notin disabled /\ \A i \in DOMAIN events : events[i].id # p
  BY <1>0, <1>1 DEF Fresh, NoneRead, NoRecord, Rec
<1>2. ASSUME NEW i \in Nat, LastEvent(p, i)
      PROVE  Fresh(p, k)
  <2>1. Said(p, k, i)
    BY <1>2 DEF LastEvent, Said
  <2>2. CASE NoneRead(p)
    BY <2>1, <2>2 DEF Fresh
  <2>3. ASSUME NEW o \in Nat, LastRead(p, o)
        PROVE  Fresh(p, k)
    <3>1. o \in 1..Read /\ Rec(o).id = p
      BY <2>3 DEF LastRead, LastRecord
    <3>2. log[o] <= i
      BY <1>0, <1>2, <3>1 DEF LastEvent, Rec
    <3> QED
      BY <2>1, <2>3, <3>2, <1>0, <3>1 DEF Fresh
  <2>4. NoneRead(p) \/ \E o \in Nat : LastRead(p, o)
    BY <1>0 DEF HasLast, NoneRead, LastRead
  <2> QED
    BY <2>2, <2>3, <2>4
<1> QED
  BY <1>1, <1>2 DEF TablesAreLast

(* Steps of Identity and of the bus: the process knows what it knew.       *)
LEMMA QuietStep ==
    ASSUME AgreeInv, TypeOK', Extends, expired \subseteq expired',
           UNCHANGED <<denied, jtis, captured, serving, task, snap, consumer, position, group>>
    PROVE  KeepsUp' /\ ServedIsFresh' /\ AnswerIsFresh'
<1> USE DEF AgreeInv, DenyInv
<1>1. Read' = Read
  BY DEF Read
<1>2. /\ \A o \in 1..Read : Rec(o)' = Rec(o)
      /\ \A p, o : LastRead(p, o) => LastRead(p, o)'
      /\ \A p, k : Fresh(p, k) => Fresh(p, k)'
  <2>1. Read \in 0..Len(log) /\ Len(log) \in Nat
    BY Shapes
  <2> QED
    BY <1>1, <2>1, Kept
<1>3. KeepsUp'
  BY <1>1 DEF KeepsUp
<1>4. ServedIsFresh'
  BY <1>1, <1>2 DEF ServedIsFresh, FreshSet
<1>5. \A p : LastNoted(p) => LastNoted(p)'
  BY <1>2 DEF LastNoted, LastRead, LastRecord
<1>6. /\ \A p : NotCaptured(p)' => NotCaptured(p)
      /\ CapturedJtis' = CapturedJtis /\ (Capturing' => Capturing)
  BY DEF NotCaptured, CapturedJtis, Capturing
<1>7. \A p : NotCaptured(p) => NotCaptured(p)'
  BY DEF NotCaptured
<1>8. AnswerIsFresh'
  BY <1>1, <1>2, <1>5, <1>6, <1>7 DEF AnswerIsFresh
<1> QED
  BY <1>3, <1>4, <1>8

(* A topic that did not grow has the same last records.                    *)
LEMMA SameTopic ==
    ASSUME AgreeInv, TypeOK', Extends, log' = log
    PROVE  HasLast'
BY Kept DEF HasLast, AgreeInv, DenyInv

(* No event, and at most rows of expired tokens purged.                    *)
LEMMA SameTables ==
    ASSUME AgreeInv, UNCHANGED <<disabled, events>>, revoked' \subseteq revoked
    PROVE  TablesAreLast'
<1>1. \A p, i : LastEvent(p, i) => LastEvent(p, i)'
  BY DEF LastEvent
<1> QED
  BY <1>1 DEF AgreeInv, TablesAreLast

(* A change made at Identity, with its event.                              *)
LEMMA IdentityStep ==
    ASSUME AgreeInv, DenyInv', NEW e \in Event, Enqueue(e),
           UNCHANGED <<expired, busVars, consumerVars, hydrateVars, memory, restarts>>,
           revoked' \subseteq revoked \cup {e.id},
           \A p \in Principals : IF p = e.id THEN p \in disabled' <=> e.kind = "disabled"
                                 ELSE p \in disabled' <=> p \in disabled,
           e.id \in Principals => e.kind \in {"disabled", "enabled"}
    PROVE  AgreeInv'
<1> USE DEF AgreeInv, DenyInv
<1> USE DEF busVars, consumerVars, hydrateVars, memory
<1>0. events \in Seq(Event) /\ Len(events) \in Nat
  BY Shapes
<1>1. PICK n \in Nat : n = Len(events) + 1
  BY <1>0
<1>2. /\ Len(events') = n /\ DOMAIN events' = 1..n /\ DOMAIN events = 1..(n - 1)
      /\ events'[n] = e /\ \A i \in 1..(n - 1) : events'[i] = events[i]
  BY <1>0, <1>1 DEF Enqueue
<1>3. Extends
  BY <1>0, <1>1, <1>2 DEF Extends
<1>4. TablesAreLast'
  <2>1. ASSUME NEW p \in Principals, p # e.id, NEW i \in Nat, LastEvent(p, i)
        PROVE  LastEvent(p, i)'
    BY <1>1, <1>2, <2>1 DEF LastEvent
  <2>2. ASSUME NEW p \in Principals, p = e.id
        PROVE  LastEvent(p, n)'
    BY <1>1, <1>2, <2>2 DEF LastEvent
  <2>3. ASSUME NEW p \in Principals, p # e.id, p \notin disabled,
               \A i \in DOMAIN events : events[i].id # p
        PROVE  p \notin disabled' /\ \A i \in DOMAIN events' : events'[i].id # p
    BY <1>1, <1>2, <2>3
  <2>4. ASSUME NEW t \in revoked' PROVE \E i \in DOMAIN events' : events'[i].id = t
    <3>1. CASE t = e.id
      BY <1>1, <1>2, <3>1
    <3>2. CASE t \in revoked
      <4>1. PICK i \in DOMAIN events : events[i].id = t
        BY <3>2 DEF TablesAreLast
      <4>2. i \in DOMAIN events' /\ events'[i].id = t
        BY <1>1, <1>2, <4>1
      <4> QED
        BY <4>2
    <3> QED
      BY <3>1, <3>2
  <2> QED
    BY <2>1, <2>2, <2>3, <2>4 DEF TablesAreLast
<1>5. HasLast'
  BY <1>3, SameTopic
<1> QED
  BY <1>3, <1>4, <1>5, QuietStep

(* The relay puts one more record on the topic.                            *)
LEMMA RelayStep ==
    ASSUME AgreeInv, DenyInv', NEW i \in 1..Len(events), Relay(i)
    PROVE  AgreeInv'
<1> USE DEF AgreeInv, DenyInv
<1>0. /\ log \in Seq(1..Len(events)) /\ Len(log) \in Nat
      /\ log' = Append(log, i) /\ events' = events
      /\ UNCHANGED <<identityVars, group, consumerVars, hydrateVars, memory>>
  BY DEF Relay, TypeOK, identityVars
<1>1. PICK n \in Nat : n = Len(log) + 1
  BY <1>0
<1>2. /\ Len(log') = n /\ log'[n] = i /\ \A o \in 1..(n - 1) : log'[o] = log[o]
  BY <1>0, <1>1
<1>3. Extends
  BY <1>0, <1>1, <1>2, Shapes DEF Extends
<1>4. HasLast'
  <2> SUFFICES ASSUME NEW m \in 0..n, NEW p \in Principals
               PROVE  NoRecord(p, m)' \/ \E o \in Nat : LastRecord(p, m, o)'
    BY <1>2 DEF HasLast
  <2>1. CASE m \in 0..Len(log)
    BY <1>3, <2>1, Kept DEF HasLast
  <2>2. CASE m = n
    <3>1. \A o \in 1..(n - 1) : Rec(o)' = Rec(o)
      BY <1>1, <1>3, Kept
    <3>2. CASE Rec(n)'.id = p
      <4>1. LastRecord(p, n, n)'
        BY <3>2, <1>1 DEF LastRecord
      <4> QED
        BY <2>2, <4>1
    <3>3. CASE Rec(n)'.id # p
      <4>0. n - 1 \in 0..Len(log)
        BY <1>0, <1>1
      <4>1. CASE NoRecord(p, n - 1)
        BY <2>2, <3>1, <3>3, <4>1, <1>1 DEF NoRecord
      <4>2. ASSUME NEW o \in Nat, LastRecord(p, n - 1, o)
            PROVE  LastRecord(p, n, o)'
        <5>1. o \in 1..n /\ Rec(o)'.id = p
          BY <3>1, <4>2, <1>1 DEF LastRecord
        <5>2. \A q \in 1..n : q > o => Rec(q)'.id # p
          BY <3>1, <3>3, <4>2, <1>1 DEF LastRecord
        <5> QED
          BY <5>1, <5>2 DEF LastRecord
      <4> QED
        BY <2>2, <4>0, <4>1, <4>2 DEF HasLast
    <3> QED
      BY <3>2, <3>3
  <2> QED
    BY <1>0, <1>1, <2>1, <2>2
<1>5. TablesAreLast'
  BY <1>0, SameTables DEF identityVars
<1> QED
  BY <1>0, <1>3, <1>4, <1>5, QuietStep DEF identityVars, consumerVars, hydrateVars, memory

(* The consumer applies a record, and notes it while a snapshot is read.   *)
LEMMA ConsumeStep ==
    ASSUME AgreeInv, DenyInv', Consume
    PROVE  AgreeInv'
<1> USE DEF AgreeInv, DenyInv
<1>0. PICK n, e : n = position + 1 /\ e = Rec(n)
  OBVIOUS
<1>1. /\ UNCHANGED <<disabled, revoked, expired, events, log, group, task, snap, serving>>
      /\ consumer = "poll" /\ consumer' = "commit"
      /\ denied' = CASE e.kind = "disabled" -> denied \cup {e.id}
                     [] e.kind = "enabled"  -> denied \ {e.id}
                     [] OTHER               -> denied
      /\ jtis' = IF e.kind = "jti" THEN jtis \cup {e.id} ELSE jtis
      /\ captured' = Noted(e)
      /\ position \in Nat
  BY <1>0 DEF Consume, Rec, identityVars, busVars, hydrateVars, TypeOK
<1>2. /\ e \in Event /\ Read = position /\ Read' = n
      /\ \A o \in 1..Len(log) : Rec(o)' = Rec(o)
      /\ \A p, o : p # e.id /\ LastRead(p, o) => LastRead(p, o)'
      /\ \A p, k : p # e.id /\ Fresh(p, k) => Fresh(p, k)'
      /\ LastRead(e.id, n)'
      /\ Fresh(e.id, e.kind)'
  BY <1>0, ConsumeReads
<1>3. /\ e.id \in Principals => e.kind \in {"disabled", "enabled"}
      /\ e.id \in Tokens => e.kind = "jti"
  BY <1>2, DenylistAssumption DEF Event
<1>4. /\ n \in Nat /\ n \in 1..Len(log) /\ Len(log) \in Nat
      /\ \A o \in 1..n : o \in 1..position \/ o = n
      /\ \A o \in 1..n : o \in 1..Len(log)
      /\ \A o \in 1..position : o \in 1..Len(log)
  <2>1. position \in Nat /\ Len(log) \in Nat /\ position < Len(log) /\ n = position + 1
    BY <1>0, <1>1, Shapes DEF Consume
  <2> QED
    BY <2>1
<1>5. TablesAreLast' /\ HasLast'
  <2>1. Extends
    BY <1>1, Shapes DEF Extends
  <2> QED
    BY <1>1, <2>1, SameTables, SameTopic
<1>6. KeepsUp'
  BY <1>0, <1>1, <1>2, <1>4 DEF KeepsUp, TypeOK
<1>7. ServedIsFresh'
  <2> SUFFICES ASSUME serving' = TRUE
               PROVE  /\ FreshSet(denied)'
                      /\ \A o \in 1..n : Rec(o)'.id \in Tokens => Rec(o)'.id \in jtis' \cup expired'
    BY <1>2 DEF ServedIsFresh
  <2>1. ASSUME NEW p \in Principals
        PROVE  /\ p \in denied' => Fresh(p, "disabled")'
               /\ p \notin denied' => Fresh(p, "enabled")'
    <3>1. CASE p = e.id
      BY <1>1, <1>2, <1>3, <3>1
    <3>2. CASE p # e.id
      <4>1. p \in denied' <=> p \in denied
        BY <1>1, <3>2
      <4>2. /\ p \in denied => Fresh(p, "disabled")
            /\ p \notin denied => Fresh(p, "enabled")
        BY <1>1 DEF ServedIsFresh, FreshSet
      <4> QED
        BY <1>2, <3>2, <4>1, <4>2
    <3> QED
      BY <3>1, <3>2
  <2>2. ASSUME NEW o \in 1..n, Rec(o).id \in Tokens PROVE Rec(o).id \in jtis' \cup expired
    BY <1>0, <1>1, <1>2, <1>3, <1>4, <2>2 DEF ServedIsFresh
  <2> QED
    BY <1>1, <1>2, <1>4, <2>1, <2>2 DEF FreshSet
<1>8. AnswerIsFresh'
  <2>0. /\ captured \in Seq(Event) /\ Len(captured) \in Nat
        /\ DOMAIN captured = 1..Len(captured)
    BY Shapes
  <2>1. CASE ~Capturing
    BY <1>1, <2>1 DEF AnswerIsFresh, Capturing
  <2>2. CASE Capturing
    <3>1. PICK c \in Nat : c = Len(captured) + 1
      BY <2>0
    <3>2. /\ DOMAIN captured' = 1..c /\ DOMAIN captured = 1..(c - 1) /\ captured'[c] = e
          /\ \A i \in 1..(c - 1) : captured'[i] = captured[i]
      BY <1>1, <1>2, <2>0, <2>2, <3>1 DEF Noted
    <3>3. ASSUME NEW p \in Principals
          PROVE  NotCaptured(p)' \/ LastNoted(p)'
      <4>1. CASE p = e.id
        <5>1. LastRead(p, n)' /\ captured'[c] = Rec(n)'
          BY <1>0, <1>2, <1>4, <3>2, <4>1
        <5>2. c \in 1..c /\ ~ \E j \in 1..c : j > c
          BY <3>1
        <5> QED
          BY <1>4, <3>2, <5>1, <5>2 DEF LastNoted
      <4>2. CASE p # e.id
        <5>1. CASE NotCaptured(p)
          <6>1. NotCaptured(p)'
            BY <3>2, <3>1, <4>2, <5>1 DEF NotCaptured
          <6> QED
            BY <6>1
        <5>2. CASE LastNoted(p)
          <6>1. PICK i \in DOMAIN captured, o \in Nat :
                   /\ LastRead(p, o)
                   /\ captured[i] = Rec(o)
                   /\ \A j \in DOMAIN captured : j > i => captured[j].id # p
            BY <5>2 DEF LastNoted
          <6>2. LastRead(p, o)' /\ i \in 1..c
            BY <1>2, <3>1, <3>2, <4>2, <6>1
          <6>3. captured'[i] = Rec(o)'
            BY <1>2, <1>4, <3>1, <3>2, <6>1 DEF LastRead, LastRecord
          <6>4. \A j \in 1..c : j > i => captured'[j].id # p
            BY <3>1, <3>2, <4>2, <6>1
          <6> QED
            BY <3>2, <6>2, <6>3, <6>4 DEF LastNoted
        <5> QED
          BY <2>2, <5>1, <5>2 DEF AnswerIsFresh
      <4> QED
        BY <4>1, <4>2
    <3>4. ASSUME task \in {"half", "answered"}, NEW p \in Principals, NotCaptured(p)'
          PROVE  /\ p \in snap.disabled => Fresh(p, "disabled")'
                 /\ p \notin snap.disabled => Fresh(p, "enabled")'
      <4>1. p # e.id
        BY <3>1, <3>2, <3>4 DEF NotCaptured
      <4>2. NotCaptured(p)
        BY <3>1, <3>2, <3>4 DEF NotCaptured
      <4> QED
        BY <1>2, <3>4, <4>1, <4>2 DEF AnswerIsFresh
    <3>5. ASSUME task = "answered", NEW o \in 1..n, Rec(o).id \in Tokens
          PROVE  Rec(o).id \in snap.jtis \cup CapturedJtis' \cup expired
      <4>1. CapturedJtis \subseteq CapturedJtis' /\ (e.id \in Tokens => e.id \in CapturedJtis')
        BY <3>1, <3>2 DEF CapturedJtis
      <4> QED
        BY <1>0, <1>2, <1>4, <3>5, <4>1 DEF AnswerIsFresh
    <3> QED
      BY <1>1, <1>2, <1>4, <3>3, <3>4, <3>5 DEF AnswerIsFresh
  <2> QED
    BY <2>1, <2>2
<1> QED
  BY <1>5, <1>6, <1>7, <1>8

(* Joining the group, and committing to it.                                *)
LEMMA GroupStep ==
    ASSUME AgreeInv, DenyInv', StartConsumer \/ CommitOffset \/ CommitFails
    PROVE  AgreeInv'
<1> USE DEF AgreeInv, DenyInv
<1>1. UNCHANGED <<disabled, revoked, expired, events, log, task, snap, serving,
                  captured, denied, jtis>>
  BY DEF StartConsumer, CommitOffset, CommitFails, identityVars, busVars, hydrateVars, memory
<1>2. Extends
  BY <1>1, Shapes DEF Extends
<1>3. Read' = Read /\ KeepsUp'
  <2>1. CASE StartConsumer
    BY <2>1, Shapes DEF StartConsumer, busVars, hydrateVars, KeepsUp, Read, TypeOK
  <2>2. CASE CommitOffset
    <3>1. /\ consumer = "commit" /\ consumer' = "poll" /\ position' = position
          /\ group'.joined = TRUE /\ group'.offset = position /\ serving' = serving
      BY <2>2 DEF CommitOffset, hydrateVars
    <3> QED
      BY <3>1 DEF KeepsUp, Read, TypeOK
  <2>3. CASE CommitFails
    BY <2>3 DEF CommitFails, busVars, hydrateVars, KeepsUp, Read
  <2> QED
    BY <2>1, <2>2, <2>3
<1>4. TablesAreLast' /\ HasLast'
  BY <1>1, <1>2, SameTables, SameTopic
<1>5. /\ \A o \in 1..Read : Rec(o)' = Rec(o)
      /\ \A p, o : LastRead(p, o) => LastRead(p, o)'
      /\ \A p, k : Fresh(p, k) => Fresh(p, k)'
  <2>1. Read \in 0..Len(log) /\ Len(log) \in Nat
    BY Shapes
  <2> QED
    BY <1>2, <1>3, <2>1, Kept
<1>6. ServedIsFresh'
  BY <1>1, <1>3, <1>5 DEF ServedIsFresh, FreshSet
<1>7. \A p : LastNoted(p) => LastNoted(p)'
  BY <1>1, <1>5 DEF LastNoted, LastRead, LastRecord
<1>8. /\ \A p : NotCaptured(p)' <=> NotCaptured(p)
      /\ CapturedJtis' = CapturedJtis /\ (Capturing' <=> Capturing)
  BY <1>1 DEF NotCaptured, CapturedJtis, Capturing
<1>9. AnswerIsFresh'
  BY <1>1, <1>3, <1>5, <1>7, <1>8 DEF AnswerIsFresh
<1> QED
  BY <1>3, <1>4, <1>6, <1>9

(* Reading and installing a snapshot.                                      *)
LEMMA HydrateStep ==
    ASSUME AgreeInv, DenyInv', Ask \/ ReadDisabled \/ ReadJtis \/ Replace \/ HydrateFails
    PROVE  AgreeInv'
<1> USE DEF AgreeInv, DenyInv
<1>1. /\ UNCHANGED <<disabled, expired, events, log, group, consumer, position>>
      /\ revoked' \subseteq revoked
  BY DEF Ask, ReadDisabled, ReadJtis, Replace, HydrateFails, identityVars, busVars, consumerVars
<1>2. Extends
  BY <1>1, Shapes DEF Extends
<1>3. Read' = Read
  BY <1>1 DEF Read
<1>4. TablesAreLast' /\ HasLast'
  BY <1>1, <1>2, SameTables, SameTopic
<1>5. /\ \A o \in 1..Read : Rec(o)' = Rec(o)
      /\ \A p, o : LastRead(p, o) => LastRead(p, o)'
      /\ \A p, k : Fresh(p, k) => Fresh(p, k)'
  <2>1. Read \in 0..Len(log) /\ Len(log) \in Nat
    BY Shapes
  <2> QED
    BY <1>2, <1>3, <2>1, Kept
<1>6. KeepsUp'
  BY <1>1, <1>3 DEF KeepsUp, Ask, ReadDisabled, ReadJtis, Replace, HydrateFails
<1>7. CASE Ask \/ HydrateFails
  <2>1. /\ UNCHANGED <<denied, jtis, serving>> /\ captured' = <<>>
        /\ task' \notin {"half", "answered"}
    BY <1>7 DEF Ask, HydrateFails
  <2>2. ServedIsFresh'
    BY <1>1, <1>3, <1>5, <2>1 DEF ServedIsFresh, FreshSet
  <2>3. \A p : NotCaptured(p)'
    BY <2>1 DEF NotCaptured
  <2> QED
    BY <1>4, <1>6, <2>1, <2>2, <2>3 DEF AnswerIsFresh
<1>8. CASE ReadDisabled \/ ReadJtis
  <2>1. UNCHANGED <<denied, jtis, serving, captured>>
    BY <1>8 DEF ReadDisabled, ReadJtis, memory
  <2>2. ServedIsFresh'
    BY <1>1, <1>3, <1>5, <2>1 DEF ServedIsFresh, FreshSet
  <2>3. /\ \A p : LastNoted(p) => LastNoted(p)'
        /\ \A p : NotCaptured(p)' <=> NotCaptured(p)
        /\ CapturedJtis' = CapturedJtis
    BY <2>1, <1>5 DEF LastNoted, NotCaptured, CapturedJtis, LastRead, LastRecord
  <2>4. CASE ReadDisabled
    <3>1. task = "asked" /\ task' = "half" /\ snap'.disabled = disabled
      BY <2>4 DEF ReadDisabled, TypeOK
    <3>2. FreshSet(disabled)
      BY TableIsFresh
    <3> QED
      BY <1>4, <1>5, <1>6, <2>2, <2>3, <3>1, <3>2 DEF AnswerIsFresh, Capturing, FreshSet
  <2>5. CASE ReadJtis
    <3>1. /\ task = "half" /\ task' = "answered" /\ snap'.disabled = snap.disabled
          /\ snap'.jtis = revoked \ expired
      BY <2>5 DEF ReadJtis, TypeOK
    <3>2. ASSUME NEW o \in 1..Read, Rec(o).id \in Tokens
          PROVE  Rec(o).id \in snap'.jtis \cup expired
      <4>1. log[o] \in DOMAIN events
        BY Shapes
      <4> QED
        BY <3>1, <3>2, <4>1 DEF Durable, Rec
    <3> QED
      BY <1>1, <1>3, <1>4, <1>5, <1>6, <2>2, <2>3, <3>1, <3>2 DEF AnswerIsFresh, Capturing
  <2> QED
    BY <1>8, <2>4, <2>5
<1>9. CASE Replace
  <2>1. /\ task = "answered" /\ captured' = <<>> /\ task' = "sleep"
        /\ denied' = {p \in Principals : \/ LastCaptured(p, "disabled")
                                         \/ p \in snap.disabled /\ ~LastCaptured(p, "enabled")}
        /\ jtis' = snap.jtis \cup CapturedJtis
    BY <1>9 DEF Replace
  <2>2. ASSUME NEW p \in Principals, NotCaptured(p)
        PROVE  p \in denied' <=> p \in snap.disabled
    BY <2>1, <2>2 DEF NotCaptured, LastCaptured
  <2>3. ASSUME NEW p \in Principals, LastNoted(p)
        PROVE  /\ p \in denied' => Fresh(p, "disabled")
               /\ p \notin denied' => Fresh(p, "enabled")
    <3>1. PICK i \in DOMAIN captured, o \in Nat :
             /\ LastRead(p, o)
             /\ captured[i] = Rec(o)
             /\ \A j \in DOMAIN captured : j > i => captured[j].id # p
      BY <2>3 DEF LastNoted
    <3>2. o \in 1..Read /\ Rec(o).id = p /\ log[o] \in 1..Len(events)
      BY <3>1, Shapes DEF LastRead, LastRecord
    <3>3. Rec(o) \in Event /\ Rec(o).kind \in {"disabled", "enabled"}
          /\ Rec(o) = [kind |-> Rec(o).kind, id |-> p]
      <4>1. Rec(o) \in Event
        BY <3>2, Shapes DEF Rec
      <4> QED
        BY <3>2, <4>1, DenylistAssumption DEF Event
    <3>4. Fresh(p, Rec(o).kind)
      <4>1. Said(p, Rec(o).kind, log[o])
        BY <3>2, Shapes DEF Said, Rec
      <4>2. log[o] \in Nat /\ log[o] >= log[o]
        BY <3>2
      <4> QED
        BY <3>1, <4>1, <4>2 DEF Fresh
    <3>5. LastCaptured(p, Rec(o).kind)
      BY <3>1, <3>3 DEF LastCaptured
    <3>6. ASSUME NEW k, LastCaptured(p, k) PROVE k = Rec(o).kind
      <4>1. PICK j \in DOMAIN captured :
               /\ captured[j] = [kind |-> k, id |-> p]
               /\ \A h \in DOMAIN captured : h > j => captured[h].id # p
        BY <3>6 DEF LastCaptured
      <4>2. captured[i].id = p /\ captured[j].id = p /\ i \in Nat /\ j \in Nat
        BY <3>1, <3>2, <4>1, Shapes
      <4>3. i = j
        BY <3>1, <4>1, <4>2
      <4> QED
        BY <3>1, <4>1, <4>3
    <3> QED
      BY <2>1, <3>3, <3>4, <3>5, <3>6
  <2>4. ServedIsFresh'
    <3>1. ASSUME NEW p \in Principals
          PROVE  /\ p \in denied' => Fresh(p, "disabled")
                 /\ p \notin denied' => Fresh(p, "enabled")
      BY <2>1, <2>2, <2>3 DEF AnswerIsFresh, Capturing
    <3>2. \A o \in 1..Read : Rec(o).id \in Tokens => Rec(o).id \in jtis' \cup expired
      BY <2>1 DEF AnswerIsFresh
    <3> QED
      BY <1>1, <1>3, <1>5, <3>1, <3>2 DEF ServedIsFresh, FreshSet
  <2> QED
    BY <1>4, <1>6, <2>1, <2>4 DEF AnswerIsFresh, Capturing
<1> QED
  BY <1>7, <1>8, <1>9

(* The process starts again from the group's offset.                       *)
LEMMA RestartStep ==
    ASSUME AgreeInv, DenyInv', Restart
    PROVE  AgreeInv'
<1> USE DEF AgreeInv, DenyInv
<1>1. /\ UNCHANGED <<disabled, revoked, expired, events, log, group>>
      /\ consumer' = "off" /\ task' = "boot" /\ serving' = FALSE
  BY DEF Restart, identityVars, busVars
<1>2. Extends
  BY <1>1, Shapes DEF Extends
<1>3. TablesAreLast' /\ HasLast'
  BY <1>1, <1>2, SameTables, SameTopic
<1>4. KeepsUp'
  BY <1>1 DEF KeepsUp, Read, TypeOK
<1> QED
  BY <1>1, <1>3, <1>4 DEF ServedIsFresh, AnswerIsFresh, Capturing

(* Every step keeps the invariant.                                         *)
LEMMA StepAgreeInv ==
    ASSUME AgreeInv, [Next]_vars
    PROVE  AgreeInv'
<1> USE DEF AgreeInv
<1>0. DenyInv'
  BY StepDenyInv
<1>1. ASSUME NEW p \in Principals, NEW kind \in {"disabled", "enabled"}, SetStatus(p, kind)
      PROVE  AgreeInv'
  <2>1. PICK e : e = [kind |-> kind, id |-> p]
    OBVIOUS
  <2>2. e \in Event /\ e.id = p /\ e.kind = kind
    BY <2>1 DEF Event
  <2> QED
    BY <1>0, <1>1, <2>1, <2>2, IdentityStep DEF SetStatus
<1>2. ASSUME NEW t \in Tokens, Revoke(t) PROVE AgreeInv'
  <2>1. PICK e : e = [kind |-> "jti", id |-> t]
    OBVIOUS
  <2>2. e \in Event /\ e.id = t /\ t \notin Principals
    BY <2>1, DenylistAssumption DEF Event
  <2> QED
    BY <1>0, <1>2, <2>1, <2>2, IdentityStep DEF Revoke
<1>3. ASSUME NEW t \in Tokens, Expire(t) PROVE AgreeInv'
  <2>1. /\ UNCHANGED <<disabled, revoked, events, busVars, consumerVars, hydrateVars, memory>>
        /\ expired \subseteq expired'
    BY <1>3 DEF Expire
  <2>2. Extends
    BY <2>1, Shapes DEF busVars, Extends, DenyInv
  <2> QED
    BY <1>0, <2>1, <2>2, SameTables, SameTopic, QuietStep
       DEF DenyInv, busVars, consumerVars, hydrateVars, memory
<1>4. CASE UNCHANGED vars
  <2>1. UNCHANGED <<identityVars, busVars, consumerVars, hydrateVars, memory>>
    BY <1>4 DEF vars
  <2>2. Extends
    BY <2>1, Shapes DEF identityVars, busVars, Extends, DenyInv
  <2> QED
    BY <1>0, <2>1, <2>2, SameTables, SameTopic, QuietStep
       DEF DenyInv, identityVars, busVars, consumerVars, hydrateVars, memory
<1> QED
  BY <1>0, <1>1, <1>2, <1>3, <1>4, RelayStep, ConsumeStep, GroupStep, HydrateStep, RestartStep
     DEF Next, Process

(* A process that has read every record, in order, holds what Identity's   *)
(* tables hold.                                                            *)
LEMMA ReadAllAgrees ==
    ASSUME AgreeInv
    PROVE  CaughtUpAgrees
<1> USE DEF AgreeInv, DenyInv
<1> SUFFICES ASSUME consumer \in {"poll", "commit"}, position = Len(log),
                    \A i \in DOMAIN events : OnTopic(i),
                    InOrder
             PROVE  denied = disabled /\ revoked \ expired \subseteq jtis
  BY DEF CaughtUpAgrees
<1>1. serving = TRUE /\ Read = Len(log)
  BY DEF KeepsUp, Read
<1>2. /\ DOMAIN log = 1..Len(log) /\ Len(log) \in Nat
      /\ DOMAIN events = 1..Len(events) /\ Len(events) \in Nat
      /\ \A o \in 1..Len(log) : log[o] \in 1..Len(events)
  BY Shapes
<1>3. \A i \in DOMAIN events : \E o \in 1..Len(log) : Rec(o) = events[i] /\ log[o] = i
  BY <1>2 DEF OnTopic, Rec
<1>4. ASSUME NEW p \in Principals, NEW k, k \in {"disabled", "enabled"}, Fresh(p, k)
      PROVE  p \in disabled <=> k = "disabled"
  <2>1. CASE \A i \in DOMAIN events : events[i].id # p
    <3>1. p \notin disabled
      BY <2>1 DEF TablesAreLast, LastEvent
    <3>2. ~ \E i \in Nat : Said(p, k, i)
      BY <2>1 DEF Said
    <3> QED
      BY <1>4, <3>1, <3>2 DEF Fresh
  <2>2. ASSUME NEW i \in Nat, LastEvent(p, i)
        PROVE  p \in disabled <=> k = "disabled"
    <3>1. i \in DOMAIN events /\ events[i].id = p
      BY <2>2 DEF LastEvent
    <3>2. ~ NoneRead(p)
      BY <1>1, <1>3, <3>1 DEF NoneRead, NoRecord
    <3>3. PICK o, h \in Nat : LastRead(p, o) /\ h >= log[o] /\ Said(p, k, h)
      BY <1>4, <3>2 DEF Fresh
    <3>4. o \in 1..Len(log) /\ Rec(o).id = p /\ \A q \in 1..Len(log) : q > o => Rec(q).id # p
      BY <1>1, <3>3 DEF LastRead, LastRecord
    <3>5. log[o] = i
      <4>1. log[o] <= i
        BY <1>2, <2>2, <3>4 DEF LastEvent, Rec
      <4>2. ~(log[o] < i)
        <5> SUFFICES ASSUME log[o] < i PROVE FALSE
          OBVIOUS
        <5>1. PICK q \in DOMAIN log : q > o /\ log[q] = i
          BY <1>2, <3>1, <3>4 DEF InOrder, Rec
        <5> QED
          BY <1>2, <3>1, <3>4, <5>1 DEF Rec
      <4> QED
        BY <1>2, <3>1, <3>4, <4>1, <4>2
    <3>6. h = i
      BY <1>2, <2>2, <3>1, <3>3, <3>5 DEF LastEvent, Said
    <3> QED
      BY <2>2, <3>3, <3>6, <1>4 DEF LastEvent, Said
  <2> QED
    BY <2>1, <2>2 DEF TablesAreLast
<1>5. denied = disabled
  <2>1. denied \subseteq Principals /\ disabled \subseteq Principals
    BY DEF TypeOK
  <2>2. ASSUME NEW p \in Principals PROVE p \in denied <=> p \in disabled
    <3>1. /\ p \in denied => Fresh(p, "disabled")
          /\ p \notin denied => Fresh(p, "enabled")
      BY <1>1 DEF ServedIsFresh, FreshSet
    <3> QED
      BY <1>4, <3>1
  <2> QED
    BY <2>1, <2>2
<1>6. ASSUME NEW t \in revoked, t \notin expired PROVE t \in jtis
  <2>1. PICK i \in DOMAIN events : events[i].id = t
    BY DEF TablesAreLast
  <2>2. t \in Tokens
    BY DEF TypeOK
  <2> QED
    BY <1>1, <1>3, <1>6, <2>1, <2>2 DEF ServedIsFresh
<1> QED
  BY <1>5, <1>6

(* Where the host's group has a committed offset, a process that has read  *)
(* every identity event agrees with Identity, however events, snapshots,   *)
(* captures, repeats, refused commits and restarts were interleaved.       *)
THEOREM CaughtUpIsRight ==
    ASSUME ~FreshGroup
    PROVE  Spec => []CaughtUpAgrees
<1>1. Init => AgreeInv
  <2> SUFFICES ASSUME Init PROVE AgreeInv
    OBVIOUS
  <2>1. DenyInv
    BY InitDenyInv
  <2>2. group.joined = TRUE
    BY DEF Init
  <2>3. TablesAreLast /\ HasLast
    BY DEF Init, TablesAreLast, HasLast, NoRecord
  <2>4. KeepsUp /\ ServedIsFresh /\ AnswerIsFresh
    BY <2>2 DEF Init, KeepsUp, ServedIsFresh, AnswerIsFresh, Capturing, Read
  <2> QED
    BY <2>1, <2>3, <2>4 DEF AgreeInv
<1> QED
  BY <1>1, StepAgreeInv, ReadAllAgrees, PTL DEF Spec
=============================================================================
