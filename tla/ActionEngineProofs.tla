------------------------- MODULE ActionEngineProofs -------------------------
(***************************************************************************)
(* What the row locks of Knowledge's transactions give, for any sets of    *)
(* approvals, instances, properties and workers: the value captured for an *)
(* undo is the one overwritten, and approvals follow their lifecycle.      *)
(***************************************************************************)
EXTENDS ActionEngine, FiniteSetTheorems, TLAPS

Statuses == {"none", "pending", "approved", "rejected", "expired", "failed"}
Places == {"idle", "define", "ready", "tx", "compensate", "revert"}

JobShape(j) ==
    DOMAIN j = {"pc", "appr", "inv", "action", "inst", "actor", "writeback",
                "edits", "todo", "wrote", "prior"}

ApprRow == [status : Statuses, action : Actions \cup {None},
            inst : Instances \cup {None}, overdue : BOOLEAN]
InvRow == [action : Actions \cup {None}, inst : Instances, actor : Users \cup {None},
           edits : SUBSET Props, prior : [Props -> Nat], reverted : BOOLEAN,
           appr : Approvals \cup {None}, writeback : BOOLEAN]

(* The tables are well formed; a request knows its instance.               *)
TablesOK ==
    /\ appr \in [Approvals -> ApprRow]
    /\ \A a \in Approvals : appr[a].status # "none" => appr[a].inst \in Instances
    /\ invs \in Seq(InvRow)
    /\ overlay \in [Instances -> [Props -> Nat]]

(* What handler w holds, by the place it is at.                            *)
JobOK(w) ==
    LET j == job[w] IN
    /\ JobShape(j)
    /\ j.pc \in Places
    /\ j.appr \in Approvals \cup {None}
    /\ j.action \in Actions \cup {None} /\ j.actor \in Users \cup {None}
    /\ j.prior \in [Props -> Nat]
    /\ j.pc \in {"define", "ready", "tx", "compensate"} => j.inst \in Instances
    /\ j.pc \in {"ready", "tx"} => /\ j.edits \subseteq Props
                                   /\ j.todo \subseteq j.edits
                                   /\ j.wrote \subseteq j.edits \ j.todo
    /\ j.pc = "define" => j.appr = None /\ j.wrote = {}
    /\ j.pc = "ready" => j.appr \in Approvals /\ j.todo = j.edits
    /\ j.pc = "tx" /\ j.appr # None => appr[j.appr].status = "pending"
    /\ j.pc = "compensate" => /\ j.appr \in Approvals
                              /\ appr[j.appr].status \in {"approved", "failed"}
    /\ j.pc = "revert" => j.inv \in DOMAIN invs

JobsOK ==
    /\ job = [w \in Workers |-> job[w]]
    /\ \A w \in Workers : JobOK(w)

(* SELECT ... FOR UPDATE on the approval: one transaction at a time.       *)
ApprovalExclusive ==
    \A v, w \in Workers :
        /\ v # w
        /\ job[v].pc = "tx" /\ job[w].pc = "tx"
        => job[v].appr = None \/ job[v].appr # job[w].appr

(* No edit row is locked by two transactions.                              *)
EditExclusive ==
    \A v, w \in Workers :
        /\ v # w
        /\ job[v].pc = "tx" /\ job[w].pc = "tx"
        /\ job[v].inst = job[w].inst
        => Held(v) \cap Held(w) = {}

EngineInv ==
    /\ TablesOK /\ JobsOK
    /\ ApprovalExclusive /\ EditExclusive /\ CapturedIsCurrent

(* A decision changes the status of one approval.                          *)
LEMMA DecideOne ==
    ASSUME appr \in [Approvals -> ApprRow], NEW d \in Approvals, NEW s \in Statuses,
           appr' = [appr EXCEPT ![d].status = s]
    PROVE  /\ appr' \in [Approvals -> ApprRow]
           /\ \A a \in Approvals : appr'[a].inst = appr[a].inst /\ (a # d => appr'[a] = appr[a])
           /\ appr'[d].status = s
<1>1. /\ appr'[d] = [appr[d] EXCEPT !.status = s]
      /\ \A a \in Approvals : a # d => appr'[a] = appr[a]
  OBVIOUS
<1>2. appr[d] \in ApprRow
  OBVIOUS
<1>3. appr'[d] \in ApprRow /\ appr'[d].status = s /\ appr'[d].inst = appr[d].inst
  BY <1>1, <1>2 DEF ApprRow
<1> QED
  BY <1>1, <1>3

(* An idle handler, and one that gave up, holds nothing.                   *)
LEMMA IdleOK ==
    /\ Idle.pc = "idle" /\ Idle.appr = None /\ Idle.action = None /\ Idle.actor = None
    /\ Idle.wrote = {} /\ Idle.prior = NoPrior /\ NoPrior \in [Props -> Nat]
    /\ JobShape(Idle)
BY DEF Idle, NoPrior, JobShape

(* No table has a row yet and no handler is at work.                       *)
LEMMA InitEngineInv == Init => EngineInv
<1> SUFFICES ASSUME Init PROVE EngineInv
  OBVIOUS
<1>0. FALSE \in BOOLEAN
  OBVIOUS
<1>1. TablesOK
  BY <1>0 DEF Init, TablesOK, ApprRow, Statuses
<1>2. job = [w \in Workers |-> Idle]
  BY DEF Init
<1>3. JobsOK
  BY <1>2, IdleOK DEF JobsOK, JobOK, Places
<1>4. \A w \in Workers : job[w].pc # "tx"
  BY <1>2, IdleOK
<1> QED
  BY <1>1, <1>3, <1>4 DEF EngineInv, ApprovalExclusive, EditExclusive, CapturedIsCurrent

(* A step of handler w alone that leaves the tables as they are keeps what *)
(* concerns the others.                                                    *)
LEMMA OneHandler ==
    ASSUME EngineInv, NEW w \in Workers, NEW j, job' = [job EXCEPT ![w] = j],
           UNCHANGED <<appr, invs, overlay>>, JobOK(w)',
           j.pc = "tx" => /\ j.appr = None \/ ~ApprovalLocked(j.appr) \/ job[w].pc = "tx"
                          /\ job[w].pc = "tx" => j.appr = job[w].appr
                          /\ \A p \in Held(w)' : ~EditLocked(w, j.inst, p)
                          /\ \A p \in j.edits \ j.todo :
                                j.prior[p] # 0 => overlay[j.inst][p] = j.prior[p]
    PROVE  EngineInv'
<1> USE DEF EngineInv
<1>1. /\ job'[w] = j
      /\ \A v \in Workers \ {w} : job'[v] = job[v]
      /\ job' = [v \in Workers |-> job'[v]]
  BY DEF JobsOK
<1>2. TablesOK'
  BY DEF TablesOK
<1>3. JobsOK'
  <2>1. ASSUME NEW v \in Workers \ {w} PROVE JobOK(v)'
    BY <1>1, <2>1 DEF JobsOK, JobOK
  <2> QED
    BY <1>1, <2>1 DEF JobsOK
<1>4. ApprovalExclusive'
  BY <1>1 DEF ApprovalExclusive, ApprovalLocked
<1>5. \A v \in Workers \ {w} : Held(v)' = Held(v)
  BY <1>1 DEF Held
<1>6. EditExclusive'
  BY <1>1, <1>5 DEF EditExclusive, EditLocked
<1>7. CapturedIsCurrent'
  BY <1>1 DEF CapturedIsCurrent
<1> QED
  BY <1>2, <1>3, <1>4, <1>6, <1>7

(* Handlers reading, locking and writing rows of their own transaction.    *)
LEMMA HandlerStep ==
    ASSUME EngineInv, NEW w \in Workers,
           \/ \E n \in Actions, i \in Instances, u \in Users : RequestLowRisk(w, n, i, u)
           \/ \E edits \in SUBSET Props : ApplyNow(w, edits)
           \/ \E a \in Approvals, u \in Users, edits \in SUBSET Props :
                 ApproveRead(w, a, u, edits)
           \/ ApproveLock(w)
           \/ \E p \in Props : Capture(w, p) \/ Upsert(w, p)
           \/ \E a \in Approvals : CompensateRead(w, a)
           \/ \E n \in DOMAIN invs, u \in Users : RevertRead(w, n, u)
           \/ Abort(w)
    PROVE  EngineInv' /\ UNCHANGED <<appr, invs, overlay>>
<1> USE DEF EngineInv
<1>a. JobOK(w) /\ job = [v \in Workers |-> job[v]]
  BY DEF JobsOK
<1>b. ASSUME NEW j, job' = [job EXCEPT ![w] = j] PROVE job'[w] = j
  BY <1>a, <1>b
<1>c. ASSUME job' = [job EXCEPT ![w] = Idle], UNCHANGED <<appr, invs, overlay>>
      PROVE  EngineInv'
  <2>1. JobOK(w)'
    BY <1>b, <1>c, IdleOK DEF JobOK, Places
  <2> QED
    BY <1>c, <2>1, IdleOK, OneHandler
<1>1. ASSUME NEW n \in Actions, NEW i \in Instances, NEW u \in Users,
             RequestLowRisk(w, n, i, u)
      PROVE  EngineInv' /\ UNCHANGED <<appr, invs, overlay>>
  <2> DEFINE j == [Idle EXCEPT !.pc = "define", !.action = n, !.inst = i, !.actor = u]
  <2>1. job' = [job EXCEPT ![w] = j] /\ UNCHANGED <<appr, invs, overlay>>
    BY <1>1 DEF RequestLowRisk
  <2>2. /\ j.pc = "define" /\ j.appr = None /\ j.action = n /\ j.inst = i /\ j.actor = u
        /\ j.wrote = {} /\ j.prior = NoPrior /\ JobShape(j)
    BY DEF Idle, JobShape
  <2> HIDE DEF j
  <2>3. JobOK(w)'
    BY <1>b, <2>1, <2>2, IdleOK DEF JobOK, Places
  <2> QED
    BY <2>1, <2>2, <2>3, OneHandler
<1>2. ASSUME NEW edits \in SUBSET Props, ApplyNow(w, edits)
      PROVE  EngineInv' /\ UNCHANGED <<appr, invs, overlay>>
  <2> DEFINE j == [job[w] EXCEPT !.pc = "tx", !.writeback = def[job[w].action].writeback,
                                 !.edits = edits, !.todo = edits]
  <2>1. /\ job[w].pc = "define"
        /\ job' = [job EXCEPT ![w] = j] /\ UNCHANGED <<appr, invs, overlay>>
    BY <1>2 DEF ApplyNow, Prepare
  <2>2. /\ j.pc = "tx" /\ j.appr = job[w].appr /\ j.action = job[w].action
        /\ j.inst = job[w].inst /\ j.actor = job[w].actor /\ j.edits = edits
        /\ j.todo = edits /\ j.wrote = job[w].wrote /\ j.prior = job[w].prior /\ JobShape(j)
    BY <1>a DEF JobOK, JobShape
  <2> HIDE DEF j
  <2>3. JobOK(w)'
    BY <1>a, <1>b, <2>1, <2>2 DEF JobOK, Places
  <2>4. Held(w)' = {} /\ j.appr = None
    BY <1>a, <1>b, <2>1, <2>2 DEF Held, JobOK
  <2> QED
    BY <2>1, <2>2, <2>3, <2>4, OneHandler
<1>3. ASSUME NEW a \in Approvals, NEW u \in Users, NEW edits \in SUBSET Props,
             ApproveRead(w, a, u, edits)
      PROVE  EngineInv' /\ UNCHANGED <<appr, invs, overlay>>
  <2> DEFINE i == [Idle EXCEPT !.appr = a, !.action = appr[a].action,
                               !.inst = appr[a].inst, !.actor = u]
             j == [i EXCEPT !.pc = "ready", !.writeback = def[i.action].writeback,
                            !.edits = edits, !.todo = edits]
  <2>1. /\ appr[a].status # "none"
        /\ job' = [job EXCEPT ![w] = j] /\ UNCHANGED <<appr, invs, overlay>>
    BY <1>3 DEF ApproveRead, Prepare
  <2>2. /\ j.pc = "ready" /\ j.appr = a /\ j.action = appr[a].action
        /\ j.inst = appr[a].inst /\ j.actor = u /\ j.edits = edits
        /\ j.todo = edits /\ j.wrote = {} /\ j.prior = NoPrior /\ JobShape(j)
    BY DEF Idle, JobShape
  <2> HIDE DEF i, j
  <2>3. appr[a].inst \in Instances /\ appr[a].action \in Actions \cup {None}
    BY <2>1 DEF TablesOK, ApprRow
  <2>4. JobOK(w)'
    BY <1>b, <2>1, <2>2, <2>3, IdleOK DEF JobOK, Places
  <2> QED
    BY <2>1, <2>2, <2>4, OneHandler
<1>4. CASE ApproveLock(w)
  <2>1. UNCHANGED <<appr, invs, overlay>> /\ job[w].pc = "ready" /\ ~ApprovalLocked(job[w].appr)
    BY <1>4 DEF ApproveLock
  <2>2. CASE ~MayDecide(job[w].appr)
    BY <1>4, <1>c, <2>1, <2>2 DEF ApproveLock
  <2>3. CASE MayDecide(job[w].appr)
    <3> DEFINE j == [job[w] EXCEPT !.pc = "tx"]
    <3>1. job' = [job EXCEPT ![w] = j] /\ appr[job[w].appr].status = "pending"
      BY <1>4, <2>3, <1>a DEF ApproveLock, MayDecide
    <3>2. /\ j.pc = "tx" /\ j.appr = job[w].appr /\ j.action = job[w].action
          /\ j.inst = job[w].inst /\ j.actor = job[w].actor /\ j.edits = job[w].edits
          /\ j.todo = job[w].todo /\ j.wrote = job[w].wrote /\ j.prior = job[w].prior
          /\ JobShape(j)
      BY <1>a DEF JobOK, JobShape
    <3> HIDE DEF j
    <3>3. JobOK(w)'
      BY <1>a, <1>b, <2>1, <3>1, <3>2 DEF JobOK, Places
    <3>4. j.todo = j.edits /\ j.wrote = {}
      BY <1>a, <2>1, <3>2 DEF JobOK
    <3>5. Held(w)' = {}
      BY <1>b, <3>1, <3>4 DEF Held
    <3> QED
      BY <2>1, <3>1, <3>2, <3>3, <3>4, <3>5, OneHandler
  <2> QED
    BY <2>1, <2>2, <2>3
<1>5. ASSUME NEW p \in Props, Capture(w, p)
      PROVE  EngineInv' /\ UNCHANGED <<appr, invs, overlay>>
  <2> DEFINE i == job[w]
             j == [i EXCEPT !.todo = @ \ {p}, !.prior[p] = overlay[i.inst][p]]
  <2>1. /\ i.pc = "tx" /\ p \in i.todo /\ UNCHANGED <<appr, invs, overlay>>
        /\ overlay[i.inst][p] # 0 => ~EditLocked(w, i.inst, p)
    BY <1>5 DEF Capture
  <2>2. job' = [job EXCEPT ![w] = j]
    BY <1>5, <1>a DEF Capture, JobOK, JobShape
  <2>3. /\ j.pc = "tx" /\ j.appr = i.appr /\ j.action = i.action
        /\ j.inst = i.inst /\ j.actor = i.actor /\ j.edits = i.edits
        /\ j.todo = i.todo \ {p} /\ j.wrote = i.wrote
        /\ j.prior = [i.prior EXCEPT ![p] = overlay[i.inst][p]]
        /\ JobShape(j)
    BY <1>a, <2>1 DEF JobOK, JobShape
  <2> HIDE DEF i, j
  <2>4. /\ i.inst \in Instances /\ overlay[i.inst][p] \in Nat
        /\ i.prior \in [Props -> Nat] /\ i.edits \subseteq Props
    BY <1>a, <2>1 DEF JobOK, TablesOK, i
  <2>5. /\ j.prior \in [Props -> Nat] /\ j.prior[p] = overlay[i.inst][p]
        /\ \A q \in Props \ {p} : j.prior[q] = i.prior[q]
    BY <2>3, <2>4
  <2>6. JobOK(w)'
    BY <1>a, <1>b, <2>1, <2>2, <2>3, <2>5 DEF JobOK, Places, i
  <2>7. Held(w) = i.wrote \cup {q \in i.edits \ i.todo : i.prior[q] # 0}
    BY DEF Held, i
  <2>8. Held(w)' = j.wrote \cup {q \in j.edits \ j.todo : j.prior[q] # 0}
    BY <1>b, <2>2 DEF Held
  <2>9. \A q \in Held(w)' : q \in Held(w) \/ (q = p /\ overlay[i.inst][p] # 0)
    BY <1>a, <2>3, <2>4, <2>5, <2>7, <2>8
  <2>10. \A q \in Held(w) : ~EditLocked(w, i.inst, q)
    BY <2>1 DEF EditExclusive, EditLocked, i
  <2>11. \A q \in j.edits \ j.todo : j.prior[q] # 0 => overlay[j.inst][q] = j.prior[q]
    BY <2>1, <2>3, <2>4, <2>5 DEF CapturedIsCurrent, i
  <2> QED
    BY <2>1, <2>2, <2>3, <2>6, <2>9, <2>10, <2>11, OneHandler DEF i
<1>6. ASSUME NEW p \in Props, Upsert(w, p)
      PROVE  EngineInv' /\ UNCHANGED <<appr, invs, overlay>>
  <2> DEFINE i == job[w]
             j == [i EXCEPT !.wrote = @ \cup {p}]
  <2>1. /\ i.pc = "tx" /\ p \in i.edits \ i.todo /\ UNCHANGED <<appr, invs, overlay>>
        /\ ~EditLocked(w, i.inst, p)
    BY <1>6 DEF Upsert
  <2>2. job' = [job EXCEPT ![w] = j]
    BY <1>6, <1>a DEF Upsert, JobOK, JobShape
  <2>3. /\ j.pc = "tx" /\ j.appr = i.appr /\ j.action = i.action
        /\ j.inst = i.inst /\ j.actor = i.actor /\ j.edits = i.edits
        /\ j.todo = i.todo /\ j.wrote = i.wrote \cup {p} /\ j.prior = i.prior
        /\ JobShape(j)
    BY <1>a, <2>1 DEF JobOK, JobShape
  <2> HIDE DEF i, j
  <2>4. JobOK(w)'
    BY <1>a, <1>b, <2>1, <2>2, <2>3 DEF JobOK, Places, i
  <2>5. Held(w)' = Held(w) \cup {p}
    <3>1. Held(w) = i.wrote \cup {q \in i.edits \ i.todo : i.prior[q] # 0}
      BY DEF Held, i
    <3>2. Held(w)' = j.wrote \cup {q \in j.edits \ j.todo : j.prior[q] # 0}
      BY <1>b, <2>2 DEF Held
    <3> QED
      BY <2>3, <3>1, <3>2
  <2>6. \A q \in Held(w) : ~EditLocked(w, i.inst, q)
    BY <2>1 DEF EditExclusive, EditLocked, i
  <2>7. \A q \in j.edits \ j.todo : j.prior[q] # 0 => overlay[j.inst][q] = j.prior[q]
    BY <2>1, <2>3 DEF CapturedIsCurrent, i
  <2> QED
    BY <2>1, <2>2, <2>3, <2>4, <2>5, <2>6, <2>7, OneHandler DEF i
<1>7. ASSUME NEW a \in Approvals, CompensateRead(w, a)
      PROVE  EngineInv' /\ UNCHANGED <<appr, invs, overlay>>
  <2> DEFINE j == [Idle EXCEPT !.pc = "compensate", !.appr = a, !.inst = appr[a].inst,
                     !.edits = invs[LatestInvocation(appr[a].action, appr[a].inst)].edits]
  <2>1. /\ appr[a].status = "approved"
        /\ job' = [job EXCEPT ![w] = j] /\ UNCHANGED <<appr, invs, overlay>>
    BY <1>7 DEF CompensateRead
  <2>2. /\ j.pc = "compensate" /\ j.appr = a /\ j.action = None /\ j.actor = None
        /\ j.inst = appr[a].inst /\ j.prior = NoPrior /\ JobShape(j)
    BY DEF Idle, JobShape
  <2> HIDE DEF j
  <2>3. appr[a].inst \in Instances
    BY <2>1 DEF TablesOK
  <2>4. JobOK(w)'
    BY <1>b, <2>1, <2>2, <2>3, IdleOK DEF JobOK, Places
  <2> QED
    BY <2>1, <2>2, <2>4, OneHandler
<1>8. ASSUME NEW n \in DOMAIN invs, NEW u \in Users, RevertRead(w, n, u)
      PROVE  EngineInv' /\ UNCHANGED <<appr, invs, overlay>>
  <2> DEFINE j == [Idle EXCEPT !.pc = "revert", !.inv = n]
  <2>1. job' = [job EXCEPT ![w] = j] /\ UNCHANGED <<appr, invs, overlay>>
    BY <1>8 DEF RevertRead
  <2>2. /\ j.pc = "revert" /\ j.appr = None /\ j.action = None /\ j.actor = None
        /\ j.inv = n /\ j.prior = NoPrior /\ JobShape(j)
    BY DEF Idle, JobShape
  <2> HIDE DEF j
  <2>3. JobOK(w)'
    BY <1>b, <2>1, <2>2, IdleOK DEF JobOK, Places
  <2> QED
    BY <2>1, <2>2, <2>3, OneHandler
<1>9. CASE Abort(w)
  BY <1>9, <1>c DEF Abort
<1> QED
  BY <1>1, <1>2, <1>3, <1>4, <1>5, <1>6, <1>7, <1>8, <1>9

(* The end of the transaction of _apply_now and approve_action.            *)
LEMMA ApplyCommitStep ==
    ASSUME EngineInv, NEW w \in Workers, ApplyCommit(w)
    PROVE  EngineInv'
<1> USE DEF EngineInv
<1> DEFINE j == job[w]
           n == Len(invs) + 1
           row == [action |-> j.action, inst |-> j.inst, actor |-> j.actor,
                   edits |-> j.edits, prior |-> j.prior, reverted |-> FALSE,
                   appr |-> j.appr, writeback |-> j.writeback /\ j.appr # None]
<1>1. /\ j.pc = "tx" /\ j.wrote = j.edits
      /\ invs' = Append(invs, row)
      /\ overlay' = [overlay EXCEPT ![j.inst] =
                       [p \in Props |-> IF p \in j.edits THEN n ELSE @[p]]]
      /\ appr' = IF j.appr = None THEN appr
                 ELSE [appr EXCEPT ![j.appr].status = "approved"]
      /\ job' = [job EXCEPT ![w] = Idle]
  BY DEF ApplyCommit
<1>2. JobOK(w) /\ job = [v \in Workers |-> job[v]]
  BY DEF JobsOK
<1>3. row \in InvRow
  <2>1. /\ j.action \in Actions \cup {None} /\ j.inst \in Instances
        /\ j.actor \in Users \cup {None} /\ j.edits \in SUBSET Props
        /\ j.prior \in [Props -> Nat] /\ j.appr \in Approvals \cup {None}
    BY <1>1, <1>2 DEF JobOK
  <2>2. FALSE \in BOOLEAN /\ (j.writeback /\ j.appr # None) \in BOOLEAN
    BY Zenon
  <2> QED
    BY <2>1, <2>2 DEF InvRow
<1> HIDE DEF row
<1>4. /\ job'[w] = Idle
      /\ \A v \in Workers \ {w} : job'[v] = job[v]
      /\ job' = [v \in Workers |-> job'[v]]
  BY <1>1, <1>2
<1>5. /\ invs' \in Seq(InvRow) /\ n \in Nat
      /\ DOMAIN invs \subseteq DOMAIN invs'
  BY <1>1, <1>3 DEF TablesOK
<1>6. /\ appr' \in [Approvals -> ApprRow]
      /\ \A a \in Approvals : /\ appr'[a].inst = appr[a].inst
                              /\ a # j.appr => appr'[a] = appr[a]
                              /\ a = j.appr => appr'[a].status = "approved"
      /\ \A a \in Approvals : a = j.appr => appr[a].status = "pending"
  <2>1. CASE j.appr = None
    BY <1>1, <2>1, EngineAssumption DEF TablesOK
  <2>2. CASE j.appr # None
    <3>1. j.appr \in Approvals /\ appr' = [appr EXCEPT ![j.appr].status = "approved"]
      BY <1>1, <1>2, <2>2 DEF JobOK
    <3>2. appr[j.appr].status = "pending"
      BY <1>1, <1>2, <2>2 DEF JobOK
    <3>3. appr \in [Approvals -> ApprRow] /\ "approved" \in Statuses
      BY DEF TablesOK, Statuses
    <3> HIDE DEF j
    <3>4. /\ appr' \in [Approvals -> ApprRow]
          /\ \A a \in Approvals : /\ appr'[a].inst = appr[a].inst
                                  /\ a # j.appr => appr'[a] = appr[a]
          /\ appr'[j.appr].status = "approved"
      BY <3>1, <3>3, DecideOne
    <3> QED
      BY <3>2, <3>4
  <2> QED
    BY <2>1, <2>2
<1>7. /\ overlay' \in [Instances -> [Props -> Nat]]
      /\ \A i \in Instances, p \in Props :
            i # j.inst \/ p \notin j.edits => overlay'[i][p] = overlay[i][p]
  <2>1. j.inst \in Instances
    BY <1>1, <1>2 DEF JobOK
  <2> QED
    BY <1>1, <1>5, <2>1 DEF TablesOK
<1>8. TablesOK'
  BY <1>5, <1>6, <1>7 DEF TablesOK
<1>9. JobsOK'
  <2>1. JobOK(w)'
    BY <1>4, IdleOK DEF JobOK, Places
  <2>2. ASSUME NEW v \in Workers \ {w}
        PROVE  JobOK(v)'
    <3>1. JobOK(v)
      BY DEF JobsOK
    <3>2. job[v].pc = "tx" /\ job[v].appr # None => job[v].appr # j.appr
      BY <1>1, <2>2 DEF ApprovalExclusive
    <3> QED
      BY <1>4, <1>5, <1>6, <3>1, <3>2, <2>2 DEF JobOK
  <2> QED
    BY <1>4, <2>1, <2>2 DEF JobsOK
<1>10. ApprovalExclusive'
  BY <1>4, IdleOK DEF ApprovalExclusive
<1>11. \A v \in Workers \ {w} : Held(v)' = Held(v)
  BY <1>4 DEF Held
<1>12. EditExclusive'
  BY <1>4, <1>11, IdleOK DEF EditExclusive
<1>13. CapturedIsCurrent'
  <2> SUFFICES ASSUME NEW v \in Workers, job'[v].pc = "tx",
                      NEW p \in job'[v].edits \ job'[v].todo, job'[v].prior[p] # 0
               PROVE  overlay'[job'[v].inst][p] = job'[v].prior[p]
    BY DEF CapturedIsCurrent
  <2>1. v # w /\ job'[v] = job[v]
    BY <1>4, IdleOK
  <2>2. overlay[job[v].inst][p] = job[v].prior[p] /\ p \in Held(v)
    BY <2>1 DEF CapturedIsCurrent, Held
  <2>3. j.inst = job[v].inst => p \notin j.edits
    BY <1>1, <2>1, <2>2 DEF EditExclusive, Held
  <2>4. job[v].inst \in Instances /\ p \in Props
    BY <2>1 DEF JobsOK, JobOK
  <2> QED
    BY <1>7, <2>1, <2>2, <2>3, <2>4
<1> QED
  BY <1>8, <1>9, <1>10, <1>12, <1>13

(* A step that clears or restores rows waits for their locks: the rows a   *)
(* transaction captured keep their values.                                 *)
LEMMA UnlockedRowsOnly ==
    ASSUME EngineInv, NEW w \in Workers,
           job[w].pc # "tx", job' = [job EXCEPT ![w] = Idle],
           \A i \in Instances, p \in Props :
               EditLocked(w, i, p) => overlay'[i][p] = overlay[i][p] \/ overlay[i][p] = 0
    PROVE  ApprovalExclusive' /\ EditExclusive' /\ CapturedIsCurrent'
<1> USE DEF EngineInv
<1>1. /\ job'[w] = Idle
      /\ \A v \in Workers \ {w} : job'[v] = job[v]
  BY DEF JobsOK
<1>2. \A v \in Workers \ {w} : Held(v)' = Held(v)
  BY <1>1 DEF Held
<1>3. ApprovalExclusive' /\ EditExclusive'
  BY <1>1, <1>2, IdleOK DEF ApprovalExclusive, EditExclusive
<1>4. CapturedIsCurrent'
  <2> SUFFICES ASSUME NEW v \in Workers, job'[v].pc = "tx",
                      NEW p \in job'[v].edits \ job'[v].todo, job'[v].prior[p] # 0
               PROVE  overlay'[job'[v].inst][p] = job'[v].prior[p]
    BY DEF CapturedIsCurrent
  <2>1. v # w /\ job'[v] = job[v]
    BY <1>1, IdleOK
  <2>2. overlay[job[v].inst][p] = job[v].prior[p] /\ p \in Held(v)
    BY <2>1 DEF CapturedIsCurrent, Held
  <2>3. EditLocked(w, job[v].inst, p)
    BY <2>1, <2>2 DEF EditLocked
  <2>4. job[v].inst \in Instances /\ p \in Props
    BY <2>1 DEF JobsOK, JobOK
  <2> QED
    BY <2>1, <2>2, <2>3, <2>4
<1> QED
  BY <1>3, <1>4

(* _compensate_declarative_action's transaction.                           *)
LEMMA CompensateCommitStep ==
    ASSUME EngineInv, NEW w \in Workers, CompensateCommit(w)
    PROVE  EngineInv'
<1> USE DEF EngineInv
<1> DEFINE j == job[w]
<1>1. /\ j.pc = "compensate"
      /\ \A p \in j.edits : overlay[j.inst][p] # 0 => ~EditLocked(w, j.inst, p)
      /\ overlay' = [overlay EXCEPT ![j.inst] =
                       [p \in Props |-> IF p \in j.edits THEN 0 ELSE @[p]]]
      /\ appr' = [appr EXCEPT ![j.appr].status = "failed"]
      /\ job' = [job EXCEPT ![w] = Idle] /\ invs' = invs
  BY DEF CompensateCommit
<1>2. /\ job = [v \in Workers |-> job[v]]
      /\ j.appr \in Approvals /\ j.inst \in Instances
      /\ appr[j.appr].status \in {"approved", "failed"}
  BY <1>1 DEF JobsOK, JobOK
<1>3. /\ job'[w] = Idle
      /\ \A v \in Workers \ {w} : job'[v] = job[v]
      /\ job' = [v \in Workers |-> job'[v]]
  BY <1>1, <1>2
<1>4. /\ appr' \in [Approvals -> ApprRow]
      /\ \A a \in Approvals : /\ appr'[a].inst = appr[a].inst
                              /\ a # j.appr => appr'[a] = appr[a]
      /\ appr'[j.appr].status = "failed"
  <2>1. appr \in [Approvals -> ApprRow] /\ "failed" \in Statuses
    BY DEF TablesOK, Statuses
  <2>2. j.appr \in Approvals /\ appr' = [appr EXCEPT ![j.appr].status = "failed"]
    BY <1>1, <1>2
  <2> HIDE DEF j, EngineInv
  <2> QED
    BY <2>1, <2>2, DecideOne
<1>5. /\ overlay' \in [Instances -> [Props -> Nat]]
      /\ \A i \in Instances, p \in Props :
            i # j.inst \/ p \notin j.edits \/ overlay[j.inst][p] = 0
               => overlay'[i][p] = overlay[i][p]
  BY <1>1, <1>2 DEF TablesOK
<1>6. TablesOK'
  BY <1>1, <1>2, <1>4, <1>5 DEF TablesOK
<1>7. JobsOK'
  <2>1. JobOK(w)'
    BY <1>3, IdleOK DEF JobOK, Places
  <2>2. ASSUME NEW v \in Workers \ {w}
        PROVE  JobOK(v)'
    <3>1. JobOK(v)
      BY DEF JobsOK
    <3> QED
      BY <1>1, <1>2, <1>3, <1>4, <3>1 DEF JobOK
  <2> QED
    BY <1>3, <2>1, <2>2 DEF JobsOK
<1>8. ApprovalExclusive' /\ EditExclusive' /\ CapturedIsCurrent'
  <2>1. \A i \in Instances, p \in Props :
           EditLocked(w, i, p) => overlay'[i][p] = overlay[i][p] \/ overlay[i][p] = 0
    BY <1>1, <1>5
  <2>2. job[w].pc # "tx" /\ job' = [job EXCEPT ![w] = Idle]
    BY <1>1
  <2> HIDE DEF EngineInv, j
  <2>3. EngineInv
    BY DEF EngineInv
  <2> QED
    BY <2>1, <2>2, <2>3, UnlockedRowsOnly
<1> QED
  BY <1>6, <1>7, <1>8

(* revert_declarative_action's transaction.                                *)
LEMMA RevertCommitStep ==
    ASSUME EngineInv, NEW w \in Workers, RevertCommit(w)
    PROVE  /\ EngineInv' /\ DOMAIN invs' = DOMAIN invs /\ appr' = appr
           /\ \A k \in DOMAIN invs : invs'[k].appr = invs[k].appr
<1> USE DEF EngineInv
<1> DEFINE n == job[w].inv
           i == invs[n].inst
<1>1. /\ job[w].pc = "revert"
      /\ \A p \in invs[n].edits : overlay[i][p] # 0 => ~EditLocked(w, i, p)
      /\ overlay' = [overlay EXCEPT ![i] =
                       [p \in Props |->
                          IF p \in invs[n].edits /\ @[p] # 0 THEN invs[n].prior[p] ELSE @[p]]]
      /\ invs' = [invs EXCEPT ![n].reverted = TRUE]
      /\ job' = [job EXCEPT ![w] = Idle] /\ appr' = appr
  BY DEF RevertCommit
<1>2. job = [v \in Workers |-> job[v]] /\ n \in DOMAIN invs
  BY <1>1 DEF JobsOK, JobOK
<1>3. /\ job'[w] = Idle
      /\ \A v \in Workers \ {w} : job'[v] = job[v]
      /\ job' = [v \in Workers |-> job'[v]]
  BY <1>1, <1>2
<1>4. invs[n] \in InvRow /\ i \in Instances /\ invs[n].prior \in [Props -> Nat]
  <2>1. invs[n] \in InvRow
    BY <1>2 DEF TablesOK
  <2> QED
    BY <2>1 DEF InvRow
<1>5. /\ invs' \in Seq(InvRow) /\ DOMAIN invs' = DOMAIN invs
      /\ \A k \in DOMAIN invs : invs'[k].appr = invs[k].appr
  <2>1. [invs[n] EXCEPT !.reverted = TRUE] \in InvRow
    <3>1. TRUE \in BOOLEAN
      OBVIOUS
    <3> QED
      BY <1>4, <3>1 DEF InvRow
  <2>2. invs' = [invs EXCEPT ![n] = [invs[n] EXCEPT !.reverted = TRUE]]
    BY <1>1
  <2>3. [invs[n] EXCEPT !.reverted = TRUE].appr = invs[n].appr
    BY <1>4 DEF InvRow
  <2>4. invs \in Seq(InvRow)
    BY DEF TablesOK
  <2> HIDE DEF n
  <2> QED
    BY <1>2, <2>1, <2>2, <2>3, <2>4
<1>6. /\ overlay' \in [Instances -> [Props -> Nat]]
      /\ \A k \in Instances, p \in Props :
            k # i \/ p \notin invs[n].edits \/ overlay[i][p] = 0
               => overlay'[k][p] = overlay[k][p]
  <2> HIDE DEF n, i
  <2>1. i \in Instances /\ invs[n].prior \in [Props -> Nat] /\ overlay \in [Instances -> [Props -> Nat]]
    BY <1>4 DEF TablesOK
  <2> QED
    BY <1>1, <2>1
<1>7. TablesOK'
  BY <1>1, <1>5, <1>6 DEF TablesOK
<1>8. JobsOK'
  <2>1. JobOK(w)'
    BY <1>3, IdleOK DEF JobOK, Places
  <2>2. ASSUME NEW v \in Workers \ {w}
        PROVE  JobOK(v)'
    <3>1. JobOK(v)
      BY DEF JobsOK
    <3> QED
      BY <1>1, <1>3, <1>5, <3>1 DEF JobOK
  <2> QED
    BY <1>3, <2>1, <2>2 DEF JobsOK
<1>9. ApprovalExclusive' /\ EditExclusive' /\ CapturedIsCurrent'
  <2>1. ASSUME NEW k \in Instances, NEW p \in Props, EditLocked(w, k, p),
               overlay[k][p] # 0
        PROVE  overlay'[k][p] = overlay[k][p]
    <3>1. k # i \/ p \notin invs[n].edits
      BY <1>1, <2>1
    <3> HIDE DEF n, i
    <3> QED
      BY <1>6, <3>1
  <2>2. job[w].pc # "tx" /\ job' = [job EXCEPT ![w] = Idle]
    BY <1>1
  <2> HIDE DEF EngineInv, n, i
  <2>3. EngineInv
    BY DEF EngineInv
  <2> QED
    BY <2>1, <2>2, <2>3, UnlockedRowsOnly
<1> QED
  BY <1>1, <1>5, <1>7, <1>8, <1>9

(* create_action_type, requests, decisions and the expiry sweep: only      *)
(* approvals that no transaction has locked change their status.           *)
LEMMA DecisionStep ==
    ASSUME EngineInv, UNCHANGED <<invs, overlay, job>>,
           appr' \in [Approvals -> ApprRow],
           \A a \in Approvals :
              \/ appr'[a].status = appr[a].status /\ appr'[a].inst = appr[a].inst
              \/ /\ appr[a].status = "none"
                 /\ appr'[a].inst \in Instances
              \/ /\ appr[a].status = "pending" /\ ~ApprovalLocked(a)
                 /\ appr'[a].inst = appr[a].inst
    PROVE  EngineInv'
<1> USE DEF EngineInv
<1>1. TablesOK'
  BY DEF TablesOK
<1>2. ASSUME NEW w \in Workers PROVE JobOK(w)'
  BY DEF JobsOK, JobOK, ApprovalLocked
<1>3. JobsOK'
  BY <1>2 DEF JobsOK
<1>4. ApprovalExclusive' /\ EditExclusive' /\ CapturedIsCurrent'
  BY DEF ApprovalExclusive, EditExclusive, CapturedIsCurrent, Held
<1> QED
  BY <1>1, <1>3, <1>4

(* Requests, deadlines, rejections and the sweep.                          *)
LEMMA ApprovalStep ==
    ASSUME EngineInv,
           \/ \E a \in Approvals :
                 \/ \E n \in Actions, i \in Instances : RequestApproval(a, n, i)
                 \/ Overdue(a) \/ RejectAction(a)
           \/ SweepExpired
    PROVE  EngineInv'
<1>0. appr \in [Approvals -> ApprRow] /\ TRUE \in BOOLEAN /\ FALSE \in BOOLEAN
  BY DEF EngineInv, TablesOK
<1>1. ASSUME NEW a \in Approvals, NEW n \in Actions, NEW i \in Instances,
             RequestApproval(a, n, i)
      PROVE  EngineInv'
  <2>1. /\ appr' = [appr EXCEPT ![a] = [status |-> "pending", action |-> n, inst |-> i,
                                        overdue |-> FALSE]]
        /\ appr[a].status = "none" /\ UNCHANGED <<invs, overlay, job>>
    BY <1>1 DEF RequestApproval
  <2>2. /\ appr' \in [Approvals -> ApprRow] /\ appr'[a].inst = i
        /\ \A b \in Approvals \ {a} : appr'[b] = appr[b]
    BY <1>0, <2>1 DEF ApprRow, Statuses
  <2> QED
    BY <2>1, <2>2, DecisionStep
<1>2. ASSUME NEW a \in Approvals, Overdue(a)
      PROVE  EngineInv'
  <2>1. appr' = [appr EXCEPT ![a].overdue = TRUE] /\ UNCHANGED <<invs, overlay, job>>
    BY <1>2 DEF Overdue
  <2>2. /\ appr' \in [Approvals -> ApprRow]
        /\ \A b \in Approvals : appr'[b].status = appr[b].status /\ appr'[b].inst = appr[b].inst
    BY <1>0, <2>1 DEF ApprRow
  <2> QED
    BY <2>1, <2>2, DecisionStep
<1>3. ASSUME NEW a \in Approvals, RejectAction(a)
      PROVE  EngineInv'
  <2>1. /\ appr' = [appr EXCEPT ![a].status = "rejected"] /\ UNCHANGED <<invs, overlay, job>>
        /\ appr[a].status = "pending" /\ ~ApprovalLocked(a)
    BY <1>3 DEF RejectAction, MayDecide
  <2>2. /\ appr' \in [Approvals -> ApprRow] /\ appr'[a].inst = appr[a].inst
        /\ \A b \in Approvals \ {a} : appr'[b] = appr[b]
    BY <1>0, <2>1 DEF ApprRow, Statuses
  <2> QED
    BY <2>1, <2>2, DecisionStep
<1>4. CASE SweepExpired
  <2> DEFINE overdue == {a \in Approvals : appr[a].status = "pending" /\ appr[a].overdue}
  <2>1. /\ appr' = [a \in Approvals |-> IF a \in overdue
                                        THEN [appr[a] EXCEPT !.status = "expired"]
                                        ELSE appr[a]]
        /\ \A a \in overdue : ~ApprovalLocked(a)
        /\ UNCHANGED <<invs, overlay, job>>
    BY <1>4 DEF SweepExpired
  <2>2. \A a \in overdue : appr[a].status = "pending"
    OBVIOUS
  <2> HIDE DEF overdue
  <2>3. /\ appr' \in [Approvals -> ApprRow]
        /\ \A a \in Approvals : /\ appr'[a].inst = appr[a].inst
                                /\ a \notin overdue => appr'[a] = appr[a]
    BY <1>0, <2>1 DEF ApprRow, Statuses
  <2> QED
    BY <2>1, <2>2, <2>3, DecisionStep
<1> QED
  BY <1>1, <1>2, <1>3, <1>4

(* Every step keeps the invariant.                                         *)
LEMMA StepEngineInv ==
    ASSUME EngineInv, [Next]_vars
    PROVE  EngineInv'
<1>1. CASE UNCHANGED <<appr, invs, overlay, job>>
  BY <1>1 DEF EngineInv, TablesOK, JobsOK, JobOK, ApprovalExclusive, EditExclusive,
              CapturedIsCurrent, Held
<1>2. ASSUME NEW n \in Actions, NEW d \in Definitions[n], Redefine(n, d)
      PROVE  EngineInv'
  BY <1>1, <1>2 DEF Redefine
<1>3. CASE UNCHANGED vars
  BY <1>1, <1>3 DEF vars
<1> QED
  BY <1>2, <1>3, ApprovalStep, HandlerStep, ApplyCommitStep, CompensateCommitStep,
     RevertCommitStep DEF Next

(* Whatever the interleaving of handlers, sweeps, compensations, reverts   *)
(* and rollbacks, the row locks keep every value captured for an undo      *)
(* current until the transaction that captured it commits or aborts.       *)
THEOREM CaptureHolds == Spec => []CapturedIsCurrent
<1>1. EngineInv => CapturedIsCurrent
  BY DEF EngineInv
<1> QED
  BY InitEngineInv, StepEngineInv, <1>1, PTL DEF Spec

-----------------------------------------------------------------------------
(* The refinement.                                                         *)

(* The invocations that applied a request.                                 *)
Runs(a) == {n \in DOMAIN invs : invs[n].appr = a}

(* Steps that keep every status and every invocation's request.            *)
LEMMA LifecycleStutter ==
    ASSUME \A a \in Approvals : appr'[a].status = appr[a].status,
           \A a \in Approvals : Runs(a)' = Runs(a)
    PROVE  UNCHANGED Lifecycle!lifecycleVars
BY DEF Lifecycle!lifecycleVars, Runs

(* The initial states map to an initial state.                             *)
LEMMA InitLifecycle == Init => Lifecycle!LifecycleInit
<1> SUFFICES ASSUME Init PROVE Lifecycle!LifecycleInit
  OBVIOUS
<1>1. \A a \in Approvals : appr[a].status = "none"
  BY DEF Init
<1>2. \A a \in Approvals : {n \in DOMAIN invs : invs[n].appr = a} = {}
  BY DEF Init
<1>3. Cardinality({}) = 0
  BY FS_EmptySet
<1> QED
  BY <1>1, <1>2, <1>3 DEF Lifecycle!LifecycleInit

(* approve_action's commit is the abstract approval; a low-risk action's   *)
(* is no step of any request.                                              *)
LEMMA ApplyCommitLifecycle ==
    ASSUME EngineInv, NEW w \in Workers, ApplyCommit(w)
    PROVE  [Lifecycle!LifecycleNext]_Lifecycle!lifecycleVars
<1> DEFINE j == job[w]
           n == Len(invs) + 1
<1>1. PICK row : invs' = Append(invs, row) /\ row.appr = j.appr /\ row \in InvRow
  <2>1. /\ j.action \in Actions \cup {None} /\ j.inst \in Instances
        /\ j.actor \in Users \cup {None} /\ j.edits \in SUBSET Props
        /\ j.prior \in [Props -> Nat] /\ j.appr \in Approvals \cup {None}
    BY DEF ApplyCommit, EngineInv, JobsOK, JobOK
  <2>2. FALSE \in BOOLEAN /\ (j.writeback /\ j.appr # None) \in BOOLEAN
    BY Zenon
  <2> DEFINE row == [action |-> j.action, inst |-> j.inst, actor |-> j.actor,
                     edits |-> j.edits, prior |-> j.prior, reverted |-> FALSE,
                     appr |-> j.appr, writeback |-> j.writeback /\ j.appr # None]
  <2>3. row \in InvRow
    BY <2>1, <2>2 DEF InvRow
  <2>4. invs' = Append(invs, row) /\ row.appr = j.appr
    BY DEF ApplyCommit
  <2> QED
    BY <2>3, <2>4
<1>2. /\ invs \in Seq(InvRow) /\ n \in Nat
      /\ DOMAIN invs' = DOMAIN invs \cup {n} /\ n \notin DOMAIN invs
      /\ invs'[n] = row /\ \A k \in DOMAIN invs : invs'[k] = invs[k]
  BY <1>1 DEF EngineInv, TablesOK
<1>3. \A a \in Approvals : Runs(a)' = IF a = j.appr THEN Runs(a) \cup {n} ELSE Runs(a)
  BY <1>1, <1>2 DEF Runs
<1>4. CASE j.appr = None
  <2>1. appr' = appr
    BY <1>4 DEF ApplyCommit
  <2> QED
    BY <1>3, <1>4, <2>1, LifecycleStutter, EngineAssumption
<1>5. CASE j.appr # None
  <2>0. PICK a \in Approvals : a = j.appr
    BY <1>5 DEF EngineInv, JobsOK, JobOK
  <2>1. /\ appr[a].status = "pending"
        /\ appr' = [appr EXCEPT ![a].status = "approved"]
    BY <1>5, <2>0 DEF ApplyCommit, EngineInv, JobsOK, JobOK
  <2>2. /\ \A b \in Approvals \ {a} : appr'[b].status = appr[b].status
        /\ appr'[a].status = "approved"
    BY <2>1 DEF EngineInv, TablesOK, ApprRow
  <2>3. IsFiniteSet(Runs(a)) /\ n \notin Runs(a)
    <3>1. DOMAIN invs = 1..Len(invs) /\ Len(invs) \in Nat
      BY <1>2
    <3>2. IsFiniteSet(DOMAIN invs)
      BY <3>1, FS_Interval
    <3>3. Runs(a) \subseteq DOMAIN invs
      BY DEF Runs
    <3> QED
      BY <1>2, <3>2, <3>3, FS_Subset
  <2>4. Cardinality(Runs(a) \cup {n}) = Cardinality(Runs(a)) + 1
    BY <2>3, FS_AddElement
  <2>5. Lifecycle!Approve(a)
    <3>1. \A b \in Approvals : Cardinality({k \in DOMAIN invs : invs[k].appr = b})'
             = IF b = a THEN Cardinality({k \in DOMAIN invs : invs[k].appr = b}) + 1
               ELSE Cardinality({k \in DOMAIN invs : invs[k].appr = b})
      BY <1>3, <2>0, <2>4 DEF Runs
    <3> QED
      BY <2>1, <2>2, <3>1 DEF Lifecycle!Approve
  <2> QED
    BY <2>5 DEF Lifecycle!LifecycleNext
<1> QED
  BY <1>4, <1>5

(* Every step of the engine is a step of the lifecycle, or none of it.     *)
LEMMA StepLifecycle ==
    ASSUME EngineInv, [Next]_vars
    PROVE  [Lifecycle!LifecycleNext]_Lifecycle!lifecycleVars
<1>0. appr \in [Approvals -> ApprRow]
  BY DEF EngineInv, TablesOK
<1>1. CASE UNCHANGED <<appr, invs>>
  BY <1>1, LifecycleStutter DEF Runs
<1>2. ASSUME NEW a \in Approvals, NEW n \in Actions, NEW i \in Instances,
             RequestApproval(a, n, i)
      PROVE  Lifecycle!Request(a)
  <2>1. /\ appr[a].status = "none" /\ invs' = invs /\ appr'[a].status = "pending"
        /\ \A b \in Approvals \ {a} : appr'[b] = appr[b]
    BY <1>0, <1>2 DEF RequestApproval
  <2> QED
    BY <2>1 DEF Lifecycle!Request
<1>3. ASSUME NEW a \in Approvals, Overdue(a)
      PROVE  UNCHANGED Lifecycle!lifecycleVars
  <2>1. invs' = invs /\ \A b \in Approvals : appr'[b].status = appr[b].status
    BY <1>0, <1>3 DEF Overdue, ApprRow
  <2> QED
    BY <2>1, LifecycleStutter DEF Runs
<1>4. ASSUME NEW a \in Approvals, RejectAction(a)
      PROVE  Lifecycle!Reject(a)
  <2>1. /\ appr[a].status = "pending" /\ invs' = invs /\ appr'[a].status = "rejected"
        /\ \A b \in Approvals \ {a} : appr'[b] = appr[b]
    BY <1>0, <1>4 DEF RejectAction, MayDecide, ApprRow
  <2> QED
    BY <2>1 DEF Lifecycle!Reject
<1>5. ASSUME SweepExpired
      PROVE  \E overdue \in SUBSET Approvals : Lifecycle!Expire(overdue)
  <2>1. PICK overdue \in SUBSET Approvals :
           overdue = {a \in Approvals : appr[a].status = "pending" /\ appr[a].overdue}
    OBVIOUS
  <2>2. /\ invs' = invs
        /\ \A a \in Approvals : appr'[a].status = IF a \in overdue THEN "expired"
                                                  ELSE appr[a].status
    BY <1>0, <1>5, <2>1 DEF SweepExpired, ApprRow
  <2>3. \A a \in overdue : appr[a].status = "pending"
    BY <2>1
  <2>4. Lifecycle!Expire(overdue)
    BY <2>2, <2>3 DEF Lifecycle!Expire
  <2> QED
    BY <2>4
<1>6. ASSUME NEW w \in Workers, CompensateCommit(w)
      PROVE  \/ \E a \in Approvals : Lifecycle!Compensate(a)
             \/ UNCHANGED Lifecycle!lifecycleVars
  <2>1. PICK a \in Approvals : a = job[w].appr
    BY <1>6 DEF CompensateCommit, EngineInv, JobsOK, JobOK
  <2>2. /\ appr[a].status \in {"approved", "failed"} /\ invs' = invs
        /\ appr' = [appr EXCEPT ![a].status = "failed"]
    BY <1>6, <2>1 DEF CompensateCommit, EngineInv, JobsOK, JobOK
  <2>3. /\ appr'[a].status = "failed"
        /\ \A b \in Approvals \ {a} : appr'[b] = appr[b]
    BY <1>0, <2>2 DEF ApprRow
  <2>4. CASE appr[a].status = "approved"
    <3>1. invs' = invs
      BY <2>2
    <3>2. Lifecycle!Compensate(a)
      BY <2>3, <2>4, <3>1 DEF Lifecycle!Compensate
    <3> QED
      BY <3>2
  <2>5. CASE appr[a].status = "failed"
    BY <2>2, <2>3, <2>5, LifecycleStutter DEF Runs
  <2> QED
    BY <2>2, <2>4, <2>5
<1>7. ASSUME NEW w \in Workers, RevertCommit(w)
      PROVE  UNCHANGED Lifecycle!lifecycleVars
  BY <1>7, RevertCommitStep, LifecycleStutter DEF Runs
<1>8. ASSUME NEW n \in Actions, NEW d \in Definitions[n], Redefine(n, d)
      PROVE  UNCHANGED <<appr, invs>>
  BY <1>8 DEF Redefine
<1>9. CASE UNCHANGED vars
  BY <1>1, <1>9 DEF vars
<1> QED
  BY <1>1, <1>2, <1>3, <1>4, <1>5, <1>6, <1>7, <1>8, <1>9, HandlerStep, ApplyCommitLifecycle
     DEF Next, Lifecycle!LifecycleNext

(* Approvals follow the abstract lifecycle whatever the interleaving of    *)
(* approvers, rejecters, the expiry sweep, compensations and aborted       *)
(* transactions: the engine implements ApprovalLifecycle.                  *)
THEOREM EngineImplementsLifecycle == Spec => ImplementsLifecycle
<1> QED
  BY InitEngineInv, StepEngineInv, InitLifecycle, StepLifecycle, PTL
     DEF Spec, ImplementsLifecycle, Lifecycle!LifecycleSpec

(* What a step of the lifecycle does to the count of applications, under   *)
(* the refinement mapping.                                                 *)
LEMMA LifecycleKeepsCount ==
    Lifecycle!LifecycleTypeOK /\ Lifecycle!AppliedOnce /\ [Lifecycle!LifecycleNext]_Lifecycle!lifecycleVars
    => Lifecycle!LifecycleTypeOK' /\ Lifecycle!AppliedOnce'
<1> SUFFICES ASSUME Lifecycle!LifecycleTypeOK, Lifecycle!AppliedOnce,
                    [Lifecycle!LifecycleNext]_Lifecycle!lifecycleVars
             PROVE  Lifecycle!LifecycleTypeOK' /\ Lifecycle!AppliedOnce'
  OBVIOUS
<1> DEFINE status == [a \in Approvals |-> appr[a].status]
           applied == [a \in Approvals |-> Cardinality({n \in DOMAIN invs : invs[n].appr = a})]
<1>1. \A a \in Approvals : /\ status[a] \in Lifecycle!Statuses /\ applied[a] \in Nat
                           /\ applied[a] = IF status[a] \in {"approved", "failed"} THEN 1 ELSE 0
  BY DEF Lifecycle!LifecycleTypeOK, Lifecycle!AppliedOnce
<1>2. /\ status = [a \in Approvals |-> status[a]] /\ applied = [a \in Approvals |-> applied[a]]
      /\ status' = [a \in Approvals |-> status'[a]] /\ applied' = [a \in Approvals |-> applied'[a]]
  OBVIOUS
<1>3. SUFFICES \A a \in Approvals : /\ status'[a] \in Lifecycle!Statuses /\ applied'[a] \in Nat
                                    /\ applied'[a] = IF status'[a] \in {"approved", "failed"} THEN 1 ELSE 0
  BY <1>2 DEF Lifecycle!LifecycleTypeOK, Lifecycle!AppliedOnce
<1>4. \/ \E a \in Approvals :
           \/ /\ applied' = applied
              /\ \/ status[a] = "none" /\ status' = [status EXCEPT ![a] = "pending"]
                 \/ status[a] = "pending" /\ status' = [status EXCEPT ![a] = "rejected"]
                 \/ status[a] = "approved" /\ status' = [status EXCEPT ![a] = "failed"]
           \/ /\ status[a] = "pending" /\ status' = [status EXCEPT ![a] = "approved"]
              /\ applied' = [applied EXCEPT ![a] = applied[a] + 1]
      \/ \E overdue \in SUBSET Approvals :
           /\ \A a \in overdue : status[a] = "pending"
           /\ status' = [a \in Approvals |-> IF a \in overdue THEN "expired" ELSE status[a]]
           /\ applied' = applied
      \/ status' = status /\ applied' = applied
  BY DEF Lifecycle!LifecycleNext, Lifecycle!lifecycleVars, Lifecycle!Request, Lifecycle!Approve,
         Lifecycle!Reject, Lifecycle!Expire, Lifecycle!Compensate
<1> HIDE DEF status, applied
<1> QED
  BY <1>1, <1>2, <1>4 DEF Lifecycle!Statuses

(* What the lifecycle promises, of the engine: a request's edits were      *)
(* applied exactly once when it was approved, whether or not its saga      *)
(* later failed, and never otherwise.                                      *)
THEOREM EngineAppliesOnce == Spec => []Lifecycle!AppliedOnce
<1>1. Lifecycle!LifecycleInit => Lifecycle!LifecycleTypeOK /\ Lifecycle!AppliedOnce
  BY DEF Lifecycle!LifecycleInit, Lifecycle!LifecycleTypeOK, Lifecycle!AppliedOnce, Lifecycle!Statuses
<1>2. Lifecycle!LifecycleSpec => []Lifecycle!AppliedOnce
  BY <1>1, LifecycleKeepsCount, PTL DEF Lifecycle!LifecycleSpec
<1> QED
  BY <1>2, EngineImplementsLifecycle DEF ImplementsLifecycle
=============================================================================
