--------------------------- MODULE KnowledgeProofs ---------------------------
(***************************************************************************)
(* The safety of four components of MCKnowledge: the registries of types,  *)
(* the serving store and its search documents, the stored links and the    *)
(* analytics plans, for any sets and any bounds.  A step of MCKnowledge is *)
(* a step of the component in focus and leaves the others alone, so each   *)
(* component has an inductive invariant of its own.                        *)
(***************************************************************************)
EXTENDS MCKnowledge, FiniteSetTheorems, WellFoundedInduction, TLAPS

(* Every step is a step, or no step, of each component.                    *)
LEMMA ComponentSteps ==
    ASSUME [Next]_vars
    PROVE  /\ [TypeRows!Next]_(TypeRows!vars)
           /\ [Serving!Next]_(Serving!vars)
           /\ [Links!Next]_(Links!vars)
           /\ [Plans!Next]_(Plans!vars)
<1>1. [TypeRows!Next]_(TypeRows!vars)
  BY DEF Next, vars, TypeRows!vars, typeVars
<1>2. [Serving!Next]_(Serving!vars)
  BY DEF Next, vars, Serving!vars, storeVars
<1>3. [Links!Next]_(Links!vars)
  BY DEF Next, vars, Links!vars, linkVars
<1>4. [Plans!Next]_(Plans!vars)
  BY DEF Next, vars, Plans!vars, planVars
<1> QED
  BY <1>1, <1>2, <1>3, <1>4

-----------------------------------------------------------------------------
(* Links                                                                   *)
LinksType ==
    /\ content \in Seq(SUBSET Columns)
    /\ joinEvents \in Seq(Nat)
    /\ catalogued \in 0..Len(content)
    /\ relation \in Columns \cup {None, "fk"}
    /\ stored \in Links!Pairs \cup {None}
    /\ label \in (0..catalogued) \cup {None}
    /\ overlay \in {None, "add", "delete"}
    /\ linkEdits \subseteq {None, "add", "delete"}
    /\ worker \in [Links!Workers -> Links!Jobs \cup {None}]
    /\ wanted \in {None, "add", "delete"}
    /\ linkRaced \in BOOLEAN /\ reshaped \in BOOLEAN /\ linkBehind \in BOOLEAN

(* Events come in the order of their snapshots and none is skipped.        *)
LinksEvents ==
    \A i \in 1..Len(joinEvents) :
        /\ catalogued <= joinEvents[i] /\ joinEvents[i] <= Len(content)
        /\ \A j \in i..Len(joinEvents) : joinEvents[i] <= joinEvents[j]

(* A worker never labels its pairs with a snapshot newer than the one it   *)
(* has read; the consumer's event stays until it is done.                  *)
LinksJobs ==
    \A w \in Links!Workers : worker[w] # None =>
        /\ worker[w].label <= catalogued
        /\ worker[w].pc # "fetch" =>
              worker[w].label <= worker[w].read /\ worker[w].read \in 1..Len(content)
        /\ w = Consumer => /\ joinEvents # <<>> /\ Head(joinEvents) = catalogued
                           /\ worker[w].label = catalogued

(* A worker nobody overtook works on the relation as it is and on the      *)
(* latest snapshot known, unless the event of that one is still queued or  *)
(* was set aside.                                                          *)
LinksCalm ==
    ~linkRaced => \A w \in Links!Workers : worker[w] # None /\ ~worker[w].stale =>
        /\ worker[w].cols = relation /\ label # catalogued
        /\ \/ worker[w].label = catalogued
           \/ joinEvents # <<>> /\ Head(joinEvents) = catalogued
           \/ linkBehind
        /\ worker[w].pc = "listed" =>
              worker[w].absorbed = Links!Absorbed(overlay, Links!PairIn(worker[w]))

(* The label is behind only while an event is queued or was set aside, the *)
(* columns are old only while the label is behind, and a wanted write is   *)
(* in the overlay.                                                         *)
LinksSettled ==
    ~linkRaced =>
        /\ relation \notin Columns => label = None
        /\ label # None /\ relation \in Columns =>
              /\ joinEvents = <<>> => label = catalogued \/ linkBehind
              /\ ~reshaped => stored.cols = relation \/ label # catalogued
        /\ wanted # None => overlay = wanted

LinksInv == LinksType /\ LinksEvents /\ LinksJobs /\ LinksCalm /\ LinksSettled /\ Links!LabelHonest

(* Both ends of a queue after an event was added or taken.                 *)
LEMMA QueueOps ==
    ASSUME NEW S, NEW q \in Seq(S), NEW e \in S
    PROVE  /\ Append(q, e) \in Seq(S) /\ Len(q) \in Nat /\ Len(Append(q, e)) = Len(q) + 1
           /\ \A i \in 1..Len(q) : Append(q, e)[i] = q[i] /\ q[i] \in S
           /\ Append(q, e)[Len(q) + 1] = e
           /\ Append(q, e) # <<>>
           /\ q # <<>> => /\ Len(q) >= 1 /\ Head(q) = q[1] /\ Head(Append(q, e)) = q[1]
                          /\ Tail(q) \in Seq(S) /\ Len(Tail(q)) = Len(q) - 1
                          /\ \A i \in 1..(Len(q) - 1) : Tail(q)[i] = q[i + 1]
           /\ q = <<>> => Len(q) = 0 /\ Head(Append(q, e)) = e
<1>1. /\ Append(q, e) \in Seq(S) /\ Len(q) \in Nat /\ Len(Append(q, e)) = Len(q) + 1
      /\ \A i \in 1..Len(q) : Append(q, e)[i] = q[i] /\ q[i] \in S
      /\ Append(q, e)[Len(q) + 1] = e
  OBVIOUS
<1>2. Append(q, e) # <<>>
  BY <1>1
<1>3. ASSUME q # <<>>
      PROVE  /\ Len(q) >= 1 /\ Head(q) = q[1] /\ Head(Append(q, e)) = q[1]
             /\ Tail(q) \in Seq(S) /\ Len(Tail(q)) = Len(q) - 1
             /\ \A i \in 1..(Len(q) - 1) : Tail(q)[i] = q[i + 1]
  BY <1>1, <1>2, <1>3
<1>4. q = <<>> => Len(q) = 0 /\ Head(Append(q, e)) = e
  BY <1>1, <1>2
<1> QED
  BY <1>1, <1>2, <1>3, <1>4

LEMMA LinksInit == Links!Init => LinksInv
<1> SUFFICES ASSUME Links!Init PROVE LinksInv
  OBVIOUS
<1>1. /\ content = <<>> /\ joinEvents = <<>> /\ catalogued = 0 /\ label = None /\ stored = None
      /\ relation \in {None} \cup Columns /\ overlay = None /\ linkEdits = {} /\ wanted = None
      /\ worker = [w \in Links!Workers |-> None] /\ linkRaced = FALSE /\ reshaped = FALSE
      /\ linkBehind = FALSE
  BY DEF Links!Init
<1>2. content \in Seq(SUBSET Columns) /\ joinEvents \in Seq(Nat) /\ Len(content) = 0 /\ Len(joinEvents) = 0
  BY <1>1
<1>3. worker \in [Links!Workers -> Links!Jobs \cup {None}]
  BY <1>1
<1>4. LinksType
  <2>1. catalogued \in 0..Len(content) /\ label \in (0..catalogued) \cup {None}
    BY <1>1, <1>2
  <2>2. linkRaced \in BOOLEAN /\ reshaped \in BOOLEAN /\ linkBehind \in BOOLEAN
    BY <1>1
  <2> QED
    BY <1>1, <1>2, <1>3, <2>1, <2>2 DEF LinksType
<1> QED
  BY <1>1, <1>2, <1>4 DEF LinksInv, LinksEvents, LinksJobs, LinksCalm, LinksSettled, Links!LabelHonest

(* What the types say in the form the steps use it.                        *)
LEMMA LinksFacts ==
    ASSUME LinksInv
    PROVE  /\ Len(content) \in Nat /\ catalogued \in Nat /\ catalogued <= Len(content)
           /\ Len(joinEvents) \in Nat
           /\ label # None => label \in Nat /\ label <= catalogued
           /\ stored # None => stored \in Links!Pairs /\ stored.read \in Nat
           /\ \A w \in Links!Workers : worker[w] # None => worker[w] \in Links!Jobs
           /\ None \notin Links!Jobs /\ None \notin Links!Pairs
           /\ None \notin Columns /\ "fk" \notin Columns /\ None # "fk"
           /\ None # "add" /\ None # "delete"
           /\ Consumer \in Links!Workers /\ Refreshers \subseteq Links!Workers
           /\ Consumer \notin Refreshers /\ None \notin Nat
<1> USE DEF LinksInv, LinksType
<1>1. /\ Len(content) \in Nat /\ Len(joinEvents) \in Nat
  OBVIOUS
<1>2. catalogued \in Nat /\ catalogued <= Len(content)
  BY <1>1
<1>3. label # None => label \in Nat /\ label <= catalogued
  BY <1>2
<1>4. stored # None => stored \in Links!Pairs /\ stored.read \in Nat
  BY DEF Links!Pairs
<1>5. \A w \in Links!Workers : worker[w] # None => worker[w] \in Links!Jobs
  OBVIOUS
<1>6. /\ None \notin Links!Jobs /\ None \notin Links!Pairs
      /\ None \notin Columns /\ "fk" \notin Columns /\ None # "fk"
      /\ None # "add" /\ None # "delete" /\ Consumer \notin Refreshers /\ None \notin Nat
  BY KnowledgeAssumption
<1>7. Consumer \in Links!Workers /\ Refreshers \subseteq Links!Workers
  BY DEF Links!Workers
<1> QED
  BY <1>1, <1>2, <1>3, <1>4, <1>5, <1>6, <1>7

LEMMA LinksSync ==
    ASSUME LinksInv, NEW cs \in SUBSET Columns, Links!Sync(cs)
    PROVE  LinksInv'
<1>1. /\ content' = Append(content, cs) /\ joinEvents' = Append(joinEvents, Len(content) + 1)
      /\ UNCHANGED <<catalogued, relation, stored, label, overlay, linkEdits, wanted, worker,
                     linkRaced, reshaped, linkBehind>>
  BY DEF Links!Sync, Links!links, Links!overlays
<1>2. content \in Seq(SUBSET Columns) /\ joinEvents \in Seq(Nat) /\ Len(content) + 1 \in Nat
  BY LinksFacts DEF LinksInv, LinksType
<1>3. /\ content' \in Seq(SUBSET Columns) /\ Len(content') = Len(content) + 1
      /\ \A i \in 1..Len(content) : content'[i] = content[i]
  BY <1>1, <1>2, QueueOps
<1>4. /\ joinEvents' \in Seq(Nat) /\ Len(joinEvents') = Len(joinEvents) + 1 /\ joinEvents' # <<>>
      /\ \A i \in 1..Len(joinEvents) : joinEvents'[i] = joinEvents[i] /\ joinEvents[i] \in Nat
      /\ joinEvents'[Len(joinEvents) + 1] = Len(content) + 1
      /\ joinEvents # <<>> => Head(joinEvents') = Head(joinEvents)
  <2>1. joinEvents # <<>> => Head(joinEvents) = joinEvents[1] /\ Head(joinEvents') = joinEvents[1]
    BY <1>1, <1>2, QueueOps
  <2> QED
    BY <1>1, <1>2, <2>1, QueueOps
<1>5. LinksType'
  BY <1>1, <1>2, <1>3, <1>4, LinksFacts DEF LinksInv, LinksType
<1>6. LinksEvents'
  <2> SUFFICES ASSUME NEW i \in 1..Len(joinEvents'), NEW j \in i..Len(joinEvents')
               PROVE  /\ catalogued <= joinEvents'[i] /\ joinEvents'[i] <= Len(content')
                      /\ joinEvents'[i] <= joinEvents'[j]
    BY <1>1, <1>4, LinksFacts DEF LinksEvents
  <2>1. CASE i = Len(joinEvents) + 1
    BY <1>3, <1>4, <2>1, LinksFacts
  <2>a. ASSUME i \in 1..Len(joinEvents)
        PROVE  /\ catalogued <= joinEvents[i] /\ joinEvents[i] <= Len(content)
               /\ \A k \in i..Len(joinEvents) : joinEvents[i] <= joinEvents[k]
    BY <2>a DEF LinksInv, LinksEvents
  <2>2. CASE i \in 1..Len(joinEvents) /\ j = Len(joinEvents) + 1
    BY <1>3, <1>4, <2>2, <2>a, LinksFacts
  <2>3. CASE i \in 1..Len(joinEvents) /\ j \in i..Len(joinEvents)
    <3>1. j \in 1..Len(joinEvents)
      BY <2>3, LinksFacts
    <3> QED
      BY <1>3, <1>4, <2>3, <2>a, <3>1, LinksFacts
  <2> QED
    BY <1>4, <2>1, <2>2, <2>3, LinksFacts
<1>7. LinksJobs'
  BY <1>1, <1>3, <1>4, LinksFacts DEF LinksInv, LinksJobs, Links!Jobs
<1>8. LinksCalm'
  <2>1. \A w \in Links!Workers : worker[w] # None /\ worker[w].pc = "listed" =>
           Links!PairIn(worker[w])' = Links!PairIn(worker[w])
    BY <1>1, <1>3 DEF LinksInv, LinksJobs, Links!PairIn
  <2> QED
    BY <1>1, <1>4, <2>1 DEF LinksInv, LinksCalm, Links!Absorbed, Links!PairIn
<1>9. LinksSettled' /\ Links!LabelHonest'
  BY <1>1, <1>4 DEF LinksInv, LinksSettled, Links!LabelHonest
<1> QED
  BY <1>5, <1>6, <1>7, <1>8, <1>9 DEF LinksInv

(* A worker that starts from the latest snapshot known.                    *)
LEMMA LinksJob ==
    ASSUME LinksInv, relation \in Columns
    PROVE  LET j == Links!Job("fetch", catalogued) IN
           /\ j \in Links!Jobs /\ j.pc = "fetch" /\ j.label = catalogued /\ j.cols = relation
           /\ ~j.stale
BY LinksFacts DEF Links!Job, Links!Jobs

(* Nobody works undisturbed on a label that is current.                    *)
LEMMA LinksNext ==
    ASSUME LinksInv, joinEvents # <<>>
    PROVE  /\ Head(joinEvents) \in Nat /\ catalogued <= Head(joinEvents)
           /\ Head(joinEvents) <= Len(content) /\ Tail(joinEvents) \in Seq(Nat)
           /\ Len(Tail(joinEvents)) = Len(joinEvents) - 1
           /\ \A i \in 1..Len(Tail(joinEvents)) :
                 /\ Tail(joinEvents)[i] = joinEvents[i + 1] /\ i + 1 \in 1..Len(joinEvents)
                 /\ Head(joinEvents) <= joinEvents[i + 1]
<1>1. joinEvents \in Seq(Nat) /\ Len(joinEvents) \in Nat
  BY LinksFacts DEF LinksInv, LinksType
<1>2. /\ Len(joinEvents) >= 1 /\ Head(joinEvents) = joinEvents[1] /\ joinEvents[1] \in Nat
      /\ Tail(joinEvents) \in Seq(Nat) /\ Len(Tail(joinEvents)) = Len(joinEvents) - 1
      /\ \A i \in 1..(Len(joinEvents) - 1) : Tail(joinEvents)[i] = joinEvents[i + 1]
  BY <1>1, QueueOps
<1>3. 1 \in 1..Len(joinEvents)
  BY <1>1, <1>2
<1>4. /\ catalogued <= joinEvents[1] /\ joinEvents[1] <= Len(content)
      /\ \A j \in 1..Len(joinEvents) : joinEvents[1] <= joinEvents[j]
  BY <1>3 DEF LinksInv, LinksEvents
<1> QED
  BY <1>1, <1>2, <1>4

LEMMA LinksCatalogue ==
    ASSUME LinksInv, Links!CatalogueEvent
    PROVE  LinksInv'
<1>1. /\ joinEvents # <<>> /\ worker[Consumer] = None /\ catalogued' = Head(joinEvents)
      /\ UNCHANGED <<content, relation, stored, label, overlay, linkEdits, wanted, linkRaced,
                     reshaped, linkBehind>>
  BY DEF Links!CatalogueEvent, Links!links, Links!overlays
<1>2. /\ catalogued' \in Nat /\ catalogued <= catalogued' /\ catalogued' <= Len(content)
      /\ label # None => label <= catalogued'
      /\ label # catalogued => label # catalogued'
  BY <1>1, LinksNext, LinksFacts
<1>3. CASE relation \in Columns /\ label # Head(joinEvents)
  <2>1. /\ joinEvents' = joinEvents
        /\ worker' = [worker EXCEPT ![Consumer] = Links!Job("fetch", Head(joinEvents))]
    BY <1>3 DEF Links!CatalogueEvent
  <2>2. PICK j : j = Links!Job("fetch", Head(joinEvents))
    OBVIOUS
  <2>3. j \in Links!Jobs /\ j.pc = "fetch" /\ j.label = catalogued' /\ j.cols = relation /\ ~j.stale
    BY <1>1, <1>2, <1>3, <2>2 DEF Links!Job, Links!Jobs
  <2>4. /\ worker' \in [Links!Workers -> Links!Jobs \cup {None}] /\ worker'[Consumer] = j
        /\ \A w \in Links!Workers \ {Consumer} : worker'[w] = worker[w]
    BY <2>1, <2>2, <2>3, LinksFacts DEF LinksInv, LinksType
  <2>5. LinksType'
    BY <1>1, <1>2, <2>1, <2>4, LinksFacts DEF LinksInv, LinksType
  <2>6. LinksEvents'
    <3>1. \A i \in 1..Len(joinEvents) : catalogued' <= joinEvents[i]
      <4> TAKE i \in 1..Len(joinEvents)
      <4>1. CASE i = 1
        BY <1>1, <4>1, LinksFacts, QueueOps DEF LinksInv, LinksType
      <4>2. CASE i # 1
        <5>1. i - 1 \in 1..Len(Tail(joinEvents)) /\ (i - 1) + 1 = i
          BY <1>1, <4>2, LinksNext, LinksFacts
        <5> QED
          BY <1>1, <5>1, LinksNext
      <4> QED
        BY <4>1, <4>2
    <3> QED
      BY <1>1, <2>1, <3>1 DEF LinksInv, LinksEvents
  <2>7. LinksJobs'
    BY <1>1, <1>2, <2>1, <2>3, <2>4, LinksFacts DEF LinksInv, LinksJobs, Links!Jobs
  <2>8. LinksCalm'
    <3> SUFFICES ASSUME ~linkRaced, NEW w \in Links!Workers, worker'[w] # None, ~worker'[w].stale
                 PROVE  /\ worker'[w].cols = relation /\ label # catalogued'
                        /\ worker'[w].pc = "listed" =>
                              worker'[w].absorbed = Links!Absorbed(overlay, Links!PairIn(worker[w]))
                        /\ w = Consumer => worker'[w].label = catalogued' /\ worker'[w].pc = "fetch"
      BY <1>1, <2>1, <2>4 DEF LinksCalm, Links!Absorbed, Links!PairIn
    <3>1. CASE w = Consumer
      BY <1>1, <1>3, <2>3, <2>4, <3>1
    <3>2. CASE w # Consumer
      BY <1>1, <1>2, <2>4, <3>2 DEF LinksInv, LinksCalm
    <3> QED
      BY <3>1, <3>2
  <2>9. LinksSettled' /\ Links!LabelHonest'
    BY <1>1, <1>2, <2>1 DEF LinksInv, LinksSettled, Links!LabelHonest
  <2> QED
    BY <2>5, <2>6, <2>7, <2>8, <2>9 DEF LinksInv
<1>4. CASE ~(relation \in Columns /\ label # Head(joinEvents))
  <2>1. joinEvents' = Tail(joinEvents) /\ worker' = worker
    BY <1>4 DEF Links!CatalogueEvent
  <2>2. LinksType'
    BY <1>1, <1>2, <2>1, LinksNext, LinksFacts DEF LinksInv, LinksType
  <2>3. LinksEvents'
    <3> SUFFICES ASSUME NEW i \in 1..Len(joinEvents'), NEW j \in i..Len(joinEvents')
                 PROVE  /\ catalogued' <= joinEvents'[i] /\ joinEvents'[i] <= Len(content)
                        /\ joinEvents'[i] <= joinEvents'[j]
      BY <1>1 DEF LinksEvents
    <3>1. j \in 1..Len(joinEvents') /\ i + 1 \in 1..Len(joinEvents) /\ j + 1 \in (i + 1)..Len(joinEvents)
      <4>1. Len(joinEvents) \in Nat /\ Len(joinEvents') = Len(joinEvents) - 1
        BY <1>1, <2>1, LinksNext, LinksFacts
      <4> QED
        BY <4>1
    <3>2. joinEvents'[i] = joinEvents[i + 1] /\ joinEvents'[j] = joinEvents[j + 1]
      BY <1>1, <2>1, <3>1, LinksNext
    <3> QED
      BY <1>1, <2>1, <3>1, <3>2, LinksNext DEF LinksInv, LinksEvents
  <2>4. LinksJobs'
    <3>1. \A w \in Links!Workers : worker[w] # None => worker[w].label \in Nat /\ w # Consumer
      BY <1>1, LinksFacts DEF Links!Jobs
    <3>2. \A w \in Links!Workers : worker[w] # None =>
             /\ worker[w].label <= catalogued
             /\ worker[w].pc # "fetch" =>
                   worker[w].label <= worker[w].read /\ worker[w].read \in 1..Len(content)
      BY DEF LinksInv, LinksJobs
    <3>3. \A w \in Links!Workers : worker[w] # None => worker[w].label <= catalogued'
      BY <1>2, <3>1, <3>2, LinksFacts
    <3> QED
      BY <1>1, <2>1, <3>1, <3>2, <3>3 DEF LinksJobs
  <2>5. LinksCalm'
    <3>1. ~linkRaced => \A w \in Links!Workers : worker[w] # None => worker[w].stale
      <4> SUFFICES ASSUME ~linkRaced, NEW w \in Links!Workers, worker[w] # None, ~worker[w].stale
                   PROVE  FALSE
        OBVIOUS
      <4>1. worker[w].cols = relation /\ label # catalogued
        BY DEF LinksInv, LinksCalm
      <4>2. relation \in Columns
        BY <4>1, LinksFacts DEF Links!Jobs
      <4>3. label = Head(joinEvents) /\ label \in Nat /\ label <= catalogued
        BY <1>1, <1>4, <4>2, LinksNext, LinksFacts
      <4> QED
        BY <1>1, <4>1, <4>3, LinksNext, LinksFacts
    <3> QED
      BY <1>1, <2>1, <3>1 DEF LinksCalm
  <2>6. LinksSettled'
    <3> SUFFICES ASSUME ~linkRaced
                 PROVE  /\ relation \notin Columns => label = None
                        /\ label # None /\ relation \in Columns =>
                              label = catalogued' /\ (~reshaped => stored.cols = relation \/ label # catalogued')
                        /\ wanted # None => overlay = wanted
      BY <1>1 DEF LinksSettled
    <3>1. label # None /\ relation \in Columns => label = catalogued' /\ label = catalogued
      BY <1>1, <1>4, LinksNext, LinksFacts
    <3> QED
      BY <3>1 DEF LinksInv, LinksSettled
  <2>7. Links!LabelHonest'
    BY <1>1 DEF LinksInv, Links!LabelHonest
  <2> QED
    BY <2>2, <2>3, <2>4, <2>5, <2>6, <2>7 DEF LinksInv
<1> QED
  BY <1>3, <1>4

(* A step that only changes one worker, which it leaves or makes undisturbed *)
(* only on the conditions of the invariant.                                  *)
LEMMA LinksWorker ==
    ASSUME LinksInv, NEW w \in Links!Workers, NEW j \in Links!Jobs \cup {None},
           worker' = [worker EXCEPT ![w] = j],
           UNCHANGED <<content, joinEvents, catalogued, relation, stored, label, overlay,
                       linkEdits, wanted, linkRaced, reshaped, linkBehind>>,
           j # None =>
             /\ j.label <= catalogued
             /\ j.pc # "fetch" => j.label <= j.read /\ j.read \in 1..Len(content)
             /\ w = Consumer => /\ joinEvents # <<>> /\ Head(joinEvents) = catalogued
                                /\ j.label = catalogued
             /\ ~linkRaced /\ ~j.stale =>
                   /\ j.cols = relation /\ label # catalogued
                   /\ j.label = catalogued \/ linkBehind \/ (joinEvents # <<>> /\ Head(joinEvents) = catalogued)
                   /\ j.pc = "listed" => j.absorbed = Links!Absorbed(overlay, Links!PairIn(j))
    PROVE  LinksInv'
<1>1. /\ worker' \in [Links!Workers -> Links!Jobs \cup {None}] /\ worker'[w] = j
      /\ \A v \in Links!Workers \ {w} : worker'[v] = worker[v]
  BY DEF LinksInv, LinksType
<1>2. LinksType'
  BY <1>1 DEF LinksInv, LinksType
<1>3. LinksJobs'
  <2> SUFFICES ASSUME NEW v \in Links!Workers, worker'[v] # None
               PROVE  /\ worker'[v].label <= catalogued
                      /\ worker'[v].pc # "fetch" =>
                            worker'[v].label <= worker'[v].read /\ worker'[v].read \in 1..Len(content)
                      /\ v = Consumer => /\ joinEvents # <<>> /\ Head(joinEvents) = catalogued
                                         /\ worker'[v].label = catalogued
    BY DEF LinksJobs
  <2>1. CASE v = w
    BY <1>1, <2>1
  <2>2. CASE v # w
    BY <1>1, <2>2 DEF LinksInv, LinksJobs
  <2> QED
    BY <2>1, <2>2
<1>4. LinksCalm'
  <2> SUFFICES ASSUME ~linkRaced, NEW v \in Links!Workers, worker'[v] # None, ~worker'[v].stale
               PROVE  /\ worker'[v].cols = relation /\ label # catalogued
                      /\ \/ worker'[v].label = catalogued
                         \/ joinEvents # <<>> /\ Head(joinEvents) = catalogued
                         \/ linkBehind
                      /\ worker'[v].pc = "listed" =>
                            worker'[v].absorbed = Links!Absorbed(overlay, Links!PairIn(worker'[v]))
    BY DEF LinksCalm, Links!Absorbed, Links!PairIn
  <2>1. CASE v = w
    BY <1>1, <2>1
  <2>2. CASE v # w
    BY <1>1, <2>2 DEF LinksInv, LinksCalm
  <2> QED
    BY <2>1, <2>2
<1>5. LinksEvents' /\ LinksSettled' /\ Links!LabelHonest'
  BY DEF LinksInv, LinksEvents, LinksSettled, Links!LabelHonest
<1> QED
  BY <1>2, <1>3, <1>4, <1>5 DEF LinksInv

LEMMA LinksRefresh ==
    ASSUME LinksInv, NEW w \in Refreshers, Links!BeginRefresh(w)
    PROVE  LinksInv'
<1>1. /\ relation \in Columns /\ label # catalogued
      /\ worker' = [worker EXCEPT ![w] = Links!Job("fetch", catalogued)]
      /\ UNCHANGED <<content, joinEvents, catalogued, relation, stored, label, overlay,
                     linkEdits, wanted, linkRaced, reshaped, linkBehind>>
  BY DEF Links!BeginRefresh, Links!links, Links!overlays
<1>2. PICK j : j = Links!Job("fetch", catalogued)
  OBVIOUS
<1>3. /\ j \in Links!Jobs /\ j.pc = "fetch" /\ j.label = catalogued /\ j.cols = relation
  BY <1>1, <1>2, LinksJob
<1>4. w \in Links!Workers /\ w # Consumer /\ catalogued \in Nat
  BY LinksFacts
<1>5. j # None =>
        /\ j.label <= catalogued
        /\ j.pc # "fetch" => j.label <= j.read /\ j.read \in 1..Len(content)
        /\ w = Consumer => /\ joinEvents # <<>> /\ Head(joinEvents) = catalogued
                           /\ j.label = catalogued
        /\ ~linkRaced /\ ~j.stale =>
              /\ j.cols = relation /\ label # catalogued
              /\ j.label = catalogued \/ linkBehind \/ (joinEvents # <<>> /\ Head(joinEvents) = catalogued)
              /\ j.pc = "listed" => j.absorbed = Links!Absorbed(overlay, Links!PairIn(j))
  BY <1>1, <1>3, <1>4
<1> QED
  BY <1>1, <1>2, <1>3, <1>4, <1>5, LinksWorker

LEMMA LinksFetch ==
    ASSUME LinksInv, NEW w \in Links!Workers, Links!FetchJoinRows(w)
    PROVE  LinksInv'
<1>1. /\ worker[w] # None /\ worker[w].pc = "fetch"
      /\ worker' = [worker EXCEPT ![w] =
            IF content = <<>> THEN None ELSE [@ EXCEPT !.pc = "fetched", !.read = Len(content)]]
      /\ UNCHANGED <<content, joinEvents, catalogued, relation, stored, label, overlay,
                     linkEdits, wanted, linkRaced, reshaped, linkBehind>>
  BY DEF Links!FetchJoinRows, Links!links, Links!overlays
<1>2. CASE content = <<>>
  BY <1>1, <1>2, LinksWorker
<1>3. CASE content # <<>>
  <2>1. PICK j : j = [worker[w] EXCEPT !.pc = "fetched", !.read = Len(content)]
    OBVIOUS
  <2>2. worker' = [worker EXCEPT ![w] = j]
    BY <1>1, <1>3, <2>1 DEF LinksInv, LinksType
  <2>3. /\ j \in Links!Jobs /\ j.pc = "fetched" /\ j.read = Len(content)
        /\ j.label = worker[w].label /\ j.cols = worker[w].cols /\ j.stale = worker[w].stale
    BY <1>1, <2>1, LinksFacts DEF Links!Jobs
  <2>4. Len(content) >= 1
    BY <1>3, LinksFacts DEF LinksInv, LinksType
  <2>5. j.label <= catalogued /\ j.label \in Nat /\ j.label <= Len(content)
    BY <1>1, <2>3, LinksFacts DEF LinksInv, LinksJobs, Links!Jobs
  <2>6. /\ w = Consumer => /\ joinEvents # <<>> /\ Head(joinEvents) = catalogued
                           /\ j.label = catalogued
        /\ ~linkRaced /\ ~j.stale =>
              /\ j.cols = relation /\ label # catalogued
              /\ j.label = catalogued \/ linkBehind \/ (joinEvents # <<>> /\ Head(joinEvents) = catalogued)
    BY <1>1, <2>3 DEF LinksInv, LinksJobs, LinksCalm
  <2>7. j # None =>
          /\ j.label <= catalogued
          /\ j.pc # "fetch" => j.label <= j.read /\ j.read \in 1..Len(content)
          /\ w = Consumer => /\ joinEvents # <<>> /\ Head(joinEvents) = catalogued
                             /\ j.label = catalogued
          /\ ~linkRaced /\ ~j.stale =>
                /\ j.cols = relation /\ label # catalogued
                /\ j.label = catalogued \/ linkBehind \/ (joinEvents # <<>> /\ Head(joinEvents) = catalogued)
                /\ j.pc = "listed" => j.absorbed = Links!Absorbed(overlay, Links!PairIn(j))
    BY <2>3, <2>4, <2>5, <2>6, LinksFacts
  <2> QED
    BY <1>1, <2>2, <2>3, <2>7, LinksWorker
<1> QED
  BY <1>2, <1>3

LEMMA LinksList ==
    ASSUME LinksInv, NEW w \in Links!Workers, Links!ListOverlays(w)
    PROVE  LinksInv'
<1>1. /\ worker[w] # None /\ worker[w].pc = "fetched"
      /\ worker' = [worker EXCEPT ![w].pc = "listed",
                        ![w].absorbed = Links!Absorbed(overlay, Links!PairIn(worker[w]))]
      /\ UNCHANGED <<content, joinEvents, catalogued, relation, stored, label, overlay,
                     linkEdits, wanted, linkRaced, reshaped, linkBehind>>
  BY DEF Links!ListOverlays, Links!links, Links!overlays
<1>2. PICK j : j = [worker[w] EXCEPT !.pc = "listed",
                       !.absorbed = Links!Absorbed(overlay, Links!PairIn(worker[w]))]
  OBVIOUS
<1>3. worker' = [worker EXCEPT ![w] = j]
  BY <1>1, <1>2 DEF LinksInv, LinksType
<1>4. Links!Absorbed(overlay, Links!PairIn(worker[w])) \in BOOLEAN
  BY DEF Links!Absorbed
<1>5. /\ j \in Links!Jobs /\ j.pc = "listed" /\ j.read = worker[w].read
      /\ j.label = worker[w].label /\ j.cols = worker[w].cols /\ j.stale = worker[w].stale
      /\ j.absorbed = Links!Absorbed(overlay, Links!PairIn(worker[w]))
  BY <1>1, <1>2, <1>4, LinksFacts DEF Links!Jobs
<1>6. Links!PairIn(j) = Links!PairIn(worker[w])
  BY <1>5 DEF Links!PairIn
<1>7. /\ j.label <= catalogued /\ j.label <= j.read /\ j.read \in 1..Len(content)
      /\ w = Consumer => /\ joinEvents # <<>> /\ Head(joinEvents) = catalogued
                         /\ j.label = catalogued
      /\ ~linkRaced /\ ~j.stale =>
            /\ j.cols = relation /\ label # catalogued
            /\ j.label = catalogued \/ linkBehind \/ (joinEvents # <<>> /\ Head(joinEvents) = catalogued)
  BY <1>1, <1>5 DEF LinksInv, LinksJobs, LinksCalm
<1>8. j # None =>
        /\ j.label <= catalogued
        /\ j.pc # "fetch" => j.label <= j.read /\ j.read \in 1..Len(content)
        /\ w = Consumer => /\ joinEvents # <<>> /\ Head(joinEvents) = catalogued
                           /\ j.label = catalogued
        /\ ~linkRaced /\ ~j.stale =>
              /\ j.cols = relation /\ label # catalogued
              /\ j.label = catalogued \/ linkBehind \/ (joinEvents # <<>> /\ Head(joinEvents) = catalogued)
              /\ j.pc = "listed" => j.absorbed = Links!Absorbed(overlay, Links!PairIn(j))
  BY <1>5, <1>6, <1>7
<1> QED
  BY <1>1, <1>3, <1>5, <1>8, LinksWorker

LEMMA LinksFail ==
    ASSUME LinksInv, NEW w \in Links!Workers, Links!WorkerFails(w)
    PROVE  LinksInv'
BY LinksWorker DEF Links!WorkerFails, Links!links, Links!overlays

(* The event set aside was the oldest one queued.                          *)
LEMMA LinksQuarantine ==
    ASSUME LinksInv, Links!QuarantineEvent
    PROVE  LinksInv'
<1>1. /\ joinEvents # <<>> /\ joinEvents' = Tail(joinEvents) /\ linkBehind' = TRUE
      /\ worker' = [worker EXCEPT ![Consumer] = None]
      /\ UNCHANGED <<content, catalogued, relation, stored, label, overlay, linkEdits, wanted,
                     linkRaced, reshaped>>
  BY DEF Links!QuarantineEvent, Links!links, Links!overlays
<1>2. /\ worker' \in [Links!Workers -> Links!Jobs \cup {None}] /\ worker'[Consumer] = None
      /\ \A v \in Links!Workers \ {Consumer} : worker'[v] = worker[v]
  BY <1>1, LinksFacts DEF LinksInv, LinksType
<1>3. LinksType'
  BY <1>1, <1>2, LinksNext DEF LinksInv, LinksType
<1>4. LinksEvents'
  <2> SUFFICES ASSUME NEW i \in 1..Len(joinEvents'), NEW j \in i..Len(joinEvents')
               PROVE  /\ catalogued <= joinEvents'[i] /\ joinEvents'[i] <= Len(content)
                      /\ joinEvents'[i] <= joinEvents'[j]
    BY <1>1 DEF LinksEvents
  <2>1. j \in 1..Len(joinEvents') /\ i + 1 \in 1..Len(joinEvents) /\ j + 1 \in (i + 1)..Len(joinEvents)
    BY <1>1, LinksNext, LinksFacts
  <2>2. joinEvents'[i] = joinEvents[i + 1] /\ joinEvents'[j] = joinEvents[j + 1]
    BY <1>1, <2>1, LinksNext
  <2> QED
    BY <2>1, <2>2 DEF LinksInv, LinksEvents
<1>5. LinksJobs'
  BY <1>1, <1>2 DEF LinksInv, LinksJobs
<1>6. LinksCalm'
  BY <1>1, <1>2 DEF LinksInv, LinksCalm, Links!Absorbed, Links!PairIn
<1>7. LinksSettled' /\ Links!LabelHonest'
  BY <1>1 DEF LinksInv, LinksSettled, Links!LabelHonest
<1> QED
  BY <1>3, <1>4, <1>5, <1>6, <1>7 DEF LinksInv

(* A stale copy of every worker but one.                                   *)
LEMMA LinksOvertaken ==
    ASSUME LinksInv, NEW v \in Links!Workers
    PROVE  /\ Links!Overtaken \in [Links!Workers -> Links!Jobs \cup {None}]
           /\ Links!Overtaken[v] = None <=> worker[v] = None
           /\ worker[v] # None =>
                 LET j == Links!Overtaken[v] IN
                 /\ j = [worker[v] EXCEPT !.stale = TRUE]
                 /\ j.stale /\ j.pc = worker[v].pc /\ j.label = worker[v].label
                 /\ j.read = worker[v].read
<1>1. \A u \in Links!Workers : worker[u] # None =>
         LET j == [worker[u] EXCEPT !.stale = TRUE] IN
         /\ j \in Links!Jobs /\ j # None
         /\ j.stale /\ j.pc = worker[u].pc /\ j.label = worker[u].label /\ j.read = worker[u].read
  BY LinksFacts DEF Links!Jobs
<1> QED
  BY <1>1 DEF Links!Overtaken

LEMMA LinksCommit ==
    ASSUME LinksInv, NEW w \in Links!Workers, Links!CommitPairs(w)
    PROVE  LinksInv'
<1>1. PICK j : j = worker[w]
  OBVIOUS
<1>2. PICK present : present = Links!PairIn(j)
  OBVIOUS
<1>3. /\ j # None /\ j.pc = "listed"
      /\ stored' = [read |-> j.read, cols |-> j.cols, present |-> present]
      /\ label' = j.label
      /\ overlay' = IF j.absorbed THEN None ELSE overlay
      /\ worker' = [v \in Links!Workers |->
           IF v = w THEN None
           ELSE IF worker[v] # None THEN [worker[v] EXCEPT !.stale = TRUE] ELSE None]
      /\ wanted' = IF wanted # None /\ (wanted = "add") = present THEN None ELSE wanted
      /\ linkRaced' = (linkRaced \/ j.stale)
      /\ linkBehind' = (linkBehind /\ j.label # catalogued)
      /\ joinEvents' = IF w = Consumer THEN Tail(joinEvents) ELSE joinEvents
      /\ UNCHANGED <<content, catalogued, relation, linkEdits, reshaped>>
  BY <1>1, <1>2 DEF Links!CommitPairs
<1>4. /\ j \in Links!Jobs /\ j.label \in Nat /\ j.label <= catalogued /\ j.label <= j.read
      /\ j.read \in Nat /\ j.read \in 1..Len(content) /\ j.cols \in Columns
      /\ j.stale \in BOOLEAN /\ j.absorbed \in BOOLEAN /\ present \in BOOLEAN
  <2>1. j \in Links!Jobs
    BY <1>1, <1>3, LinksFacts
  <2>2. j.label <= catalogued /\ j.label <= j.read /\ j.read \in 1..Len(content)
    BY <1>1, <1>3 DEF LinksInv, LinksJobs
  <2> QED
    BY <1>2, <2>1, <2>2 DEF Links!Jobs, Links!PairIn
<1>5. /\ worker' \in [Links!Workers -> Links!Jobs \cup {None}] /\ worker'[w] = None
      /\ \A v \in Links!Workers : worker'[v] # None =>
            /\ v # w /\ worker[v] # None /\ worker'[v].stale /\ worker'[v].pc = worker[v].pc
            /\ worker'[v].label = worker[v].label /\ worker'[v].read = worker[v].read
  <2>1. \A v \in Links!Workers : worker'[v] = IF v = w THEN None ELSE Links!Overtaken[v]
    BY <1>3 DEF Links!Overtaken
  <2> QED
    BY <1>3, <2>1, LinksOvertaken
<1>6. LinksEvents' /\ joinEvents' \in Seq(Nat)
  <2>1. CASE w = Consumer
    <3>1. joinEvents # <<>> /\ Head(joinEvents) = catalogued /\ joinEvents' = Tail(joinEvents)
      BY <1>1, <1>3, <2>1 DEF LinksInv, LinksJobs
    <3>2. ASSUME NEW i \in 1..Len(joinEvents'), NEW k \in i..Len(joinEvents')
          PROVE  /\ catalogued <= joinEvents'[i] /\ joinEvents'[i] <= Len(content)
                 /\ joinEvents'[i] <= joinEvents'[k]
      <4>1. /\ k \in 1..Len(joinEvents') /\ i + 1 \in 1..Len(joinEvents)
            /\ k + 1 \in (i + 1)..Len(joinEvents)
        BY <3>1, LinksNext, LinksFacts
      <4>2. joinEvents'[i] = joinEvents[i + 1] /\ joinEvents'[k] = joinEvents[k + 1]
        BY <3>1, <4>1, LinksNext
      <4> QED
        BY <4>1, <4>2 DEF LinksInv, LinksEvents
    <3> QED
      BY <1>3, <3>1, <3>2, LinksNext DEF LinksEvents
  <2>2. CASE w # Consumer
    BY <1>3, <2>2 DEF LinksInv, LinksType, LinksEvents
  <2> QED
    BY <2>1, <2>2
<1>7. LinksType'
  <2>1. stored' \in Links!Pairs
    BY <1>3, <1>4 DEF Links!Pairs
  <2>2. label' \in 0..catalogued
    BY <1>3, <1>4, LinksFacts
  <2> QED
    BY <1>3, <1>4, <1>5, <1>6, <2>1, <2>2 DEF LinksInv, LinksType
<1>8. LinksJobs'
  <2>1. \A v \in Links!Workers : v = Consumer /\ worker'[v] # None => joinEvents' = joinEvents
    BY <1>3, <1>5
  <2> QED
    BY <1>3, <1>5, <2>1 DEF LinksInv, LinksJobs
<1>9. LinksCalm'
  BY <1>5 DEF LinksCalm
<1>10. LinksSettled'
  <2> SUFFICES ASSUME ~linkRaced, ~j.stale
               PROVE  /\ relation \in Columns /\ stored'.cols = relation
                      /\ joinEvents' = <<>> => label' = catalogued \/ linkBehind'
                      /\ wanted' # None => overlay' = wanted'
    BY <1>3 DEF LinksSettled
  <2>1. /\ j.cols = relation
        /\ j.label = catalogued \/ linkBehind \/ (joinEvents # <<>> /\ Head(joinEvents) = catalogued)
        /\ j.absorbed = Links!Absorbed(overlay, present)
        /\ wanted # None => overlay = wanted
    BY <1>1, <1>2, <1>3 DEF LinksInv, LinksCalm, LinksSettled
  <2>2. joinEvents' = <<>> => label' = catalogued \/ linkBehind'
    <3>1. CASE w = Consumer
      BY <1>1, <1>3, <3>1 DEF LinksInv, LinksJobs
    <3>2. CASE w # Consumer
      BY <1>3, <2>1, <3>2
    <3> QED
      BY <3>1, <3>2
  <2>3. wanted' # None => overlay' = wanted'
    BY <1>3, <2>1 DEF Links!Absorbed
  <2> QED
    BY <1>3, <1>4, <2>1, <2>2, <2>3
<1>11. Links!LabelHonest'
  <2>1. stored' # None
    BY <1>7, <1>3, <1>4, LinksFacts DEF Links!Pairs
  <2> QED
    BY <1>3, <1>4, <2>1 DEF Links!LabelHonest
<1> QED
  BY <1>6, <1>7, <1>8, <1>9, <1>10, <1>11 DEF LinksInv

(* The relation changes, or goes: every worker is overtaken, or starts     *)
(* again from the latest snapshot.                                         *)
LEMMA LinksRelation ==
    ASSUME LinksInv, NEW def \in Columns \cup {None, "fk"},
           NEW keep \in [Links!Workers -> Links!Jobs \cup {None}],
           relation' = def, worker' = keep,
           UNCHANGED <<content, joinEvents, catalogued, linkRaced, linkBehind>>,
           \A v \in Links!Workers : keep[v] # None =>
              \/ Links!Overtaken[v] = keep[v]
              \/ /\ v # Consumer /\ keep[v].pc = "fetch" /\ keep[v].label = catalogued
                 /\ keep[v].cols = def /\ label' # catalogued,
           \/ UNCHANGED <<stored, label>> /\ def \in Columns
           \/ stored' = None /\ label' = None,
           \/ UNCHANGED <<overlay, linkEdits, wanted>>
           \/ overlay' = None /\ linkEdits' = {} /\ wanted' = None,
           \/ reshaped' = reshaped /\ (label' = None \/ label # catalogued)
           \/ reshaped' = TRUE
    PROVE  LinksInv'
<1>1. \A v \in Links!Workers : keep[v] # None =>
         \/ /\ worker[v] # None /\ keep[v].stale /\ keep[v].pc = worker[v].pc
            /\ keep[v].label = worker[v].label /\ keep[v].read = worker[v].read
         \/ /\ v # Consumer /\ keep[v].pc = "fetch" /\ keep[v].label = catalogued
            /\ keep[v].cols = def /\ label' # catalogued
  BY LinksOvertaken
<1>2. LinksType'
  BY DEF LinksInv, LinksType
<1>3. LinksEvents'
  BY DEF LinksInv, LinksEvents
<1>4. LinksJobs'
  BY <1>1, LinksFacts DEF LinksInv, LinksJobs
<1>5. LinksCalm'
  BY <1>1 DEF LinksCalm
<1>6. LinksSettled'
  <2> SUFFICES ASSUME ~linkRaced
               PROVE  /\ def \notin Columns => label' = None
                      /\ label' # None /\ def \in Columns =>
                            /\ joinEvents = <<>> => label' = catalogued \/ linkBehind
                            /\ ~reshaped' => stored'.cols = def \/ label' # catalogued
                      /\ wanted' # None => overlay' = wanted'
    BY DEF LinksSettled
  <2>1. wanted' # None => overlay' = wanted'
    BY DEF LinksInv, LinksSettled
  <2>2. label' # None => UNCHANGED <<stored, label>> /\ def \in Columns /\ relation \in Columns
    BY DEF LinksInv, LinksSettled
  <2> QED
    BY <2>1, <2>2 DEF LinksInv, LinksSettled
<1>7. Links!LabelHonest'
  BY DEF LinksInv, Links!LabelHonest
<1> QED
  BY <1>2, <1>3, <1>4, <1>5, <1>6, <1>7 DEF LinksInv

LEMMA LinksDefine ==
    ASSUME LinksInv, NEW w \in Refreshers, NEW def \in Columns \cup {"fk"},
           Links!DefineRelation(w, def)
    PROVE  LinksInv'
<1>1. /\ worker[w] = None /\ relation' = def
      /\ UNCHANGED <<content, joinEvents, catalogued, overlay, linkEdits, wanted, linkRaced,
                     linkBehind>>
  BY DEF Links!DefineRelation, Links!overlays
<1>2. Links!Overtaken \in [Links!Workers -> Links!Jobs \cup {None}]
  BY LinksOvertaken, LinksFacts
<1>3. CASE def = "fk"
  <2>1. stored' = None /\ label' = None /\ worker' = Links!Overtaken /\ reshaped' = reshaped
    BY <1>3 DEF Links!DefineRelation
  <2> QED
    BY <1>1, <1>2, <2>1, LinksRelation
<1>4. CASE def # "fk" /\ label = catalogued
  <2>1. /\ UNCHANGED <<stored, label>> /\ worker' = Links!Overtaken
        /\ reshaped' = (reshaped \/ stored # None)
    BY <1>4 DEF Links!DefineRelation, Links!links
  <2>2. stored # None
    BY <1>4, LinksFacts DEF LinksInv, Links!LabelHonest
  <2> QED
    BY <1>1, <1>2, <1>4, <2>1, <2>2, LinksRelation
<1>5. CASE def # "fk" /\ label # catalogued
  <2>1. /\ UNCHANGED <<stored, label, reshaped>>
        /\ worker' = [Links!Overtaken EXCEPT ![w] = [Links!Job("fetch", catalogued) EXCEPT !.cols = def]]
    BY <1>5 DEF Links!DefineRelation, Links!links
  <2>2. PICK j : j = [Links!Job("fetch", catalogued) EXCEPT !.cols = def]
    OBVIOUS
  <2>3. j \in Links!Jobs /\ j.pc = "fetch" /\ j.label = catalogued /\ j.cols = def
    BY <1>5, <2>2, LinksFacts DEF Links!Job, Links!Jobs
  <2>4. w \in Links!Workers /\ w # Consumer
    BY LinksFacts
  <2>5. PICK keep : keep = [Links!Overtaken EXCEPT ![w] = j]
    OBVIOUS
  <2>6. /\ keep \in [Links!Workers -> Links!Jobs \cup {None}] /\ worker' = keep
        /\ \A v \in Links!Workers : keep[v] = IF v = w THEN j ELSE Links!Overtaken[v]
    BY <1>2, <2>1, <2>2, <2>3, <2>5
  <2>7. \A v \in Links!Workers : keep[v] # None =>
           \/ Links!Overtaken[v] = keep[v]
           \/ /\ v # Consumer /\ keep[v].pc = "fetch" /\ keep[v].label = catalogued
              /\ keep[v].cols = def /\ label' # catalogued
    BY <1>5, <2>1, <2>3, <2>4, <2>6
  <2>8. def \in Columns /\ (label' = None \/ label # catalogued)
    BY <1>5, <2>1
  <2> QED
    BY <1>1, <2>1, <2>6, <2>7, <2>8, LinksRelation
<1> QED
  BY <1>3, <1>4, <1>5

LEMMA LinksDelete == LinksInv /\ Links!DeleteRelation => LinksInv'
<1> SUFFICES ASSUME LinksInv, Links!DeleteRelation PROVE LinksInv'
  OBVIOUS
<1>1. Links!Overtaken \in [Links!Workers -> Links!Jobs \cup {None}]
  BY LinksOvertaken, LinksFacts
<1> QED
  BY <1>1, LinksRelation DEF Links!DeleteRelation

(* A link is written or put back.                                          *)
LEMMA LinksOverlay ==
    ASSUME LinksInv, NEW op \in {None, "add", "delete"}, NEW edits \in SUBSET {None, "add", "delete"},
           NEW want \in {None, op},
           overlay' = op, linkEdits' = edits, wanted' = want,
           linkRaced' = (linkRaced \/ \E w \in Links!Workers : worker[w] # None /\ worker[w].pc = "listed"),
           UNCHANGED <<content, joinEvents, catalogued, relation, stored, label, worker, reshaped, linkBehind>>
    PROVE  LinksInv'
<1>1. LinksType' /\ LinksEvents' /\ LinksJobs' /\ Links!LabelHonest'
  BY DEF LinksInv, LinksType, LinksEvents, LinksJobs, Links!LabelHonest
<1>2. LinksCalm'
  BY DEF LinksInv, LinksCalm
<1>3. LinksSettled'
  BY DEF LinksInv, LinksSettled
<1> QED
  BY <1>1, <1>2, <1>3 DEF LinksInv

LEMMA LinksStep ==
    ASSUME LinksInv, [Links!Next]_Links!vars
    PROVE  LinksInv'
<1>1. ASSUME NEW cs \in SUBSET Columns, Links!Sync(cs) PROVE LinksInv'
  BY <1>1, LinksSync
<1>2. CASE Links!CatalogueEvent \/ Links!QuarantineEvent
  BY <1>2, LinksCatalogue, LinksQuarantine
<1>3. ASSUME NEW w \in Refreshers, Links!EnsureLinks(w) \/ Links!BackfillLinks(w) PROVE LinksInv'
  BY <1>3, LinksRefresh DEF Links!EnsureLinks, Links!BackfillLinks
<1>4. ASSUME NEW w \in Refreshers, NEW def \in Columns \cup {"fk"},
             Links!CreateRelation(w, def) \/ Links!UpdateRelation(w, def)
      PROVE  LinksInv'
  BY <1>4, LinksDefine DEF Links!CreateRelation, Links!UpdateRelation
<1>5. ASSUME NEW w \in Links!Workers,
             \/ Links!FetchJoinRows(w) \/ Links!ListOverlays(w)
             \/ Links!CommitPairs(w) \/ Links!WorkerFails(w)
      PROVE  LinksInv'
  BY <1>5, LinksFetch, LinksList, LinksCommit, LinksFail
<1>6. CASE Links!DeleteRelation
  BY <1>6, LinksDelete
<1>7. ASSUME NEW op \in {"add", "delete"}, Links!WriteLink(op) PROVE LinksInv'
  <2>1. /\ overlay' = op /\ linkEdits' = linkEdits \cup {overlay} /\ wanted' \in {None, op}
        /\ linkRaced' = (linkRaced \/ \E w \in Links!Workers : worker[w] # None /\ worker[w].pc = "listed")
        /\ UNCHANGED <<content, joinEvents, catalogued, relation, stored, label, worker, reshaped, linkBehind>>
    BY <1>7 DEF Links!WriteLink, Links!links
  <2>2. linkEdits \cup {overlay} \in SUBSET {None, "add", "delete"}
    BY DEF LinksInv, LinksType
  <2> QED
    BY <2>1, <2>2, LinksOverlay
<1>8. ASSUME NEW prior \in linkEdits, Links!RevertLink(prior) PROVE LinksInv'
  <2>1. /\ overlay' = prior /\ linkEdits' = linkEdits \ {prior} /\ wanted' \in {None, prior}
        /\ linkRaced' = (linkRaced \/ \E w \in Links!Workers : worker[w] # None /\ worker[w].pc = "listed")
        /\ UNCHANGED <<content, joinEvents, catalogued, relation, stored, label, worker, reshaped, linkBehind>>
    BY <1>8 DEF Links!RevertLink, Links!links
  <2>2. prior \in {None, "add", "delete"} /\ linkEdits \ {prior} \in SUBSET {None, "add", "delete"}
    BY DEF LinksInv, LinksType
  <2> QED
    BY <2>1, <2>2, LinksOverlay
<1>9. CASE UNCHANGED Links!vars
  <2>1. UNCHANGED <<content, joinEvents, catalogued, relation, stored, label, overlay, linkEdits,
                    worker, wanted, linkRaced, reshaped, linkBehind>>
    BY <1>9 DEF Links!vars
  <2> QED
    BY <2>1 DEF LinksInv, LinksType, LinksEvents, LinksJobs, LinksCalm, LinksSettled,
                Links!LabelHonest, Links!Absorbed, Links!PairIn
<1> QED
  BY <1>1, <1>2, <1>3, <1>4, <1>5, <1>6, <1>7, <1>8, <1>9 DEF Links!Next

(* What the links promise follows.                                         *)
LEMMA LinksHonest == LinksInv => LinksFaithful
<1> SUFFICES ASSUME LinksInv PROVE LinksFaithful
  OBVIOUS
<1>1. Links!LabelHonest
  BY DEF LinksInv
<1>2. Links!LinksCurrent
  <2> SUFFICES ASSUME joinEvents = <<>>, ~linkRaced, ~linkBehind, label # None, relation \in Columns
               PROVE  stored.read >= catalogued /\ (~reshaped => stored.cols = relation)
    BY DEF Links!LinksCurrent
  <2>1. label = catalogued /\ (~reshaped => stored.cols = relation)
    BY DEF LinksInv, LinksSettled
  <2> QED
    BY <1>1, <2>1, LinksFacts DEF Links!LabelHonest
<1>3. Links!LinkWriteKept
  <2>1. ~linkRaced /\ wanted # None => overlay = wanted /\ wanted \in {"add", "delete"}
    BY DEF LinksInv, LinksSettled, LinksType
  <2> QED
    BY <2>1, LinksFacts DEF Links!LinkWriteKept, Links!Present
<1> QED
  BY <1>1, <1>2, <1>3 DEF LinksFaithful

(***************************************************************************)
(* However refresh jobs, the consumer, administrators and link writers     *)
(* interleave and fail: the stored pairs are at least as new as their      *)
(* label; once no event and no worker is left, and unless a worker         *)
(* overtook another or an event was quarantined with no replace since,     *)
(* they are those of the latest snapshot; and a link write shows until the *)
(* lake agrees with it unless it landed inside a running replace. For any  *)
(* columns, any number of refresh jobs and any bounds.                     *)
(***************************************************************************)
THEOREM LinksAreFaithful == Spec => []LinksFaithful
<1>1. Init => LinksInv
  BY LinksInit DEF Init
<1>2. LinksInv /\ [Next]_vars => LinksInv'
  BY ComponentSteps, LinksStep
<1>3. LinksInv => LinksFaithful
  BY LinksHonest
<1> QED
  BY <1>1, <1>2, <1>3, PTL DEF Spec

-----------------------------------------------------------------------------
(* Plans                                                                   *)

(* The tables looked at before the last one, in the order of op.           *)
Starts(order) == {{order[i] : i \in 1..k} : k \in 0..(Len(order) - 1)}

(* How far a plan has come, and what its pins and its scans are worth for  *)
(* given snapshots of the tables and versions known of them.               *)
Looked(r, lake, known) ==
    /\ IF r.pc = "pin" THEN DOMAIN r.pins \in Starts(Plans!PinOrder(r.op))
                       ELSE DOMAIN r.pins = Plans!Needs(r.op)
    /\ r.pc \in {"pin", "lookup"} => r.snaps = Plans!Unread
    /\ r.pc = "scan" => DOMAIN r.snaps \in Starts(Plans!ScanOrder(r.op))
    /\ r.pc = "store" /\ r.by = "duckdb" => DOMAIN r.snaps = Plans!Needs(r.op)
    /\ r.pc # "store" => r.by = "duckdb"
    /\ \A d \in Plans!Datasets : r.least[d] <= known[d]
    /\ \A d \in DOMAIN r.pins : r.least[d] <= r.pins[d] /\ r.pins[d] <= known[d]
    /\ \A d \in DOMAIN r.snaps : r.pins[d] <= r.snaps[d]
    /\ r.quiet => \A d \in Plans!Needs(r.op) :
          /\ lake[d] = known[d]
          /\ d \in DOMAIN r.pins => r.pins[d] = lake[d]
          /\ d \in DOMAIN r.snaps => r.snaps[d] = lake[d]

PlansType ==
    /\ snapshots \in [Plans!Datasets -> Nat] /\ latest \in [Plans!Datasets -> Nat]
    /\ \A d \in Plans!Datasets : latest[d] <= snapshots[d]
    /\ mapping \in Plans!Mappings
    /\ plan \in [Clients -> Plans!Plan \cup {None}]

(* A stored result is filed under the pins it was read at.                 *)
PlansFiled ==
    \A run \in runs :
        /\ run.hash.op \in Plans!Ops
        /\ run.pins \in [Plans!Needs(run.hash.op) -> Nat]
        /\ run.hash.pins = run.pins
        /\ run.result.by = "duckdb" => run.result.snaps \in [Plans!Needs(run.hash.op) -> Nat]

PlansInv ==
    /\ PlansType
    /\ \A c \in Clients : plan[c] # None => Looked(plan[c], snapshots, latest)
    /\ PlansFiled
    /\ Plans!ExecutionSound

LEMMA PlansCardinality == \A S : Plans!Cardinality(S) = Cardinality(S)
BY DEF Cardinality, Plans!Cardinality

LEMMA SmallCardinality ==
    /\ Cardinality({}) = 0
    /\ \A x : Cardinality({x}) = 1
    /\ \A x, y : x # y => Cardinality({x, y}) = 2
<1>1. Cardinality({}) = 0 /\ \A x : IsFiniteSet({x}) /\ Cardinality({x}) = 1
  BY FS_EmptySet, FS_Singleton
<1>2. ASSUME NEW x, NEW y, x # y PROVE Cardinality({x, y}) = 2
  <2>1. {x} \cup {y} = {x, y} /\ y \notin {x}
    BY <1>2
  <2>2. Cardinality({x} \cup {y}) = Cardinality({x}) + 1
    BY <1>1, <2>1, FS_AddElement
  <2>3. Cardinality({x}) = 1
    BY <1>1
  <2>4. Cardinality({x, y}) = Cardinality({x}) + 1
    BY <2>1, <2>2
  <2> QED
    BY <2>3, <2>4
<1> QED
  BY <1>1, <1>2

LEMMA Triples ==
    ASSUME NEW x, NEW y, NEW z, NEW q, q = <<x, y, z>>
    PROVE  /\ Len(q) = 3 /\ DOMAIN q = 1..3 /\ q[1] = x /\ q[2] = y /\ q[3] = z
           /\ {q[i] : i \in 1..3} = {x, y, z}
<1>1. Len(q) = 3 /\ DOMAIN q = 1..3 /\ q[1] = x /\ q[2] = y /\ q[3] = z
  OBVIOUS
<1>2. \A i \in 1..3 : i = 1 \/ i = 2 \/ i = 3
  OBVIOUS
<1>3. 1 \in 1..3 /\ 2 \in 1..3 /\ 3 \in 1..3
  OBVIOUS
<1>4. {q[i] : i \in 1..3} \subseteq {x, y, z}
  BY <1>1, <1>2, Zenon
<1>5. {x, y, z} \subseteq {q[i] : i \in 1..3}
  BY <1>1, <1>3, Zenon
<1> QED
  BY <1>1, <1>4, <1>5

(* The orders in which tables are looked at, by operation.                 *)
LEMMA PlansOrders ==
    ASSUME NEW op \in Plans!Ops, NEW order \in {Plans!PinOrder(op), Plans!ScanOrder(op)}
    PROVE  /\ Len(order) \in 1..3
           /\ Plans!Needs(op) = {order[i] : i \in 1..Len(order)}
           /\ Plans!Needs(op) \subseteq Plans!Datasets
           /\ \A i, j \in 1..Len(order) : order[i] = order[j] => i = j
           /\ Plans!Last(order) = order[Len(order)]
<1> USE DEF Plans!PinOrder, Plans!ScanOrder, Plans!Needs, Plans!ToSet, Plans!Datasets, Plans!Last
<1>1. CASE op \in {"filter", "aggregate", "grouping"}
  <2>1. Plans!PinOrder(op) = <<"source">> /\ Plans!ScanOrder(op) = <<"source">>
    BY <1>1
  <2>2. order = <<"source">> /\ Len(order) = 1 /\ order[1] = "source"
    BY <2>1
  <2>3. \A i \in 1..1 : i = 1
    OBVIOUS
  <2>4. {order[i] : i \in 1..Len(order)} = {"source"}
    BY <2>2, <2>3
  <2>5. Plans!Needs(op) = {"source"}
    BY <2>1
  <2> QED
    BY <2>2, <2>3, <2>4, <2>5
<1>2. CASE op = "join"
  <2>1. Plans!PinOrder(op) = <<"source", "target">> /\ Plans!ScanOrder(op) = <<"source", "target">>
    BY <1>2
  <2>2. /\ order = <<"source", "target">> /\ Len(order) = 2
        /\ order[1] = "source" /\ order[2] = "target"
    BY <2>1
  <2>3. \A i : i \in 1..2 <=> i = 1 \/ i = 2
    OBVIOUS
  <2>4. {order[i] : i \in 1..Len(order)} = {"source", "target"}
    BY <2>2, <2>3
  <2>5. Plans!Needs(op) = {"source", "target"}
    BY <2>1, <2>3
  <2>6. \A i, j \in 1..Len(order) : order[i] = order[j] => i = j
    BY <2>2, <2>3
  <2> QED
    BY <2>2, <2>4, <2>5, <2>6
<1>3. CASE op = "bridged"
  <2>1. /\ Plans!PinOrder(op) = <<"source", "target", "bridge">>
        /\ Plans!ScanOrder(op) = <<"source", "bridge", "target">>
    BY <1>3
  <2>2. /\ Len(order) = 3 /\ order[1] = "source"
        /\ \/ order[2] = "target" /\ order[3] = "bridge"
           \/ order[2] = "bridge" /\ order[3] = "target"
    BY <2>1
  <2>3. Plans!Needs(op) = {"source", "target", "bridge"}
    <3>1. PICK q : q = <<"source", "target", "bridge">>
      OBVIOUS
    <3>2. DOMAIN q = 1..3 /\ {q[i] : i \in 1..3} = {"source", "target", "bridge"}
      BY <3>1, Triples
    <3>3. Plans!Needs(op) = {q[i] : i \in DOMAIN q}
      BY <2>1, <3>1
    <3> QED
      BY <3>2, <3>3
  <2>4. {order[i] : i \in 1..Len(order)} = {"source", "target", "bridge"}
    <3>1. order = <<"source", order[2], order[3]>>
      BY <2>1
    <3>2. {order[i] : i \in 1..3} = {"source", order[2], order[3]}
      BY <3>1, Triples
    <3> QED
      BY <2>2, <3>2
  <2>5. \A i, j \in 1..Len(order) : order[i] = order[j] => i = j
    BY <2>2
  <2>6. Plans!Last(order) = order[Len(order)]
    OBVIOUS
  <2>7. Plans!Needs(op) \subseteq Plans!Datasets
    BY <2>3
  <2> QED
    BY <2>2, <2>3, <2>4, <2>5, <2>6, <2>7
<1> QED
  BY <1>1, <1>2, <1>3 DEF Plans!Ops

(* The table looked at next, after those of D.                             *)
LEMMA PlansNext ==
    ASSUME NEW op \in Plans!Ops, NEW order \in {Plans!PinOrder(op), Plans!ScanOrder(op)},
           NEW D \in Starts(order), NEW d, d = order[Plans!Cardinality(D) + 1]
    PROVE  /\ d \in Plans!Needs(op) /\ d \notin D /\ D \subseteq Plans!Needs(op)
           /\ d = Plans!Last(order) => D \cup {d} = Plans!Needs(op)
           /\ d # Plans!Last(order) => D \cup {d} \in Starts(order)
<1>1. /\ Len(order) \in 1..3 /\ Plans!Needs(op) = {order[i] : i \in 1..Len(order)}
      /\ \A i, j \in 1..Len(order) : order[i] = order[j] => i = j
      /\ Plans!Last(order) = order[Len(order)]
  BY PlansOrders
<1>2. PICK k \in 0..(Len(order) - 1) : D = {order[i] : i \in 1..k}
  BY DEF Starts
<1>3. Cardinality(D) = k
  <2>1. CASE k = 0
    <3>1. D = {}
      BY <1>2, <2>1
    <3> QED
      BY <2>1, <3>1, SmallCardinality
  <2>2. CASE k = 1
    <3>1. D = {order[1]}
      BY <1>2, <2>2
    <3> QED
      BY <2>2, <3>1, SmallCardinality
  <2>3. CASE k = 2
    <3>1. D = {order[1], order[2]} /\ order[1] # order[2]
      BY <1>1, <1>2, <2>3
    <3> QED
      BY <2>3, <3>1, SmallCardinality
  <2> QED
    BY <1>1, <2>1, <2>2, <2>3
<1>4. d = order[k + 1] /\ k + 1 \in 1..Len(order)
  BY <1>1, <1>3, PlansCardinality
<1>5. D \cup {d} = {order[i] : i \in 1..(k + 1)}
  <2>1. \A i : i \in 1..(k + 1) <=> i \in 1..k \/ i = k + 1
    OBVIOUS
  <2> QED
    BY <1>2, <1>4, <2>1, Zenon
<1>6. d \in Plans!Needs(op) /\ d \notin D /\ D \subseteq Plans!Needs(op)
  <2>1. \A i \in 1..k : i \in 1..Len(order) /\ i # k + 1
    BY <1>1, <1>4
  <2>2. \A i \in 1..k : order[i] # d
    BY <1>1, <1>4, <2>1
  <2> QED
    BY <1>1, <1>2, <1>4, <2>1, <2>2, Zenon
<1>7. CASE k + 1 = Len(order)
  <2>1. d = Plans!Last(order) /\ D \cup {d} = Plans!Needs(op)
    BY <1>1, <1>4, <1>5, <1>7
  <2> QED
    BY <1>6, <2>1
<1>8. CASE k + 1 # Len(order)
  <2>1. k + 1 \in 0..(Len(order) - 1)
    BY <1>1, <1>4, <1>8
  <2>2. D \cup {d} \in Starts(order)
    BY <1>5, <2>1 DEF Starts
  <2>3. d # Plans!Last(order)
    BY <1>1, <1>4, <1>8
  <2> QED
    BY <1>6, <2>2, <2>3
<1> QED
  BY <1>7, <1>8

LEMMA PlansStarts == \A order : Len(order) \in 1..3 => {} \in Starts(order)
<1> SUFFICES ASSUME NEW order, Len(order) \in 1..3 PROVE {} \in Starts(order)
  OBVIOUS
<1>1. 0 \in 0..(Len(order) - 1) /\ {order[i] : i \in 1..0} = {}
  OBVIOUS
<1> QED
  BY <1>1 DEF Starts

(* One more version in hand.                                               *)
LEMMA PlansWith ==
    ASSUME NEW f \in Plans!Versions, NEW d \in Plans!Datasets, NEW n \in Nat,
           NEW g, g = Plans!With(f, d, n)
    PROVE  /\ g \in Plans!Versions /\ g[d] = n /\ \A e \in DOMAIN f \ {d} : g[e] = f[e]
           /\ \A e : e \in DOMAIN g <=> e \in DOMAIN f \/ e = d
<1>1. PICK S \in SUBSET Plans!Datasets : f \in [S -> Nat]
  BY DEF Plans!Versions
<1>2. DOMAIN f = S
  BY <1>1
<1>3. /\ DOMAIN g = S \cup {d} /\ g[d] = n /\ \A e \in S \ {d} : g[e] = f[e]
      /\ g \in [S \cup {d} -> Nat]
  BY <1>1, <1>2 DEF Plans!With
<1>4. g \in Plans!Versions
  BY <1>3 DEF Plans!Versions
<1> QED
  BY <1>2, <1>3, <1>4

LEMMA PlansUnread ==
    /\ Plans!Unread \in Plans!Versions /\ DOMAIN Plans!Unread = {}
<1>1. Plans!Unread \in [{} -> Nat] /\ DOMAIN Plans!Unread = {}
  BY DEF Plans!Unread
<1> QED
  BY <1>1 DEF Plans!Versions

LEMMA PlansInitially == PlansInit => PlansInv
<1> SUFFICES ASSUME PlansInit PROVE PlansInv
  OBVIOUS
<1>1. /\ snapshots = [d \in Plans!Datasets |-> 1] /\ latest \in [Plans!Datasets -> {0, 1}]
      /\ mapping = "secret" /\ runs = {} /\ plan = [c \in Clients |-> None] /\ answered = None
  BY DEF PlansInit, Plans!Init
<1>2. latest \in [Plans!Datasets -> Nat] /\ \A d \in Plans!Datasets : latest[d] <= snapshots[d]
  BY <1>1
<1>3. PlansType
  BY <1>1, <1>2 DEF PlansType, Plans!Mappings
<1> QED
  BY <1>1, <1>3 DEF PlansInv, PlansFiled, Plans!ExecutionSound, Plans!StoredAtPins,
                    Plans!AnswerIsFresh, Plans!MaskedForReader

LEMMA PlansFacts ==
    ASSUME PlansInv
    PROVE  /\ \A c \in Clients : plan[c] # None =>
                 /\ plan[c] \in Plans!Plan /\ Looked(plan[c], snapshots, latest)
                 /\ Plans!Needs(plan[c].op) \subseteq Plans!Datasets
           /\ \A d \in Plans!Datasets : latest[d] \in Nat /\ snapshots[d] \in Nat /\ latest[d] <= snapshots[d]
<1>1. \A c \in Clients : plan[c] # None => plan[c] \in Plans!Plan /\ Looked(plan[c], snapshots, latest)
  BY DEF PlansInv, PlansType
<1>2. \A c \in Clients : plan[c] # None => Plans!Needs(plan[c].op) \subseteq Plans!Datasets
  BY <1>1, PlansOrders DEF Plans!Plan
<1> QED
  BY <1>1, <1>2 DEF PlansInv, PlansType

(* What a request is worth survives a change that only moves versions on.  *)
LEMMA LookedStays ==
    ASSUME NEW r \in Plans!Plan, NEW lake, NEW known, NEW moved, NEW learnt, Looked(r, lake, known),
           known \in [Plans!Datasets -> Nat], learnt \in [Plans!Datasets -> Nat],
           \A d \in Plans!Datasets : known[d] <= learnt[d],
           r.quiet => \A d \in Plans!Needs(r.op) : moved[d] = lake[d] /\ learnt[d] = known[d]
    PROVE  Looked(r, moved, learnt)
<1>1. \A d \in Plans!Datasets : known[d] \in Nat /\ learnt[d] \in Nat /\ r.least[d] \in Nat
  BY DEF Plans!Plan
<1>2. DOMAIN r.pins \subseteq Plans!Datasets /\ \A d \in DOMAIN r.pins : r.pins[d] \in Nat
  BY DEF Plans!Plan, Plans!Versions
<1>3. /\ \A d \in Plans!Datasets : r.least[d] <= learnt[d]
      /\ \A d \in DOMAIN r.pins : r.least[d] <= r.pins[d] /\ r.pins[d] <= learnt[d]
  BY <1>1, <1>2 DEF Looked
<1>4. r.quiet => \A d \in Plans!Needs(r.op) :
         /\ moved[d] = learnt[d]
         /\ d \in DOMAIN r.pins => r.pins[d] = moved[d]
         /\ d \in DOMAIN r.snaps => r.snaps[d] = moved[d]
  BY DEF Looked
<1> QED
  BY <1>3, <1>4 DEF Looked

(* Nobody is asking for less when a request is no longer quiet.            *)
LEMMA LookedLoud ==
    ASSUME NEW r \in Plans!Plan, NEW lake, NEW known, Looked(r, lake, known)
    PROVE  /\ [r EXCEPT !.quiet = FALSE] \in Plans!Plan
           /\ Looked([r EXCEPT !.quiet = FALSE], lake, known)
<1>1. PICK q : q = [r EXCEPT !.quiet = FALSE]
  OBVIOUS
<1>2. /\ q \in Plans!Plan /\ q.op = r.op /\ q.pc = r.pc /\ q.pins = r.pins /\ q.snaps = r.snaps
      /\ q.by = r.by /\ q.least = r.least /\ q.quiet = FALSE
  BY <1>1 DEF Plans!Plan
<1>3. Looked(q, lake, known)
  BY <1>2 DEF Looked
<1> QED
  BY <1>1, <1>2, <1>3

(* A change of the world leaves what is stored alone and answers nothing.  *)
LEMMA PlansWorld ==
    ASSUME PlansInv, PlansType', UNCHANGED runs, answered' \in {None, answered},
           \A c \in Clients : plan'[c] # None => Looked(plan'[c], snapshots', latest')
    PROVE  PlansInv'
<1>1. PlansFiled'
  BY DEF PlansInv, PlansFiled
<1>2. Plans!StoredAtPins'
  BY DEF PlansInv, Plans!ExecutionSound, Plans!StoredAtPins
<1>3. Plans!AnswerIsFresh' /\ Plans!MaskedForReader'
  BY DEF PlansInv, Plans!ExecutionSound, Plans!AnswerIsFresh, Plans!MaskedForReader
<1> QED
  BY <1>1, <1>2, <1>3 DEF PlansInv, Plans!ExecutionSound

LEMMA PlansCommit ==
    ASSUME PlansInv, NEW d \in Plans!Datasets, Plans!Commit(d)
    PROVE  PlansInv'
<1>1. /\ snapshots' = [snapshots EXCEPT ![d] = @ + 1]
      /\ plan' = [c \in Clients |-> IF plan[c] # None /\ d \in Plans!Needs(plan[c].op)
                                    THEN [plan[c] EXCEPT !.quiet = FALSE] ELSE plan[c]]
      /\ answered' = None /\ UNCHANGED <<latest, mapping, runs>>
  BY DEF Plans!Commit
<1>2. /\ snapshots \in [Plans!Datasets -> Nat] /\ latest \in [Plans!Datasets -> Nat]
      /\ mapping \in Plans!Mappings /\ plan \in [Clients -> Plans!Plan \cup {None}]
  BY DEF PlansInv, PlansType
<1>3. /\ snapshots' \in [Plans!Datasets -> Nat]
      /\ \A e \in Plans!Datasets : latest[e] <= snapshots'[e]
      /\ \A e \in Plans!Datasets \ {d} : snapshots'[e] = snapshots[e]
  BY <1>1, <1>2, PlansFacts
<1>4. ASSUME NEW c \in Clients, plan[c] # None
      PROVE  plan'[c] \in Plans!Plan /\ Looked(plan'[c], snapshots', latest')
  <2>1. /\ plan[c] \in Plans!Plan /\ Looked(plan[c], snapshots, latest)
        /\ Plans!Needs(plan[c].op) \subseteq Plans!Datasets
    BY <1>4, PlansFacts
  <2>2. PICK r : r = plan'[c]
    OBVIOUS
  <2>3. /\ r \in Plans!Plan /\ Looked(r, snapshots, latest)
        /\ Plans!Needs(r.op) \subseteq Plans!Datasets
        /\ r.quiet => d \notin Plans!Needs(r.op)
    <3>1. CASE d \in Plans!Needs(plan[c].op)
      <4>1. r = [plan[c] EXCEPT !.quiet = FALSE]
        BY <1>1, <1>4, <2>2, <3>1
      <4>2. r.op = plan[c].op /\ r.quiet = FALSE
        BY <2>1, <4>1 DEF Plans!Plan
      <4> QED
        BY <2>1, <4>1, <4>2, LookedLoud
    <3>2. CASE d \notin Plans!Needs(plan[c].op)
      BY <1>1, <2>1, <2>2, <3>2
    <3> QED
      BY <3>1, <3>2
  <2>4. r.quiet => \A e \in Plans!Needs(r.op) : snapshots'[e] = snapshots[e] /\ latest[e] = latest[e]
    BY <1>3, <2>3
  <2>5. Looked(r, snapshots', latest)
    BY <1>2, <2>3, <2>4, LookedStays, PlansFacts
  <2> QED
    BY <1>1, <2>2, <2>3, <2>5
<1>5. \A c \in Clients : plan[c] = None => plan'[c] = None
  BY <1>1
<1>6. plan' \in [Clients -> Plans!Plan \cup {None}]
  <2>1. \A c \in Clients : plan'[c] \in Plans!Plan \cup {None}
    BY <1>4, <1>5
  <2>2. plan' = [c \in Clients |-> plan'[c]]
    BY <1>1
  <2> QED
    BY <2>1, <2>2
<1>7. PlansType'
  BY <1>1, <1>2, <1>3, <1>6 DEF PlansType
<1>8. \A c \in Clients : plan'[c] # None => Looked(plan'[c], snapshots', latest')
  BY <1>4, <1>5
<1> QED
  BY <1>1, <1>7, <1>8, PlansWorld

LEMMA PlansCatalogue ==
    ASSUME PlansInv, NEW d \in Plans!Datasets, Plans!Catalogue(d)
    PROVE  PlansInv'
<1>1. /\ latest[d] < snapshots[d] /\ latest' = [latest EXCEPT ![d] = @ + 1]
      /\ answered' = None /\ UNCHANGED <<snapshots, mapping, plan, runs>>
  BY DEF Plans!Catalogue
<1>2. PlansType' /\ latest \in [Plans!Datasets -> Nat] /\ latest' \in [Plans!Datasets -> Nat]
  BY <1>1, PlansFacts DEF PlansInv, PlansType
<1>3. \A e \in Plans!Datasets : latest[e] <= latest'[e] /\ (e # d => latest'[e] = latest[e])
  BY <1>1, <1>2, PlansFacts
<1>4. ASSUME NEW c \in Clients, plan[c] # None PROVE Looked(plan[c], snapshots, latest')
  <2>1. /\ plan[c] \in Plans!Plan /\ Looked(plan[c], snapshots, latest)
        /\ Plans!Needs(plan[c].op) \subseteq Plans!Datasets
    BY <1>4, PlansFacts
  <2>2. plan[c].quiet => d \notin Plans!Needs(plan[c].op)
    <3>1. latest[d] # snapshots[d]
      BY <1>1, <1>2, PlansFacts
    <3> QED
      BY <2>1, <3>1 DEF Looked
  <2>3. plan[c].quiet => \A e \in Plans!Needs(plan[c].op) : snapshots[e] = snapshots[e] /\ latest'[e] = latest[e]
    BY <1>3, <2>1, <2>2
  <2> QED
    BY <1>2, <1>3, <2>1, <2>3, LookedStays
<1>5. \A c \in Clients : plan'[c] # None => Looked(plan'[c], snapshots', latest')
  BY <1>1, <1>4
<1> QED
  BY <1>1, <1>2, <1>5, PlansWorld

LEMMA PlansOther ==
    ASSUME PlansInv, mapping' \in Plans!Mappings, UNCHANGED <<snapshots, latest, plan, runs>>,
           answered' \in {None, answered}
    PROVE  PlansInv'
<1>1. PlansType'
  BY DEF PlansInv, PlansType
<1>2. \A c \in Clients : plan'[c] # None => Looked(plan'[c], snapshots', latest')
  BY DEF PlansInv
<1> QED
  BY <1>1, <1>2, PlansWorld

(* A step of one request changes no one else's.                            *)
LEMMA PlansKept ==
    ASSUME PlansInv, NEW c \in Clients, NEW r \in Plans!Plan \cup {None},
           plan' = [plan EXCEPT ![c] = r], r # None => Looked(r, snapshots, latest),
           UNCHANGED <<snapshots, latest, mapping>>
    PROVE  /\ PlansType'
           /\ \A e \in Clients : plan'[e] # None => Looked(plan'[e], snapshots', latest')
<1>1. /\ plan' \in [Clients -> Plans!Plan \cup {None}] /\ plan'[c] = r
      /\ \A e \in Clients \ {c} : plan'[e] = plan[e]
  BY DEF PlansInv, PlansType
<1>2. PlansType'
  BY <1>1 DEF PlansInv, PlansType
<1>3. \A e \in Clients : plan'[e] # None => Looked(plan'[e], snapshots', latest')
  BY <1>1 DEF PlansInv
<1> QED
  BY <1>2, <1>3

LEMMA PlansKeep ==
    ASSUME PlansInv, NEW c \in Clients, NEW r \in Plans!Plan \cup {None},
           plan' = [plan EXCEPT ![c] = r], r # None => Looked(r, snapshots, latest),
           UNCHANGED <<snapshots, latest, mapping, runs>>, answered' = None
    PROVE  PlansInv'
<1>1. PlansType' /\ \A e \in Clients : plan'[e] # None => Looked(plan'[e], snapshots', latest')
  BY PlansKept
<1> QED
  BY <1>1, PlansWorld

LEMMA PlansBegin ==
    ASSUME PlansInv, NEW c \in Clients, NEW op \in Plans!Ops, Plans!Begin(c, op)
    PROVE  PlansInv'
<1>1. PICK r : r = [op |-> op, pc |-> "pin", column |-> mapping, pins |-> Plans!Unread,
                    snaps |-> Plans!Unread, by |-> "duckdb", least |-> latest,
                    quiet |-> \A d \in Plans!Needs(op) : snapshots[d] = latest[d]]
  OBVIOUS
<1>2. /\ plan' = [plan EXCEPT ![c] = r] /\ answered' = None
      /\ UNCHANGED <<snapshots, latest, mapping, runs>>
  BY <1>1 DEF Plans!Begin, Plans!Keep, Plans!world
<1>3. /\ r.op = op /\ r.pc = "pin" /\ r.pins = Plans!Unread /\ r.snaps = Plans!Unread
      /\ r.by = "duckdb" /\ r.least = latest
  BY <1>1
<1>4. r.quiet => \A d \in Plans!Needs(op) : snapshots[d] = latest[d]
  BY <1>1
<1>5. r \in Plans!Plan
  <2>1. latest \in [Plans!Datasets -> Nat] /\ mapping \in Plans!Mappings
    BY DEF PlansInv, PlansType
  <2>2. (\A d \in Plans!Needs(op) : snapshots[d] = latest[d]) \in BOOLEAN
    OBVIOUS
  <2> QED
    BY <1>1, <2>1, <2>2, PlansUnread DEF Plans!Plan
<1>6. {} \in Starts(Plans!PinOrder(op))
  BY PlansOrders, PlansStarts
<1>7. \A d \in Plans!Datasets : latest[d] <= latest[d]
  BY PlansFacts
<1>8. Looked(r, snapshots, latest)
  BY <1>3, <1>4, <1>6, <1>7, PlansUnread DEF Looked
<1> QED
  BY <1>2, <1>5, <1>8, PlansKeep

LEMMA PlansPin ==
    ASSUME PlansInv, NEW c \in Clients, Plans!Pin(c)
    PROVE  PlansInv'
<1>1. PICK r : r = plan[c]
  OBVIOUS
<1>2. PICK order : order = Plans!PinOrder(r.op)
  OBVIOUS
<1>3. PICK d : d = order[Plans!Cardinality(DOMAIN r.pins) + 1]
  OBVIOUS
<1>4. /\ plan[c] # None /\ r.pc = "pin"
      /\ IF latest[d] = 0 THEN plan' = [plan EXCEPT ![c] = None]
         ELSE plan' = [plan EXCEPT ![c] = [r EXCEPT !.pins = Plans!With(@, d, latest[d]),
                                                    !.pc = IF d = Plans!Last(order) THEN "lookup" ELSE "pin"]]
      /\ answered' = None /\ UNCHANGED <<snapshots, latest, mapping, runs>>
  BY <1>1, <1>2, <1>3 DEF Plans!Pin, Plans!Keep, Plans!world
<1>5. r \in Plans!Plan /\ Looked(r, snapshots, latest) /\ Plans!Needs(r.op) \subseteq Plans!Datasets
  BY <1>1, <1>4, PlansFacts
<1>6. CASE latest[d] = 0
  BY <1>4, <1>6, PlansKeep
<1>7. CASE latest[d] # 0
  <2>1. PICK g : g = Plans!With(r.pins, d, latest[d])
    OBVIOUS
  <2>2. PICK q : q = [r EXCEPT !.pins = g, !.pc = IF d = Plans!Last(order) THEN "lookup" ELSE "pin"]
    OBVIOUS
  <2>3. plan' = [plan EXCEPT ![c] = q]
    BY <1>4, <1>7, <2>1, <2>2
  <2>4. r.op \in Plans!Ops /\ DOMAIN r.pins \in Starts(order) /\ r.pins \in Plans!Versions
    BY <1>2, <1>4, <1>5 DEF Plans!Plan, Looked
  <2>5. /\ d \in Plans!Needs(r.op) /\ DOMAIN r.pins \subseteq Plans!Needs(r.op)
        /\ d = Plans!Last(order) => DOMAIN r.pins \cup {d} = Plans!Needs(r.op)
        /\ d # Plans!Last(order) => DOMAIN r.pins \cup {d} \in Starts(order)
    BY <1>2, <1>3, <2>4, PlansNext
  <2>6. d \in Plans!Datasets /\ latest[d] \in Nat
    BY <1>5, <2>5, PlansFacts
  <2>7. /\ g \in Plans!Versions /\ DOMAIN g = DOMAIN r.pins \cup {d} /\ g[d] = latest[d]
        /\ \A e \in DOMAIN r.pins \ {d} : g[e] = r.pins[e]
    <3>1. /\ g \in Plans!Versions /\ g[d] = latest[d] /\ \A e \in DOMAIN r.pins \ {d} : g[e] = r.pins[e]
          /\ \A e : e \in DOMAIN g <=> e \in DOMAIN r.pins \/ e = d
      BY <2>1, <2>4, <2>6, PlansWith
    <3>2. DOMAIN g = DOMAIN r.pins \cup {d}
      BY <3>1
    <3> QED
      BY <3>1, <3>2
  <2>8. q \in Plans!Plan
    BY <1>5, <2>2, <2>7 DEF Plans!Plan
  <2>9. /\ q.op = r.op /\ q.pins = g /\ q.snaps = r.snaps /\ q.by = r.by /\ q.least = r.least
        /\ q.quiet = r.quiet /\ q.pc = IF d = Plans!Last(order) THEN "lookup" ELSE "pin"
    BY <1>5, <2>2 DEF Plans!Plan
  <2>10. r.snaps = Plans!Unread /\ DOMAIN r.snaps = {} /\ r.by = "duckdb"
    BY <1>4, <1>5, PlansUnread DEF Looked
  <2>11. \A e \in DOMAIN g : q.least[e] <= g[e] /\ g[e] <= latest[e]
    BY <1>5, <2>6, <2>7, <2>9 DEF Looked
  <2>12. q.quiet => \A e \in Plans!Needs(q.op) :
            /\ snapshots[e] = latest[e]
            /\ e \in DOMAIN g => g[e] = snapshots[e]
    BY <1>5, <2>5, <2>7, <2>9 DEF Looked
  <2>13. IF q.pc = "pin" THEN DOMAIN q.pins \in Starts(Plans!PinOrder(q.op))
                         ELSE DOMAIN q.pins = Plans!Needs(q.op)
    BY <1>2, <2>5, <2>7, <2>9
  <2>14. \A e \in Plans!Datasets : q.least[e] <= latest[e]
    BY <1>5, <2>9 DEF Looked
  <2>15. Looked(q, snapshots, latest)
    BY <2>9, <2>10, <2>11, <2>12, <2>13, <2>14 DEF Looked
  <2> QED
    BY <1>4, <2>3, <2>8, <2>15, PlansKeep
<1> QED
  BY <1>6, <1>7

(* An answer is masked by its columns; it is fresh if its result is.       *)
LEMMA PlansAnswered ==
    ASSUME NEW op \in Plans!Ops, NEW result, NEW column, NEW least, NEW known \in BOOLEAN,
           Plans!Answer(op, result, column, least, known),
           result.by = "duckdb" => \A d \in Plans!Needs(op) : result.snaps[d] >= least[d]
    PROVE  Plans!AnswerIsFresh' /\ Plans!MaskedForReader'
<1>1. /\ answered'.op = op /\ answered'.result = result /\ answered'.column = column
      /\ answered'.least = least /\ answered'.known = known
      /\ answered'.masked = Plans!Masked(op, column, result, known)
  BY DEF Plans!Answer
<1>2. Plans!AnswerIsFresh'
  BY <1>1 DEF Plans!AnswerIsFresh, Plans!Needs, Plans!PinOrder, Plans!ToSet
<1>3. Plans!MaskedForReader'
  <2> SUFFICES ASSUME result.column = "secret", ~Plans!Masked(op, column, result, known)
               PROVE  \/ op = "grouping"
                      \/ op = "aggregate" /\ column # "secret"
                      \/ op \in {"join", "bridged"} /\ ~known
    BY <1>1 DEF Plans!MaskedForReader
  <2>1. CASE op \in {"join", "bridged"}
    BY <2>1 DEF Plans!Masked
  <2>2. CASE op \in {"filter", "aggregate", "grouping"}
    BY <2>2 DEF Plans!Masked
  <2> QED
    BY <2>1, <2>2 DEF Plans!Ops
<1> QED
  BY <1>2, <1>3

(* The pins of a request that has them all are those of its hash.          *)
LEMMA PlansHash ==
    ASSUME PlansInv, NEW c \in Clients, plan[c] # None, plan[c].pc # "pin"
    PROVE  /\ plan[c].pins \in [Plans!Needs(plan[c].op) -> Nat]
           /\ Plans!Hash(plan[c]) = [op |-> plan[c].op, pins |-> plan[c].pins]
           /\ \A d \in Plans!Needs(plan[c].op) : plan[c].least[d] \in Nat /\ plan[c].least[d] <= plan[c].pins[d]
<1>1. PICK r : r = plan[c]
  OBVIOUS
<1>2. /\ r \in Plans!Plan /\ Looked(r, snapshots, latest) /\ Plans!Needs(r.op) \subseteq Plans!Datasets
      /\ r.pc # "pin"
  BY <1>1, PlansFacts
<1>3. r.pins \in Plans!Versions /\ r.least \in [Plans!Datasets -> Nat]
  BY <1>2 DEF Plans!Plan
<1>4. DOMAIN r.pins = Plans!Needs(r.op)
  BY <1>2 DEF Looked
<1>5. r.pins \in [Plans!Needs(r.op) -> Nat]
  <2>1. PICK S \in SUBSET Plans!Datasets : r.pins \in [S -> Nat]
    BY <1>3 DEF Plans!Versions
  <2>2. S = Plans!Needs(r.op)
    BY <1>4, <2>1
  <2> QED
    BY <2>1, <2>2
<1>6. [d \in Plans!Needs(r.op) |-> r.pins[d]] = r.pins
  BY <1>5
<1>7. Plans!Hash(r) = [op |-> r.op, pins |-> r.pins]
  BY <1>6 DEF Plans!Hash
<1>8. \A d \in Plans!Needs(r.op) : r.least[d] \in Nat /\ r.least[d] <= r.pins[d]
  BY <1>2, <1>3, <1>4 DEF Looked
<1> QED
  BY <1>1, <1>5, <1>7, <1>8

LEMMA PlansLookup ==
    ASSUME PlansInv, NEW c \in Clients, Plans!Lookup(c)
    PROVE  PlansInv'
<1>1. PICK r : r = plan[c]
  OBVIOUS
<1>2. /\ plan[c] # None /\ r.pc = "lookup" /\ UNCHANGED <<snapshots, latest, mapping, runs>>
  BY <1>1 DEF Plans!Lookup, Plans!world
<1>3. r \in Plans!Plan /\ Looked(r, snapshots, latest)
  BY <1>1, <1>2, PlansFacts
<1>4. CASE {run \in runs : run.hash = Plans!Hash(plan[c])} = {}
  <2>1. PICK q : q = [r EXCEPT !.pc = "scan"]
    OBVIOUS
  <2>2. plan' = [plan EXCEPT ![c] = q] /\ answered' = None
    BY <1>1, <1>4, <2>1 DEF Plans!Lookup, Plans!Keep
  <2>3. q \in Plans!Plan
    BY <1>3, <2>1 DEF Plans!Plan
  <2>4. /\ q.op = r.op /\ q.pc = "scan" /\ q.pins = r.pins /\ q.snaps = r.snaps /\ q.by = r.by
        /\ q.least = r.least /\ q.quiet = r.quiet
    BY <1>3, <2>1 DEF Plans!Plan
  <2>5. {} \in Starts(Plans!ScanOrder(q.op)) /\ DOMAIN q.snaps = {}
    BY <1>2, <1>3, <2>4, PlansOrders, PlansStarts, PlansUnread DEF Looked, Plans!Plan
  <2>6. Looked(q, snapshots, latest)
    BY <1>2, <1>3, <2>4, <2>5 DEF Looked
  <2> QED
    BY <1>2, <2>2, <2>3, <2>6, PlansKeep
<1>5. CASE {run \in runs : run.hash = Plans!Hash(plan[c])} # {}
  <2>1. plan' = [plan EXCEPT ![c] = None]
    BY <1>5 DEF Plans!Lookup, Plans!Keep
  <2>2. PICK run \in runs : run.hash = Plans!Hash(plan[c]) /\ Plans!Reply(plan[c], run.result)
    BY <1>5 DEF Plans!Lookup
  <2>3. PlansType' /\ \A e \in Clients : plan'[e] # None => Looked(plan'[e], snapshots', latest')
    BY <1>2, <2>1, PlansKept
  <2>4. PlansFiled'
    BY <1>2 DEF PlansInv, PlansFiled
  <2>5. Plans!StoredAtPins'
    BY <1>2 DEF PlansInv, Plans!ExecutionSound, Plans!StoredAtPins
  <2>6. /\ r.pins \in [Plans!Needs(r.op) -> Nat] /\ Plans!Hash(r) = [op |-> r.op, pins |-> r.pins]
        /\ \A d \in Plans!Needs(r.op) : r.least[d] \in Nat /\ r.least[d] <= r.pins[d]
    BY <1>1, <1>2, PlansHash
  <2>7. run.hash.op = r.op /\ run.hash.pins = r.pins
    BY <1>1, <2>2, <2>6
  <2>8. run.pins = r.pins
    BY <2>7 DEF PlansInv, PlansFiled
  <2>9. ASSUME run.result.by = "duckdb", NEW d \in Plans!Needs(r.op)
        PROVE  run.result.snaps[d] >= r.least[d]
    <3>1. run.result.snaps \in [Plans!Needs(r.op) -> Nat]
      BY <2>7, <2>9 DEF PlansInv, PlansFiled
    <3>2. run.result.snaps[d] >= run.pins[d]
      BY <2>7, <2>9 DEF PlansInv, Plans!ExecutionSound, Plans!StoredAtPins
    <3> QED
      BY <2>6, <2>8, <3>1, <3>2
  <2>10. Plans!Answer(r.op, run.result, r.column, r.least, TRUE) /\ r.op \in Plans!Ops
    BY <1>1, <1>3, <2>2 DEF Plans!Reply, Plans!Plan
  <2>11. Plans!AnswerIsFresh' /\ Plans!MaskedForReader'
    BY <2>9, <2>10, PlansAnswered
  <2> QED
    BY <2>3, <2>4, <2>5, <2>11 DEF PlansInv, Plans!ExecutionSound
<1> QED
  BY <1>4, <1>5

LEMMA PlansAskAdapter ==
    ASSUME PlansInv, NEW c \in Clients, Plans!AskAdapter(c)
    PROVE  PlansInv'
<1>1. PICK r : r = plan[c]
  OBVIOUS
<1>2. PICK q : q = [r EXCEPT !.pc = "store", !.by = "adapter"]
  OBVIOUS
<1>3. /\ plan[c] # None /\ r.pc = "scan" /\ plan' = [plan EXCEPT ![c] = q]
      /\ answered' = None /\ UNCHANGED <<snapshots, latest, mapping, runs>>
  BY <1>1, <1>2 DEF Plans!AskAdapter, Plans!Keep, Plans!world
<1>4. r \in Plans!Plan /\ Looked(r, snapshots, latest)
  BY <1>1, <1>3, PlansFacts
<1>5. q \in Plans!Plan
  BY <1>2, <1>4 DEF Plans!Plan
<1>6. /\ q.op = r.op /\ q.pc = "store" /\ q.pins = r.pins /\ q.snaps = r.snaps /\ q.by = "adapter"
      /\ q.least = r.least /\ q.quiet = r.quiet
  BY <1>2, <1>4 DEF Plans!Plan
<1>7. Looked(q, snapshots, latest)
  BY <1>3, <1>4, <1>6 DEF Looked
<1> QED
  BY <1>3, <1>5, <1>7, PlansKeep

LEMMA PlansScan ==
    ASSUME PlansInv, NEW c \in Clients, Plans!Scan(c)
    PROVE  PlansInv'
<1>1. PICK r : r = plan[c]
  OBVIOUS
<1>2. PICK order : order = Plans!ScanOrder(r.op)
  OBVIOUS
<1>3. PICK d : d = order[Plans!Cardinality(DOMAIN r.snaps) + 1]
  OBVIOUS
<1>4. PICK g : g = Plans!With(r.snaps, d, snapshots[d])
  OBVIOUS
<1>5. PICK q : q = [r EXCEPT !.snaps = g, !.pc = IF d = Plans!Last(order) THEN "store" ELSE "scan"]
  OBVIOUS
<1>6. /\ plan[c] # None /\ r.pc = "scan" /\ plan' = [plan EXCEPT ![c] = q]
      /\ answered' = None /\ UNCHANGED <<snapshots, latest, mapping, runs>>
  BY <1>1, <1>2, <1>3, <1>4, <1>5 DEF Plans!Scan, Plans!Keep, Plans!world
<1>7. r \in Plans!Plan /\ Looked(r, snapshots, latest) /\ Plans!Needs(r.op) \subseteq Plans!Datasets
  BY <1>1, <1>6, PlansFacts
<1>8. r.op \in Plans!Ops /\ DOMAIN r.snaps \in Starts(order) /\ r.snaps \in Plans!Versions
  BY <1>2, <1>6, <1>7 DEF Plans!Plan, Looked
<1>9. /\ d \in Plans!Needs(r.op) /\ DOMAIN r.snaps \subseteq Plans!Needs(r.op)
      /\ d = Plans!Last(order) => DOMAIN r.snaps \cup {d} = Plans!Needs(r.op)
      /\ d # Plans!Last(order) => DOMAIN r.snaps \cup {d} \in Starts(order)
  BY <1>2, <1>3, <1>8, PlansNext
<1>10. d \in Plans!Datasets /\ snapshots[d] \in Nat /\ latest[d] \in Nat /\ latest[d] <= snapshots[d]
  BY <1>7, <1>9, PlansFacts
<1>11. /\ g \in Plans!Versions /\ DOMAIN g = DOMAIN r.snaps \cup {d} /\ g[d] = snapshots[d]
       /\ \A e \in DOMAIN r.snaps \ {d} : g[e] = r.snaps[e]
  <2>1. /\ g \in Plans!Versions /\ g[d] = snapshots[d] /\ \A e \in DOMAIN r.snaps \ {d} : g[e] = r.snaps[e]
        /\ \A e : e \in DOMAIN g <=> e \in DOMAIN r.snaps \/ e = d
    BY <1>4, <1>8, <1>10, PlansWith
  <2>2. DOMAIN g = DOMAIN r.snaps \cup {d}
    BY <2>1
  <2> QED
    BY <2>1, <2>2
<1>12. q \in Plans!Plan
  BY <1>5, <1>7, <1>11 DEF Plans!Plan
<1>13. /\ q.op = r.op /\ q.pins = r.pins /\ q.snaps = g /\ q.by = r.by /\ q.least = r.least
       /\ q.quiet = r.quiet /\ q.pc = IF d = Plans!Last(order) THEN "store" ELSE "scan"
  BY <1>5, <1>7 DEF Plans!Plan
<1>14. DOMAIN r.pins = Plans!Needs(r.op) /\ r.by = "duckdb" /\ r.pins[d] <= latest[d]
  BY <1>6, <1>7, <1>9 DEF Looked
<1>15. r.pins[d] \in Nat
  <2>1. r.pins \in Plans!Versions
    BY <1>7 DEF Plans!Plan
  <2> QED
    BY <1>9, <1>14, <2>1 DEF Plans!Versions
<1>16. \A e \in DOMAIN g : q.pins[e] <= g[e]
  BY <1>7, <1>10, <1>11, <1>13, <1>14, <1>15 DEF Looked
<1>17. q.quiet => \A e \in Plans!Needs(q.op) :
          /\ snapshots[e] = latest[e]
          /\ e \in DOMAIN q.pins => q.pins[e] = snapshots[e]
          /\ e \in DOMAIN g => g[e] = snapshots[e]
  BY <1>7, <1>9, <1>11, <1>13 DEF Looked
<1>18. /\ q.pc = "scan" => DOMAIN q.snaps \in Starts(Plans!ScanOrder(q.op))
       /\ q.pc = "store" => DOMAIN q.snaps = Plans!Needs(q.op)
  BY <1>2, <1>9, <1>11, <1>13
<1>19. /\ \A e \in Plans!Datasets : q.least[e] <= latest[e]
       /\ \A e \in DOMAIN q.pins : q.least[e] <= q.pins[e] /\ q.pins[e] <= latest[e]
  BY <1>7, <1>13 DEF Looked
<1>20. Looked(q, snapshots, latest)
  BY <1>13, <1>14, <1>16, <1>17, <1>18, <1>19 DEF Looked
<1> QED
  BY <1>6, <1>12, <1>20, PlansKeep

LEMMA PlansStore ==
    ASSUME PlansInv, NEW c \in Clients, Plans!Store(c)
    PROVE  PlansInv'
<1>1. PICK r : r = plan[c]
  OBVIOUS
<1>2. PICK result : result = [snaps |-> r.snaps, column |-> r.column, by |-> r.by]
  OBVIOUS
<1>3. PICK new : new = [hash |-> Plans!Hash(r), pins |-> r.pins, result |-> result, quiet |-> r.quiet]
  OBVIOUS
<1>4. /\ plan[c] # None /\ r.pc = "store" /\ plan' = [plan EXCEPT ![c] = None]
      /\ UNCHANGED <<snapshots, latest, mapping>>
      /\ runs' \in {runs, runs \cup {new}}
      /\ Plans!Answer(r.op, result, r.column, r.least, TRUE)
  BY <1>1, <1>2, <1>3 DEF Plans!Store, Plans!Keep, Plans!world, Plans!Result, Plans!Reply
<1>5. PlansType' /\ \A e \in Clients : plan'[e] # None => Looked(plan'[e], snapshots', latest')
  BY <1>4, PlansKept
<1>6. r \in Plans!Plan /\ Looked(r, snapshots, latest) /\ Plans!Needs(r.op) \subseteq Plans!Datasets
  BY <1>1, <1>4, PlansFacts
<1>7. /\ r.pins \in [Plans!Needs(r.op) -> Nat] /\ Plans!Hash(r) = [op |-> r.op, pins |-> r.pins]
      /\ \A d \in Plans!Needs(r.op) : r.least[d] \in Nat /\ r.least[d] <= r.pins[d]
  BY <1>1, <1>4, PlansHash
<1>8. r.by = "duckdb" =>
         /\ r.snaps \in [Plans!Needs(r.op) -> Nat]
         /\ \A d \in Plans!Needs(r.op) : r.pins[d] <= r.snaps[d]
         /\ r.quiet => r.pins = r.snaps
  <2> SUFFICES ASSUME r.by = "duckdb"
               PROVE  /\ r.snaps \in [Plans!Needs(r.op) -> Nat]
                      /\ \A d \in Plans!Needs(r.op) : r.pins[d] <= r.snaps[d]
                      /\ r.quiet => r.pins = r.snaps
    OBVIOUS
  <2>1. DOMAIN r.snaps = Plans!Needs(r.op)
    BY <1>4, <1>6 DEF Looked
  <2>2. PICK S \in SUBSET Plans!Datasets : r.snaps \in [S -> Nat]
    BY <1>6 DEF Plans!Plan, Plans!Versions
  <2>3. S = Plans!Needs(r.op)
    BY <2>1, <2>2
  <2>4. r.snaps \in [Plans!Needs(r.op) -> Nat]
    BY <2>2, <2>3
  <2>5. \A d \in Plans!Needs(r.op) : r.pins[d] <= r.snaps[d]
    BY <1>6, <2>1 DEF Looked
  <2>6. ASSUME r.quiet PROVE r.pins = r.snaps
    <3>1. \A d \in Plans!Needs(r.op) : r.pins[d] = r.snaps[d]
      BY <1>6, <1>7, <2>1, <2>6 DEF Looked
    <3> QED
      BY <1>7, <2>4, <3>1
  <2> QED
    BY <2>4, <2>5, <2>6
<1>9. /\ new.hash.op = r.op /\ new.hash.pins = r.pins /\ new.pins = r.pins
      /\ new.result = result /\ new.quiet = r.quiet
      /\ result.snaps = r.snaps /\ result.column = r.column /\ result.by = r.by
  BY <1>2, <1>3, <1>7
<1>10. PlansFiled'
  <2>1. r.op \in Plans!Ops
    BY <1>6 DEF Plans!Plan
  <2>2. /\ new.hash.op \in Plans!Ops /\ new.pins \in [Plans!Needs(new.hash.op) -> Nat]
        /\ new.hash.pins = new.pins
        /\ new.result.by = "duckdb" => new.result.snaps \in [Plans!Needs(new.hash.op) -> Nat]
    BY <1>7, <1>8, <1>9, <2>1
  <2>3. \A run \in runs' : run \in runs \/ run = new
    BY <1>4
  <2> QED
    BY <2>2, <2>3 DEF PlansInv, PlansFiled
<1>11. Plans!StoredAtPins'
  <2>1. ASSUME new.result.by = "duckdb"
        PROVE  /\ \A d \in Plans!Needs(new.hash.op) : new.result.snaps[d] >= new.pins[d]
               /\ new.quiet => Plans!AtPins(new) = new.result
    <3>1. \A d \in Plans!Needs(new.hash.op) : new.result.snaps[d] >= new.pins[d]
      BY <1>7, <1>8, <1>9, <2>1
    <3>2. new.quiet => Plans!AtPins(new) = new.result
      BY <1>2, <1>8, <1>9, <2>1 DEF Plans!AtPins
    <3> QED
      BY <3>1, <3>2
  <2>2. \A run \in runs' : run \in runs \/ run = new
    BY <1>4
  <2>3. \A run \in runs : run.result.by = "duckdb" =>
           /\ \A d \in Plans!Needs(run.hash.op) : run.result.snaps[d] >= run.pins[d]
           /\ run.quiet => Plans!AtPins(run) = run.result
    BY DEF PlansInv, Plans!ExecutionSound, Plans!StoredAtPins
  <2>4. \A run \in runs' : run.result.by = "duckdb" =>
           /\ \A d \in Plans!Needs(run.hash.op) : run.result.snaps[d] >= run.pins[d]
           /\ run.quiet => Plans!AtPins(run) = run.result
    BY <2>1, <2>2, <2>3
  <2> QED
    BY <2>4 DEF Plans!StoredAtPins
<1>12. result.by = "duckdb" => \A d \in Plans!Needs(r.op) : result.snaps[d] >= r.least[d]
  BY <1>7, <1>8, <1>9
<1>13. Plans!AnswerIsFresh' /\ Plans!MaskedForReader'
  <2>1. r.op \in Plans!Ops
    BY <1>6 DEF Plans!Plan
  <2> QED
    BY <1>4, <1>12, <2>1, PlansAnswered
<1> QED
  BY <1>5, <1>10, <1>11, <1>13 DEF PlansInv, Plans!ExecutionSound

LEMMA PlansReplay ==
    ASSUME PlansInv, NEW run \in runs, NEW known \in BOOLEAN, Plans!Replay(run, known)
    PROVE  PlansInv'
<1>1. /\ UNCHANGED <<snapshots, latest, mapping, plan, runs>>
      /\ Plans!Answer(run.hash.op, Plans!AtPins(run), mapping, run.pins, known)
  BY DEF Plans!Replay, Plans!world
<1>2. run.pins \in [Plans!Needs(run.hash.op) -> Nat] /\ run.hash.op \in Plans!Ops
  BY DEF PlansInv, PlansFiled
<1>3. \A d \in Plans!Needs(run.hash.op) : Plans!AtPins(run).snaps[d] >= run.pins[d]
  BY <1>2 DEF Plans!AtPins
<1>4. Plans!AnswerIsFresh' /\ Plans!MaskedForReader'
  BY <1>1, <1>2, <1>3, PlansAnswered
<1>5. PlansType' /\ \A c \in Clients : plan'[c] # None => Looked(plan'[c], snapshots', latest')
  BY <1>1 DEF PlansInv, PlansType
<1>6. PlansFiled' /\ Plans!StoredAtPins'
  BY <1>1 DEF PlansInv, PlansFiled, Plans!ExecutionSound, Plans!StoredAtPins
<1> QED
  BY <1>4, <1>5, <1>6 DEF PlansInv, Plans!ExecutionSound

LEMMA PlansStep == PlansInv /\ [Plans!Next]_(Plans!vars) => PlansInv'
<1> SUFFICES ASSUME PlansInv, [Plans!Next]_(Plans!vars) PROVE PlansInv'
  OBVIOUS
<1>1. CASE UNCHANGED Plans!vars
  <2>1. UNCHANGED <<snapshots, latest, mapping, plan, runs, answered>>
    BY <1>1 DEF Plans!vars
  <2>2. mapping' \in Plans!Mappings
    BY <2>1 DEF PlansInv, PlansType
  <2> QED
    BY <2>1, <2>2, PlansOther
<1>2. CASE \E d \in Plans!Datasets : Plans!Commit(d) \/ Plans!Catalogue(d)
  BY <1>2, PlansCommit, PlansCatalogue
<1>3. CASE Plans!Republish \/ Plans!SwitchAdapter
  <2>1. /\ mapping' \in Plans!Mappings /\ answered' = None
        /\ UNCHANGED <<snapshots, latest, plan, runs>>
    BY <1>3 DEF Plans!Republish, Plans!SwitchAdapter, PlansInv, PlansType
  <2> QED
    BY <2>1, PlansOther
<1>4. CASE \E c \in Clients, op \in Plans!Ops : Plans!Begin(c, op)
  BY <1>4, PlansBegin
<1>5. CASE \E c \in Clients : Plans!Pin(c) \/ Plans!Lookup(c) \/ Plans!AskAdapter(c)
  BY <1>5, PlansPin, PlansLookup, PlansAskAdapter
<1>6. CASE \E c \in Clients : Plans!Scan(c) \/ Plans!Store(c)
  BY <1>6, PlansScan, PlansStore
<1>7. ASSUME NEW c \in Clients, Plans!Fail(c) PROVE PlansInv'
  <2>1. /\ plan' = [plan EXCEPT ![c] = None] /\ answered' = None
        /\ UNCHANGED <<snapshots, latest, mapping, runs>>
    BY <1>7 DEF Plans!Fail, Plans!Keep, Plans!world
  <2> QED
    BY <2>1, PlansKeep
<1>8. CASE \E run \in runs, known \in BOOLEAN : Plans!Replay(run, known)
  BY <1>8, PlansReplay
<1>9. Plans!Next => \/ \E d \in Plans!Datasets : Plans!Commit(d) \/ Plans!Catalogue(d)
                    \/ Plans!Republish \/ Plans!SwitchAdapter
                    \/ \E c \in Clients, op \in Plans!Ops : Plans!Begin(c, op)
                    \/ \E c \in Clients : Plans!Pin(c) \/ Plans!Lookup(c) \/ Plans!AskAdapter(c)
                    \/ \E c \in Clients : Plans!Scan(c) \/ Plans!Store(c)
                    \/ \E c \in Clients : Plans!Fail(c)
                    \/ \E run \in runs, known \in BOOLEAN : Plans!Replay(run, known)
  BY Zenon DEF Plans!Next
<1> QED
  BY <1>1, <1>2, <1>3, <1>4, <1>5, <1>6, <1>7, <1>8, <1>9

(***************************************************************************)
(* However plans interleave with commits, catalogue updates, publications  *)
(* and a switch of the adapter: a result is stored under the versions it   *)
(* was read at, what a caller is answered is no older than what was        *)
(* catalogued when it asked, and a protected column is masked for its      *)
(* reader but in the values grouped by, an aggregate remapped since and    *)
(* the side of a replayed join whose type is gone. For any number of       *)
(* callers, commits and plans.                                             *)
(***************************************************************************)
THEOREM ExecutionIsSound == Spec => []ExecutionSound
<1>1. Init => PlansInv
  BY PlansInitially DEF Init
<1>2. PlansInv /\ [Next]_vars => PlansInv'
  BY ComponentSteps, PlansStep
<1>3. PlansInv => ExecutionSound
  BY DEF PlansInv, ExecutionSound
<1> QED
  BY <1>1, <1>2, <1>3, PTL DEF Spec

-----------------------------------------------------------------------------
(* Types                                                                   *)
TypesType ==
    /\ kind \in {"value", "shared", "relation"}
    /\ row \in TypeRows!TypeRow \cup {None}
    /\ revision \in [TypeRows!Versions -> Payloads \cup {None}]
    /\ linked \in BOOLEAN /\ project \in Projects \cup {None}
    /\ used \in BOOLEAN
    /\ branch \in TypeRows!Branch \cup {None}
    /\ request \in [Clients -> TypeRows!Request \cup {None}]
    /\ typeRaced \in BOOLEAN /\ ungoverned \in BOOLEAN
    /\ requests \in 0..MaxRequests

(* What a request in flight says of the type whatever happened since.      *)
TypesFit ==
    \A c \in Clients : request[c] # None =>
        /\ request[c].op = "create" => request[c].new.version = 1
        /\ request[c].op = "delete" => kind # "value"
        /\ request[c].op \in {"draft", "review"} => branch # None
        /\ request[c].op = "review" /\ request[c].existing # None =>
              request[c].existing.version <= MaxRequests

(* The update computed from a row the handler has read.                    *)
UpdateOf(current, new) ==
    IF new.version = current.version
    THEN kind = "value" => new.payload = current.payload
    ELSE kind = "value" /\ new.version = current.version + 1 /\ new.payload # current.payload

(* What a request has read is so still, unless another one wrote since.    *)
CalmOf(c) ==
    LET r == request[c] IN
    /\ r.op = "update" /\ r.pc = "checked" =>
          row # None /\ r.current = row /\ UpdateOf(row, r.new) /\ row.version <= requests
    /\ r.op = "draft" => branch # None /\ branch.status = "open"
    /\ r.op = "review" /\ r.pc = "read" =>
          /\ branch # None /\ branch.status = "open" /\ r.definition = branch.proposal
          /\ r.existing = row /\ (row # None => row.version <= requests)
    /\ r.op = "review" /\ r.pc = "applied" => branch # None /\ applied = branch.proposal
TypesCalm ==
    ~typeRaced => \A c \in Clients : request[c] # None /\ ~request[c].stale => CalmOf(c)

(* Versions come from requests, and are archived up to the live one.       *)
TypesArchived ==
    ~typeRaced =>
        /\ row # None => row.version <= requests + 1
        /\ kind = "value" =>
              /\ row = None => \A v \in TypeRows!Versions : revision[v] = None
              /\ row # None => \A v \in TypeRows!Versions : v > row.version => revision[v] = None

(* A request between its write and the parents in SpiceDB.                 *)
Owing(c) == request[c] # None /\ request[c].pc \in {"inserted", "link", "deleted"}
Owes(c) ==
    CASE request[c].pc = "inserted" -> row = request[c].new /\ ~linked /\ project = None
      [] request[c].pc = "link"     -> row # None /\ row.project = request[c].new.project /\ linked
      [] request[c].pc = "deleted"  -> row = None
Agreed == IF row = None THEN ~linked /\ project = None ELSE linked /\ project = row.project

(* PostgreSQL and SpiceDB agree, but for what one request still owes.      *)
TypesOwed ==
    ~typeRaced /\ ~ungoverned =>
        /\ (\A c \in Clients : Owing(c) => ~request[c].stale) =>
              \A c \in Clients : Owing(c) => Owes(c)
        /\ (\A c \in Clients : ~Owing(c)) => Agreed

TypesInv ==
    /\ TypesType /\ TypesFit /\ TypesCalm /\ TypesArchived /\ TypesOwed
    /\ TypeRows!RevisionsFaithful /\ TypeRows!MergedIsApplied

(* What the types say in the form the steps use it.                        *)
LEMMA TypesFacts ==
    ASSUME TypesInv
    PROVE  /\ \A c \in Clients : request[c] # None =>
                 request[c] \in TypeRows!Request /\ request[c].stale \in BOOLEAN
           /\ row # None => row \in TypeRows!TypeRow /\ row.version \in Nat /\ row.version >= 1
           /\ requests \in Nat /\ requests <= MaxRequests /\ MaxRequests \in Nat
           /\ None \notin Payloads /\ None \notin TypeRows!TypeRow /\ None \notin TypeRows!Request
           /\ TypeRows!Versions = 1..(MaxRequests + 1)
<1>1. \A c \in Clients : request[c] # None => request[c] \in TypeRows!Request
  BY DEF TypesInv, TypesType
<1>2. \A r \in TypeRows!Request : r.stale \in BOOLEAN
  BY DEF TypeRows!Request
<1>3. MaxRequests \in Nat /\ None \notin Payloads /\ None \notin TypeRows!TypeRow /\ None \notin TypeRows!Request
  BY KnowledgeAssumption
<1>4. TypeRows!Versions = 1..(MaxRequests + 1)
  BY DEF TypeRows!Versions
<1>5. \A t \in TypeRows!TypeRow : t.version \in Nat /\ t.version >= 1
  BY <1>3, <1>4 DEF TypeRows!TypeRow
<1>6. row # None => row \in TypeRows!TypeRow
  BY DEF TypesInv, TypesType
<1>7. requests \in Nat /\ requests <= MaxRequests
  BY <1>3 DEF TypesInv, TypesType
<1> QED
  BY <1>1, <1>2, <1>3, <1>4, <1>5, <1>6, <1>7

(* The requests by what they do.                                           *)
LEMMA TypesShapes ==
    ASSUME NEW r \in TypeRows!Request
    PROVE  /\ r.op \in {"create", "update", "delete", "draft", "review"}
           /\ r.op = "create" => r \in [op : {"create"}, pc : {"checked", "inserted", "link"},
                                        new : TypeRows!TypeRow, stale : BOOLEAN]
           /\ r.op = "update" => r \in [op : {"update"}, pc : {"checked", "link"},
                                        current : TypeRows!TypeRow, new : TypeRows!TypeRow, stale : BOOLEAN]
           /\ r.op = "delete" => r \in [op : {"delete"}, pc : {"checked", "deleted"}, used : BOOLEAN, stale : BOOLEAN]
           /\ r.op = "draft" => r \in [op : {"draft"}, pc : {"checked"}, proposal : TypeRows!Proposals, stale : BOOLEAN]
           /\ r.op = "review" => r \in [op : {"review"}, pc : {"read", "applied"}, definition : TypeRows!Proposals,
                                        existing : TypeRows!TypeRow \cup {None}, stale : BOOLEAN]
BY DEF TypeRows!Request

LEMMA TypesStale ==
    ASSUME NEW r \in TypeRows!Request, NEW q, q = [r EXCEPT !.stale = TRUE]
    PROVE  /\ q \in TypeRows!Request /\ q.op = r.op /\ q.pc = r.pc /\ q.stale = TRUE
           /\ r.op = "create" => q.new = r.new
           /\ r.op = "review" => q.existing = r.existing
<1>1. CASE r.op = "create"
  <2>1. r \in [op : {"create"}, pc : {"checked", "inserted", "link"}, new : TypeRows!TypeRow, stale : BOOLEAN]
    BY <1>1, TypesShapes
  <2>2. /\ q \in [op : {"create"}, pc : {"checked", "inserted", "link"}, new : TypeRows!TypeRow, stale : BOOLEAN]
        /\ q.op = r.op /\ q.pc = r.pc /\ q.stale = TRUE /\ q.new = r.new
    BY <2>1
  <2> QED
    BY <1>1, <2>2 DEF TypeRows!Request
<1>2. CASE r.op = "update"
  <2>1. r \in [op : {"update"}, pc : {"checked", "link"}, current : TypeRows!TypeRow,
               new : TypeRows!TypeRow, stale : BOOLEAN]
    BY <1>2, TypesShapes
  <2>2. /\ q \in [op : {"update"}, pc : {"checked", "link"}, current : TypeRows!TypeRow,
                  new : TypeRows!TypeRow, stale : BOOLEAN]
        /\ q.op = r.op /\ q.pc = r.pc /\ q.stale = TRUE
    BY <2>1
  <2> QED
    BY <1>2, <2>2 DEF TypeRows!Request
<1>3. CASE r.op = "delete"
  <2>1. r \in [op : {"delete"}, pc : {"checked", "deleted"}, used : BOOLEAN, stale : BOOLEAN]
    BY <1>3, TypesShapes
  <2>2. /\ q \in [op : {"delete"}, pc : {"checked", "deleted"}, used : BOOLEAN, stale : BOOLEAN]
        /\ q.op = r.op /\ q.pc = r.pc /\ q.stale = TRUE
    BY <2>1
  <2> QED
    BY <1>3, <2>2 DEF TypeRows!Request
<1>4. CASE r.op = "draft"
  <2>1. r \in [op : {"draft"}, pc : {"checked"}, proposal : TypeRows!Proposals, stale : BOOLEAN]
    BY <1>4, TypesShapes
  <2>2. /\ q \in [op : {"draft"}, pc : {"checked"}, proposal : TypeRows!Proposals, stale : BOOLEAN]
        /\ q.op = r.op /\ q.pc = r.pc /\ q.stale = TRUE
    BY <2>1
  <2> QED
    BY <1>4, <2>2 DEF TypeRows!Request
<1>5. CASE r.op = "review"
  <2>1. r \in [op : {"review"}, pc : {"read", "applied"}, definition : TypeRows!Proposals,
               existing : TypeRows!TypeRow \cup {None}, stale : BOOLEAN]
    BY <1>5, TypesShapes
  <2>2. /\ q \in [op : {"review"}, pc : {"read", "applied"}, definition : TypeRows!Proposals,
                  existing : TypeRows!TypeRow \cup {None}, stale : BOOLEAN]
        /\ q.op = r.op /\ q.pc = r.pc /\ q.stale = TRUE /\ q.existing = r.existing
    BY <2>1
  <2> QED
    BY <1>5, <2>2 DEF TypeRows!Request
<1> QED
  BY <1>1, <1>2, <1>3, <1>4, <1>5, TypesShapes

LEMMA TypesInit == TypeRows!Init => TypesInv
<1> SUFFICES ASSUME TypeRows!Init PROVE TypesInv
  OBVIOUS
<1>1. /\ kind \in {"value", "shared", "relation"} /\ row = None
      /\ revision = [v \in TypeRows!Versions |-> None] /\ linked = FALSE /\ project = None
      /\ used = FALSE /\ branch = None /\ request = [c \in Clients |-> None]
      /\ typeRaced = FALSE /\ ungoverned = FALSE /\ requests = 0
  BY DEF TypeRows!Init, TypeRows!NoRevisions
<1>2. MaxRequests \in Nat
  BY KnowledgeAssumption
<1>3. TypesType
  <2>1. requests \in 0..MaxRequests
    BY <1>1, <1>2
  <2>2. revision \in [TypeRows!Versions -> Payloads \cup {None}]
    BY <1>1
  <2>3. request \in [Clients -> TypeRows!Request \cup {None}]
    BY <1>1
  <2>4. linked \in BOOLEAN /\ used \in BOOLEAN /\ typeRaced \in BOOLEAN /\ ungoverned \in BOOLEAN
    BY <1>1
  <2> QED
    BY <1>1, <2>1, <2>2, <2>3, <2>4 DEF TypesType
<1>4. \A c \in Clients : request[c] = None
  <2>1. request = [c \in Clients |-> None]
    BY <1>1
  <2> QED
    BY <2>1
<1>5. TypesFit /\ TypesCalm
  BY <1>4 DEF TypesFit, TypesCalm
<1>6. TypesArchived
  BY <1>1 DEF TypesArchived
<1>7. TypesOwed
  BY <1>1, <1>4 DEF TypesOwed, Owing, Agreed
<1>8. TypeRows!RevisionsFaithful /\ TypeRows!MergedIsApplied
  BY <1>1 DEF TypeRows!RevisionsFaithful, TypeRows!MergedIsApplied
<1> QED
  BY <1>3, <1>5, <1>6, <1>7, <1>8 DEF TypesInv

(* A step of one request leaves the others where they are; when it writes, *)
(* they are stale.                                                         *)
LEMMA TypesMove ==
    ASSUME TypesInv, NEW c \in Clients, request[c] # None, NEW r \in TypeRows!Request \cup {None},
           TypeRows!Move(c, r, TRUE)
    PROVE  /\ request' \in [Clients -> TypeRows!Request \cup {None}] /\ request'[c] = r
           /\ \A d \in Clients \ {c} : request[d] = None => request'[d] = None
           /\ \A d \in Clients \ {c} : request[d] # None =>
                 /\ request'[d] # None /\ request'[d].stale = TRUE
                 /\ request'[d].op = request[d].op /\ request'[d].pc = request[d].pc
                 /\ request[d].op = "create" => request'[d].new = request[d].new
                 /\ request[d].op = "review" => request'[d].existing = request[d].existing
           /\ typeRaced' \in BOOLEAN /\ (~typeRaced' => ~typeRaced /\ ~request[c].stale)
<1>1. /\ request' = [d \in Clients |->
           IF d = c THEN r
           ELSE IF request[d] # None THEN [request[d] EXCEPT !.stale = TRUE] ELSE request[d]]
      /\ typeRaced' = (typeRaced \/ request[c].stale)
  BY DEF TypeRows!Move
<1>2. \A d \in Clients : request[d] # None => request[d] \in TypeRows!Request /\ None \notin TypeRows!Request
  BY TypesFacts
<1>3. request'[c] = r /\ \A d \in Clients \ {c} : request[d] = None => request'[d] = None
  BY <1>1
<1>4. ASSUME NEW d \in Clients \ {c}, request[d] # None
      PROVE  /\ request'[d] \in TypeRows!Request
             /\ request'[d] # None /\ request'[d].stale = TRUE
             /\ request'[d].op = request[d].op /\ request'[d].pc = request[d].pc
             /\ request[d].op = "create" => request'[d].new = request[d].new
             /\ request[d].op = "review" => request'[d].existing = request[d].existing
  <2>1. request'[d] = [request[d] EXCEPT !.stale = TRUE]
    BY <1>1, <1>4
  <2>2. PICK q, s : q = request'[d] /\ s = request[d]
    OBVIOUS
  <2>3. s \in TypeRows!Request /\ q = [s EXCEPT !.stale = TRUE]
    BY <1>2, <1>4, <2>1, <2>2
  <2>4. /\ q \in TypeRows!Request /\ q.op = s.op /\ q.pc = s.pc /\ q.stale = TRUE
        /\ s.op = "create" => q.new = s.new
        /\ s.op = "review" => q.existing = s.existing
    BY <2>3, TypesStale
  <2> QED
    BY <1>2, <1>4, <2>2, <2>4
<1>5. request' \in [Clients -> TypeRows!Request \cup {None}]
  <2>1. \A d \in Clients : request'[d] \in TypeRows!Request \cup {None}
    BY <1>3, <1>4
  <2>2. request' = [d \in Clients |-> request'[d]]
    BY <1>1
  <2> QED
    BY <2>1, <2>2
<1>6. typeRaced' \in BOOLEAN /\ (~typeRaced' => ~typeRaced /\ ~request[c].stale)
  BY <1>1, TypesFacts DEF TypesInv, TypesType
<1> QED
  BY <1>3, <1>4, <1>5, <1>6

(* A request that writes.  Its own clauses are those of the step; the      *)
(* others are stale, so they owe nothing the step could break.             *)
LEMMA TypesWrote ==
    ASSUME TypesInv, NEW c \in Clients, request[c] # None, NEW r \in TypeRows!Request \cup {None},
           TypeRows!Move(c, r, TRUE), UNCHANGED <<kind, used, requests>>,
           row' \in TypeRows!TypeRow \cup {None},
           revision' \in [TypeRows!Versions -> Payloads \cup {None}],
           linked' \in BOOLEAN, project' \in Projects \cup {None},
           branch' \in TypeRows!Branch \cup {None},
           branch # None => branch' # None,
           ungoverned' \in BOOLEAN, ~ungoverned' => ~ungoverned,
           r # None => /\ r.op = request[c].op /\ r.pc \notin {"checked", "read"}
                       /\ r.op = "create" => r.new = request[c].new
                       /\ r.op = "review" => r.existing = request[c].existing,
           ~typeRaced' /\ r # None /\ r.pc = "applied" => branch' # None /\ applied' = branch'.proposal,
           TypesArchived', TypeRows!RevisionsFaithful', TypeRows!MergedIsApplied',
           /\ ~typeRaced' /\ ~ungoverned'
           /\ IF request[c].pc \in {"inserted", "link", "deleted"} THEN Owes(c) ELSE Agreed
           => IF r # None /\ r.pc \in {"inserted", "link", "deleted"} THEN Owes(c)' ELSE Agreed'
    PROVE  TypesInv'
<1>1. /\ request' \in [Clients -> TypeRows!Request \cup {None}] /\ request'[c] = r
      /\ \A d \in Clients \ {c} : request[d] = None => request'[d] = None
      /\ \A d \in Clients \ {c} : request[d] # None =>
            /\ request'[d] # None /\ request'[d].stale = TRUE
            /\ request'[d].op = request[d].op /\ request'[d].pc = request[d].pc
            /\ request[d].op = "create" => request'[d].new = request[d].new
            /\ request[d].op = "review" => request'[d].existing = request[d].existing
      /\ typeRaced' \in BOOLEAN /\ (~typeRaced' => ~typeRaced /\ ~request[c].stale)
  BY TypesMove
<1>2. TypesType'
  BY <1>1 DEF TypesInv, TypesType
<1>3. TypesFit'
  <2> SUFFICES ASSUME NEW d \in Clients, request'[d] # None
               PROVE  /\ request'[d].op = "create" => request'[d].new.version = 1
                      /\ request'[d].op = "delete" => kind' # "value"
                      /\ request'[d].op \in {"draft", "review"} => branch' # None
                      /\ request'[d].op = "review" /\ request'[d].existing # None =>
                            request'[d].existing.version <= MaxRequests
    BY DEF TypesFit
  <2>1. request[d] # None /\ request'[d].op = request[d].op
    BY <1>1
  <2>2. /\ request[d].op = "create" => request[d].new.version = 1
        /\ request[d].op = "delete" => kind # "value"
        /\ request[d].op \in {"draft", "review"} => branch # None
        /\ request[d].op = "review" /\ request[d].existing # None =>
              request[d].existing.version <= MaxRequests
    BY <2>1 DEF TypesInv, TypesFit
  <2>3. /\ request'[d].op = "create" => request'[d].new = request[d].new
        /\ request'[d].op = "review" => request'[d].existing = request[d].existing
    BY <1>1, <2>1
  <2> QED
    BY <2>1, <2>2, <2>3
<1>4. TypesCalm'
  <2> SUFFICES ASSUME ~typeRaced', NEW d \in Clients, request'[d] # None, ~request'[d].stale
               PROVE  CalmOf(d)'
    BY DEF TypesCalm
  <2>1. d = c
    BY <1>1
  <2>2. r # None /\ request'[d] = r /\ r.pc \notin {"checked", "read"}
    BY <1>1, <2>1
  <2>3. r.op # "draft"
    BY <2>2, TypesShapes
  <2> QED
    BY <2>2, <2>3 DEF CalmOf
<1>5. TypesOwed'
  <2> SUFFICES ASSUME ~typeRaced', ~ungoverned'
               PROVE  /\ (\A d \in Clients : Owing(d)' => ~request'[d].stale) =>
                             \A d \in Clients : Owing(d)' => Owes(d)'
                      /\ (\A d \in Clients : ~Owing(d)') => Agreed'
    BY DEF TypesOwed
  <2>1. Owing(c) <=> request[c].pc \in {"inserted", "link", "deleted"}
    BY DEF Owing
  <2>2. Owing(c)' <=> r # None /\ r.pc \in {"inserted", "link", "deleted"}
    BY <1>1 DEF Owing
  <2>3. \A d \in Clients \ {c} : Owing(d) => Owing(d)' /\ request'[d].stale
    BY <1>1 DEF Owing
  <2>4. ASSUME \A d \in Clients \ {c} : ~Owing(d)
        PROVE  IF r # None /\ r.pc \in {"inserted", "link", "deleted"} THEN Owes(c)' ELSE Agreed'
    <3>1. ~typeRaced /\ ~ungoverned /\ ~request[c].stale
      BY <1>1
    <3>2. CASE Owing(c)
      <4>1. \A d \in Clients : Owing(d) => ~request[d].stale
        BY <2>4, <3>1
      <4>2. Owes(c)
        BY <3>1, <3>2, <4>1 DEF TypesInv, TypesOwed
      <4> QED
        BY <2>1, <3>2, <4>2
    <3>3. CASE ~Owing(c)
      <4>1. Agreed
        BY <2>4, <3>1, <3>3 DEF TypesInv, TypesOwed
      <4> QED
        BY <2>1, <3>3, <4>1
    <3> QED
      BY <3>2, <3>3
  <2>5. CASE \A d \in Clients \ {c} : ~Owing(d)
    <3>1. \A d \in Clients \ {c} : ~Owing(d)'
      BY <1>1, <2>5 DEF Owing
    <3> QED
      BY <2>2, <2>4, <2>5, <3>1
  <2>6. CASE \E d \in Clients \ {c} : Owing(d)
    BY <2>3, <2>6
  <2> QED
    BY <2>5, <2>6
<1> QED
  BY <1>2, <1>3, <1>4, <1>5 DEF TypesInv

(* The first version of a type is archived with its row.                   *)
LEMMA TypesInserted ==
    ASSUME TypesInv, row = None, NEW new \in TypeRows!TypeRow, new.version = 1, TypeRows!Insert(new),
           UNCHANGED <<kind, requests>>, ~typeRaced' => ~typeRaced
    PROVE  /\ row' = new /\ revision' \in [TypeRows!Versions -> Payloads \cup {None}]
           /\ TypesArchived' /\ TypeRows!RevisionsFaithful'
<1>1. /\ row' = new
      /\ revision' = IF kind = "value" THEN TypeRows!Archived(revision, 1, new.payload) ELSE revision
  BY DEF TypeRows!Insert
<1>2. /\ requests \in Nat /\ TypeRows!Versions = 1..(MaxRequests + 1) /\ MaxRequests \in Nat
      /\ None \notin Payloads /\ new.payload \in Payloads /\ new # None
  BY TypesFacts DEF TypeRows!TypeRow
<1>3. revision \in [TypeRows!Versions -> Payloads \cup {None}]
  BY DEF TypesInv, TypesType
<1>4. revision' \in [TypeRows!Versions -> Payloads \cup {None}]
  BY <1>1, <1>2, <1>3 DEF TypeRows!Archived
<1>5. ASSUME ~typeRaced', kind = "value"
      PROVE  revision'[1] = new.payload /\ \A v \in TypeRows!Versions : v > 1 => revision'[v] = None
  <2>1. \A v \in TypeRows!Versions : revision[v] = None
    BY <1>5 DEF TypesInv, TypesArchived
  <2>2. 1 \in TypeRows!Versions
    BY <1>2
  <2>3. revision' = [revision EXCEPT ![1] = new.payload]
    BY <1>1, <1>5, <2>1, <2>2 DEF TypeRows!Archived
  <2> QED
    BY <1>3, <2>1, <2>2, <2>3
<1>6. TypesArchived'
  BY <1>1, <1>2, <1>5 DEF TypesArchived
<1>7. TypeRows!RevisionsFaithful'
  <2> SUFFICES ASSUME kind = "value", ~typeRaced'
               PROVE  /\ \A v \in 1..new.version : revision'[v] # None
                      /\ \A v \in 1..(new.version - 1) : revision'[v] # revision'[v + 1]
                      /\ revision'[new.version] = new.payload
    BY <1>1 DEF TypeRows!RevisionsFaithful
  <2> QED
    BY <1>2, <1>5
<1> QED
  BY <1>1, <1>4, <1>6, <1>7

(* The update of the row that was read archives one more version.          *)
LEMMA TypesUpdated ==
    ASSUME TypesInv, NEW current \in TypeRows!TypeRow, NEW new \in TypeRows!TypeRow,
           TypeRows!Update(current, new), UNCHANGED <<kind, requests>>,
           ~typeRaced' => ~typeRaced /\ row = current /\ UpdateOf(current, new) /\ current.version <= requests
    PROVE  /\ row' = new /\ row' # None /\ revision' \in [TypeRows!Versions -> Payloads \cup {None}]
           /\ TypesArchived' /\ TypeRows!RevisionsFaithful'
<1>1. /\ row' = new
      /\ revision' = IF kind = "value" /\ new.version # current.version
                     THEN TypeRows!Archived(TypeRows!Archived(revision, current.version, current.payload),
                                            new.version, new.payload)
                     ELSE revision
  BY DEF TypeRows!Update
<1>2. /\ requests \in Nat /\ TypeRows!Versions = 1..(MaxRequests + 1) /\ MaxRequests \in Nat
      /\ requests <= MaxRequests
      /\ None \notin Payloads /\ new.payload \in Payloads /\ current.payload \in Payloads
      /\ new # None /\ current # None
      /\ new.version \in TypeRows!Versions /\ current.version \in TypeRows!Versions
  BY TypesFacts DEF TypeRows!TypeRow
<1>3. revision \in [TypeRows!Versions -> Payloads \cup {None}]
  BY DEF TypesInv, TypesType
<1>4. revision' \in [TypeRows!Versions -> Payloads \cup {None}]
  <2>1. \A rs \in [TypeRows!Versions -> Payloads \cup {None}], v \in TypeRows!Versions, x \in Payloads :
           TypeRows!Archived(rs, v, x) \in [TypeRows!Versions -> Payloads \cup {None}]
    BY DEF TypeRows!Archived
  <2> QED
    BY <1>1, <1>2, <1>3, <2>1
<1>5. CASE new.version = current.version
  <2>1. revision' = revision
    BY <1>1, <1>5
  <2>2. ~typeRaced' => /\ ~typeRaced /\ row = current /\ current.version <= requests
                       /\ kind = "value" => new.payload = current.payload
    BY <1>5 DEF UpdateOf
  <2>3. TypesArchived'
    BY <1>1, <1>2, <1>5, <2>1, <2>2 DEF TypesInv, TypesArchived
  <2>4. TypeRows!RevisionsFaithful'
    BY <1>1, <1>2, <1>5, <2>1, <2>2 DEF TypesInv, TypeRows!RevisionsFaithful
  <2> QED
    BY <1>1, <1>2, <1>4, <2>3, <2>4
<1>6. CASE new.version # current.version
  <2>1. ASSUME ~typeRaced'
        PROVE  /\ kind = "value" /\ new.version = current.version + 1 /\ new.payload # current.payload
               /\ current.version \in Nat /\ new.version <= requests + 1
               /\ \A v \in 1..current.version : revision'[v] = revision[v] /\ revision[v] # None
               /\ \A v \in 1..(current.version - 1) : revision[v] # revision[v + 1]
               /\ revision'[new.version] = new.payload /\ revision[current.version] = current.payload
               /\ \A v \in TypeRows!Versions : v > new.version => revision'[v] = None
    <3>1. /\ ~typeRaced /\ row = current /\ current.version <= requests
          /\ kind = "value" /\ new.version = current.version + 1 /\ new.payload # current.payload
      BY <1>6, <2>1 DEF UpdateOf
    <3>2. /\ \A v \in 1..current.version : revision[v] # None
          /\ \A v \in 1..(current.version - 1) : revision[v] # revision[v + 1]
          /\ revision[current.version] = current.payload
      BY <1>2, <3>1 DEF TypesInv, TypeRows!RevisionsFaithful
    <3>3. \A v \in TypeRows!Versions : v > current.version => revision[v] = None
      BY <1>2, <3>1 DEF TypesInv, TypesArchived
    <3>4. TypeRows!Archived(revision, current.version, current.payload) = revision
      BY <1>2, <3>2 DEF TypeRows!Archived
    <3>5. current.version \in Nat /\ current.version \in 1..current.version /\ new.version > current.version
      BY <1>2, <3>1
    <3>6. revision[new.version] = None
      BY <1>2, <3>3, <3>5
    <3>7. revision' = [revision EXCEPT ![new.version] = new.payload]
      BY <1>1, <1>6, <3>1, <3>4, <3>6 DEF TypeRows!Archived
    <3>8. revision'[new.version] = new.payload /\ \A v \in TypeRows!Versions : v # new.version => revision'[v] = revision[v]
      BY <1>2, <1>3, <3>7
    <3>9. \A v \in 1..current.version : v \in TypeRows!Versions /\ v # new.version
      BY <1>2, <3>5
    <3>10. \A v \in 1..current.version : revision'[v] = revision[v]
      BY <3>8, <3>9
    <3>11. \A v \in TypeRows!Versions : v > new.version => revision'[v] = None
      BY <1>2, <3>3, <3>5, <3>8
    <3>12. new.version <= requests + 1
      BY <1>2, <3>1, <3>5
    <3> QED
      BY <3>1, <3>2, <3>5, <3>8, <3>10, <3>11, <3>12
  <2>2. TypesArchived'
    BY <1>1, <1>2, <2>1 DEF TypesArchived
  <2>3. TypeRows!RevisionsFaithful'
    <3> SUFFICES ASSUME ~typeRaced'
                 PROVE  /\ \A v \in 1..new.version : revision'[v] # None
                        /\ \A v \in 1..(new.version - 1) : revision'[v] # revision'[v + 1]
                        /\ revision'[new.version] = new.payload
      BY <1>1 DEF TypeRows!RevisionsFaithful
    <3>1. \A v \in 1..new.version : v \in 1..current.version \/ v = new.version
      BY <2>1
    <3>2. \A v \in 1..new.version : revision'[v] # None
      BY <1>2, <2>1, <3>1
    <3>3. ASSUME NEW v \in 1..(new.version - 1) PROVE revision'[v] # revision'[v + 1]
      <4>1. v \in 1..current.version
        BY <2>1, <3>3
      <4>2. CASE v = current.version
        BY <2>1, <4>1, <4>2
      <4>3. CASE v # current.version
        <5>1. v \in 1..(current.version - 1) /\ v + 1 \in 1..current.version
          BY <2>1, <4>1, <4>3
        <5> QED
          BY <2>1, <4>1, <5>1
      <4> QED
        BY <4>2, <4>3
    <3> QED
      BY <2>1, <3>2, <3>3
  <2> QED
    BY <1>1, <1>2, <1>4, <2>2, <2>3
<1> QED
  BY <1>5, <1>6

(* A request that ends without writing.                                    *)
LEMMA TypesQuit ==
    ASSUME TypesInv, NEW c \in Clients, request[c] # None,
           \A d \in Clients : request'[d] = IF d = c THEN None ELSE request[d],
           request' \in [Clients -> TypeRows!Request \cup {None}],
           UNCHANGED <<kind, used, row, revision, linked, project, branch, applied, typeRaced, requests>>,
           ungoverned' \in BOOLEAN,
           ~ungoverned' => ~ungoverned /\ request[c].pc \notin {"inserted", "link", "deleted"}
    PROVE  TypesInv'
<1>1. TypesType' /\ TypesArchived' /\ TypeRows!RevisionsFaithful' /\ TypeRows!MergedIsApplied'
  BY DEF TypesInv, TypesType, TypesArchived, TypeRows!RevisionsFaithful, TypeRows!MergedIsApplied
<1>2. \A d \in Clients : request'[d] # None => d # c /\ request[d] # None /\ request'[d] = request[d]
  OBVIOUS
<1>3. TypesFit'
  BY <1>2 DEF TypesInv, TypesFit
<1>4. TypesCalm'
  <2> SUFFICES ASSUME ~typeRaced', NEW d \in Clients, request'[d] # None, ~request'[d].stale
               PROVE  CalmOf(d)'
    BY DEF TypesCalm
  <2>1. request'[d] = request[d] /\ request[d] # None
    BY <1>2
  <2>2. CalmOf(d)
    BY <2>1 DEF TypesInv, TypesCalm
  <2> QED
    BY <2>1, <2>2 DEF CalmOf, UpdateOf
<1>5. TypesOwed'
  <2> SUFFICES ASSUME ~typeRaced', ~ungoverned'
               PROVE  /\ (\A d \in Clients : Owing(d)' => ~request'[d].stale) =>
                             \A d \in Clients : Owing(d)' => Owes(d)'
                      /\ (\A d \in Clients : ~Owing(d)') => Agreed'
    BY DEF TypesOwed
  <2>1. \A d \in Clients : /\ Owing(d)' <=> Owing(d)
                           /\ Owing(d) => request'[d] = request[d]
    BY <1>2 DEF Owing
  <2>2. /\ (\A d \in Clients : Owing(d) => ~request[d].stale) => \A d \in Clients : Owing(d) => Owes(d)
        /\ (\A d \in Clients : ~Owing(d)) => Agreed
    BY DEF TypesInv, TypesOwed
  <2>3. \A d \in Clients : Owing(d) /\ Owes(d) => Owes(d)'
    BY <2>1 DEF Owes
  <2>4. Agreed => Agreed'
    BY DEF Agreed
  <2> QED
    BY <2>1, <2>2, <2>3, <2>4
<1> QED
  BY <1>1, <1>3, <1>4, <1>5 DEF TypesInv

LEMMA TypesDropped ==
    ASSUME TypesInv, NEW c \in Clients, request[c] # None, TypeRows!Move(c, None, FALSE),
           UNCHANGED <<kind, used, row, revision, linked, project, branch, applied, ungoverned, requests>>,
           request[c].pc \notin {"inserted", "link", "deleted"}
    PROVE  TypesInv'
<1>1. /\ request' = [d \in Clients |-> IF d = c THEN None ELSE request[d]]
      /\ typeRaced' = (typeRaced \/ FALSE)
  BY DEF TypeRows!Move
<1>2. typeRaced' = typeRaced /\ ungoverned' \in BOOLEAN
  BY <1>1 DEF TypesInv, TypesType
<1>3. request' \in [Clients -> TypeRows!Request \cup {None}]
  BY <1>1 DEF TypesInv, TypesType
<1>4. \A d \in Clients : request'[d] = IF d = c THEN None ELSE request[d]
  BY <1>1
<1> QED
  BY <1>2, <1>3, <1>4, TypesQuit

(* A new request has read what is there.                                   *)
LEMMA TypesArrived ==
    ASSUME TypesInv, NEW c \in Clients, NEW r \in TypeRows!Request, TypeRows!Arrive(c, r),
           r.pc \in {"checked", "read"},
           r.op = "create" => r.new.version = 1,
           r.op = "delete" => kind # "value",
           r.op \in {"draft", "review"} => branch # None /\ branch.status = "open",
           r.op = "review" => r.definition = branch.proposal /\ r.existing = row,
           r.op = "update" => row # None /\ r.current = row /\ UpdateOf(row, r.new)
    PROVE  TypesInv'
<1>1. /\ request[c] = None /\ requests < MaxRequests /\ ~typeRaced /\ requests' = requests + 1
      /\ request' = [request EXCEPT ![c] = r]
      /\ UNCHANGED <<kind, used, row, revision, linked, project, branch, applied, typeRaced, ungoverned>>
  BY DEF TypeRows!Arrive, TypeRows!spice, TypeRows!ghosts
<1>2. /\ request' \in [Clients -> TypeRows!Request \cup {None}] /\ request'[c] = r
      /\ \A d \in Clients \ {c} : request'[d] = request[d]
  BY <1>1 DEF TypesInv, TypesType
<1>3. /\ requests \in Nat /\ MaxRequests \in Nat /\ requests' \in 0..MaxRequests
      /\ row # None => row.version \in Nat /\ row.version <= requests'
      /\ requests' <= requests' + 1
  BY <1>1, TypesFacts DEF TypesInv, TypesArchived
<1>4. TypesType'
  BY <1>1, <1>2, <1>3 DEF TypesInv, TypesType
<1>5. TypesFit'
  <2> SUFFICES ASSUME NEW d \in Clients, request'[d] # None
               PROVE  /\ request'[d].op = "create" => request'[d].new.version = 1
                      /\ request'[d].op = "delete" => kind' # "value"
                      /\ request'[d].op \in {"draft", "review"} => branch' # None
                      /\ request'[d].op = "review" /\ request'[d].existing # None =>
                            request'[d].existing.version <= MaxRequests
    BY DEF TypesFit
  <2>1. CASE d = c
    BY <1>1, <1>2, <1>3, <2>1
  <2>2. CASE d # c
    BY <1>1, <1>2, <2>2 DEF TypesInv, TypesFit
  <2> QED
    BY <2>1, <2>2
<1>6. TypesCalm'
  <2> SUFFICES ASSUME NEW d \in Clients, request'[d] # None, ~request'[d].stale
               PROVE  CalmOf(d)'
    BY DEF TypesCalm
  <2>1. CASE d = c
    <3>1. r.op = "review" => r.pc # "applied"
      OBVIOUS
    <3> QED
      BY <1>1, <1>2, <1>3, <2>1, <3>1 DEF CalmOf, UpdateOf
  <2>2. CASE d # c
    <3>1. CalmOf(d)
      BY <1>1, <1>2, <2>2 DEF TypesInv, TypesCalm
    <3> QED
      BY <1>1, <1>2, <1>3, <2>2, <3>1 DEF CalmOf, UpdateOf
  <2> QED
    BY <2>1, <2>2
<1>7. TypesArchived'
  BY <1>1, <1>3 DEF TypesInv, TypesArchived
<1>8. TypesOwed'
  <2>1. \A d \in Clients : Owing(d)' <=> Owing(d)
    BY <1>1, <1>2 DEF Owing
  <2>2. \A d \in Clients : Owing(d) => d # c /\ request'[d] = request[d]
    BY <1>1, <1>2 DEF Owing
  <2>3. \A d \in Clients : Owing(d) /\ Owes(d) => Owes(d)'
    BY <1>1, <2>2 DEF Owes
  <2>4. Agreed => Agreed'
    BY <1>1 DEF Agreed
  <2>5. ~ungoverned =>
           /\ (\A d \in Clients : Owing(d) => ~request[d].stale) => \A d \in Clients : Owing(d) => Owes(d)
           /\ (\A d \in Clients : ~Owing(d)) => Agreed
    BY <1>1 DEF TypesInv, TypesOwed
  <2> QED
    BY <1>1, <2>1, <2>2, <2>3, <2>4, <2>5 DEF TypesOwed
<1>9. TypeRows!RevisionsFaithful' /\ TypeRows!MergedIsApplied'
  BY <1>1 DEF TypesInv, TypeRows!RevisionsFaithful, TypeRows!MergedIsApplied
<1> QED
  BY <1>4, <1>5, <1>6, <1>7, <1>8, <1>9 DEF TypesInv

(* What is left of a row when it is updated.                               *)
LEMMA TypesUpdate ==
    ASSUME NEW current \in TypeRows!TypeRow, NEW x \in Payloads, NEW p \in Projects \cup {None},
           NEW a \in BOOLEAN, NEW new, new = TypeRows!Updated(current, x, p, a),
           current.version <= MaxRequests
    PROVE  /\ new \in TypeRows!TypeRow /\ UpdateOf(current, new) /\ new.project = p
<1>1. /\ MaxRequests \in Nat /\ current.version \in 1..(MaxRequests + 1)
      /\ current.version + 1 \in 1..(MaxRequests + 1) /\ current.version + 1 # current.version
  BY KnowledgeAssumption DEF TypeRows!TypeRow, TypeRows!Versions
<1>2. PICK y, v : /\ y = IF kind = "shared" THEN current.payload ELSE x
                  /\ v = IF kind = "value" /\ x # current.payload THEN current.version + 1 ELSE current.version
  OBVIOUS
<1>3. new = [current EXCEPT !.payload = y, !.version = v, !.project = p, !.active = a]
  BY <1>2 DEF TypeRows!Updated
<1>4. y \in Payloads /\ v \in TypeRows!Versions
  BY <1>1, <1>2 DEF TypeRows!TypeRow, TypeRows!Versions
<1>5. new \in TypeRows!TypeRow /\ new.payload = y /\ new.version = v /\ new.project = p
  BY <1>3, <1>4 DEF TypeRows!TypeRow
<1>6. UpdateOf(current, new)
  BY <1>1, <1>2, <1>5 DEF UpdateOf
<1> QED
  BY <1>5, <1>6

LEMMA TypesChecks ==
    ASSUME TypesInv, NEW c \in Clients, NEW x \in Payloads, NEW p \in Projects \cup {None},
           NEW a \in BOOLEAN,
           \/ TypeRows!CheckCreate(c, x, p) \/ TypeRows!CheckUpdate(c, x, p, a)
           \/ TypeRows!CheckDelete(c) \/ TypeRows!Review(c)
    PROVE  TypesInv'
<1>1. CASE TypeRows!CheckCreate(c, x, p)
  <2>1. PICK n : n = [version |-> 1, payload |-> x, project |-> p, active |-> FALSE]
    OBVIOUS
  <2>2. PICK r : r = [op |-> "create", pc |-> "checked", new |-> n, stale |-> FALSE]
    OBVIOUS
  <2>3. TypeRows!Arrive(c, r)
    BY <1>1, <2>1, <2>2 DEF TypeRows!CheckCreate
  <2>4. n \in TypeRows!TypeRow /\ n.version = 1
    <3>1. 1 \in 1..(MaxRequests + 1)
      BY KnowledgeAssumption
    <3> QED
      BY <2>1, <3>1 DEF TypeRows!TypeRow, TypeRows!Versions
  <2>5. r \in TypeRows!Request /\ r.pc = "checked" /\ r.op = "create" /\ r.new = n
    BY <2>2, <2>4 DEF TypeRows!Request
  <2> QED
    BY <2>3, <2>4, <2>5, TypesArrived
<1>2. CASE TypeRows!CheckUpdate(c, x, p, a)
  <2>1. PICK n : n = TypeRows!Updated(row, x, p, a)
    OBVIOUS
  <2>2. PICK r : r = [op |-> "update", pc |-> "checked", current |-> row, new |-> n, stale |-> FALSE]
    OBVIOUS
  <2>3. row # None /\ TypeRows!Arrive(c, r)
    BY <1>2, <2>1, <2>2 DEF TypeRows!CheckUpdate
  <2>4. row \in TypeRows!TypeRow /\ row.version <= MaxRequests
    <3>1. ~typeRaced /\ requests < MaxRequests
      BY <2>3 DEF TypeRows!Arrive
    <3>2. row.version <= requests + 1
      BY <2>3, <3>1 DEF TypesInv, TypesArchived
    <3> QED
      BY <2>3, <3>1, <3>2, TypesFacts
  <2>5. n \in TypeRows!TypeRow /\ UpdateOf(row, n)
    BY <2>1, <2>4, TypesUpdate
  <2>6. r \in TypeRows!Request /\ r.pc = "checked" /\ r.op = "update" /\ r.new = n /\ r.current = row
    BY <2>2, <2>4, <2>5 DEF TypeRows!Request
  <2> QED
    BY <2>3, <2>5, <2>6, TypesArrived
<1>3. CASE TypeRows!CheckDelete(c)
  <2>1. PICK r : r = [op |-> "delete", pc |-> "checked", used |-> used, stale |-> FALSE]
    OBVIOUS
  <2>2. kind # "value" /\ TypeRows!Arrive(c, r)
    BY <1>3, <2>1 DEF TypeRows!CheckDelete
  <2>3. r \in TypeRows!Request /\ r.pc = "checked" /\ r.op = "delete"
    BY <2>1 DEF TypeRows!Request, TypesInv, TypesType
  <2> QED
    BY <2>2, <2>3, TypesArrived
<1>4. CASE TypeRows!Review(c)
  <2>1. PICK r : r = [op |-> "review", pc |-> "read", definition |-> branch.proposal,
                      existing |-> row, stale |-> FALSE]
    OBVIOUS
  <2>2. branch # None /\ branch.status = "open" /\ TypeRows!Arrive(c, r)
    BY <1>4, <2>1 DEF TypeRows!Review
  <2>3. branch.proposal \in TypeRows!Proposals /\ row \in TypeRows!TypeRow \cup {None}
    BY <2>2 DEF TypesInv, TypesType, TypeRows!Branch
  <2>4. /\ r \in TypeRows!Request /\ r.pc = "read" /\ r.op = "review"
        /\ r.definition = branch.proposal /\ r.existing = row
    BY <2>1, <2>3 DEF TypeRows!Request
  <2> QED
    BY <2>2, <2>4, TypesArrived
<1> QED
  BY <1>1, <1>2, <1>3, <1>4

LEMMA TypesCheckDraft ==
    ASSUME TypesInv, NEW c \in Clients, NEW x \in Drafts, TypeRows!CheckDraft(c, x)
    PROVE  TypesInv'
<1>1. PICK r : r = [op |-> "draft", pc |-> "checked", proposal |-> x, stale |-> FALSE]
  OBVIOUS
<1>2. branch # None /\ branch.status = "open" /\ TypeRows!Arrive(c, r)
  BY <1>1 DEF TypeRows!CheckDraft
<1>3. x \in TypeRows!Proposals
  BY KnowledgeAssumption
<1>4. r \in TypeRows!Request /\ r.pc = "checked" /\ r.op = "draft"
  BY <1>1, <1>3 DEF TypeRows!Request
<1> QED
  BY <1>2, <1>4, TypesArrived

(* A request one step on.                                                  *)
LEMMA TypesThen ==
    ASSUME TypesInv, NEW c \in Clients, request[c] # None,
           NEW pc, \/ request[c].op = "create" /\ pc \in {"inserted", "link"}
                   \/ request[c].op = "update" /\ pc = "link"
                   \/ request[c].op = "delete" /\ pc = "deleted"
                   \/ request[c].op = "review" /\ pc = "applied",
           NEW r, r = TypeRows!Then(c, pc)
    PROVE  /\ r \in TypeRows!Request /\ r # None /\ r.op = request[c].op /\ r.pc = pc
           /\ r.op \in {"create", "update"} => r.new = request[c].new
           /\ r.op = "review" => r.existing = request[c].existing
<1>1. PICK q : q = request[c]
  OBVIOUS
<1>2. q \in TypeRows!Request /\ None \notin TypeRows!Request /\ r = [q EXCEPT !.pc = pc]
  BY <1>1, TypesFacts DEF TypeRows!Then
<1>3. CASE q.op = "create" /\ pc \in {"inserted", "link"}
  <2>1. q \in [op : {"create"}, pc : {"checked", "inserted", "link"}, new : TypeRows!TypeRow, stale : BOOLEAN]
    BY <1>2, <1>3, TypesShapes
  <2>2. /\ r \in [op : {"create"}, pc : {"checked", "inserted", "link"}, new : TypeRows!TypeRow, stale : BOOLEAN]
        /\ r.op = q.op /\ r.pc = pc /\ r.new = q.new
    BY <1>2, <1>3, <2>1
  <2> QED
    BY <1>1, <1>2, <1>3, <2>2 DEF TypeRows!Request
<1>4. CASE q.op = "update" /\ pc = "link"
  <2>1. q \in [op : {"update"}, pc : {"checked", "link"}, current : TypeRows!TypeRow,
               new : TypeRows!TypeRow, stale : BOOLEAN]
    BY <1>2, <1>4, TypesShapes
  <2>2. /\ r \in [op : {"update"}, pc : {"checked", "link"}, current : TypeRows!TypeRow,
                  new : TypeRows!TypeRow, stale : BOOLEAN]
        /\ r.op = q.op /\ r.pc = pc /\ r.new = q.new
    BY <1>2, <1>4, <2>1
  <2> QED
    BY <1>1, <1>2, <1>4, <2>2 DEF TypeRows!Request
<1>5. CASE q.op = "delete" /\ pc = "deleted"
  <2>1. q \in [op : {"delete"}, pc : {"checked", "deleted"}, used : BOOLEAN, stale : BOOLEAN]
    BY <1>2, <1>5, TypesShapes
  <2>2. /\ r \in [op : {"delete"}, pc : {"checked", "deleted"}, used : BOOLEAN, stale : BOOLEAN]
        /\ r.op = q.op /\ r.pc = pc
    BY <1>2, <1>5, <2>1
  <2> QED
    BY <1>1, <1>2, <1>5, <2>2 DEF TypeRows!Request
<1>6. CASE q.op = "review" /\ pc = "applied"
  <2>1. q \in [op : {"review"}, pc : {"read", "applied"}, definition : TypeRows!Proposals,
               existing : TypeRows!TypeRow \cup {None}, stale : BOOLEAN]
    BY <1>2, <1>6, TypesShapes
  <2>2. /\ r \in [op : {"review"}, pc : {"read", "applied"}, definition : TypeRows!Proposals,
                  existing : TypeRows!TypeRow \cup {None}, stale : BOOLEAN]
        /\ r.op = q.op /\ r.pc = pc /\ r.existing = q.existing
    BY <1>2, <1>6, <2>1
  <2> QED
    BY <1>1, <1>2, <1>6, <2>2 DEF TypeRows!Request
<1> QED
  BY <1>1, <1>3, <1>4, <1>5, <1>6

(* What a write that leaves the row alone keeps.                           *)
LEMMA TypesRowKept ==
    ASSUME TypesInv, NEW c \in Clients, request[c] # None, NEW r \in TypeRows!Request \cup {None},
           TypeRows!Move(c, r, TRUE), UNCHANGED <<kind, row, revision, requests>>
    PROVE  TypesArchived' /\ TypeRows!RevisionsFaithful'
<1>1. ~typeRaced' => ~typeRaced
  BY TypesMove
<1> QED
  BY <1>1 DEF TypesInv, TypesArchived, TypeRows!RevisionsFaithful

LEMMA TypesBranchKept ==
    ASSUME TypesInv, NEW c \in Clients, request[c] # None, NEW r \in TypeRows!Request \cup {None},
           TypeRows!Move(c, r, TRUE), UNCHANGED <<branch, applied>>
    PROVE  TypeRows!MergedIsApplied'
<1>1. ~typeRaced' => ~typeRaced
  BY TypesMove
<1> QED
  BY <1>1 DEF TypesInv, TypeRows!MergedIsApplied

LEMMA TypesInsertRow ==
    ASSUME TypesInv, NEW c \in Clients, TypeRows!InsertRow(c)
    PROVE  TypesInv'
<1>1. /\ request[c] # None /\ request[c].op = "create" /\ request[c].pc = "checked"
      /\ UNCHANGED <<kind, used, linked, project, branch, applied, ungoverned, requests>>
  BY DEF TypeRows!InsertRow, TypeRows!At, TypeRows!spice, TypeRows!counters
<1>2. CASE row # None
  <2>1. UNCHANGED <<row, revision>> /\ TypeRows!Move(c, None, FALSE)
    BY <1>2 DEF TypeRows!InsertRow
  <2> QED
    BY <1>1, <2>1, TypesDropped
<1>3. CASE row = None
  <2>1. PICK r : r = TypeRows!Then(c, "inserted")
    OBVIOUS
  <2>2. PICK n : n = request[c].new
    OBVIOUS
  <2>3. TypeRows!Insert(n) /\ TypeRows!Move(c, r, TRUE)
    BY <1>3, <2>1, <2>2 DEF TypeRows!InsertRow
  <2>4. r \in TypeRows!Request /\ r # None /\ r.op = "create" /\ r.pc = "inserted" /\ r.new = n
    BY <1>1, <2>1, <2>2, TypesThen
  <2>5. n \in TypeRows!TypeRow /\ n.version = 1
    <3>1. request[c] \in TypeRows!Request
      BY <1>1, TypesFacts
    <3>2. request[c].new \in TypeRows!TypeRow
      BY <1>1, <3>1, TypesShapes
    <3> QED
      BY <1>1, <2>2, <3>2 DEF TypesInv, TypesFit
  <2>6. /\ request'[c] = r /\ (~typeRaced' => ~typeRaced)
    BY <1>1, <2>3, <2>4, TypesMove
  <2>7. /\ row' = n /\ revision' \in [TypeRows!Versions -> Payloads \cup {None}]
        /\ TypesArchived' /\ TypeRows!RevisionsFaithful'
    BY <1>1, <1>3, <2>3, <2>5, <2>6, TypesInserted
  <2>8. Agreed => Owes(c)'
    BY <1>1, <1>3, <2>4, <2>6, <2>7 DEF Agreed, Owes
  <2>9. TypeRows!MergedIsApplied'
    BY <1>1, <2>3, <2>4, TypesBranchKept
  <2> QED
    BY <1>1, <2>2, <2>3, <2>4, <2>5, <2>7, <2>8, <2>9, TypesWrote DEF TypesInv, TypesType
<1> QED
  BY <1>2, <1>3

LEMMA TypesSeedLink ==
    ASSUME TypesInv, NEW c \in Clients, TypeRows!SeedLink(c)
    PROVE  TypesInv'
<1>1. PICK r : r = TypeRows!Then(c, "link")
  OBVIOUS
<1>2. /\ request[c] # None /\ request[c].op = "create" /\ request[c].pc = "inserted"
      /\ linked' = TRUE /\ TypeRows!Move(c, r, TRUE)
      /\ UNCHANGED <<kind, used, row, revision, project, branch, applied, ungoverned, requests>>
  BY <1>1 DEF TypeRows!SeedLink, TypeRows!At, TypeRows!counters
<1>3. r \in TypeRows!Request /\ r # None /\ r.op = "create" /\ r.pc = "link" /\ r.new = request[c].new
  BY <1>1, <1>2, TypesThen
<1>4. request'[c] = r
  BY <1>2, <1>3, TypesMove
<1>5. TypesArchived' /\ TypeRows!RevisionsFaithful' /\ TypeRows!MergedIsApplied'
  BY <1>2, <1>3, TypesRowKept, TypesBranchKept
<1>6. Owes(c) => Owes(c)'
  <2>1. request[c].new # None
    <3>1. request[c] \in TypeRows!Request
      BY <1>2, TypesFacts
    <3> QED
      BY <1>2, <3>1, TypesShapes, TypesFacts
  <2> QED
    BY <1>2, <1>3, <1>4, <2>1 DEF Owes
<1> QED
  BY <1>2, <1>3, <1>5, <1>6, TypesWrote DEF TypesInv, TypesType

LEMMA TypesSeedFails ==
    ASSUME TypesInv, NEW c \in Clients, TypeRows!SeedFails(c)
    PROVE  TypesInv'
<1>1. /\ request[c] # None /\ request[c].op = "create" /\ request[c].pc = "inserted"
      /\ TypeRows!Move(c, None, TRUE)
      /\ UNCHANGED <<kind, used, linked, project, branch, applied, requests>>
  BY DEF TypeRows!SeedFails, TypeRows!At, TypeRows!spice
<1>2. TypeRows!MergedIsApplied'
  BY <1>1, TypesBranchKept
<1>3. CASE row' = None /\ revision' = TypeRows!NoRevisions /\ UNCHANGED ungoverned
  <2>1. \A v \in TypeRows!Versions : revision'[v] = None
    BY <1>3 DEF TypeRows!NoRevisions
  <2>2. revision' \in [TypeRows!Versions -> Payloads \cup {None}]
    BY <1>3 DEF TypeRows!NoRevisions
  <2>3. TypesArchived' /\ TypeRows!RevisionsFaithful'
    BY <1>3, <2>1 DEF TypesArchived, TypeRows!RevisionsFaithful
  <2>4. Owes(c) => Agreed'
    BY <1>1, <1>3 DEF Owes, Agreed
  <2> QED
    BY <1>1, <1>2, <1>3, <2>2, <2>3, <2>4, TypesWrote DEF TypesInv, TypesType
<1>4. CASE ungoverned' = TRUE /\ UNCHANGED <<row, revision>>
  <2>1. TypesArchived' /\ TypeRows!RevisionsFaithful'
    BY <1>1, <1>4, TypesRowKept
  <2> QED
    BY <1>1, <1>2, <1>4, <2>1, TypesWrote DEF TypesInv, TypesType
<1> QED
  BY <1>3, <1>4 DEF TypeRows!SeedFails

LEMMA TypesLinkProject ==
    ASSUME TypesInv, NEW c \in Clients, TypeRows!LinkProject(c)
    PROVE  TypesInv'
<1>1. /\ request[c] # None /\ request[c].op \in {"create", "update"} /\ request[c].pc = "link"
      /\ TypeRows!Move(c, None, TRUE)
      /\ UNCHANGED <<kind, used, row, revision, linked, branch, applied, requests>>
      /\ \/ project' = request[c].new.project /\ UNCHANGED ungoverned
         \/ ungoverned' = TRUE /\ UNCHANGED project
  BY DEF TypeRows!LinkProject, TypeRows!At
<1>2. TypesArchived' /\ TypeRows!RevisionsFaithful' /\ TypeRows!MergedIsApplied'
  BY <1>1, TypesRowKept, TypesBranchKept
<1>3. request[c].new.project \in Projects \cup {None}
  <2>1. request[c] \in TypeRows!Request
    BY <1>1, TypesFacts
  <2>2. request[c].new \in TypeRows!TypeRow
    BY <1>1, <2>1, TypesShapes
  <2> QED
    BY <2>2 DEF TypeRows!TypeRow
<1>4. CASE project' = request[c].new.project /\ UNCHANGED ungoverned
  <2>1. Owes(c) => Agreed'
    BY <1>1, <1>4 DEF Owes, Agreed
  <2> QED
    BY <1>1, <1>2, <1>3, <1>4, <2>1, TypesWrote DEF TypesInv, TypesType
<1>5. CASE ungoverned' = TRUE /\ UNCHANGED project
  BY <1>1, <1>2, <1>5, TypesWrote DEF TypesInv, TypesType
<1> QED
  BY <1>1, <1>4, <1>5

LEMMA TypesApplyUpdate ==
    ASSUME TypesInv, NEW c \in Clients, TypeRows!ApplyUpdate(c)
    PROVE  TypesInv'
<1>1. /\ request[c] # None /\ request[c].op = "update" /\ request[c].pc = "checked"
      /\ UNCHANGED <<kind, used, linked, project, branch, applied, ungoverned, requests>>
  BY DEF TypeRows!ApplyUpdate, TypeRows!At, TypeRows!spice, TypeRows!counters
<1>2. CASE row = None
  <2>1. UNCHANGED <<row, revision>> /\ TypeRows!Move(c, None, FALSE)
    BY <1>2 DEF TypeRows!ApplyUpdate
  <2> QED
    BY <1>1, <2>1, TypesDropped
<1>3. CASE row # None
  <2>1. PICK old, n : old = request[c].current /\ n = request[c].new
    OBVIOUS
  <2>2. PICK r : r = IF n.project # old.project THEN TypeRows!Then(c, "link") ELSE None
    OBVIOUS
  <2>3. TypeRows!Update(old, n) /\ TypeRows!Move(c, r, TRUE)
    BY <1>3, <2>1, <2>2 DEF TypeRows!ApplyUpdate
  <2>4. old \in TypeRows!TypeRow /\ n \in TypeRows!TypeRow
    <3>1. request[c] \in TypeRows!Request
      BY <1>1, TypesFacts
    <3> QED
      BY <1>1, <2>1, <3>1, TypesShapes
  <2>5. /\ n.project # old.project => r \in TypeRows!Request /\ r # None /\ r.op = "update"
                                      /\ r.pc = "link" /\ r.new = n
        /\ n.project = old.project => r = None
    BY <1>1, <2>1, <2>2, TypesThen
  <2>6. r \in TypeRows!Request \cup {None}
    BY <2>5
  <2>7. request'[c] = r /\ (~typeRaced' => ~typeRaced /\ ~request[c].stale)
    BY <1>1, <2>3, <2>6, TypesMove
  <2>8. ~typeRaced' => ~typeRaced /\ row = old /\ UpdateOf(old, n) /\ old.version <= requests
    BY <1>1, <2>1, <2>7 DEF TypesInv, TypesCalm, CalmOf
  <2>9. /\ row' = n /\ row' # None /\ revision' \in [TypeRows!Versions -> Payloads \cup {None}]
        /\ TypesArchived' /\ TypeRows!RevisionsFaithful'
    BY <1>1, <2>3, <2>4, <2>8, TypesUpdated
  <2>10. TypeRows!MergedIsApplied'
    BY <1>1, <2>3, <2>6, TypesBranchKept
  <2>11. CASE n.project # old.project
    <3>1. Agreed => Owes(c)'
      BY <1>1, <1>3, <2>5, <2>7, <2>9, <2>11 DEF Agreed, Owes
    <3> QED
      BY <1>1, <2>3, <2>4, <2>5, <2>9, <2>10, <2>11, <3>1, TypesWrote DEF TypesInv, TypesType
  <2>12. CASE n.project = old.project
    <3>1. ~typeRaced' /\ Agreed => Agreed'
      BY <1>1, <1>3, <2>8, <2>9, <2>12 DEF Agreed
    <3> QED
      BY <1>1, <2>3, <2>4, <2>5, <2>9, <2>10, <2>12, <3>1, TypesWrote DEF TypesInv, TypesType
  <2> QED
    BY <2>11, <2>12
<1> QED
  BY <1>2, <1>3

LEMMA TypesDeleteRow ==
    ASSUME TypesInv, NEW c \in Clients, TypeRows!DeleteRow(c)
    PROVE  TypesInv'
<1>1. /\ request[c] # None /\ request[c].op = "delete" /\ request[c].pc = "checked"
      /\ UNCHANGED <<kind, used, revision, linked, project, branch, applied, ungoverned, requests>>
  BY DEF TypeRows!DeleteRow, TypeRows!At, TypeRows!spice, TypeRows!counters
<1>2. CASE UNCHANGED row /\ TypeRows!Move(c, None, FALSE)
  BY <1>1, <1>2, TypesDropped
<1>3. CASE row' = None /\ TypeRows!Move(c, TypeRows!Then(c, "deleted"), TRUE)
  <2>1. PICK r : r = TypeRows!Then(c, "deleted")
    OBVIOUS
  <2>2. r \in TypeRows!Request /\ r # None /\ r.op = "delete" /\ r.pc = "deleted"
    BY <1>1, <2>1, TypesThen
  <2>3. TypeRows!Move(c, r, TRUE)
    BY <1>3, <2>1
  <2>4. request'[c] = r
    BY <1>1, <2>2, <2>3, TypesMove
  <2>5. TypeRows!MergedIsApplied'
    BY <1>1, <2>2, <2>3, TypesBranchKept
  <2>6. kind # "value"
    BY <1>1 DEF TypesInv, TypesFit
  <2>7. TypesArchived' /\ TypeRows!RevisionsFaithful'
    BY <1>1, <1>3, <2>6 DEF TypesArchived, TypeRows!RevisionsFaithful
  <2>8. Owes(c)'
    BY <1>3, <2>2, <2>4 DEF Owes
  <2> QED
    BY <1>1, <1>3, <2>2, <2>3, <2>5, <2>7, <2>8, TypesWrote DEF TypesInv, TypesType
<1> QED
  BY <1>2, <1>3 DEF TypeRows!DeleteRow

LEMMA TypesUnlink ==
    ASSUME TypesInv, NEW c \in Clients, TypeRows!Unlink(c)
    PROVE  TypesInv'
<1>1. /\ request[c] # None /\ request[c].op = "delete" /\ request[c].pc = "deleted"
      /\ TypeRows!Move(c, None, TRUE)
      /\ UNCHANGED <<kind, used, row, revision, branch, applied, requests>>
      /\ \/ linked' = FALSE /\ project' = None /\ UNCHANGED ungoverned
         \/ ungoverned' = TRUE /\ UNCHANGED <<linked, project>>
  BY DEF TypeRows!Unlink, TypeRows!At, TypeRows!spice
<1>2. TypesArchived' /\ TypeRows!RevisionsFaithful' /\ TypeRows!MergedIsApplied'
  BY <1>1, TypesRowKept, TypesBranchKept
<1>3. CASE linked' = FALSE /\ project' = None /\ UNCHANGED ungoverned
  <2>1. Owes(c) => Agreed'
    BY <1>1, <1>3 DEF Owes, Agreed
  <2> QED
    BY <1>1, <1>2, <1>3, <2>1, TypesWrote DEF TypesInv, TypesType
<1>4. CASE ungoverned' = TRUE /\ UNCHANGED <<linked, project>>
  BY <1>1, <1>2, <1>4, TypesWrote DEF TypesInv, TypesType
<1> QED
  BY <1>1, <1>3, <1>4

LEMMA TypesWriteDraft ==
    ASSUME TypesInv, NEW c \in Clients, TypeRows!WriteDraft(c)
    PROVE  TypesInv'
<1>1. /\ request[c] # None /\ request[c].op = "draft" /\ request[c].pc = "checked"
      /\ TypeRows!Move(c, None, TRUE) /\ branch' = [branch EXCEPT !.proposal = request[c].proposal]
      /\ UNCHANGED <<kind, used, row, revision, linked, project, applied, ungoverned, requests>>
  BY DEF TypeRows!WriteDraft, TypeRows!At, TypeRows!spice, TypeRows!counters
<1>2. TypesArchived' /\ TypeRows!RevisionsFaithful'
  BY <1>1, TypesRowKept
<1>3. request[c].proposal \in TypeRows!Proposals
  <2>1. request[c] \in TypeRows!Request
    BY <1>1, TypesFacts
  <2> QED
    BY <1>1, <2>1, TypesShapes
<1>4. branch # None /\ branch \in TypeRows!Branch
  BY <1>1 DEF TypesInv, TypesType, TypesFit
<1>5. branch' \in TypeRows!Branch /\ branch'.status = branch.status
  BY <1>1, <1>3, <1>4 DEF TypeRows!Branch
<1>6. ~typeRaced' => branch.status = "open"
  <2>1. ~typeRaced' => ~typeRaced /\ ~request[c].stale
    BY <1>1, TypesMove
  <2> QED
    BY <1>1, <2>1 DEF TypesInv, TypesCalm, CalmOf
<1>7. TypeRows!MergedIsApplied'
  BY <1>5, <1>6 DEF TypeRows!MergedIsApplied
<1>8. branch # None => branch' # None
  <2>1. None \notin TypeRows!Branch
    BY KnowledgeAssumption
  <2> QED
    BY <1>5, <2>1
<1>9. Agreed => Agreed'
  BY <1>1 DEF Agreed
<1> QED
  BY <1>1, <1>2, <1>5, <1>7, <1>8, <1>9, TypesWrote DEF TypesInv, TypesType

LEMMA TypesMarkMerged ==
    ASSUME TypesInv, NEW c \in Clients, TypeRows!MarkMerged(c)
    PROVE  TypesInv'
<1>1. /\ request[c] # None /\ request[c].op = "review" /\ request[c].pc = "applied"
      /\ TypeRows!Move(c, None, TRUE) /\ branch' = [branch EXCEPT !.status = "merged"]
      /\ UNCHANGED <<kind, used, row, revision, linked, project, applied, ungoverned, requests>>
  BY DEF TypeRows!MarkMerged, TypeRows!At, TypeRows!spice, TypeRows!counters
<1>2. TypesArchived' /\ TypeRows!RevisionsFaithful'
  BY <1>1, TypesRowKept
<1>3. branch # None /\ branch \in TypeRows!Branch
  BY <1>1 DEF TypesInv, TypesType, TypesFit
<1>4. branch' \in TypeRows!Branch /\ branch'.proposal = branch.proposal
  BY <1>1, <1>3 DEF TypeRows!Branch
<1>5. ~typeRaced' => applied = branch.proposal
  <2>1. ~typeRaced' => ~typeRaced /\ ~request[c].stale
    BY <1>1, TypesMove
  <2> QED
    BY <1>1, <2>1 DEF TypesInv, TypesCalm, CalmOf
<1>6. TypeRows!MergedIsApplied'
  BY <1>1, <1>4, <1>5 DEF TypeRows!MergedIsApplied
<1>7. branch # None => branch' # None
  <2>1. None \notin TypeRows!Branch
    BY KnowledgeAssumption
  <2> QED
    BY <1>4, <2>1
<1>8. Agreed => Agreed'
  BY <1>1 DEF Agreed
<1> QED
  BY <1>1, <1>2, <1>4, <1>6, <1>7, <1>8, TypesWrote DEF TypesInv, TypesType

LEMMA TypesApplyMerge ==
    ASSUME TypesInv, NEW c \in Clients, TypeRows!ApplyMerge(c)
    PROVE  TypesInv'
<1>1. PICK old, d : old = request[c].existing /\ d = request[c].definition
  OBVIOUS
<1>2. /\ request[c] # None /\ request[c].op = "review" /\ request[c].pc = "read"
      /\ UNCHANGED <<kind, used, linked, project, branch, requests>>
  BY DEF TypeRows!ApplyMerge, TypeRows!At, TypeRows!spice, TypeRows!counters
<1>3. CASE ~((old = None) <=> (row = None))
  <2>1. UNCHANGED <<row, revision, applied, ungoverned>> /\ TypeRows!Move(c, None, FALSE)
    BY <1>1, <1>3 DEF TypeRows!ApplyMerge
  <2> QED
    BY <1>2, <2>1, TypesDropped
<1>4. CASE (old = None) <=> (row = None)
  <2>1. PICK r : r = TypeRows!Then(c, "applied")
    OBVIOUS
  <2>2. /\ IF old = None THEN TypeRows!Insert(TypeRows!CreateResource(d))
                         ELSE TypeRows!Update(old, TypeRows!UpdateResource(old, d))
        /\ applied' = d /\ TypeRows!Move(c, r, TRUE)
        /\ ungoverned' = (ungoverned \/ old = None \/ row'.project # old.project)
    BY <1>1, <1>4, <2>1 DEF TypeRows!ApplyMerge
  <2>3. r \in TypeRows!Request /\ r # None /\ r.op = "review" /\ r.pc = "applied" /\ r.existing = old
    BY <1>1, <1>2, <2>1, TypesThen
  <2>4. request'[c] = r /\ (~typeRaced' => ~typeRaced /\ ~request[c].stale)
    BY <1>2, <2>2, <2>3, TypesMove
  <2>5. d \in TypeRows!Proposals /\ old \in TypeRows!TypeRow \cup {None} /\ (old # None => old.version <= MaxRequests)
    <3>1. request[c] \in TypeRows!Request
      BY <1>2, TypesFacts
    <3>2. request[c].definition \in TypeRows!Proposals /\ request[c].existing \in TypeRows!TypeRow \cup {None}
      BY <1>2, <3>1, TypesShapes
    <3> QED
      BY <1>1, <1>2, <3>2 DEF TypesInv, TypesFit
  <2>6. ~typeRaced' => /\ ~typeRaced /\ branch # None /\ branch.status = "open" /\ d = branch.proposal
                       /\ old = row /\ (row # None => row.version <= requests)
    BY <1>1, <1>2, <2>4 DEF TypesInv, TypesCalm, CalmOf
  <2>7. TypeRows!MergedIsApplied'
    BY <1>2, <2>6 DEF TypeRows!MergedIsApplied
  <2>8. ~typeRaced' => branch' # None /\ applied' = branch'.proposal
    BY <1>2, <2>2, <2>6
  <2>9. CASE old = None
    <3>1. PICK n : n = TypeRows!CreateResource(d)
      OBVIOUS
    <3>2. n \in TypeRows!TypeRow /\ n.version = 1
      <4>1. 1 \in 1..(MaxRequests + 1)
        BY KnowledgeAssumption
      <4> QED
        BY <2>5, <3>1, <4>1 DEF TypeRows!CreateResource, TypeRows!TypeRow, TypeRows!Versions, TypeRows!Proposals
    <3>3. row = None /\ TypeRows!Insert(n) /\ ungoverned' = TRUE
      BY <1>4, <2>2, <2>9, <3>1
    <3>4. /\ row' = n /\ revision' \in [TypeRows!Versions -> Payloads \cup {None}]
          /\ TypesArchived' /\ TypeRows!RevisionsFaithful'
      BY <1>2, <2>4, <3>2, <3>3, TypesInserted
    <3> QED
      BY <1>1, <1>2, <2>2, <2>3, <2>7, <2>8, <3>2, <3>3, <3>4, TypesWrote DEF TypesInv, TypesType
  <2>10. CASE old # None
    <3>1. PICK n : n = TypeRows!UpdateResource(old, d)
      OBVIOUS
    <3>2. old \in TypeRows!TypeRow /\ old.version <= MaxRequests
      BY <2>5, <2>10
    <3>3. PICK p : p = IF kind = "shared" \/ d.project = None THEN old.project
                       ELSE IF d.project = "clear" THEN None ELSE d.project
      OBVIOUS
    <3>a. /\ d.payload \in Payloads /\ d.project \in Projects \cup {None, "clear"}
          /\ old.project \in Projects \cup {None} /\ old.active \in BOOLEAN
      BY <2>5, <3>2 DEF TypeRows!TypeRow, TypeRows!Proposals
    <3>b. p \in Projects \cup {None}
      BY <3>3, <3>a
    <3>4. n = TypeRows!Updated(old, d.payload, p, old.active)
      BY <3>1, <3>3 DEF TypeRows!UpdateResource
    <3>5. n \in TypeRows!TypeRow /\ UpdateOf(old, n) /\ n.project = p
      BY <3>2, <3>a, <3>b, <3>4, TypesUpdate
    <3>6. /\ row # None /\ TypeRows!Update(old, n) /\ ungoverned' \in BOOLEAN
          /\ ~ungoverned' => ~ungoverned /\ row'.project = old.project
      BY <1>4, <2>2, <2>10, <3>1 DEF TypesInv, TypesType
    <3>7. ~typeRaced' => ~typeRaced /\ row = old /\ UpdateOf(old, n) /\ old.version <= requests
      BY <2>6, <2>10, <3>5
    <3>8. /\ row' = n /\ row' # None /\ revision' \in [TypeRows!Versions -> Payloads \cup {None}]
          /\ TypesArchived' /\ TypeRows!RevisionsFaithful'
      BY <1>2, <3>2, <3>5, <3>6, <3>7, TypesUpdated
    <3>9. ~typeRaced' /\ ~ungoverned' /\ Agreed => Agreed'
      BY <1>2, <3>5, <3>6, <3>7, <3>8 DEF Agreed
    <3> QED
      BY <1>1, <1>2, <2>2, <2>3, <2>7, <2>8, <3>5, <3>6, <3>8, <3>9, TypesWrote DEF TypesInv, TypesType
  <2> QED
    BY <2>9, <2>10
<1> QED
  BY <1>3, <1>4

LEMMA TypesDies ==
    ASSUME TypesInv, NEW c \in Clients, TypeRows!RequestDies(c)
    PROVE  TypesInv'
<1>1. /\ request[c] # None /\ request' = [request EXCEPT ![c] = None]
      /\ ungoverned' = (ungoverned \/ request[c].pc \in {"inserted", "link", "deleted"})
      /\ UNCHANGED <<kind, used, row, revision, linked, project, branch, applied, typeRaced, requests>>
  BY DEF TypeRows!RequestDies, TypeRows!spice
<1>2. request' \in [Clients -> TypeRows!Request \cup {None}]
  BY <1>1 DEF TypesInv, TypesType
<1>3. \A d \in Clients : request'[d] = IF d = c THEN None ELSE request[d]
  BY <1>1 DEF TypesInv, TypesType
<1>4. ungoverned' \in BOOLEAN
  BY <1>1 DEF TypesInv, TypesType
<1>5. ~ungoverned' => ~ungoverned /\ request[c].pc \notin {"inserted", "link", "deleted"}
  BY <1>1
<1> QED
  BY <1>1, <1>2, <1>3, <1>4, <1>5, TypesQuit

(* A boot writes the parents as the row has them; what is in flight is     *)
(* stale.                                                                  *)
LEMMA TypesBackfill ==
    ASSUME TypesInv, TypeRows!Backfill
    PROVE  TypesInv'
<1>1. /\ row # None /\ linked' = TRUE /\ project' = row.project /\ ungoverned' = FALSE
      /\ request' = [c \in Clients |->
                       IF request[c] = None THEN None ELSE [request[c] EXCEPT !.stale = TRUE]]
      /\ UNCHANGED <<kind, used, row, revision, branch, applied, typeRaced, requests>>
  BY DEF TypeRows!Backfill, TypeRows!counters
<1>2. \A d \in Clients : request[d] = None => request'[d] = None
  BY <1>1
<1>3. ASSUME NEW d \in Clients, request[d] # None
      PROVE  /\ request'[d] \in TypeRows!Request
             /\ request'[d] # None /\ request'[d].stale = TRUE
             /\ request'[d].op = request[d].op /\ request'[d].pc = request[d].pc
             /\ request[d].op = "create" => request'[d].new = request[d].new
             /\ request[d].op = "review" => request'[d].existing = request[d].existing
  <2>1. PICK q, s : q = request'[d] /\ s = request[d]
    OBVIOUS
  <2>2. s \in TypeRows!Request /\ q = [s EXCEPT !.stale = TRUE] /\ None \notin TypeRows!Request
    BY <1>1, <1>3, <2>1, TypesFacts
  <2>3. /\ q \in TypeRows!Request /\ q.op = s.op /\ q.pc = s.pc /\ q.stale = TRUE
        /\ s.op = "create" => q.new = s.new
        /\ s.op = "review" => q.existing = s.existing
    BY <2>2, TypesStale
  <2> QED
    BY <2>1, <2>2, <2>3
<1>4. request' \in [Clients -> TypeRows!Request \cup {None}]
  <2>1. \A d \in Clients : request'[d] \in TypeRows!Request \cup {None}
    BY <1>2, <1>3
  <2>2. request' = [d \in Clients |-> request'[d]]
    BY <1>1
  <2> QED
    BY <2>1, <2>2
<1>5. TypesType'
  <2>1. row.project \in Projects \cup {None}
    BY <1>1, TypesFacts DEF TypeRows!TypeRow
  <2> QED
    BY <1>1, <1>4, <2>1 DEF TypesInv, TypesType
<1>6. TypesFit'
  <2> SUFFICES ASSUME NEW d \in Clients, request'[d] # None
               PROVE  /\ request'[d].op = "create" => request'[d].new.version = 1
                      /\ request'[d].op = "delete" => kind' # "value"
                      /\ request'[d].op \in {"draft", "review"} => branch' # None
                      /\ request'[d].op = "review" /\ request'[d].existing # None =>
                            request'[d].existing.version <= MaxRequests
    BY DEF TypesFit
  <2>1. request[d] # None
    BY <1>2
  <2>2. /\ request[d].op = "create" => request[d].new.version = 1
        /\ request[d].op = "delete" => kind # "value"
        /\ request[d].op \in {"draft", "review"} => branch # None
        /\ request[d].op = "review" /\ request[d].existing # None =>
              request[d].existing.version <= MaxRequests
    BY <2>1 DEF TypesInv, TypesFit
  <2>3. /\ request'[d].op = request[d].op
        /\ request[d].op = "create" => request'[d].new = request[d].new
        /\ request[d].op = "review" => request'[d].existing = request[d].existing
    BY <1>3, <2>1
  <2> QED
    BY <1>1, <2>2, <2>3
<1>7. TypesCalm'
  BY <1>2, <1>3 DEF TypesCalm
<1>8. TypesOwed'
  <2>1. \A d \in Clients : Owing(d)' => request'[d].stale
    BY <1>2, <1>3 DEF Owing
  <2>2. Agreed'
    BY <1>1 DEF Agreed
  <2> QED
    BY <2>1, <2>2 DEF TypesOwed
<1>9. TypesArchived' /\ TypeRows!RevisionsFaithful' /\ TypeRows!MergedIsApplied'
  BY <1>1 DEF TypesInv, TypesArchived, TypeRows!RevisionsFaithful, TypeRows!MergedIsApplied
<1> QED
  BY <1>5, <1>6, <1>7, <1>8, <1>9 DEF TypesInv

(* Nothing moves but the branch, which opens, or what refers to the type.  *)
LEMMA TypesBeside ==
    ASSUME TypesInv,
           UNCHANGED <<kind, row, revision, linked, project, applied, request, typeRaced, ungoverned, requests>>,
           used' \in BOOLEAN,
           \/ UNCHANGED branch
           \/ branch = None /\ \E x \in Drafts : branch' = [status |-> "open", proposal |-> x]
    PROVE  TypesInv'
<1>1. TypesType'
  BY KnowledgeAssumption DEF TypesInv, TypesType, TypeRows!Branch
<1>2. branch # None => branch' = branch
  OBVIOUS
<1>3. TypesFit'
  BY <1>2 DEF TypesInv, TypesFit
<1>4. TypesCalm'
  <2> SUFFICES ASSUME ~typeRaced', NEW c \in Clients, request'[c] # None, ~request'[c].stale
               PROVE  CalmOf(c)'
    BY DEF TypesCalm
  <2>1. CalmOf(c)
    BY DEF TypesInv, TypesCalm
  <2> QED
    BY <1>2, <2>1 DEF CalmOf, UpdateOf
<1>5. TypesOwed'
  BY DEF TypesInv, TypesOwed, Owing, Owes, Agreed
<1>6. TypesArchived' /\ TypeRows!RevisionsFaithful'
  BY DEF TypesInv, TypesArchived, TypeRows!RevisionsFaithful
<1>7. TypeRows!MergedIsApplied'
  <2>1. CASE UNCHANGED branch
    BY <2>1 DEF TypesInv, TypeRows!MergedIsApplied
  <2>2. CASE \E x \in Drafts : branch' = [status |-> "open", proposal |-> x]
    <3>1. branch'.status = "open"
      BY <2>2
    <3> QED
      BY <3>1 DEF TypeRows!MergedIsApplied
  <2> QED
    BY <2>1, <2>2
<1> QED
  BY <1>1, <1>3, <1>4, <1>5, <1>6, <1>7 DEF TypesInv

LEMMA TypesStep == TypesInv /\ [TypeRows!Next]_(TypeRows!vars) => TypesInv'
<1> SUFFICES ASSUME TypesInv, [TypeRows!Next]_(TypeRows!vars) PROVE TypesInv'
  OBVIOUS
<1>1. CASE UNCHANGED TypeRows!vars
  <2>1. UNCHANGED <<kind, row, revision, linked, project, branch, applied, request, typeRaced,
                    ungoverned, requests>>
    BY <1>1 DEF TypeRows!vars
  <2>2. used' \in BOOLEAN
    BY <1>1 DEF TypeRows!vars, TypesInv, TypesType
  <2> QED
    BY <2>1, <2>2, TypesBeside
<1>2. ASSUME NEW c \in Clients, NEW x \in Payloads, NEW p \in Projects \cup {None},
             TypeRows!CheckCreate(c, x, p) \/ \E a \in BOOLEAN : TypeRows!CheckUpdate(c, x, p, a)
      PROVE  TypesInv'
  BY <1>2, TypesChecks
<1>3. ASSUME NEW c \in Clients, NEW x \in Drafts, TypeRows!CheckDraft(c, x)
      PROVE  TypesInv'
  BY <1>3, TypesCheckDraft
<1>4. ASSUME NEW c \in Clients, TypeRows!CheckDelete(c) \/ TypeRows!Review(c)
      PROVE  TypesInv'
  <2>1. Payloads # {} => TypesInv'
    BY <1>4, TypesChecks
  <2>2. Payloads = {} => row = None /\ branch = None
    BY DEF TypesInv, TypesType, TypeRows!TypeRow, TypeRows!Branch, TypeRows!Proposals
  <2>3. row # None \/ branch # None
    BY <1>4 DEF TypeRows!CheckDelete, TypeRows!Review
  <2> QED
    BY <2>1, <2>2, <2>3
<1>5. ASSUME NEW c \in Clients,
             \/ TypeRows!InsertRow(c) \/ TypeRows!SeedLink(c) \/ TypeRows!SeedFails(c)
             \/ TypeRows!LinkProject(c) \/ TypeRows!ApplyUpdate(c)
      PROVE  TypesInv'
  BY <1>5, TypesInsertRow, TypesSeedLink, TypesSeedFails, TypesLinkProject, TypesApplyUpdate
<1>6. ASSUME NEW c \in Clients,
             \/ TypeRows!DeleteRow(c) \/ TypeRows!Unlink(c) \/ TypeRows!WriteDraft(c)
             \/ TypeRows!ApplyMerge(c) \/ TypeRows!MarkMerged(c) \/ TypeRows!RequestDies(c)
      PROVE  TypesInv'
  BY <1>6, TypesDeleteRow, TypesUnlink, TypesWriteDraft, TypesApplyMerge, TypesMarkMerged, TypesDies
<1>7. ASSUME NEW x \in Drafts, TypeRows!OpenBranch(x) PROVE TypesInv'
  <2>1. /\ UNCHANGED <<kind, row, revision, linked, project, applied, request, typeRaced, ungoverned, requests>>
        /\ branch = None /\ branch' = [status |-> "open", proposal |-> x] /\ used' \in BOOLEAN
    BY <1>7 DEF TypeRows!OpenBranch, TypeRows!spice, TypeRows!ghosts, TypeRows!counters,
                TypesInv, TypesType
  <2> QED
    BY <2>1, TypesBeside
<1>8. ASSUME NEW yes \in BOOLEAN, TypeRows!PublishUse(yes) PROVE TypesInv'
  <2>1. /\ UNCHANGED <<kind, row, revision, linked, project, branch, applied, request, typeRaced,
                       ungoverned, requests>>
        /\ used' \in BOOLEAN
    BY <1>8 DEF TypeRows!PublishUse, TypeRows!spice, TypeRows!ghosts, TypeRows!counters
  <2> QED
    BY <2>1, TypesBeside
<1>9. CASE TypeRows!Backfill
  BY <1>9, TypesBackfill
<1>10. CASE TypeRows!Next
  BY <1>2, <1>3, <1>4, <1>5, <1>6, <1>7, <1>8, <1>9, <1>10, Zenon DEF TypeRows!Next
<1> QED
  BY <1>1, <1>10

(* Nobody has a request between two writes when everything is quiet.       *)
LEMMA TypesKept == TypesInv => TypesGoverned
<1> SUFFICES ASSUME TypesInv PROVE TypesGoverned
  OBVIOUS
<1>1. TypeRows!RevisionsFaithful /\ TypeRows!MergedIsApplied
  BY DEF TypesInv
<1>2. TypeRows!TypeGoverned
  BY DEF TypesInv, TypesOwed, Owing, Agreed, TypeRows!TypeGoverned, TypeRows!Quiet
<1> QED
  BY <1>1, <1>2 DEF TypesGoverned

(***************************************************************************)
(* However registrations, updates, deletions and merges interleave and     *)
(* wherever one dies between PostgreSQL and SpiceDB: unless a request went *)
(* on after the write of another, every version of a type is archived as   *)
(* it was, a merged branch shows the proposal that was applied, and        *)
(* between requests PostgreSQL and SpiceDB agree on the parents of the     *)
(* type unless a merge that created it or changed its project, or a        *)
(* failure that was only reported, left it ungoverned. For any clients,    *)
(* payloads, projects, proposals and number of requests.                   *)
(***************************************************************************)
THEOREM TypesAreGoverned == Spec => []TypesGoverned
<1>1. Init => TypesInv
  BY TypesInit DEF Init
<1>2. TypesInv /\ [Next]_vars => TypesInv'
  BY ComponentSteps, TypesStep
<1>3. TypesInv => TypesGoverned
  BY TypesKept
<1> QED
  BY <1>1, <1>2, <1>3, PTL DEF Spec

-----------------------------------------------------------------------------
(* Serving                                                                 *)
Fetched == [pc : {"fetched", "stored"}, rows : Serving!Contents, snap : Nat]
Built == [pc : {"built"}, rows : Serving!Contents, snap : Nat, at : Nat]
Rebuild == [pc : {"read", "land", "purge"}, started : Nat, gen : Nat, after : Nat,
            row : Serving!Instance \cup {None}, purge : BOOLEAN, clean : BOOLEAN, late : BOOLEAN]

ServingType ==
    /\ table \in Serving!Contents /\ version \in Nat
    /\ events \in Seq(Nat)
    /\ store \in [Ids -> Serving!Instance \cup {None}]
    /\ history \in [Ids -> Serving!Values \cup {None}]
    /\ tomb \subseteq Ids /\ spared \subseteq Ids
    /\ done \subseteq [kind : {"create", "delete"}, id : Ids]
    /\ index \in [Ids -> Serving!Document \cup {None}]
    /\ ingest \in {Serving!Idle} \cup Fetched \cup Built
    /\ reindex \in {Serving!Idle} \cup Rebuild
    /\ clock \in Nat /\ reindexes \in Nat
    /\ behind \in BOOLEAN /\ raced \in BOOLEAN /\ exact \in BOOLEAN

Synced(i) == store[i] # None /\ store[i].snap # 0

(* The event in hand stays queued; once stored, its rows are the synced    *)
(* ones.  Documents and reindexes are dated in the past.                   *)
ServingInHand ==
    /\ ingest # Serving!Idle => events # <<>>
    /\ ingest.pc \in {"stored", "built"} =>
          \A i \in Ids : Synced(i) => ingest.rows[i] = store[i].val
    /\ ingest.pc = "built" => ingest.at < clock
    /\ \A i \in Ids : index[i] # None => index[i].at < clock /\ index[i].gen <= reindexes
    /\ reindex # Serving!Idle => reindex.started < clock /\ reindex.gen = reindexes
    /\ reindex.pc = "land" => reindex.after \in Ids /\ reindex.row # None

(* The rows a reindex is past.                                             *)
Passed(i) == \/ reindex.pc = "purge" \/ i < reindex.after
             \/ i = reindex.after /\ reindex.pc = "read"

(* The purge will spare the documents of the rows the reindex is past.     *)
ServingSpares ==
    reindex # Serving!Idle /\ ~reindex.late /\ events = <<>> /\ ~behind /\ ~raced =>
        \A i \in Ids \ (tomb \cup spared) : Synced(i) /\ Passed(i) =>
            index[i] # None /\ (index[i].gen = reindex.gen \/ index[i].at >= reindex.started)

(* Beside a reindex that nothing overlapped, a document is either new and  *)
(* of a row that is there, or older than the reindex.                      *)
ServingClean ==
    reindex # Serving!Idle /\ reindex.clean =>
        /\ \A i \in Ids : index[i] # None =>
              IF index[i].gen = reindex.gen THEN store[i] # None /\ i \notin tomb
                                            ELSE index[i].at < reindex.started
        /\ reindex.pc = "land" => store[reindex.after] # None /\ reindex.after \notin tomb

ServingExact ==
    exact =>
        /\ reindex # Serving!Idle => reindex.clean
        /\ \A i \in Ids : index[i] # None => store[i] # None /\ i \notin tomb

ServingInv ==
    /\ ServingType /\ ServingInHand /\ ServingSpares /\ ServingClean /\ ServingExact
    /\ Serving!SearchComplete /\ Serving!HistoryCurrent

(* The least of some naturals.                                             *)
LEMMA LeastOf ==
    ASSUME NEW S, S \subseteq Nat, S # {}
    PROVE  \E x \in S : \A y \in S : x <= y
<1> DEFINE R == OpToRel(<, Nat)
<1>1. IsWellFoundedOn(R, Nat)
  BY NatLessThanWellFounded
<1> HIDE DEF R
<1>2. PICK x \in S : \A y \in S : ~(<<y, x>> \in R)
  BY <1>1, WFMin
<1>3. \A y \in S : y < x => <<y, x>> \in R
  BY DEF R, OpToRel
<1>4. x \in Nat /\ \A y \in S : y \in Nat /\ ~(y < x)
  BY <1>2, <1>3
<1> QED
  BY <1>4

(* What the types say in the form the steps use it.                        *)
LEMMA ServingFacts ==
    ASSUME ServingInv
    PROVE  /\ Ids \subseteq Nat \ {0}
           /\ None \notin Serving!Values /\ None \notin Serving!Instance /\ None \notin Serving!Document
           /\ clock \in Nat /\ reindexes \in Nat
           /\ \A i \in Ids : store[i] # None => store[i] \in Serving!Instance
           /\ \A i \in Ids : index[i] # None => index[i] \in Serving!Document
           /\ reindex = Serving!Idle => reindex.pc = "idle"
           /\ reindex # Serving!Idle => reindex \in Rebuild
           /\ ingest = Serving!Idle => ingest.pc = "idle"
           /\ ingest.pc \in {"fetched", "stored"} => ingest \in Fetched
           /\ ingest.pc = "built" => ingest \in Built
<1> USE DEF ServingInv, ServingType
<1>1. Ids \subseteq Nat \ {0} /\ None \notin Serving!Instance /\ None \notin Serving!Document /\ None \notin Vals
  BY KnowledgeAssumption
<1>2. None \notin Serving!Values
  BY <1>1 DEF Serving!Values
<1>3. clock \in Nat /\ reindexes \in Nat
  OBVIOUS
<1>4. /\ \A i \in Ids : store[i] # None => store[i] \in Serving!Instance
      /\ \A i \in Ids : index[i] # None => index[i] \in Serving!Document
  OBVIOUS
<1>5. reindex = Serving!Idle => reindex.pc = "idle"
  BY DEF Serving!Idle
<1>6. reindex # Serving!Idle => reindex \in Rebuild
  OBVIOUS
<1>7. ingest = Serving!Idle => ingest.pc = "idle"
  BY DEF Serving!Idle
<1>8. ingest.pc \in {"fetched", "stored"} => ingest \in Fetched
  BY <1>7 DEF Built
<1>9. ingest.pc = "built" => ingest \in Built
  BY <1>7 DEF Fetched
<1> QED
  BY <1>1, <1>2, <1>3, <1>4, <1>5, <1>6, <1>7, <1>8, <1>9

LEMMA ServingInit == Serving!Init => ServingInv
<1> SUFFICES ASSUME Serving!Init PROVE ServingInv
  OBVIOUS
<1>1. /\ table = Serving!Empty /\ version = 0 /\ events = <<>> /\ store = Serving!Empty
      /\ history = Serving!Empty /\ tomb = {} /\ done = {} /\ index = Serving!Empty
      /\ ingest = Serving!Idle /\ reindex = Serving!Idle /\ clock = 1 /\ reindexes = 0
      /\ behind = FALSE /\ raced = FALSE /\ spared = {} /\ exact = FALSE
  BY DEF Serving!Init
<1>2. \A i \in Ids : Serving!Empty[i] = None
  BY DEF Serving!Empty
<1>3. \A S : Serving!Empty \in [Ids -> S \cup {None}]
  BY DEF Serving!Empty
<1>4. ServingType
  <2>1. table \in Serving!Contents
    BY <1>1, <1>3 DEF Serving!Contents
  <2>2. behind \in BOOLEAN /\ raced \in BOOLEAN /\ exact \in BOOLEAN
    BY <1>1
  <2>3. events \in Seq(Nat)
    BY <1>1
  <2> QED
    BY <1>1, <1>3, <2>1, <2>2, <2>3 DEF ServingType
<1>5. ingest.pc = "idle" /\ reindex.pc = "idle"
  BY <1>1 DEF Serving!Idle
<1>6. ServingInHand
  BY <1>1, <1>2, <1>5 DEF ServingInHand
<1>7. ServingSpares /\ ServingClean /\ ServingExact
  BY <1>1 DEF ServingSpares, ServingClean, ServingExact
<1>8. Serving!SearchComplete /\ Serving!HistoryCurrent
  BY <1>1, <1>2 DEF Serving!SearchComplete, Serving!HistoryCurrent
<1> QED
  BY <1>4, <1>6, <1>7, <1>8 DEF ServingInv

(* The consumer takes its event on without touching rows or documents.     *)
LEMMA ServingHandled ==
    ASSUME ServingInv, table' \in Serving!Contents, version' \in Nat, events' \in Seq(Nat),
           ingest' \in {Serving!Idle} \cup Fetched \cup Built, clock' \in Nat, clock <= clock',
           behind' \in BOOLEAN,
           UNCHANGED <<store, history, tomb, done, index, reindex, raced, spared, adopted, exact, reindexes>>,
           events' = <<>> /\ ~behind' => events = <<>> /\ ~behind,
           ingest' # Serving!Idle => events' # <<>>,
           ingest'.pc \in {"stored", "built"} => ingest.pc \in {"stored", "built"} /\ ingest'.rows = ingest.rows,
           ingest'.pc = "built" => ingest'.at < clock'
    PROVE  ServingInv'
<1>1. ServingType'
  BY DEF ServingInv, ServingType
<1>2. ServingInHand'
  <2>1. ingest'.pc \in {"stored", "built"} => \A i \in Ids : Synced(i)' => ingest'.rows[i] = store'[i].val
    BY DEF ServingInv, ServingInHand, Synced
  <2>2. \A i \in Ids : index'[i] # None => index'[i].at < clock' /\ index'[i].gen <= reindexes'
    <3>1. \A i \in Ids : index[i] # None => index[i].at \in Nat
      BY ServingFacts DEF Serving!Document
    <3> QED
      BY <3>1, ServingFacts DEF ServingInv, ServingInHand
  <2>3. reindex' # Serving!Idle => reindex'.started < clock' /\ reindex'.gen = reindexes'
    <3>1. reindex # Serving!Idle => reindex.started \in Nat
      BY ServingFacts DEF Rebuild
    <3> QED
      BY <3>1, ServingFacts DEF ServingInv, ServingInHand
  <2>4. reindex'.pc = "land" => reindex'.after \in Ids /\ reindex'.row # None
    BY DEF ServingInv, ServingInHand
  <2> QED
    BY <2>1, <2>2, <2>3, <2>4 DEF ServingInHand, Serving!Idle
<1>3. ServingSpares'
  BY DEF ServingInv, ServingSpares, Synced, Passed, Serving!Idle
<1>4. ServingClean'
  BY DEF ServingInv, ServingClean, Serving!Idle
<1>5. ServingExact'
  BY DEF ServingInv, ServingExact, Serving!Idle
<1>6. Serving!SearchComplete' /\ Serving!HistoryCurrent'
  BY DEF ServingInv, Serving!SearchComplete, Serving!HistoryCurrent
<1> QED
  BY <1>1, <1>2, <1>3, <1>4, <1>5, <1>6 DEF ServingInv

LEMMA ServingSync ==
    ASSUME ServingInv, NEW new \in Tables, Serving!Sync(new)
    PROVE  ServingInv'
<1>1. /\ table' = new /\ version' = version + 1 /\ events' = Append(events, version + 1)
      /\ UNCHANGED <<store, history, tomb, done, index, ingest, reindex, clock, behind, raced, spared,
                     adopted, exact, reindexes>>
  BY DEF Serving!Sync, Serving!rows, Serving!ghosts, Serving!counters
<1>2. version \in Nat /\ events \in Seq(Nat) /\ clock \in Nat /\ behind \in BOOLEAN
      /\ ingest \in {Serving!Idle} \cup Fetched \cup Built
  BY DEF ServingInv, ServingType
<1>3. version' \in Nat /\ events' \in Seq(Nat) /\ events' # <<>>
  BY <1>1, <1>2
<1>4. table' \in Serving!Contents
  BY <1>1, KnowledgeAssumption
<1>5. clock <= clock'
  BY <1>1, <1>2
<1>6. ingest'.pc = "built" => ingest'.at < clock'
  BY <1>1 DEF ServingInv, ServingInHand
<1> QED
  BY <1>1, <1>2, <1>3, <1>4, <1>5, <1>6, ServingHandled

LEMMA ServingFetchRows ==
    ASSUME ServingInv, Serving!FetchRows
    PROVE  ServingInv'
<1>1. /\ events # <<>> /\ ingest' = [pc |-> "fetched", rows |-> table, snap |-> Head(events)]
      /\ UNCHANGED <<table, version, events, store, history, tomb, done, index, reindex, clock,
                     behind, raced, spared, adopted, exact, reindexes>>
  BY DEF Serving!FetchRows, Serving!lake, Serving!rows, Serving!ghosts, Serving!counters
<1>2. version \in Nat /\ events \in Seq(Nat) /\ clock \in Nat /\ behind \in BOOLEAN /\ table \in Serving!Contents
  BY DEF ServingInv, ServingType
<1>3. Head(events) \in Nat
  BY <1>1, <1>2
<1>4. ingest' \in Fetched /\ ingest'.pc = "fetched"
  BY <1>1, <1>2, <1>3 DEF Fetched
<1>5. clock <= clock'
  BY <1>1, <1>2
<1> QED
  BY <1>1, <1>2, <1>4, <1>5, ServingHandled

LEMMA ServingBuildDocuments ==
    ASSUME ServingInv, Serving!BuildDocuments
    PROVE  ServingInv'
<1>1. /\ ingest.pc = "stored" /\ clock' = clock + 1
      /\ ingest' = [pc |-> "built", rows |-> ingest.rows, snap |-> ingest.snap, at |-> clock]
      /\ UNCHANGED <<table, version, events, store, history, tomb, done, index, reindex,
                     behind, raced, spared, adopted, exact, reindexes>>
  BY DEF Serving!BuildDocuments, Serving!lake, Serving!rows, Serving!ghosts, Serving!counters
<1>2. version \in Nat /\ events \in Seq(Nat) /\ clock \in Nat /\ behind \in BOOLEAN /\ table \in Serving!Contents
  BY DEF ServingInv, ServingType
<1>3. ingest \in Fetched /\ ingest # Serving!Idle
  BY <1>1, ServingFacts
<1>4. ingest' \in Built /\ ingest'.pc = "built" /\ ingest'.rows = ingest.rows /\ ingest'.at = clock
  BY <1>1, <1>2, <1>3 DEF Fetched, Built
<1>5. clock' \in Nat /\ clock <= clock' /\ ingest'.at < clock'
  BY <1>1, <1>2, <1>4
<1>6. events # <<>>
  BY <1>3 DEF ServingInv, ServingInHand
<1> QED
  BY <1>1, <1>2, <1>4, <1>5, <1>6, ServingHandled

LEMMA ServingIngestFails ==
    ASSUME ServingInv, Serving!IngestFails
    PROVE  ServingInv'
<1>1. /\ ingest # Serving!Idle /\ ingest' = Serving!Idle
      /\ \/ UNCHANGED <<events, behind>>
         \/ events' = Tail(events) /\ behind' = TRUE
      /\ UNCHANGED <<table, version, store, history, tomb, done, index, reindex, clock,
                     raced, spared, adopted, exact, reindexes>>
  BY DEF Serving!IngestFails, Serving!lake, Serving!rows
<1>2. version \in Nat /\ events \in Seq(Nat) /\ clock \in Nat /\ behind \in BOOLEAN /\ table \in Serving!Contents
  BY DEF ServingInv, ServingType
<1>3. events # <<>>
  BY <1>1 DEF ServingInv, ServingInHand
<1>4. events' \in Seq(Nat) /\ behind' \in BOOLEAN
  <2>1. Tail(events) \in Seq(Nat)
    BY <1>2, <1>3
  <2>2. events' \in Seq(Nat)
    BY <1>1, <1>2, <2>1
  <2>3. behind' \in BOOLEAN
    BY <1>1, <1>2
  <2> QED
    BY <2>2, <2>3
<1>5. ingest'.pc = "idle"
  BY <1>1 DEF Serving!Idle
<1>6. clock <= clock'
  BY <1>1, <1>2
<1> QED
  BY <1>1, <1>2, <1>3, <1>4, <1>5, <1>6, ServingHandled

(* A reindex that begins, reads or ends touches no row and no document.    *)
LEMMA ServingReindexed ==
    ASSUME ServingInv, reindex' \in {Serving!Idle} \cup Rebuild, reindexes' \in Nat, clock' \in Nat,
           clock <= clock', reindexes <= reindexes',
           UNCHANGED <<table, version, events, store, history, tomb, done, index, ingest, behind, raced,
                       spared, adopted, exact>>,
           reindex' # Serving!Idle => /\ reindex'.started < clock' /\ reindex'.gen = reindexes'
                                      /\ exact => reindex'.clean,
           reindex'.pc = "land" => reindex'.after \in Ids /\ reindex'.row # None,
           ServingSpares', ServingClean'
    PROVE  ServingInv'
<1>1. ServingType'
  BY DEF ServingInv, ServingType
<1>2. ServingInHand'
  <2>1. ingest'.pc \in {"stored", "built"} => \A i \in Ids : Synced(i)' => ingest'.rows[i] = store'[i].val
    BY DEF ServingInv, ServingInHand, Synced
  <2>2. \A i \in Ids : index'[i] # None => index'[i].at < clock' /\ index'[i].gen <= reindexes'
    <3>1. \A i \in Ids : index[i] # None => index[i].at \in Nat /\ index[i].gen \in Nat
      BY ServingFacts DEF Serving!Document
    <3> QED
      BY <3>1, ServingFacts DEF ServingInv, ServingInHand
  <2>3. ingest'.pc = "built" => ingest'.at < clock'
    <3>1. ingest.pc = "built" => ingest.at \in Nat
      BY ServingFacts DEF Built
    <3> QED
      BY <3>1, ServingFacts DEF ServingInv, ServingInHand
  <2>4. ingest' # Serving!Idle => events' # <<>>
    BY DEF ServingInv, ServingInHand
  <2> QED
    BY <2>1, <2>2, <2>3, <2>4 DEF ServingInHand, Serving!Idle
<1>3. ServingExact'
  BY DEF ServingInv, ServingExact, Serving!Idle
<1>4. Serving!SearchComplete' /\ Serving!HistoryCurrent'
  BY DEF ServingInv, Serving!SearchComplete, Serving!HistoryCurrent
<1> QED
  BY <1>1, <1>2, <1>3, <1>4 DEF ServingInv

LEMMA ServingBeginReindex ==
    ASSUME ServingInv, NEW purge \in BOOLEAN, Serving!BeginReindex(purge)
    PROVE  ServingInv'
<1>1. PICK r : r = [pc |-> "read", started |-> clock, gen |-> reindexes + 1, after |-> 0,
                    row |-> None, purge |-> purge, clean |-> TRUE, late |-> FALSE]
  OBVIOUS
<1>2. /\ reindexes' = reindexes + 1 /\ clock' = clock + 1 /\ reindex' = r
      /\ UNCHANGED <<table, version, events, store, history, tomb, done, index, ingest, behind, raced,
                     spared, adopted, exact>>
  BY <1>1 DEF Serving!BeginReindex, Serving!lake, Serving!rows, Serving!ghosts
<1>3. clock \in Nat /\ reindexes \in Nat /\ Ids \subseteq Nat \ {0}
  BY ServingFacts
<1>4. r \in Rebuild
  BY <1>1, <1>3 DEF Rebuild
<1>5. r.pc = "read" /\ r.started = clock /\ r.gen = reindexes + 1 /\ r.after = 0 /\ r.clean = TRUE
  BY <1>1
<1>6. /\ clock' \in Nat /\ reindexes' \in Nat /\ clock <= clock' /\ reindexes <= reindexes'
      /\ r.started < clock' /\ r.gen = reindexes'
  BY <1>2, <1>3, <1>5
<1>7. ServingSpares'
  <2>1. \A i \in Ids : ~Passed(i)'
    BY <1>2, <1>3, <1>5 DEF Passed
  <2> QED
    BY <2>1 DEF ServingSpares
<1>8. ServingClean'
  <2>1. \A i \in Ids : index[i] # None => index[i].at < clock /\ index[i].gen # reindexes + 1
    <3>1. \A i \in Ids : index[i] # None => index[i].gen \in Nat
      BY ServingFacts DEF Serving!Document
    <3> QED
      BY <1>3, <3>1 DEF ServingInv, ServingInHand
  <2> QED
    BY <1>2, <1>5, <2>1 DEF ServingClean
<1> QED
  BY <1>2, <1>4, <1>5, <1>6, <1>7, <1>8, ServingReindexed

LEMMA ServingReadPage ==
    ASSUME ServingInv, Serving!ReadPage
    PROVE  ServingInv'
<1>1. PICK ahead : ahead = {i \in Ids : i > reindex.after /\ store[i] # None /\ i \notin tomb}
  OBVIOUS
<1>2. PICK next : next = CHOOSE i \in ahead : \A j \in ahead : i <= j
  OBVIOUS
<1>3. /\ reindex.pc = "read"
      /\ reindex' = IF ahead = {}
                    THEN IF reindex.purge THEN [reindex EXCEPT !.pc = "purge"] ELSE Serving!Idle
                    ELSE [reindex EXCEPT !.pc = "land", !.after = next, !.row = store[next]]
      /\ UNCHANGED <<table, version, events, store, history, tomb, done, index, ingest, clock, behind,
                     raced, spared, adopted, exact, reindexes>>
  BY <1>1, <1>2 DEF Serving!ReadPage, Serving!lake, Serving!rows, Serving!ghosts, Serving!counters
<1>4. /\ reindex # Serving!Idle /\ reindex \in Rebuild /\ Ids \subseteq Nat \ {0}
      /\ clock \in Nat /\ reindexes \in Nat /\ reindex.after \in Nat
      /\ clock <= clock /\ reindexes <= reindexes
  BY <1>3, ServingFacts DEF Rebuild
<1>5. /\ reindex.started < clock /\ reindex.gen = reindexes /\ (exact => reindex.clean)
  BY <1>4 DEF ServingInv, ServingInHand, ServingExact
<1>6. CASE ahead = {} /\ ~reindex.purge
  <2>1. reindex' = Serving!Idle /\ reindex'.pc = "idle"
    BY <1>3, <1>6 DEF Serving!Idle
  <2>2. ServingSpares' /\ ServingClean'
    BY <2>1 DEF ServingSpares, ServingClean, Serving!Idle
  <2> QED
    BY <1>3, <1>4, <2>1, <2>2, ServingReindexed
<1>7. CASE ahead = {} /\ reindex.purge
  <2>1. reindex' = [reindex EXCEPT !.pc = "purge"]
    BY <1>3, <1>7
  <2>2. /\ reindex' \in Rebuild /\ reindex'.pc = "purge" /\ reindex'.started = reindex.started
        /\ reindex'.gen = reindex.gen /\ reindex'.clean = reindex.clean /\ reindex'.late = reindex.late
    BY <1>4, <2>1 DEF Rebuild
  <2>3. \A i \in Ids : Synced(i) /\ i \notin tomb => Passed(i)
    <3>1. \A i \in Ids : store[i] # None /\ i \notin tomb => ~(i > reindex.after)
      BY <1>1, <1>7
    <3>2. \A i \in Ids : ~(i > reindex.after) => i < reindex.after \/ i = reindex.after
      BY <1>4
    <3> QED
      BY <1>3, <3>1, <3>2 DEF Passed, Synced
  <2>4. ServingSpares'
    BY <1>3, <1>4, <2>2, <2>3 DEF ServingInv, ServingSpares, Synced, Serving!Idle
  <2>5. ServingClean'
    BY <1>3, <1>4, <2>2 DEF ServingInv, ServingClean, Serving!Idle
  <2> QED
    BY <1>3, <1>4, <1>5, <2>2, <2>4, <2>5, ServingReindexed
<1>8. CASE ahead # {}
  <2>1. next \in ahead /\ \A j \in ahead : next <= j
    <3>1. ahead \subseteq Nat
      BY <1>1, <1>4
    <3>2. \E i \in ahead : \A j \in ahead : i <= j
      BY <1>8, <3>1, LeastOf
    <3> QED
      BY <1>2, <3>2, Zenon
  <2>2. next \in Ids /\ next > reindex.after /\ store[next] # None /\ next \notin tomb /\ next \in Nat
    BY <1>1, <1>4, <2>1
  <2>3. reindex' = [reindex EXCEPT !.pc = "land", !.after = next, !.row = store[next]]
    BY <1>3, <1>8
  <2>4. store[next] \in Serving!Instance
    BY <2>2, ServingFacts
  <2>5. /\ reindex' \in Rebuild /\ reindex'.pc = "land" /\ reindex'.started = reindex.started
        /\ reindex'.gen = reindex.gen /\ reindex'.clean = reindex.clean /\ reindex'.late = reindex.late
        /\ reindex'.after = next /\ reindex'.row = store[next]
    BY <1>4, <2>2, <2>3, <2>4 DEF Rebuild
  <2>6. \A i \in Ids : Synced(i) /\ i \notin tomb /\ Passed(i)' => Passed(i)
    <3>1. \A i \in Ids : Passed(i)' => i < next
      BY <2>5 DEF Passed
    <3>2. \A i \in Ids : store[i] # None /\ i \notin tomb /\ i > reindex.after => next <= i
      BY <1>1, <2>1
    <3>3. \A i \in Ids : store[i] # None /\ i \notin tomb /\ i < next => i < reindex.after \/ i = reindex.after
      BY <1>4, <2>2, <3>2
    <3> QED
      BY <1>3, <3>1, <3>3 DEF Passed, Synced
  <2>7. ServingSpares'
    BY <1>3, <1>4, <2>5, <2>6 DEF ServingInv, ServingSpares, Synced, Serving!Idle
  <2>8. ServingClean'
    BY <1>3, <1>4, <2>2, <2>5 DEF ServingInv, ServingClean, Serving!Idle
  <2> QED
    BY <1>3, <1>4, <1>5, <2>2, <2>5, <2>7, <2>8, ServingReindexed
<1> QED
  BY <1>6, <1>7, <1>8

LEMMA ServingReindexDies ==
    ASSUME ServingInv, Serving!ReindexDies
    PROVE  ServingInv'
<1>1. /\ reindex' = Serving!Idle
      /\ UNCHANGED <<table, version, events, store, history, tomb, done, index, ingest, clock, behind,
                     raced, spared, adopted, exact, reindexes>>
  BY DEF Serving!ReindexDies, Serving!lake, Serving!rows, Serving!ghosts
<1>2. reindex'.pc = "idle"
  BY <1>1 DEF Serving!Idle
<1>3. ServingSpares' /\ ServingClean'
  BY <1>1 DEF ServingSpares, ServingClean, Serving!Idle
<1>4. clock \in Nat /\ reindexes \in Nat /\ clock <= clock /\ reindexes <= reindexes
  BY ServingFacts
<1> QED
  BY <1>1, <1>2, <1>3, <1>4, ServingReindexed

LEMMA ServingLandPage ==
    ASSUME ServingInv, NEW refused, Serving!LandPage(refused)
    PROVE  ServingInv'
<1>1. PICK n : n = reindex.after
  OBVIOUS
<1>2. PICK doc : doc = [val |-> reindex.row.val, gen |-> reindex.gen, at |-> reindex.started]
  OBVIOUS
<1>3. /\ reindex.pc = "land" /\ refused \subseteq {n}
      /\ index' = IF n \in refused THEN index ELSE [index EXCEPT ![n] = doc]
      /\ raced' = (raced \/ store[n] # reindex.row) /\ spared' = (spared \ {n}) \cup refused
      /\ reindex' = [reindex EXCEPT !.pc = "read", !.row = None]
      /\ UNCHANGED <<table, version, events, store, history, tomb, done, ingest, clock, behind, adopted,
                     exact, reindexes>>
  BY <1>1, <1>2 DEF Serving!LandPage, Serving!lake, Serving!rows
<1>4. /\ reindex # Serving!Idle /\ reindex \in Rebuild /\ Ids \subseteq Nat \ {0} /\ n \in Ids
      /\ reindex.row # None /\ clock \in Nat /\ reindexes \in Nat
      /\ reindex.started < clock /\ reindex.gen = reindexes /\ reindexes <= reindexes
  BY <1>1, <1>3, ServingFacts DEF ServingInv, ServingInHand
<1>5. /\ reindex' \in Rebuild /\ reindex'.pc = "read" /\ reindex'.started = reindex.started
      /\ reindex'.gen = reindex.gen /\ reindex'.clean = reindex.clean /\ reindex'.late = reindex.late
      /\ reindex'.after = n /\ reindex' # Serving!Idle
  BY <1>1, <1>3, <1>4 DEF Rebuild, Serving!Idle
<1>6. doc \in Serving!Document /\ doc # None /\ doc.gen = reindex.gen /\ doc.at = reindex.started
      /\ doc.val = reindex.row.val
  <2>1. reindex.row \in Serving!Instance
    BY <1>4 DEF Rebuild
  <2> QED
    BY <1>2, <1>4, <2>1, ServingFacts DEF Rebuild, Serving!Instance, Serving!Document
<1>7. /\ index' \in [Ids -> Serving!Document \cup {None}]
      /\ \A i \in Ids \ {n} : index'[i] = index[i]
      /\ index'[n] \in {doc, index[n]} /\ (n \notin spared' => index'[n] = doc)
      /\ spared' \subseteq Ids /\ \A i \in Ids \ {n} : i \in spared' <=> i \in spared
  <2>1. index \in [Ids -> Serving!Document \cup {None}] /\ spared \subseteq Ids
    BY DEF ServingInv, ServingType
  <2>2. CASE n \in refused
    BY <1>3, <1>4, <2>1, <2>2
  <2>3. CASE n \notin refused
    BY <1>3, <1>4, <1>6, <2>1, <2>3
  <2> QED
    BY <2>2, <2>3
<1>8. raced' \in BOOLEAN /\ (~raced' => ~raced /\ store[n] = reindex.row)
  BY <1>3 DEF ServingInv, ServingType
<1>9. ServingType'
  BY <1>3, <1>5, <1>7, <1>8 DEF ServingInv, ServingType
<1>10. ServingInHand'
  <2>1. ingest'.pc \in {"stored", "built"} => \A i \in Ids : Synced(i)' => ingest'.rows[i] = store'[i].val
    BY <1>3 DEF ServingInv, ServingInHand, Synced
  <2>2. \A i \in Ids : index'[i] # None => index'[i].at < clock' /\ index'[i].gen <= reindexes'
    BY <1>3, <1>4, <1>6, <1>7 DEF ServingInv, ServingInHand
  <2>3. /\ ingest' # Serving!Idle => events' # <<>>
        /\ ingest'.pc = "built" => ingest'.at < clock'
    BY <1>3 DEF ServingInv, ServingInHand
  <2> QED
    BY <1>3, <1>4, <1>5, <2>1, <2>2, <2>3 DEF ServingInHand, Serving!Idle
<1>11. ServingSpares'
  <2> SUFFICES ASSUME ~reindex'.late, events' = <<>>, ~behind', ~raced',
                      NEW i \in Ids \ (tomb' \cup spared'), Synced(i)', Passed(i)'
               PROVE  index'[i] # None /\ (index'[i].gen = reindex'.gen \/ index'[i].at >= reindex'.started)
    BY DEF ServingSpares
  <2>1. CASE i = n
    BY <1>5, <1>6, <1>7, <2>1
  <2>2. CASE i # n
    <3>1. i < reindex.after /\ i \notin tomb \cup spared
      BY <1>1, <1>3, <1>5, <1>7, <2>2 DEF Passed
    <3>2. Passed(i) /\ Synced(i)
      BY <1>3, <3>1 DEF Passed, Synced
    <3>3. index[i] # None /\ (index[i].gen = reindex.gen \/ index[i].at >= reindex.started)
      BY <1>3, <1>4, <1>5, <1>8, <3>1, <3>2 DEF ServingInv, ServingSpares
    <3> QED
      BY <1>5, <1>7, <2>2, <3>3
  <2> QED
    BY <2>1, <2>2
<1>12. ServingClean'
  <2> SUFFICES ASSUME reindex'.clean
               PROVE  \A i \in Ids : index'[i] # None =>
                         IF index'[i].gen = reindex'.gen THEN store'[i] # None /\ i \notin tomb'
                                                         ELSE index'[i].at < reindex'.started
    BY <1>5 DEF ServingClean
  <2>1. /\ \A i \in Ids : index[i] # None =>
              IF index[i].gen = reindex.gen THEN store[i] # None /\ i \notin tomb
                                            ELSE index[i].at < reindex.started
        /\ store[n] # None /\ n \notin tomb
    BY <1>1, <1>3, <1>4, <1>5 DEF ServingInv, ServingClean
  <2> QED
    BY <1>3, <1>5, <1>6, <1>7, <2>1
<1>13. ServingExact'
  <2> SUFFICES ASSUME exact
               PROVE  /\ reindex'.clean
                      /\ \A i \in Ids : index'[i] # None => store'[i] # None /\ i \notin tomb'
    BY <1>3, <1>5 DEF ServingExact
  <2>1. reindex.clean /\ \A i \in Ids : index[i] # None => store[i] # None /\ i \notin tomb
    BY <1>4 DEF ServingInv, ServingExact
  <2>2. store[n] # None /\ n \notin tomb
    BY <1>1, <1>3, <1>4, <2>1 DEF ServingInv, ServingClean
  <2> QED
    BY <1>3, <1>5, <1>7, <2>1, <2>2
<1>14. Serving!SearchComplete'
  <2> SUFFICES ASSUME events' = <<>>, ~behind', ~raced', NEW i \in Ids \ (tomb' \cup spared'),
                      store'[i] # None, store'[i].snap # 0
               PROVE  index'[i] # None /\ index'[i].val = store'[i].val
    BY DEF Serving!SearchComplete
  <2>1. CASE i = n
    BY <1>3, <1>6, <1>7, <1>8, <2>1
  <2>2. CASE i # n
    <3>1. i \in Ids \ (tomb \cup spared)
      BY <1>3, <1>7, <2>2
    <3>2. index[i] # None /\ index[i].val = store[i].val
      BY <1>3, <1>8, <3>1 DEF ServingInv, Serving!SearchComplete
    <3> QED
      BY <1>3, <1>7, <2>2, <3>2
  <2> QED
    BY <2>1, <2>2
<1>15. Serving!HistoryCurrent'
  BY <1>3 DEF ServingInv, Serving!HistoryCurrent
<1> QED
  BY <1>9, <1>10, <1>11, <1>12, <1>13, <1>14, <1>15 DEF ServingInv

LEMMA ServingPurge ==
    ASSUME ServingInv, Serving!Purge
    PROVE  ServingInv'
<1>1. /\ reindex.pc = "purge"
      /\ index' = [i \in Ids |->
           IF index[i] # None /\ index[i].gen # reindex.gen /\ index[i].at < reindex.started
           THEN None ELSE index[i]]
      /\ raced' = (raced \/ reindex.late) /\ exact' = reindex.clean /\ reindex' = Serving!Idle
      /\ UNCHANGED <<table, version, events, store, history, tomb, done, ingest, clock, behind, spared,
                     adopted, reindexes>>
  BY DEF Serving!Purge, Serving!lake, Serving!rows, Serving!counters
<1>2. reindex # Serving!Idle /\ reindex \in Rebuild
  BY <1>1, ServingFacts
<1>3. reindex'.pc = "idle"
  BY <1>1 DEF Serving!Idle
<1>4. \A i \in Ids : index'[i] # None => index'[i] = index[i] /\ index[i] # None
                                        /\ (index[i].gen = reindex.gen \/ ~(index[i].at < reindex.started))
  BY <1>1
<1>5. ServingType'
  <2>1. index' \in [Ids -> Serving!Document \cup {None}]
    BY <1>1 DEF ServingInv, ServingType
  <2>2. raced' \in BOOLEAN /\ exact' \in BOOLEAN
    BY <1>1, <1>2 DEF ServingInv, ServingType, Rebuild
  <2> QED
    BY <1>1, <2>1, <2>2 DEF ServingInv, ServingType
<1>6. ServingInHand'
  <2>1. ingest'.pc \in {"stored", "built"} => \A i \in Ids : Synced(i)' => ingest'.rows[i] = store'[i].val
    BY <1>1 DEF ServingInv, ServingInHand, Synced
  <2>2. \A i \in Ids : index'[i] # None => index'[i].at < clock' /\ index'[i].gen <= reindexes'
    BY <1>1, <1>4 DEF ServingInv, ServingInHand
  <2>3. /\ ingest' # Serving!Idle => events' # <<>>
        /\ ingest'.pc = "built" => ingest'.at < clock'
    BY <1>1 DEF ServingInv, ServingInHand
  <2> QED
    BY <1>1, <1>3, <2>1, <2>2, <2>3 DEF ServingInHand, Serving!Idle
<1>7. ServingSpares' /\ ServingClean'
  BY <1>1 DEF ServingSpares, ServingClean, Serving!Idle
<1>8. ServingExact'
  <2>1. ASSUME reindex.clean, NEW i \in Ids, index'[i] # None PROVE store[i] # None /\ i \notin tomb
    BY <1>2, <1>4, <2>1 DEF ServingInv, ServingClean
  <2> QED
    BY <1>1, <2>1 DEF ServingExact, Serving!Idle
<1>9. Serving!SearchComplete'
  <2> SUFFICES ASSUME events' = <<>>, ~behind', ~raced', NEW i \in Ids \ (tomb' \cup spared'),
                      store'[i] # None, store'[i].snap # 0
               PROVE  index'[i] # None /\ index'[i].val = store'[i].val
    BY DEF Serving!SearchComplete
  <2>1. Synced(i) /\ Passed(i) /\ ~raced /\ ~reindex.late /\ i \in Ids \ (tomb \cup spared)
    BY <1>1 DEF Synced, Passed
  <2>2. index[i] # None /\ (index[i].gen = reindex.gen \/ index[i].at >= reindex.started)
    BY <1>1, <1>2, <2>1 DEF ServingInv, ServingSpares
  <2>3. index[i].at \in Nat /\ reindex.started \in Nat
    BY <1>2, <2>2, ServingFacts DEF Serving!Document, Rebuild
  <2>4. index'[i] = index[i]
    BY <1>1, <2>2, <2>3
  <2>5. index[i].val = store[i].val
    BY <1>1, <2>1 DEF ServingInv, Serving!SearchComplete
  <2> QED
    BY <1>1, <2>2, <2>4, <2>5
<1>10. Serving!HistoryCurrent'
  BY <1>1 DEF ServingInv, Serving!HistoryCurrent
<1> QED
  BY <1>5, <1>6, <1>7, <1>8, <1>9, <1>10 DEF ServingInv

(* The mark of a reindex that something changed beside it.                 *)
LEMMA ServingDirty ==
    ASSUME ServingInv, reindex' = Serving!Dirty(reindex)
    PROVE  /\ reindex' \in {Serving!Idle} \cup Rebuild
           /\ reindex = Serving!Idle => reindex' = Serving!Idle
           /\ reindex # Serving!Idle =>
                 /\ reindex' \in Rebuild /\ reindex' # Serving!Idle /\ reindex'.clean = FALSE
                 /\ reindex'.pc = reindex.pc /\ reindex'.started = reindex.started
                 /\ reindex'.gen = reindex.gen /\ reindex'.after = reindex.after
                 /\ reindex'.row = reindex.row /\ reindex'.late = reindex.late
<1>1. CASE reindex = Serving!Idle
  BY <1>1 DEF Serving!Dirty
<1>2. CASE reindex # Serving!Idle
  <2>1. reindex \in Rebuild /\ reindex' = [reindex EXCEPT !.clean = FALSE]
    BY <1>2, ServingFacts DEF Serving!Dirty
  <2>2. /\ reindex' \in Rebuild /\ reindex'.clean = FALSE
        /\ reindex'.pc = reindex.pc /\ reindex'.started = reindex.started
        /\ reindex'.gen = reindex.gen /\ reindex'.after = reindex.after
        /\ reindex'.row = reindex.row /\ reindex'.late = reindex.late
    BY <2>1 DEF Rebuild
  <2>3. reindex' # Serving!Idle
    BY <2>2 DEF Rebuild, Serving!Idle
  <2> QED
    BY <1>2, <2>2, <2>3
<1> QED
  BY <1>1, <1>2

LEMMA ServingMaterialize ==
    ASSUME ServingInv, Serving!Materialize
    PROVE  ServingInv'
<1>1. PICK new, n : new = ingest.rows /\ n = ingest.snap
  OBVIOUS
<1>2. /\ ingest.pc = "fetched"
      /\ store' = [i \in Ids |-> IF new[i] = None THEN None ELSE [val |-> new[i], snap |-> n]]
      /\ history' = [i \in Ids |->
           IF new[i] # None /\ (store[i] = None \/ store[i].val # new[i]) THEN new[i] ELSE history[i]]
      /\ adopted' = {i \in Ids : new[i] # None /\ store[i] # None /\ store[i].val = new[i]
                                 /\ (store[i].snap = 0 \/ i \in adopted)}
      /\ ingest' = [ingest EXCEPT !.pc = "stored"]
      /\ reindex' = Serving!Dirty(reindex) /\ exact' = FALSE
      /\ UNCHANGED <<table, version, events, tomb, done, index, clock, behind, raced, spared, reindexes>>
  BY <1>1 DEF Serving!Materialize, Serving!lake, Serving!counters
<1>3. ingest \in Fetched /\ ingest # Serving!Idle
  BY <1>2, ServingFacts
<1>4. new \in [Ids -> Serving!Values \cup {None}] /\ n \in Nat
  BY <1>1, <1>3 DEF Fetched, Serving!Contents
<1>5. ingest' \in Fetched /\ ingest'.pc = "stored" /\ ingest'.rows = new
  BY <1>1, <1>2, <1>3 DEF Fetched
<1>6. \A i \in Ids : /\ new[i] = None => store'[i] = None
                     /\ new[i] # None => store'[i] = [val |-> new[i], snap |-> n]
  BY <1>2
<1>7. \A i \in Ids : /\ new[i] # None => new[i] \in Serving!Values
                     /\ new[i] # None => store'[i] \in Serving!Instance /\ store'[i].val = new[i]
  <2> SUFFICES ASSUME NEW i \in Ids, new[i] # None
               PROVE  /\ new[i] \in Serving!Values
                      /\ store'[i] \in Serving!Instance /\ store'[i].val = new[i]
    OBVIOUS
  <2>1. new[i] \in Serving!Values
    BY <1>4
  <2>2. PICK kept : kept = [val |-> new[i], snap |-> n]
    OBVIOUS
  <2>3. kept \in Serving!Instance
    BY <1>4, <2>1, <2>2 DEF Serving!Instance
  <2>4. kept.val = new[i]
    BY <2>2
  <2>5. store'[i] = kept
    BY <1>6, <2>2
  <2> QED
    BY <2>1, <2>3, <2>4, <2>5
<1>8. events # <<>>
  BY <1>3 DEF ServingInv, ServingInHand
<1>9. /\ reindex' \in {Serving!Idle} \cup Rebuild
      /\ reindex = Serving!Idle => reindex' = Serving!Idle
      /\ reindex # Serving!Idle =>
            /\ reindex' # Serving!Idle /\ reindex'.clean = FALSE
            /\ reindex'.pc = reindex.pc /\ reindex'.started = reindex.started
            /\ reindex'.gen = reindex.gen /\ reindex'.after = reindex.after
            /\ reindex'.row = reindex.row
  BY <1>2, ServingDirty
<1>10. ServingType'
  <2>1. store' \in [Ids -> Serving!Instance \cup {None}]
    <3>1. \A i \in Ids : store'[i] \in Serving!Instance \cup {None}
      BY <1>6, <1>7
    <3>2. store' = [i \in Ids |-> store'[i]]
      BY <1>2
    <3> QED
      BY <3>1, <3>2
  <2>2. history' \in [Ids -> Serving!Values \cup {None}]
    BY <1>2, <1>4 DEF ServingInv, ServingType
  <2>3. exact' \in BOOLEAN
    BY <1>2
  <2> QED
    BY <1>2, <1>5, <1>9, <2>1, <2>2, <2>3 DEF ServingInv, ServingType
<1>11. ServingInHand'
  <2>1. \A i \in Ids : Synced(i)' => ingest'.rows[i] = store'[i].val
    BY <1>5, <1>6, <1>7 DEF Synced
  <2>2. \A i \in Ids : index'[i] # None => index'[i].at < clock' /\ index'[i].gen <= reindexes'
    BY <1>2 DEF ServingInv, ServingInHand
  <2>3. reindex' # Serving!Idle => reindex'.started < clock' /\ reindex'.gen = reindexes'
    BY <1>2, <1>9 DEF ServingInv, ServingInHand
  <2>4. reindex'.pc = "land" => reindex'.after \in Ids /\ reindex'.row # None
    BY <1>9 DEF ServingInv, ServingInHand
  <2> QED
    BY <1>2, <1>5, <1>8, <2>1, <2>2, <2>3, <2>4 DEF ServingInHand, Serving!Idle
<1>12. ServingSpares' /\ Serving!SearchComplete'
  BY <1>2, <1>8 DEF ServingSpares, Serving!SearchComplete
<1>13. ServingClean'
  BY <1>9 DEF ServingClean, Serving!Idle
<1>14. ServingExact'
  BY <1>2 DEF ServingExact
<1>15. Serving!HistoryCurrent'
  <2> SUFFICES ASSUME NEW i \in Ids \ adopted', store'[i] # None
               PROVE  history'[i] = store'[i].val
    BY DEF Serving!HistoryCurrent
  <2>1. new[i] # None /\ store'[i].val = new[i]
    BY <1>6, <1>7
  <2>2. CASE store[i] = None \/ store[i].val # new[i]
    BY <1>2, <2>1, <2>2
  <2>3. CASE store[i] # None /\ store[i].val = new[i]
    <3>1. store[i].snap # 0 /\ i \notin adopted
      BY <1>2, <2>1, <2>3
    <3>2. history[i] = store[i].val
      BY <2>3, <3>1 DEF ServingInv, Serving!HistoryCurrent
    <3>3. history'[i] = history[i]
      BY <1>2, <2>3
    <3> QED
      BY <2>1, <2>3, <3>2, <3>3
  <2> QED
    BY <2>2, <2>3
<1> QED
  BY <1>10, <1>11, <1>12, <1>13, <1>14, <1>15 DEF ServingInv

LEMMA ServingLandBulk ==
    ASSUME ServingInv, NEW refused, Serving!LandBulk(refused)
    PROVE  ServingInv'
<1>1. PICK rows, t : rows = ingest.rows /\ t = ingest.at
  OBVIOUS
<1>2. /\ ingest.pc = "built"
      /\ refused \subseteq {i \in Ids : rows[i] # None}
      /\ index' = [i \in Ids |-> IF rows[i] = None \/ i \in refused THEN index[i]
                                 ELSE [val |-> rows[i], gen |-> 0, at |-> t]]
      /\ events' = Tail(events) /\ ingest' = Serving!Idle
      /\ reindex' = IF reindex = Serving!Idle THEN Serving!Idle
                    ELSE [reindex EXCEPT !.clean = FALSE, !.late = @ \/ t < reindex.started]
      /\ behind' = FALSE /\ exact' = FALSE
      /\ spared' = (spared \ {i \in Ids : rows[i] # None}) \cup refused
      /\ UNCHANGED <<table, version, store, history, tomb, done, clock, raced, adopted, reindexes>>
  BY <1>1 DEF Serving!LandBulk, Serving!lake, Serving!rows
<1>3. ingest \in Built /\ ingest # Serving!Idle
  BY <1>2, ServingFacts
<1>4. /\ rows \in [Ids -> Serving!Values \cup {None}] /\ t \in Nat /\ t < clock
      /\ clock \in Nat /\ reindexes \in Nat
  BY <1>1, <1>2, <1>3, ServingFacts DEF Built, Serving!Contents, ServingInv, ServingInHand
<1>5. events \in Seq(Nat) /\ events # <<>> /\ events' \in Seq(Nat)
  <2>1. events \in Seq(Nat) /\ events # <<>>
    BY <1>3 DEF ServingInv, ServingType, ServingInHand
  <2>2. Tail(events) \in Seq(Nat)
    BY <2>1
  <2> QED
    BY <1>2, <2>1, <2>2
<1>6. ASSUME reindex # Serving!Idle
      PROVE  /\ reindex' \in Rebuild /\ reindex' # Serving!Idle /\ reindex'.clean = FALSE
             /\ reindex'.pc = reindex.pc /\ reindex'.started = reindex.started
             /\ reindex'.gen = reindex.gen /\ reindex'.after = reindex.after
             /\ reindex'.row = reindex.row /\ reindex.started \in Nat
             /\ ~reindex'.late => ~(t < reindex.started)
  <2>1. reindex \in Rebuild
    BY <1>6, ServingFacts
  <2>2. PICK l \in BOOLEAN : l = (reindex.late \/ t < reindex.started)
    OBVIOUS
  <2>3. reindex' = [reindex EXCEPT !.clean = FALSE, !.late = l]
    BY <1>2, <1>6, <2>2
  <2>4. /\ reindex' \in Rebuild /\ reindex'.clean = FALSE
        /\ reindex'.pc = reindex.pc /\ reindex'.started = reindex.started
        /\ reindex'.gen = reindex.gen /\ reindex'.after = reindex.after
        /\ reindex'.row = reindex.row /\ reindex.started \in Nat /\ reindex'.late = l
    BY <2>1, <2>3 DEF Rebuild
  <2>5. reindex' # Serving!Idle
    BY <2>4 DEF Rebuild, Serving!Idle
  <2>6. ~l => ~(t < reindex.started)
    BY <2>2
  <2> QED
    BY <2>4, <2>5, <2>6
<1>7. reindex = Serving!Idle => reindex' = Serving!Idle
  BY <1>2
<1> DEFINE Lands(i) == rows[i] # None /\ i \notin refused
<1>8. ASSUME NEW i \in Ids
      PROVE  /\ ~Lands(i) => index'[i] = index[i]
             /\ Lands(i) => /\ index'[i] \in Serving!Document /\ index'[i] # None
                            /\ index'[i].val = rows[i] /\ index'[i].gen = 0 /\ index'[i].at = t
  <2>1. ~Lands(i) => index'[i] = index[i]
    BY <1>2
  <2>2. Lands(i) => index'[i] = [val |-> rows[i], gen |-> 0, at |-> t] /\ rows[i] \in Serving!Values
    BY <1>2, <1>4
  <2>3. Lands(i) => /\ index'[i] \in Serving!Document
                    /\ index'[i].val = rows[i] /\ index'[i].gen = 0 /\ index'[i].at = t
    BY <1>4, <2>2 DEF Serving!Document
  <2> QED
    BY <2>1, <2>3, ServingFacts
<1> HIDE DEF Lands
<1>9. \A i \in Ids : Synced(i) => rows[i] = store[i].val /\ rows[i] # None
  <2>1. \A i \in Ids : Synced(i) => rows[i] = store[i].val
    BY <1>1, <1>2 DEF ServingInv, ServingInHand
  <2>2. \A i \in Ids : Synced(i) => store[i].val # None
    BY ServingFacts DEF Synced, Serving!Instance
  <2> QED
    BY <2>1, <2>2
<1>10. ServingType'
  <2>1. index' \in [Ids -> Serving!Document \cup {None}]
    <3>1. \A i \in Ids : index[i] \in Serving!Document \cup {None}
      BY DEF ServingInv, ServingType
    <3>2. \A i \in Ids : index'[i] \in Serving!Document \cup {None}
      BY <1>8, <3>1
    <3>3. index' = [i \in Ids |-> index'[i]]
      BY <1>2
    <3> QED
      BY <3>2, <3>3
  <2>2. exact' \in BOOLEAN /\ behind' \in BOOLEAN
    BY <1>2
  <2>3. reindex' \in {Serving!Idle} \cup Rebuild
    BY <1>6, <1>7
  <2>4. spared' \subseteq Ids
    BY <1>2 DEF ServingInv, ServingType
  <2> QED
    BY <1>2, <1>5, <2>1, <2>2, <2>3, <2>4 DEF ServingInv, ServingType
<1>11. ServingInHand'
  <2>1. ingest'.pc = "idle"
    BY <1>2 DEF Serving!Idle
  <2>2. ASSUME NEW i \in Ids, index'[i] # None
        PROVE  index'[i].at < clock' /\ index'[i].gen <= reindexes'
    <3>1. CASE ~Lands(i)
      BY <1>2, <1>8, <2>2, <3>1 DEF ServingInv, ServingInHand
    <3>2. CASE Lands(i)
      <4>1. index'[i].at = t /\ index'[i].gen = 0
        BY <1>8, <3>2
      <4>2. t < clock' /\ 0 <= reindexes'
        BY <1>2, <1>4
      <4> QED
        BY <4>1, <4>2
    <3> QED
      BY <3>1, <3>2
  <2>3. reindex' # Serving!Idle => reindex'.started < clock' /\ reindex'.gen = reindexes'
    BY <1>2, <1>6, <1>7 DEF ServingInv, ServingInHand
  <2>4. reindex'.pc = "land" => reindex'.after \in Ids /\ reindex'.row # None
    BY <1>6, <1>7 DEF ServingInv, ServingInHand
  <2> QED
    BY <1>2, <2>1, <2>2, <2>3, <2>4 DEF ServingInHand, Serving!Idle
<1>12. ServingSpares'
  <2> SUFFICES ASSUME reindex' # Serving!Idle, ~reindex'.late,
                      NEW i \in Ids \ (tomb' \cup spared'), Synced(i)'
               PROVE  index'[i] # None /\ (index'[i].gen = reindex'.gen \/ index'[i].at >= reindex'.started)
    BY DEF ServingSpares, Serving!Idle
  <2>1. Lands(i)
    BY <1>2, <1>9 DEF Synced, Lands
  <2>2. t >= reindex'.started
    <3>1. reindex # Serving!Idle
      BY <1>7
    <3>2. reindex \in Rebuild
      BY <3>1, ServingFacts
    <3>3. reindex.started \in Nat
      BY <3>2 DEF Rebuild
    <3>4. reindex'.started = reindex.started /\ ~(t < reindex.started)
      BY <1>6, <3>1
    <3> QED
      BY <1>4, <3>3, <3>4
  <2> QED
    BY <1>8, <2>1, <2>2
<1>13. ServingClean'
  BY <1>6, <1>7 DEF ServingClean, Serving!Idle
<1>14. ServingExact'
  BY <1>2 DEF ServingExact
<1>15. Serving!SearchComplete'
  <2> SUFFICES ASSUME NEW i \in Ids \ (tomb' \cup spared'), store'[i] # None, store'[i].snap # 0
               PROVE  index'[i] # None /\ index'[i].val = store'[i].val
    BY DEF Serving!SearchComplete
  <2>1. rows[i] = store[i].val /\ Lands(i)
    BY <1>2, <1>9 DEF Synced, Lands
  <2> QED
    BY <1>2, <1>8, <2>1
<1>16. Serving!HistoryCurrent'
  BY <1>2 DEF ServingInv, Serving!HistoryCurrent
<1> QED
  BY <1>10, <1>11, <1>12, <1>13, <1>14, <1>15, <1>16 DEF ServingInv

(* An edit of an action leaves no row of a sync that was not there.        *)
LEMMA ServingEdit ==
    ASSUME ServingInv, Serving!Edit,
           store' \in [Ids -> Serving!Instance \cup {None}], tomb' \subseteq Ids, spared' \subseteq Ids,
           done' \subseteq [kind : {"create", "delete"}, id : Ids], UNCHANGED adopted,
           \A i \in Ids : store'[i] # None /\ store'[i].snap # 0 =>
              /\ store'[i] = store[i]
              /\ i \notin tomb' \cup spared' => i \notin tomb \cup spared
    PROVE  ServingInv'
<1>1. /\ reindex' = Serving!Dirty(reindex) /\ exact' = FALSE
      /\ UNCHANGED <<table, version, events, history, index, ingest, clock, behind, raced, reindexes>>
  BY DEF Serving!Edit, Serving!lake
<1>2. /\ reindex' \in {Serving!Idle} \cup Rebuild
      /\ reindex = Serving!Idle => reindex' = Serving!Idle
      /\ reindex # Serving!Idle =>
            /\ reindex' # Serving!Idle /\ reindex'.clean = FALSE
            /\ reindex'.pc = reindex.pc /\ reindex'.started = reindex.started
            /\ reindex'.gen = reindex.gen /\ reindex'.after = reindex.after
            /\ reindex'.row = reindex.row /\ reindex'.late = reindex.late
  BY <1>1, ServingDirty
<1>3. \A i \in Ids : Synced(i)' => Synced(i) /\ store'[i] = store[i]
                        /\ (i \notin tomb' \cup spared' => i \notin tomb \cup spared)
  BY DEF Synced
<1>4. ServingType'
  <2>1. exact' \in BOOLEAN
    BY <1>1
  <2> QED
    BY <1>1, <1>2, <2>1 DEF ServingInv, ServingType
<1>5. ServingInHand'
  <2>1. ingest'.pc \in {"stored", "built"} => \A i \in Ids : Synced(i)' => ingest'.rows[i] = store'[i].val
    BY <1>1, <1>3 DEF ServingInv, ServingInHand
  <2>2. \A i \in Ids : index'[i] # None => index'[i].at < clock' /\ index'[i].gen <= reindexes'
    BY <1>1 DEF ServingInv, ServingInHand
  <2>3. reindex' # Serving!Idle => reindex'.started < clock' /\ reindex'.gen = reindexes'
    BY <1>1, <1>2 DEF ServingInv, ServingInHand
  <2>4. reindex'.pc = "land" => reindex'.after \in Ids /\ reindex'.row # None
    BY <1>2 DEF ServingInv, ServingInHand
  <2>5. /\ ingest' # Serving!Idle => events' # <<>>
        /\ ingest'.pc = "built" => ingest'.at < clock'
    BY <1>1 DEF ServingInv, ServingInHand
  <2> QED
    BY <2>1, <2>2, <2>3, <2>4, <2>5 DEF ServingInHand, Serving!Idle
<1>6. ServingSpares'
  <2> SUFFICES ASSUME reindex' # Serving!Idle, ~reindex'.late, events' = <<>>, ~behind', ~raced',
                      NEW i \in Ids \ (tomb' \cup spared'), Synced(i)', Passed(i)'
               PROVE  index'[i] # None /\ (index'[i].gen = reindex'.gen \/ index'[i].at >= reindex'.started)
    BY DEF ServingSpares, Serving!Idle
  <2>1. Synced(i) /\ i \in Ids \ (tomb \cup spared) /\ reindex # Serving!Idle
    BY <1>2, <1>3
  <2>2. Passed(i)
    BY <1>2, <2>1 DEF Passed
  <2> QED
    BY <1>1, <1>2, <2>1, <2>2 DEF ServingInv, ServingSpares
<1>7. ServingClean'
  BY <1>2 DEF ServingClean, Serving!Idle
<1>8. ServingExact'
  BY <1>1 DEF ServingExact
<1>9. Serving!SearchComplete'
  <2> SUFFICES ASSUME events' = <<>>, ~behind', ~raced', NEW i \in Ids \ (tomb' \cup spared'),
                      store'[i] # None, store'[i].snap # 0
               PROVE  index'[i] # None /\ index'[i].val = store'[i].val
    BY DEF Serving!SearchComplete
  <2>1. store'[i] = store[i] /\ i \in Ids \ (tomb \cup spared)
    OBVIOUS
  <2> QED
    BY <1>1, <2>1 DEF ServingInv, Serving!SearchComplete
<1>10. Serving!HistoryCurrent'
  BY <1>1 DEF ServingInv, Serving!HistoryCurrent
<1> QED
  BY <1>4, <1>5, <1>6, <1>7, <1>8, <1>9, <1>10 DEF ServingInv

LEMMA ServingCreateObject ==
    ASSUME ServingInv, NEW i \in Ids, NEW v \in Vals, Serving!CreateObject(i, v)
    PROVE  ServingInv'
<1>1. PICK r : r = [val |-> v, snap |-> 0]
  OBVIOUS
<1>2. /\ Serving!Edit /\ store' = [store EXCEPT ![i] = r] /\ tomb' = tomb \ {i}
      /\ done' = done \cup {[kind |-> "create", id |-> i]} /\ UNCHANGED <<spared, adopted>>
  BY <1>1 DEF Serving!CreateObject
<1>3. r \in Serving!Instance /\ r.snap = 0
  BY <1>1 DEF Serving!Instance, Serving!Values
<1>4. /\ store \in [Ids -> Serving!Instance \cup {None}] /\ tomb \subseteq Ids /\ spared \subseteq Ids
      /\ done \subseteq [kind : {"create", "delete"}, id : Ids]
  BY DEF ServingInv, ServingType
<1>5. /\ store' \in [Ids -> Serving!Instance \cup {None}] /\ store'[i] = r
      /\ \A j \in Ids \ {i} : store'[j] = store[j]
  BY <1>2, <1>3, <1>4
<1>6. tomb' \subseteq Ids /\ spared' \subseteq Ids /\ done' \subseteq [kind : {"create", "delete"}, id : Ids]
  BY <1>2, <1>4
<1>7. \A j \in Ids : store'[j] # None /\ store'[j].snap # 0 =>
         /\ store'[j] = store[j]
         /\ j \notin tomb' \cup spared' => j \notin tomb \cup spared
  BY <1>2, <1>3, <1>5
<1> QED
  BY <1>2, <1>5, <1>6, <1>7, ServingEdit

LEMMA ServingDeleteObject ==
    ASSUME ServingInv, NEW i \in Ids, Serving!DeleteObject(i)
    PROVE  ServingInv'
<1>1. /\ Serving!Edit /\ tomb' = tomb \cup {i}
      /\ done' = done \cup {[kind |-> "delete", id |-> i]} /\ UNCHANGED <<store, spared, adopted>>
  BY DEF Serving!DeleteObject
<1>2. /\ store \in [Ids -> Serving!Instance \cup {None}] /\ tomb \subseteq Ids /\ spared \subseteq Ids
      /\ done \subseteq [kind : {"create", "delete"}, id : Ids]
  BY DEF ServingInv, ServingType
<1>3. tomb' \subseteq Ids /\ spared' \subseteq Ids /\ done' \subseteq [kind : {"create", "delete"}, id : Ids]
  BY <1>1, <1>2
<1>4. \A j \in Ids : store'[j] # None /\ store'[j].snap # 0 =>
         /\ store'[j] = store[j]
         /\ j \notin tomb' \cup spared' => j \notin tomb \cup spared
  BY <1>1
<1> QED
  BY <1>1, <1>2, <1>3, <1>4, ServingEdit

LEMMA ServingRevertEdit ==
    ASSUME ServingInv, NEW e \in done, Serving!RevertEdit(e)
    PROVE  ServingInv'
<1>1. Serving!Edit /\ done' = done \ {e} /\ UNCHANGED adopted
  BY DEF Serving!RevertEdit
<1>2. /\ store \in [Ids -> Serving!Instance \cup {None}] /\ tomb \subseteq Ids /\ spared \subseteq Ids
      /\ done \subseteq [kind : {"create", "delete"}, id : Ids]
  BY DEF ServingInv, ServingType
<1>3. e.id \in Ids /\ done' \subseteq [kind : {"create", "delete"}, id : Ids]
  BY <1>1, <1>2
<1>4. CASE e.kind = "create"
  <2>1. /\ UNCHANGED <<tomb, spared>>
        /\ store' = IF store[e.id] # None /\ store[e.id].snap = 0 THEN [store EXCEPT ![e.id] = None] ELSE store
    BY <1>4 DEF Serving!RevertEdit
  <2>2. store' \in [Ids -> Serving!Instance \cup {None}] /\ \A j \in Ids : store'[j] \in {None, store[j]}
    BY <1>2, <1>3, <2>1
  <2> QED
    BY <1>1, <1>2, <1>3, <2>1, <2>2, ServingEdit
<1>5. CASE e.kind # "create"
  <2>1. tomb' = tomb \ {e.id} /\ spared' = spared \cup ({e.id} \cap tomb) /\ UNCHANGED store
    BY <1>5 DEF Serving!RevertEdit
  <2>2. tomb' \subseteq Ids /\ spared' \subseteq Ids /\ \A j \in Ids : j \notin tomb' \cup spared' => j \notin tomb \cup spared
    BY <1>2, <1>3, <2>1
  <2>3. \A j \in Ids : store'[j] = store[j]
    BY <2>1
  <2> QED
    BY <1>1, <1>2, <1>3, <2>1, <2>2, <2>3, ServingEdit
<1> QED
  BY <1>4, <1>5

LEMMA ServingStep == ServingInv /\ [Serving!Next]_(Serving!vars) => ServingInv'
<1> SUFFICES ASSUME ServingInv, [Serving!Next]_(Serving!vars) PROVE ServingInv'
  OBVIOUS
<1>1. CASE UNCHANGED Serving!vars
  <2>1. UNCHANGED <<table, version, events, store, history, tomb, done, index, ingest, reindex, clock,
                    behind, raced, spared, adopted, exact, reindexes>>
    BY <1>1 DEF Serving!vars
  <2>2. /\ table \in Serving!Contents /\ version \in Nat /\ events \in Seq(Nat) /\ clock \in Nat
        /\ ingest \in {Serving!Idle} \cup Fetched \cup Built /\ behind \in BOOLEAN
    BY DEF ServingInv, ServingType
  <2>3. clock <= clock' /\ (ingest' # Serving!Idle => events' # <<>>)
        /\ (ingest'.pc = "built" => ingest'.at < clock')
    BY <2>1, <2>2 DEF ServingInv, ServingInHand
  <2> QED
    BY <2>1, <2>2, <2>3, ServingHandled
<1>2. ASSUME NEW new \in Tables, Serving!Sync(new) PROVE ServingInv'
  BY <1>2, ServingSync
<1>3. CASE \/ Serving!FetchRows \/ Serving!Materialize \/ Serving!BuildDocuments \/ Serving!IngestFails
  BY <1>3, ServingFetchRows, ServingMaterialize, ServingBuildDocuments, ServingIngestFails
<1>4. CASE Serving!RequestReindex \/ Serving!BootReindex
  BY <1>4, ServingBeginReindex DEF Serving!RequestReindex, Serving!BootReindex
<1>5. CASE Serving!ReadPage \/ Serving!Purge \/ Serving!ReindexDies
  BY <1>5, ServingReadPage, ServingPurge, ServingReindexDies
<1>6. ASSUME NEW i \in Ids, Serving!DeleteObject(i) \/ \E v \in Vals : Serving!CreateObject(i, v)
      PROVE  ServingInv'
  BY <1>6, ServingDeleteObject, ServingCreateObject
<1>7. ASSUME NEW e \in done, Serving!RevertEdit(e) PROVE ServingInv'
  BY <1>7, ServingRevertEdit
<1>8. ASSUME NEW refused \in SUBSET Ids, Serving!LandBulk(refused) \/ Serving!LandPage(refused)
      PROVE  ServingInv'
  BY <1>8, ServingLandBulk, ServingLandPage
<1>9. CASE Serving!Next
  BY <1>2, <1>3, <1>4, <1>5, <1>6, <1>7, <1>8, <1>9, Zenon DEF Serving!Next
<1> QED
  BY <1>1, <1>9

LEMMA ServingKept == ServingInv => SearchFollowsStore
BY DEF ServingInv, ServingExact, SearchFollowsStore, Serving!SearchPurged

(***************************************************************************)
(* However syncs, edits and reindexes interleave with the steps of a       *)
(* materialisation, and wherever one dies: search has the stored value of  *)
(* every synced row, a reindex that nothing overlapped leaves no document  *)
(* of a deleted row, and the newest history entry of a row is its stored   *)
(* value, each outside the cases its definition names. For any ids, values *)
(* and tables.                                                             *)
(***************************************************************************)
THEOREM SearchFollows == Spec => []SearchFollowsStore
<1>1. Init => ServingInv
  BY ServingInit DEF Init
<1>2. ServingInv /\ [Next]_vars => ServingInv'
  BY ComponentSteps, ServingStep
<1>3. ServingInv => SearchFollowsStore
  BY ServingKept
<1> QED
  BY <1>1, <1>2, <1>3, PTL DEF Spec
=============================================================================
