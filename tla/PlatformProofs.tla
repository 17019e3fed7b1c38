--------------------------- MODULE PlatformProofs ---------------------------
(***************************************************************************)
(* The safety of the components of MCPlatform, for any sets of clients,    *)
(* plugins, versions, workspaces and instances and any bounds.  A step of  *)
(* MCPlatform is a step of the component in focus and leaves the others    *)
(* alone, so each component has an inductive invariant of its own.         *)
(***************************************************************************)
EXTENDS MCPlatform, FiniteSetTheorems, TLAPS

(* Every step is a step, or no step, of each component.                    *)
LEMMA ComponentSteps ==
    ASSUME [Next]_vars
    PROVE  /\ [Sources!Next]_Sources!vars
           /\ [Connections!Next]_Connections!vars
           /\ [Agent!Next]_Agent!vars
           /\ [Chain!Next]_Chain!vars
           /\ [Tools!Next]_Tools!vars
           /\ [Models!Next]_Models!vars
           /\ [Apps!Next]_Apps!vars
           /\ [Submissions!Next]_Submissions!vars
<1>1. [Sources!Next]_Sources!vars
  BY DEF Next, vars, Sources!vars, sourceVars
<1>2. [Connections!Next]_Connections!vars
  BY DEF Next, vars, Connections!vars, connectionVars
<1>3. [Agent!Next]_Agent!vars
  BY DEF Next, vars, Agent!vars, sessionVars
<1>4. [Chain!Next]_Chain!vars
  BY DEF Next, vars, Chain!vars, chainVars
<1>5. [Tools!Next]_Tools!vars
  BY DEF Next, vars, Tools!vars, pluginVars
<1>6. [Models!Next]_Models!vars
  BY DEF Next, vars, Models!vars, modelVars
<1>7. [Apps!Next]_Apps!vars
  BY DEF Next, vars, Apps!vars, applicationVars
<1>8. [Submissions!Next]_Submissions!vars
  BY DEF Next, vars, Submissions!vars, submissionVars
<1> QED
  BY <1>1, <1>2, <1>3, <1>4, <1>5, <1>6, <1>7, <1>8

-----------------------------------------------------------------------------
(* Connections: what a registration in flight will store was supplied for  *)
(* the destination it will store it under.                                 *)
ConnectionsInv ==
    /\ Connections!SecretStaysHome
    /\ kind # "rest" => \A c \in Clients : registration[c] # None =>
          Connections!Stored(registration[c]) \subseteq
             {Connections!Destination(kind, registration[c].at)}

LEMMA ConnectionsInit == Connections!Init => ConnectionsInv
BY DEF Connections!Init, ConnectionsInv, Connections!SecretStaysHome

LEMMA ConnectionsStep ==
    ASSUME ConnectionsInv, registration = [c \in Clients |-> registration[c]],
           [Connections!Next]_Connections!vars
    PROVE  ConnectionsInv' /\ registration' = [c \in Clients |-> registration'[c]]
<1> USE DEF ConnectionsInv, Connections!SecretStaysHome
<1>1. ASSUME NEW c \in Clients, NEW f, NEW given \in BOOLEAN,
             Connections!ReadConnection(c, f, given)
      PROVE  ConnectionsInv' /\ registration' = [d \in Clients |-> registration'[d]]
  <2>1. PICK at : /\ ~Connections!SecretNeeded(connection, at, given)
                  /\ registration' = [registration EXCEPT ![c] =
                        [at |-> at, given |-> given, old |-> connection]]
                  /\ kind' = kind /\ connection' = connection
    BY <1>1 DEF Connections!ReadConnection
  <2>2. kind # "rest" =>
          Connections!Stored([at |-> at, given |-> given, old |-> connection])
             \subseteq {Connections!Destination(kind, at)}
    BY <2>1 DEF Connections!Stored, Connections!SecretNeeded
  <2> QED
    BY <2>1, <2>2 DEF Connections!Stored
<1>2. ASSUME NEW c \in Clients, Connections!WriteConnection(c)
      PROVE  ConnectionsInv' /\ registration' = [d \in Clients |-> registration'[d]]
  BY <1>2 DEF Connections!WriteConnection, Connections!Stored
<1>3. CASE Connections!DeleteConnection
  BY <1>3 DEF Connections!DeleteConnection, Connections!Stored
<1>4. CASE UNCHANGED Connections!vars
  BY <1>4 DEF Connections!vars, Connections!Stored
<1> QED
  BY <1>1, <1>2, <1>3, <1>4 DEF Connections!Next

-----------------------------------------------------------------------------
(* Sources: the shapes of the rows and of the requests in flight.          *)
SourceRowOK(k) == source[k] # None => DOMAIN source[k] = {"status", "ws", "conn"}
SourceRequestOK(c) ==
    LET r == sourceRequest[c] IN
    \/ r = Sources!Idle
    \/ r.op = "drop" /\ DOMAIN r = {"op", "pc", "kind"} /\ r.kind \in SourceKinds
    \/ r.op = "register" /\ DOMAIN r = {"op", "pc", "kind", "ws", "conn", "existed"}
       /\ r.kind \in SourceKinds
    \/ r.op = "delete" /\ DOMAIN r = {"op", "pc", "ws"}
SourcesShape ==
    /\ source = [k \in SourceKinds |-> source[k]]
    /\ connections = [k \in SourceKinds |-> connections[k]]
    /\ sourceRequest = [c \in Clients |-> sourceRequest[c]]
    /\ \A k \in SourceKinds : SourceRowOK(k)
    /\ \A c \in Clients : SourceRequestOK(c)

(* One request at a time, unless two overlapped.                           *)
OneRequest ==
    ~crowded => \A c, d \in Clients :
       c # d => sourceRequest[c] = Sources!Idle \/ sourceRequest[d] = Sources!Idle

OneOwner == ~crowded /\ ~unchecked => \A x, y \in Sources!Owners : x = y
OneRow == ~readopted => \A j, k \in SourceKinds : source[j] # None /\ source[k] # None => j = k

(* What a request has checked still holds when it acts on it.              *)
ChecksHold ==
    ~crowded => \A c \in Clients : LET r == sourceRequest[c] IN
       /\ r.op = "register" /\ r.pc = "checked" =>
             Sources!DatasetAvailable(r.kind) /\ (r.conn => connections[r.kind])
       /\ r.op = "register" /\ r.pc \in {"begun", "checked"} /\ r.existed =>
             source[r.kind] # None /\ source[r.kind].ws = r.ws
       /\ r.op = "drop" => (source[r.kind] # None => ~source[r.kind].conn)

(* A row is usable, or the request that wrote it is about to link it.      *)
UsableSoon ==
    ~crowded /\ ~broken /\ ~readopted =>
       /\ \A k \in SourceKinds : source[k] # None =>
             /\ source[k].conn => connections[k]
             /\ \/ source[k].ws \in sourceLinked
                \/ \E c \in Clients : /\ sourceRequest[c].op = "register"
                                      /\ sourceRequest[c].pc = "inserted"
                                      /\ sourceRequest[c].kind = k
                                      /\ sourceRequest[c].ws = source[k].ws
       /\ \A c \in Clients : LET r == sourceRequest[c] IN
             /\ r.op = "register" /\ r.pc = "inserted" /\ r.existed => r.ws \in sourceLinked
             /\ r.op = "delete" => \A k \in SourceKinds : source[k] = None

SourcesInv ==
    SourcesShape /\ OneRequest /\ OneOwner /\ OneRow /\ ChecksHold /\ UsableSoon

LEMMA SourcesInitOK == Sources!Init => SourcesInv
<1> SUFFICES ASSUME Sources!Init PROVE SourcesInv
  OBVIOUS
<1> USE DEF Sources!Init, Sources!Idle
<1>1. SourcesShape
  BY DEF SourcesShape, SourceRowOK, SourceRequestOK
<1>2. OneRequest /\ OneOwner /\ OneRow
  BY DEF OneRequest, OneOwner, OneRow, Sources!Owners, Sources!Active
<1>3. ChecksHold /\ UsableSoon
  BY DEF ChecksHold, UsableSoon
<1> QED
  BY <1>1, <1>2, <1>3 DEF SourcesInv

(* Requests one by one: with none in flight there is nothing to check, and *)
(* a row is linked.                                                        *)
Quiet == \A c \in Clients : sourceRequest[c] = Sources!Idle
QuietBut(c) == \A d \in Clients \ {c} : sourceRequest[d] = Sources!Idle
RowsUsable ==
    ~crowded /\ ~broken /\ ~readopted => \A k \in SourceKinds : source[k] # None =>
       source[k].ws \in sourceLinked /\ (source[k].conn => connections[k])

LEMMA QuietIsSafe ==
    /\ ~crowded' => Quiet'
    /\ RowsUsable'
    => OneRequest' /\ ChecksHold' /\ UsableSoon'
BY DEF Quiet, OneRequest, ChecksHold, UsableSoon, RowsUsable, Sources!Idle

LEMMA QuietIsUsable ==
    /\ Quiet /\ UsableSoon => RowsUsable
    /\ \A c \in Clients : /\ QuietBut(c) /\ UsableSoon
                          /\ sourceRequest[c].op # "register" \/ sourceRequest[c].pc # "inserted"
                          => RowsUsable
BY DEF Quiet, QuietBut, UsableSoon, RowsUsable, Sources!Idle

(* The three ways in which a step touches the requests.                    *)
LEMMA SingleStep ==
    ASSUME SourcesInv, Sources!Single
    PROVE  /\ ~crowded' => ~crowded /\ Quiet /\ Quiet' /\ RowsUsable
           /\ sourceRequest' = sourceRequest
<1>1. /\ sourceRequest' = sourceRequest
      /\ ~crowded' => ~crowded /\ Quiet
  BY DEF Sources!Single, Quiet
<1>2. ~crowded' => Quiet'
  BY <1>1 DEF Quiet
<1> QED
  BY <1>1, <1>2, QuietIsUsable DEF SourcesInv

LEMMA ArriveStep ==
    ASSUME SourcesInv, NEW c \in Clients, NEW r, Sources!Arrive(c, r)
    PROVE  /\ ~crowded' => ~crowded /\ Quiet /\ QuietBut(c)' /\ RowsUsable
           /\ sourceRequest' = [sourceRequest EXCEPT ![c] = r] /\ sourceRequest'[c] = r
           /\ OneRequest'
<1>1. /\ sourceRequest' = [sourceRequest EXCEPT ![c] = r] /\ sourceRequest'[c] = r
      /\ ~crowded' => ~crowded /\ Quiet
  BY DEF Sources!Arrive, SourcesInv, SourcesShape, Quiet
<1>2. ~crowded' => QuietBut(c)'
  BY <1>1 DEF Quiet, QuietBut
<1> QED
  BY <1>1, <1>2, QuietIsUsable DEF SourcesInv, OneRequest, QuietBut

LEMMA DoneStep ==
    ASSUME SourcesInv, NEW c \in Clients, Sources!Done(c), sourceRequest[c] # Sources!Idle
    PROVE  /\ ~crowded' => ~crowded /\ QuietBut(c) /\ Quiet'
           /\ sourceRequest' = [sourceRequest EXCEPT ![c] = Sources!Idle]
BY DEF Sources!Done, SourcesInv, SourcesShape, OneRequest, Quiet, QuietBut

(* Each operation keeps the invariant.                                     *)
LEMMA SourcesRegisterConnection ==
    ASSUME SourcesInv, NEW k \in SourceKinds, Sources!RegisterConnection(k)
    PROVE  SourcesInv'
<1> USE DEF SourcesInv, Sources!RegisterConnection, Sources!ghosts
<1>1. SourcesShape'
  BY SingleStep DEF SourcesShape, SourceRowOK, SourceRequestOK
<1>2. OneOwner'
  BY SingleStep DEF OneOwner, Sources!Owners, Sources!Active, SourcesShape, SourceRowOK
<1>3. OneRow'
  BY DEF OneRow, SourcesShape
<1>4. RowsUsable'
  BY SingleStep DEF RowsUsable, SourcesShape, SourceRowOK
<1> QED
  BY <1>1, <1>2, <1>3, <1>4, SingleStep, QuietIsSafe

LEMMA SourcesSetStatus ==
    ASSUME SourcesInv, NEW k \in SourceKinds, NEW status \in {"active", "disabled"}, Sources!SetStatus(k, status)
    PROVE  SourcesInv'
<1> USE DEF SourcesInv, Sources!SetStatus, Sources!ghosts
<1>1. SourcesShape'
  BY SingleStep DEF SourcesShape, SourceRowOK, SourceRequestOK
<1>2. OneOwner'
  <2> SUFFICES ASSUME ~crowded', ~unchecked' PROVE \A x, y \in Sources!Owners' : x = y
    BY DEF OneOwner
  <2>1. ~crowded /\ ~unchecked /\ (status = "active" => Sources!Owners \subseteq {k})
    BY SingleStep
  <2>2. \A x, y \in Sources!Owners : x = y
    BY <2>1 DEF OneOwner
  <2>3. \A j \in SourceKinds : Sources!Active(j)' => (j = k /\ status = "active") \/ Sources!Active(j)
    BY DEF Sources!Active, SourcesShape, SourceRowOK
  <2>4. Sources!Owners' \subseteq Sources!Owners \cup {x \in {k} : status = "active"}
    BY <2>3 DEF Sources!Owners
  <2> QED
    BY <2>1, <2>2, <2>4
<1>3. OneRow'
  BY DEF OneRow, SourcesShape
<1>4. RowsUsable'
  BY SingleStep DEF RowsUsable, SourcesShape, SourceRowOK
<1> QED
  BY <1>1, <1>2, <1>3, <1>4, SingleStep, QuietIsSafe

LEMMA SourcesRegisterPlugin ==
    ASSUME SourcesInv, Sources!RegisterPlugin
    PROVE  SourcesInv'
<1> USE DEF SourcesInv, Sources!RegisterPlugin, Sources!ghosts
<1>1. SourcesShape'
  BY SingleStep DEF SourcesShape, SourceRowOK, SourceRequestOK
<1>2. OneOwner'
  BY SingleStep DEF OneOwner, Sources!Owners, Sources!Active, SourcesShape, SourceRowOK
<1>3. OneRow'
  BY DEF OneRow, SourcesShape
<1>4. RowsUsable'
  BY SingleStep DEF RowsUsable, SourcesShape, SourceRowOK
<1> QED
  BY <1>1, <1>2, <1>3, <1>4, SingleStep, QuietIsSafe

LEMMA SourcesSetPluginStatus ==
    ASSUME SourcesInv, NEW status \in {"active", "disabled"}, Sources!SetPluginStatus(status)
    PROVE  SourcesInv'
<1> USE DEF SourcesInv, Sources!SetPluginStatus, Sources!ghosts
<1>1. SourcesShape'
  BY SingleStep DEF SourcesShape, SourceRowOK, SourceRequestOK
<1>2. OneOwner'
  BY SingleStep DEF OneOwner, Sources!Owners, Sources!Active, SourcesShape, SourceRowOK
<1>3. OneRow'
  BY DEF OneRow, SourcesShape
<1>4. RowsUsable'
  BY SingleStep DEF RowsUsable, SourcesShape, SourceRowOK
<1> QED
  BY <1>1, <1>2, <1>3, <1>4, SingleStep, QuietIsSafe

LEMMA SourcesClaimStream ==
    ASSUME SourcesInv, Sources!ClaimStream
    PROVE  SourcesInv'
<1> USE DEF SourcesInv, Sources!ClaimStream, Sources!ghosts
<1>1. SourcesShape'
  BY SingleStep DEF SourcesShape, SourceRowOK, SourceRequestOK
<1>2. OneOwner'
  BY SingleStep DEF OneOwner, Sources!Owners, Sources!Active, SourcesShape, SourceRowOK
<1>3. OneRow'
  BY DEF OneRow, SourcesShape
<1>4. RowsUsable'
  BY SingleStep DEF RowsUsable, SourcesShape, SourceRowOK
<1> QED
  BY <1>1, <1>2, <1>3, <1>4, SingleStep, QuietIsSafe

LEMMA SourcesDropConnection ==
    ASSUME SourcesInv, NEW c \in Clients, Sources!DropConnection(c)
    PROVE  SourcesInv'
<1> USE DEF SourcesInv, Sources!DropConnection, Sources!ghosts, Sources!tables
<1>0. Sources!Done(c) /\ sourceRequest[c] # Sources!Idle
  BY DEF Sources!At, Sources!Idle
<1>1. SourcesShape'
  BY <1>0, DoneStep DEF SourcesShape, SourceRowOK, SourceRequestOK
<1>2. OneOwner'
  BY <1>0, DoneStep DEF OneOwner, Sources!Owners, Sources!Active, SourcesShape, SourceRowOK, SourceRequestOK
<1>3. OneRow'
  BY DEF OneRow, SourcesShape
<1>4. RowsUsable'
  BY <1>0, DoneStep, QuietIsUsable DEF RowsUsable, UsableSoon, ChecksHold, QuietBut, OneRow, Sources!At, Sources!Idle, SourcesShape, SourceRowOK, SourceRequestOK
<1> QED
  BY <1>0, <1>1, <1>2, <1>3, <1>4, DoneStep, QuietIsSafe

LEMMA SourcesSeedSource ==
    ASSUME SourcesInv, NEW c \in Clients, Sources!SeedSource(c)
    PROVE  SourcesInv'
<1> USE DEF SourcesInv, Sources!SeedSource, Sources!ghosts, Sources!tables
<1>0. Sources!Done(c) /\ sourceRequest[c] # Sources!Idle
  BY DEF Sources!At, Sources!Idle
<1>1. SourcesShape'
  BY <1>0, DoneStep DEF SourcesShape, SourceRowOK, SourceRequestOK
<1>2. OneOwner'
  BY <1>0, DoneStep DEF OneOwner, Sources!Owners, Sources!Active, SourcesShape, SourceRowOK, SourceRequestOK
<1>3. OneRow'
  BY DEF OneRow, SourcesShape
<1>4. RowsUsable'
  BY <1>0, DoneStep DEF RowsUsable, UsableSoon, ChecksHold, QuietBut, OneRow, Sources!At, Sources!Idle, SourcesShape, SourceRowOK, SourceRequestOK
<1> QED
  BY <1>0, <1>1, <1>2, <1>3, <1>4, DoneStep, QuietIsSafe

LEMMA SourcesSeedFails ==
    ASSUME SourcesInv, NEW c \in Clients, Sources!SeedFails(c)
    PROVE  SourcesInv'
<1> USE DEF SourcesInv, Sources!SeedFails, Sources!ghosts, Sources!tables
<1>0. Sources!Done(c) /\ sourceRequest[c] # Sources!Idle
  BY DEF Sources!At, Sources!Idle
<1>1. SourcesShape'
  BY <1>0, DoneStep DEF SourcesShape, SourceRowOK, SourceRequestOK
<1>2. OneOwner'
  BY <1>0, DoneStep DEF OneOwner, Sources!Owners, Sources!Active, SourcesShape, SourceRowOK, SourceRequestOK
<1>3. OneRow'
  BY DEF OneRow, SourcesShape
<1>4. RowsUsable'
  BY <1>0, DoneStep DEF RowsUsable, UsableSoon, ChecksHold, QuietBut, OneRow, Sources!At, Sources!Idle, SourcesShape, SourceRowOK, SourceRequestOK
<1> QED
  BY <1>0, <1>1, <1>2, <1>3, <1>4, DoneStep, QuietIsSafe

LEMMA SourcesUnlink ==
    ASSUME SourcesInv, NEW c \in Clients, Sources!Unlink(c)
    PROVE  SourcesInv'
<1> USE DEF SourcesInv, Sources!Unlink, Sources!ghosts, Sources!tables
<1>0. Sources!Done(c) /\ sourceRequest[c] # Sources!Idle
  BY DEF Sources!At, Sources!Idle
<1>1. SourcesShape'
  BY <1>0, DoneStep DEF SourcesShape, SourceRowOK, SourceRequestOK
<1>2. OneOwner'
  BY <1>0, DoneStep DEF OneOwner, Sources!Owners, Sources!Active, SourcesShape, SourceRowOK, SourceRequestOK
<1>3. OneRow'
  BY DEF OneRow, SourcesShape
<1>4. RowsUsable'
  BY <1>0, DoneStep, QuietIsUsable DEF RowsUsable, UsableSoon, ChecksHold, QuietBut, OneRow, Sources!At, Sources!Idle, SourcesShape, SourceRowOK, SourceRequestOK
<1> QED
  BY <1>0, <1>1, <1>2, <1>3, <1>4, DoneStep, QuietIsSafe

LEMMA SourcesRequestDies ==
    ASSUME SourcesInv, NEW c \in Clients, Sources!RequestDies(c)
    PROVE  SourcesInv'
<1> USE DEF SourcesInv, Sources!RequestDies, Sources!ghosts, Sources!tables
<1>0. Sources!Done(c) /\ sourceRequest[c] # Sources!Idle
  BY DEF Sources!At, Sources!Idle
<1>1. SourcesShape'
  BY <1>0, DoneStep DEF SourcesShape, SourceRowOK, SourceRequestOK
<1>2. OneOwner'
  BY <1>0, DoneStep DEF OneOwner, Sources!Owners, Sources!Active, SourcesShape, SourceRowOK, SourceRequestOK
<1>3. OneRow'
  BY DEF OneRow, SourcesShape
<1>4. RowsUsable'
  BY <1>0, DoneStep DEF RowsUsable, UsableSoon, ChecksHold, QuietBut, OneRow, Sources!At, Sources!Idle, SourcesShape, SourceRowOK, SourceRequestOK
<1> QED
  BY <1>0, <1>1, <1>2, <1>3, <1>4, DoneStep, QuietIsSafe

LEMMA SourcesCheckUnused ==
    ASSUME SourcesInv, NEW c \in Clients, NEW k \in SourceKinds, Sources!CheckUnused(c, k)
    PROVE  SourcesInv'
<1> USE DEF SourcesInv, Sources!CheckUnused, Sources!ghosts, Sources!tables
<1>0. PICK r : r = [op |-> "drop", pc |-> "checked", kind |-> k]
  OBVIOUS
<1>1. Sources!Arrive(c, r)
  BY <1>0
<1>2. /\ ~crowded' => ~crowded /\ QuietBut(c)' /\ RowsUsable
      /\ sourceRequest' = [sourceRequest EXCEPT ![c] = r] /\ sourceRequest'[c] = r
      /\ OneRequest'
  BY <1>1, ArriveStep
<1>3. SourcesShape'
  BY <1>0, <1>2 DEF SourcesShape, SourceRowOK, SourceRequestOK
<1>4. OneOwner'
  BY <1>2 DEF OneOwner, Sources!Owners, Sources!Active, SourcesShape
<1>5. OneRow'
  BY DEF OneRow, SourcesShape
<1>6. RowsUsable'
  BY <1>2 DEF RowsUsable, SourcesShape
<1>7. ChecksHold'
  BY <1>0, <1>2 DEF ChecksHold, QuietBut, Sources!Idle
<1>8. UsableSoon'
  BY <1>0, <1>2, <1>5, <1>6 DEF UsableSoon, RowsUsable, QuietBut, Sources!Idle, OneRow, SourcesShape
<1> QED
  BY <1>2, <1>3, <1>4, <1>5, <1>7, <1>8

LEMMA SourcesBeginRegister ==
    ASSUME SourcesInv, NEW c \in Clients, NEW k \in SourceKinds, NEW ws, NEW conn \in BOOLEAN, Sources!BeginRegister(c, k, ws, conn)
    PROVE  SourcesInv'
<1> USE DEF SourcesInv, Sources!BeginRegister, Sources!ghosts, Sources!tables
<1>0. PICK r : r = [op |-> "register", pc |-> "begun", kind |-> k, ws |-> ws, conn |-> conn,
                         existed |-> source[k] # None]
  OBVIOUS
<1>1. Sources!Arrive(c, r)
  BY <1>0
<1>2. /\ ~crowded' => ~crowded /\ QuietBut(c)' /\ RowsUsable
      /\ sourceRequest' = [sourceRequest EXCEPT ![c] = r] /\ sourceRequest'[c] = r
      /\ OneRequest'
  BY <1>1, ArriveStep
<1>3. SourcesShape'
  BY <1>0, <1>2 DEF SourcesShape, SourceRowOK, SourceRequestOK
<1>4. OneOwner'
  BY <1>2 DEF OneOwner, Sources!Owners, Sources!Active, SourcesShape
<1>5. OneRow'
  BY DEF OneRow, SourcesShape
<1>6. RowsUsable'
  BY <1>2 DEF RowsUsable, SourcesShape
<1>7. ChecksHold'
  <2>1. source[k] # None => source[k].ws = ws
    OBVIOUS
  <2>2. r.op = "register" /\ r.pc = "begun" /\ r.kind = k /\ r.ws = ws /\ (r.existed <=> source[k] # None)
    BY <1>0
  <2> QED
    BY <1>2, <2>1, <2>2 DEF ChecksHold, QuietBut, Sources!Idle
<1>8. UsableSoon'
  BY <1>0, <1>2, <1>5, <1>6 DEF UsableSoon, RowsUsable, QuietBut, Sources!Idle, OneRow, SourcesShape
<1> QED
  BY <1>2, <1>3, <1>4, <1>5, <1>7, <1>8

LEMMA SourcesDeleteSource ==
    ASSUME SourcesInv, NEW c \in Clients, NEW k \in SourceKinds, Sources!DeleteSource(c, k)
    PROVE  SourcesInv'
<1> USE DEF SourcesInv, Sources!DeleteSource, Sources!ghosts, Sources!tables
<1>0. PICK r : r = [op |-> "delete", pc |-> "deleted", ws |-> source[k].ws]
  OBVIOUS
<1>1. Sources!Arrive(c, r)
  BY <1>0
<1>2. /\ ~crowded' => ~crowded /\ QuietBut(c)' /\ RowsUsable
      /\ sourceRequest' = [sourceRequest EXCEPT ![c] = r] /\ sourceRequest'[c] = r
      /\ OneRequest'
  BY <1>1, ArriveStep
<1>3. SourcesShape'
  BY <1>0, <1>2 DEF SourcesShape, SourceRowOK, SourceRequestOK
<1>4. OneOwner'
  BY <1>2 DEF OneOwner, Sources!Owners, Sources!Active, SourcesShape
<1>5. OneRow'
  BY DEF OneRow, SourcesShape
<1>6. RowsUsable'
  BY <1>2 DEF RowsUsable, SourcesShape
<1>7. ChecksHold'
  BY <1>0, <1>2 DEF ChecksHold, QuietBut, Sources!Idle
<1>8. UsableSoon'
  BY <1>0, <1>2, <1>5, <1>6 DEF UsableSoon, RowsUsable, QuietBut, Sources!Idle, OneRow, SourcesShape
<1> QED
  BY <1>2, <1>3, <1>4, <1>5, <1>7, <1>8

(* A request that goes on keeps all but its position.                      *)
LEMMA GoOnStep ==
    ASSUME SourcesInv, NEW c \in Clients, NEW pc, Sources!Step(c, pc),
           sourceRequest[c].op = "register"
    PROVE  /\ ~crowded' => ~crowded /\ QuietBut(c) /\ QuietBut(c)'
           /\ OneRequest'
           /\ \A d \in Clients \ {c} : sourceRequest'[d] = sourceRequest[d]
           /\ sourceRequest' = [d \in Clients |-> sourceRequest'[d]]
           /\ LET r == sourceRequest[c]
                  s == sourceRequest'[c]
              IN  /\ DOMAIN s = DOMAIN r /\ s.op = r.op /\ s.kind = r.kind /\ s.ws = r.ws
                  /\ s.conn = r.conn /\ s.existed = r.existed /\ s.pc = pc
                  /\ DOMAIN r = {"op", "pc", "kind", "ws", "conn", "existed"}
                  /\ r.kind \in SourceKinds
<1>1. DOMAIN sourceRequest[c] = {"op", "pc", "kind", "ws", "conn", "existed"} /\ sourceRequest[c].kind \in SourceKinds
  BY DEF SourcesInv, SourcesShape, SourceRequestOK, Sources!Idle
<1>2. /\ sourceRequest' = [sourceRequest EXCEPT ![c].pc = pc]
      /\ crowded' = crowded
  BY DEF Sources!Step
<1>3. /\ \A d \in Clients \ {c} : sourceRequest'[d] = sourceRequest[d]
      /\ sourceRequest' = [d \in Clients |-> sourceRequest'[d]]
      /\ sourceRequest'[c] = [sourceRequest[c] EXCEPT !.pc = pc]
  BY <1>2 DEF SourcesInv, SourcesShape
<1>4. ~crowded => QuietBut(c)
  BY DEF SourcesInv, OneRequest, QuietBut, Sources!Idle
<1>5. ~crowded' => QuietBut(c)'
  BY <1>2, <1>3, <1>4 DEF QuietBut
<1> QED
  BY <1>1, <1>2, <1>3, <1>4, <1>5 DEF OneRequest, QuietBut

LEMMA SourcesCheckRegister ==
    ASSUME SourcesInv, NEW c \in Clients, Sources!CheckRegister(c)
    PROVE  SourcesInv'
<1> USE DEF SourcesInv, Sources!CheckRegister, Sources!ghosts, Sources!tables
<1>0. sourceRequest[c].op = "register" /\ sourceRequest[c].pc = "begun" /\ sourceRequest[c] # Sources!Idle
  BY DEF Sources!At, Sources!Idle
<1>1. OneRow'
  BY DEF OneRow, SourcesShape
<1>2. CASE Sources!Done(c)
  <2>1. SourcesShape'
    BY <1>0, <1>2, DoneStep DEF SourcesShape, SourceRowOK, SourceRequestOK
  <2>2. OneOwner'
    BY <1>0, <1>2, DoneStep DEF OneOwner, Sources!Owners, Sources!Active, SourcesShape
  <2>3. RowsUsable'
    BY <1>0, <1>2, DoneStep, QuietIsUsable DEF RowsUsable, SourcesShape
  <2> QED
    BY <1>0, <1>1, <1>2, <2>1, <2>2, <2>3, DoneStep, QuietIsSafe
<1>3. CASE /\ Sources!Step(c, "checked")
           /\ sourceRequest[c].conn => connections[sourceRequest[c].kind]
           /\ Sources!DatasetAvailable(sourceRequest[c].kind)
  <2>1. SourcesShape'
    BY <1>0, <1>3, GoOnStep DEF SourcesShape, SourceRowOK, SourceRequestOK
  <2>0. UNCHANGED <<source, claimant, stream, unchecked, crowded>>
    BY <1>3 DEF Sources!Step
  <2>2. OneOwner'
    BY <2>0 DEF OneOwner, Sources!Owners, Sources!Active
  <2>3. ChecksHold'
    BY <1>0, <1>3, GoOnStep DEF ChecksHold, QuietBut, Sources!Idle, Sources!DatasetAvailable, Sources!Active
  <2>4. RowsUsable'
    BY <1>0, <1>3, GoOnStep, QuietIsUsable DEF RowsUsable, SourcesShape
  <2>5. UsableSoon'
    BY <1>0, <1>3, <2>4, GoOnStep DEF UsableSoon, RowsUsable, QuietBut, Sources!Idle
  <2> QED
    BY <1>0, <1>1, <1>3, <2>1, <2>2, <2>3, <2>5, GoOnStep
<1> QED
  BY <1>2, <1>3

LEMMA SourcesInsertSource ==
    ASSUME SourcesInv, NEW c \in Clients, Sources!InsertSource(c)
    PROVE  SourcesInv'
<1> DEFINE r == sourceRequest[c]
           new == [status |-> "active", ws |-> r.ws, conn |-> r.conn]
<1> USE DEF SourcesInv, Sources!InsertSource
<1>0. r.op = "register" /\ r.pc = "checked" /\ r # Sources!Idle /\ Sources!Step(c, "inserted")
  BY DEF Sources!At, Sources!Idle
<1>1. r.kind \in SourceKinds
  BY <1>0, GoOnStep
<1>2. /\ source' = [source EXCEPT ![r.kind] = new]
      /\ source'[r.kind] = new
      /\ readopted' = (readopted \/ \E j \in SourceKinds \ {r.kind} : source[j] # None)
      /\ UNCHANGED <<connections, claimant, stream, sourceLinked, unchecked, broken>>
  BY <1>1 DEF SourcesShape
<1>a. \A j \in SourceKinds \ {r.kind} : source'[j] = source[j]
  BY <1>2 DEF SourcesShape
<1>3. SourcesShape'
  BY <1>0, <1>2, GoOnStep DEF SourcesShape, SourceRowOK, SourceRequestOK
<1>4. OneOwner'
  <2> SUFFICES ASSUME ~crowded', ~unchecked' PROVE Sources!Owners' \subseteq {r.kind}
    BY DEF OneOwner
  <2>1. Sources!DatasetAvailable(r.kind)
    BY <1>0, GoOnStep DEF ChecksHold
  <2> QED
    BY <2>1, <1>2, <1>a DEF Sources!DatasetAvailable, Sources!Owners, Sources!Active
<1>5. OneRow'
  BY <1>2, <1>a DEF OneRow
<1>6. ChecksHold'
  BY <1>0, GoOnStep DEF ChecksHold, QuietBut, Sources!Idle
<1>7. UsableSoon'
  <2> SUFFICES ASSUME ~crowded', ~broken', ~readopted' PROVE UsableSoon'
    BY DEF UsableSoon
  <2>1. \A j \in SourceKinds : source'[j] # None => j = r.kind
    BY <1>2, <1>a
  <2>2. r.conn => connections[r.kind]
    BY <1>0, GoOnStep DEF ChecksHold
  <2>3. ~readopted /\ ~broken /\ ~crowded /\ RowsUsable
    <3>1. ~readopted /\ ~broken /\ ~crowded /\ QuietBut(c)
      <4>1. ~readopted /\ ~broken
        <5>1. readopted' = (readopted \/ \E j \in SourceKinds \ {r.kind} : source[j] # None)
          BY <1>2
        <5>2. broken' = broken
          BY <1>2
        <5>3. ~readopted
          BY <5>1
        <5>4. ~broken
          BY <5>2
        <5> QED
          BY <5>3, <5>4
      <4> QED
        BY <4>1, <1>0, GoOnStep
    <3> QED
      BY <3>1, <1>0, QuietIsUsable
  <2>4. r.existed => r.ws \in sourceLinked
    BY <1>0, <1>1, <2>3, GoOnStep DEF ChecksHold, RowsUsable
  <2>5. \A d \in Clients \ {c} : sourceRequest'[d] = Sources!Idle
    BY <1>0, GoOnStep DEF QuietBut
  <2>6. /\ sourceRequest'[c].op = "register" /\ sourceRequest'[c].pc = "inserted"
        /\ sourceRequest'[c].kind = r.kind /\ sourceRequest'[c].ws = r.ws
        /\ sourceRequest'[c].existed = r.existed
    BY <1>0, GoOnStep
  <2>7. source'[r.kind].ws = r.ws /\ source'[r.kind].conn = r.conn
    BY <1>2
  <2>8. sourceLinked' = sourceLinked /\ connections' = connections
    BY <1>2
  <2>9. ASSUME NEW k \in SourceKinds, source'[k] # None
        PROVE  /\ source'[k].conn => connections'[k]
               /\ \E d \in Clients : /\ sourceRequest'[d].op = "register"
                                    /\ sourceRequest'[d].pc = "inserted"
                                    /\ sourceRequest'[d].kind = k
                                    /\ sourceRequest'[d].ws = source'[k].ws
    BY <2>1, <2>2, <2>6, <2>7, <2>8, <2>9
  <2>10. ASSUME NEW d \in Clients
         PROVE  LET q == sourceRequest'[d] IN
                /\ q.op = "register" /\ q.pc = "inserted" /\ q.existed => q.ws \in sourceLinked'
                /\ q.op # "delete"
    BY <2>4, <2>5, <2>6, <2>8 DEF Sources!Idle
  <2> QED
    BY <2>9, <2>10 DEF UsableSoon
<1> QED
  BY <1>0, <1>3, <1>4, <1>5, <1>6, <1>7, GoOnStep

LEMMA SourcesBackfill ==
    ASSUME SourcesInv, Sources!Backfill
    PROVE  SourcesInv'
<1>1. /\ sourceLinked \subseteq sourceLinked'
      /\ UNCHANGED <<source, connections, claimant, stream, sourceRequest, crowded,
                     unchecked, readopted, broken>>
  BY DEF Sources!Backfill
<1>2. SourcesShape' /\ OneRequest'
  BY <1>1 DEF SourcesInv, SourcesShape, SourceRowOK, SourceRequestOK, OneRequest
<1>3. OneOwner' /\ OneRow'
  BY <1>1 DEF SourcesInv, OneOwner, OneRow, Sources!Owners, Sources!Active
<1>4. ChecksHold'
  BY <1>1 DEF SourcesInv, ChecksHold, Sources!DatasetAvailable, Sources!Active
<1>5. UsableSoon'
  BY <1>1 DEF SourcesInv, UsableSoon
<1> QED
  BY <1>2, <1>3, <1>4, <1>5 DEF SourcesInv

LEMMA SourcesStep ==
    ASSUME SourcesInv, [Sources!Next]_Sources!vars
    PROVE  SourcesInv'
<1>1. CASE UNCHANGED Sources!vars
  <2> USE <1>1 DEF Sources!vars, SourcesInv
  <2>1. SourcesShape' /\ OneRequest'
    BY DEF SourcesShape, SourceRowOK, SourceRequestOK, OneRequest
  <2>2. OneOwner' /\ OneRow'
    BY DEF OneOwner, OneRow, Sources!Owners, Sources!Active
  <2>3. ChecksHold'
    BY DEF ChecksHold, Sources!DatasetAvailable, Sources!Active
  <2>4. UsableSoon'
    BY DEF UsableSoon
  <2> QED
    BY <2>1, <2>2, <2>3, <2>4
<1>2. CASE Sources!Next
  BY <1>2, SourcesRegisterConnection, SourcesSetStatus, SourcesRegisterPlugin,
     SourcesSetPluginStatus, SourcesClaimStream, SourcesDropConnection, SourcesSeedSource,
     SourcesSeedFails, SourcesUnlink, SourcesRequestDies, SourcesCheckUnused,
     SourcesBeginRegister, SourcesDeleteSource, SourcesCheckRegister, SourcesInsertSource,
     SourcesBackfill DEF Sources!Next
<1> QED
  BY <1>1, <1>2

LEMMA SourcesCardinality == \A S : Sources!Cardinality(S) = Cardinality(S)
BY DEF Cardinality, Sources!Cardinality

LEMMA SourcesInvSuffices ==
    ASSUME SourcesInv PROVE Sources!DatasetOwnedOnce /\ Sources!SourceUsable
<1>1. Sources!DatasetOwnedOnce
  <2> SUFFICES ASSUME ~crowded, ~unchecked PROVE Cardinality(Sources!Owners) <= 1
    BY SourcesCardinality DEF Sources!DatasetOwnedOnce
  <2>1. \A x, y \in Sources!Owners : x = y
    BY DEF SourcesInv, OneOwner
  <2>2. CASE Sources!Owners = {}
    BY <2>2, FS_EmptySet
  <2>3. ASSUME NEW x \in Sources!Owners PROVE Cardinality(Sources!Owners) <= 1
    <3>1. Sources!Owners = {x}
      BY <2>1, <2>3
    <3> QED
      BY <3>1, FS_Singleton
  <2> QED
    BY <2>2, <2>3
<1>2. Sources!SourceUsable
  BY QuietIsUsable DEF Sources!SourceUsable, Quiet, RowsUsable, SourcesInv
<1> QED
  BY <1>1, <1>2

(* One active owner per dataset name and a source that can be used, and no *)
(* stored secret at a new destination, in every reachable state.           *)
THEOREM SourcesAreSound == Spec => []SourcesSound
<1> DEFINE I == /\ SourcesInv /\ ConnectionsInv
                /\ registration = [c \in Clients |-> registration[c]]
<1>1. Init => I
  BY SourcesInitOK, ConnectionsInit DEF Init, Connections!Init
<1>2. I /\ [Next]_vars => I'
  BY ComponentSteps, SourcesStep, ConnectionsStep
<1>3. I => SourcesSound
  BY SourcesInvSuffices DEF SourcesSound, ConnectionsInv
<1> QED
  BY <1>1, <1>2, <1>3, PTL DEF Spec

-----------------------------------------------------------------------------
(* Agent sessions: the shapes of the row, the turns and the accounts.      *)
AgentType ==
    /\ session \in Agent!SessionRow \cup {None}
    /\ turn \in [Clients -> Agent!TurnState \cup {None}]
    /\ transcript \in Seq(Agent!Messages) /\ completions \in Seq({"completed", "aborted"})
    /\ actual \in Agent!Counts /\ day \in Nat /\ returned \in Nat /\ unbilled \in Nat
    /\ day >= returned - unbilled
    /\ linked \in BOOLEAN /\ overlapped \in BOOLEAN /\ lossy \in BOOLEAN
    /\ swept \in BOOLEAN /\ malformed \in BOOLEAN

(* A session is untouched until the request that creates it has linked it. *)
AgentPhase ==
    /\ linked => session # None
    /\ \A d \in Clients : turn[d] # None =>
          /\ turn[d].pc = "seed" => ~linked /\ session # None
          /\ turn[d].pc \notin {"seed", "ask", "evaluate", "bill"} => linked
    /\ \A d, e \in {c \in Clients : turn[c] # None /\ turn[c].pc = "seed"} : d = e
    /\ ~linked => /\ actual = Agent!Zero /\ completions = <<>> /\ transcript = <<>>
                  /\ session # None => session.consumed = Agent!Zero

(* Of the tool calls the messages ask for, at most the last n have no      *)
(* result yet.                                                             *)
Awaiting(ms, n) ==
    \A i \in DOMAIN ms : \A k \in 1..ms[i].uses :
       IF i + k <= Len(ms) THEN ms[i + k].role = "tool" ELSE i + k <= Len(ms) + n

(* The one turn that runs holds the account of the session, or, between    *)
(* turns, the row does; a session that is open has money left, has not     *)
(* been announced as closed, and its transcript can be sent.               *)
Healthy(n) == completions = <<>> /\ actual.tokens <= Budget.tokens /\ Awaiting(transcript, n)
HeldBy(d) ==
    /\ turn[d].consumed = actual /\ turn[d].messages = transcript
    /\ Healthy(IF turn[d].pc = "tools" THEN turn[d].left ELSE 0)
HeldByRow ==
    session # None => session.consumed = actual /\ (session.status = "running" => Healthy(0))
Books ==
    /\ actual.iterations <= Budget.iterations /\ actual.tools <= Budget.tools
    /\ actual.tokens <= Budget.tokens + Agent!Max(Tokens)
    /\ ~malformed
    /\ session # None /\ session.status # "running" => completions # <<>> \/ swept
    /\ Len(completions) <= 1
AgentSole ==
    Agent!Undisturbed =>
       /\ \A d, e \in Agent!Running : d = e
       /\ \A d \in Agent!Running : HeldBy(d)
       /\ Agent!Running = {} => HeldByRow
       /\ Books

AgentInv == AgentType /\ AgentPhase /\ AgentSole

LEMMA AgentMax == Agent!Max(Tokens) \in Nat /\ \A cost \in Tokens : cost <= Agent!Max(Tokens)
BY PlatformAssumption DEF Agent!Max

LEMMA AgentBudget ==
    /\ Budget.iterations \in Nat /\ Budget.tools \in Nat /\ Budget.tokens \in Nat
    /\ Agent!Zero \in Agent!Counts
    /\ Agent!Zero.iterations = 0 /\ Agent!Zero.tools = 0 /\ Agent!Zero.tokens = 0
BY PlatformAssumption DEF Agent!Counts, Agent!Zero

LEMMA AgentUses == \A m \in Agent!Messages : m.uses \in Nat
<1>1. MaxUses \in Nat
  BY PlatformAssumption
<1> QED
  BY <1>1 DEF Agent!Messages

LEMMA AgentInit == Agent!Init => AgentInv
<1> SUFFICES ASSUME Agent!Init PROVE AgentInv
  OBVIOUS
<1> USE DEF Agent!Init
<1>1. AgentType
  <2>1. turn \in [Clients -> Agent!TurnState \cup {None}]
    OBVIOUS
  <2>2. transcript \in Seq(Agent!Messages) /\ completions \in Seq({"completed", "aborted"})
    OBVIOUS
  <2>3. /\ actual \in Agent!Counts /\ day \in Nat /\ returned \in Nat /\ unbilled \in Nat
        /\ day >= returned - unbilled
    BY AgentBudget
  <2>4. /\ linked \in BOOLEAN /\ overlapped \in BOOLEAN /\ lossy \in BOOLEAN
        /\ swept \in BOOLEAN /\ malformed \in BOOLEAN /\ session \in Agent!SessionRow \cup {None}
    OBVIOUS
  <2> QED
    BY <2>1, <2>2, <2>3, <2>4 DEF AgentType
<1>2. AgentPhase
  <2>1. \A d \in Clients : turn[d] = None
    OBVIOUS
  <2>2. ~linked /\ actual = Agent!Zero /\ completions = <<>> /\ transcript = <<>> /\ session = None
    OBVIOUS
  <2> HIDE DEF Agent!Init
  <2> QED
    BY <2>1, <2>2 DEF AgentPhase
<1>3. AgentSole
  BY AgentBudget, AgentMax DEF AgentSole, HeldByRow, Books, Agent!Running
<1> QED
  BY <1>1, <1>2, <1>3 DEF AgentInv

(* What a message does to the transcript.                                  *)
LEMMA AppendAnswer ==
    ASSUME NEW ms \in Seq(Agent!Messages), NEW m \in Agent!Messages, Awaiting(ms, 0)
    PROVE  Awaiting(Append(ms, m), m.uses)
<1>1. /\ Len(Append(ms, m)) = Len(ms) + 1 /\ Append(ms, m)[Len(ms) + 1] = m
      /\ \A i \in 1..Len(ms) : Append(ms, m)[i] = ms[i]
      /\ DOMAIN Append(ms, m) = 1..(Len(ms) + 1) /\ DOMAIN ms = 1..Len(ms)
  OBVIOUS
<1>2. m.uses \in Nat /\ \A i \in 1..Len(ms) : ms[i].uses \in Nat
  BY AgentUses
<1>3. \A i \in 1..Len(ms) : \A k \in 1..ms[i].uses : i + k <= Len(ms) /\ ms[i + k].role = "tool"
  <2> SUFFICES ASSUME NEW i \in 1..Len(ms), NEW k \in 1..ms[i].uses
               PROVE  i + k <= Len(ms) /\ ms[i + k].role = "tool"
    OBVIOUS
  <2>1. IF i + k <= Len(ms) THEN ms[i + k].role = "tool" ELSE i + k <= Len(ms) + 0
    BY <1>1 DEF Awaiting
  <2>2. i + k \in Nat /\ Len(ms) \in Nat
    BY <1>2
  <2> QED
    BY <2>1, <2>2
<1> SUFFICES ASSUME NEW i \in 1..(Len(ms) + 1), NEW k \in 1..(Append(ms, m)[i].uses)
             PROVE  IF i + k <= Len(ms) + 1 THEN Append(ms, m)[i + k].role = "tool"
                    ELSE i + k <= Len(ms) + 1 + m.uses
  BY <1>1 DEF Awaiting
<1>4. CASE i = Len(ms) + 1
  BY <1>1, <1>2, <1>4
<1>5. CASE i \in 1..Len(ms)
  BY <1>1, <1>2, <1>3, <1>5
<1> QED
  BY <1>4, <1>5

LEMMA AppendResult ==
    ASSUME NEW ms \in Seq(Agent!Messages), NEW n \in Nat, n > 0, Awaiting(ms, n),
           NEW m \in Agent!Messages, m.role = "tool", m.uses = 0
    PROVE  Awaiting(Append(ms, m), n - 1)
<1>1. /\ Len(Append(ms, m)) = Len(ms) + 1 /\ Append(ms, m)[Len(ms) + 1] = m
      /\ \A i \in 1..Len(ms) : Append(ms, m)[i] = ms[i]
      /\ DOMAIN Append(ms, m) = 1..(Len(ms) + 1) /\ DOMAIN ms = 1..Len(ms)
  OBVIOUS
<1>2. \A i \in 1..Len(ms) : ms[i].uses \in Nat
  BY AgentUses
<1>3. \A i \in 1..Len(ms) : \A k \in 1..ms[i].uses :
        IF i + k <= Len(ms) THEN ms[i + k].role = "tool" ELSE i + k <= Len(ms) + n
  BY <1>1 DEF Awaiting
<1> SUFFICES ASSUME NEW i \in 1..(Len(ms) + 1), NEW k \in 1..(Append(ms, m)[i].uses)
             PROVE  IF i + k <= Len(ms) + 1 THEN Append(ms, m)[i + k].role = "tool"
                    ELSE i + k <= Len(ms) + 1 + (n - 1)
  BY <1>1 DEF Awaiting
<1>4. i \in 1..Len(ms)
  BY <1>1
<1>5. CASE i + k <= Len(ms)
  BY <1>1, <1>2, <1>3, <1>4, <1>5
<1>6. CASE i + k > Len(ms)
  <2>1. k \in 1..ms[i].uses
    BY <1>1, <1>4
  <2>2. i + k <= Len(ms) + n
    BY <1>3, <1>4, <1>6, <2>1
  <2>3. i + k \in Nat /\ Len(ms) \in Nat
    BY <1>2, <1>4
  <2>4. CASE i + k = Len(ms) + 1
    BY <1>1, <2>3, <2>4
  <2>5. CASE i + k # Len(ms) + 1
    BY <1>6, <2>2, <2>3, <2>5
  <2> QED
    BY <2>4, <2>5
<1> QED
  BY <1>2, <1>4, <1>5, <1>6, <1>1

LEMMA AwaitingNone == ASSUME NEW ms \in Seq(Agent!Messages), Awaiting(ms, 0) PROVE Agent!Paired(ms)
<1>1. DOMAIN ms = 1..Len(ms) /\ \A i \in DOMAIN ms : ms[i].uses \in Nat /\ i \in Nat
  BY AgentUses
<1> QED
  BY <1>1 DEF Awaiting, Agent!Paired

(* How a step of one driver changes which turns run.                       *)
LEMMA TurnChange ==
    ASSUME AgentType, NEW d \in Clients, NEW r, turn' = [turn EXCEPT ![d] = r]
    PROVE  /\ turn'[d] = r /\ \A e \in Clients \ {d} : turn'[e] = turn[e]
           /\ Agent!Running' = IF r # None /\ r.pc \notin {"seed", "load", "ask", "evaluate", "bill"}
                               THEN Agent!Running \cup {d} ELSE Agent!Running \ {d}
BY DEF AgentType, Agent!Running

LEMMA TypedTurn ==
    ASSUME AgentType, NEW d \in Clients, NEW r \in Agent!TurnState \cup {None}, turn' = [turn EXCEPT ![d] = r]
    PROVE  turn' \in [Clients -> Agent!TurnState \cup {None}]
BY DEF AgentType

(* A step that touches neither the account nor a turn that runs.           *)
LEMMA SoleIdle ==
    ASSUME AgentSole, Agent!Running' = Agent!Running, \A e \in Agent!Running : turn'[e] = turn[e],
           UNCHANGED <<session, transcript, completions, actual, overlapped, lossy, malformed>>,
           swept => swept'
    PROVE  AgentSole'
BY DEF AgentSole, Agent!Undisturbed, HeldBy, HeldByRow, Healthy, Books, Awaiting

(* The turn that runs goes on, or leaves the account with the row.         *)
LEMMA SoleGoOn ==
    ASSUME AgentSole, NEW d \in Agent!Running, UNCHANGED <<overlapped, lossy>>,
           Agent!Running' \subseteq Agent!Running \cup {d},
           Agent!Undisturbed => HeldBy(d)' /\ Books', d \in Agent!Running'
    PROVE  AgentSole'
BY DEF AgentSole, Agent!Undisturbed

LEMMA SoleLeave ==
    ASSUME AgentSole, NEW d \in Agent!Running, UNCHANGED <<overlapped, lossy>>,
           Agent!Running' \subseteq Agent!Running \ {d},
           Agent!Undisturbed => HeldByRow' /\ Books'
    PROVE  AgentSole'
BY DEF AgentSole, Agent!Undisturbed

LEMMA AgentFinish ==
    ASSUME AgentType, session # None, NEW st \in {"completed", "aborted"}, NEW c \in Agent!Counts,
           Agent!FinishSession(st, c)
    PROVE  /\ session' \in Agent!SessionRow /\ session' # None
           /\ session'.status = st /\ session'.consumed = c
           /\ completions' \in Seq({"completed", "aborted"})
           /\ Len(completions') = Len(completions) + 1 /\ completions' # <<>>
<1>1. /\ session' = [session EXCEPT !.status = st, !.consumed = c]
      /\ completions' = Append(completions, st) /\ session \in Agent!SessionRow
  BY DEF AgentType, Agent!FinishSession
<1>2. session' \in Agent!SessionRow /\ session'.status = st /\ session'.consumed = c
  BY <1>1 DEF Agent!SessionRow
<1>3. completions' \in Seq({"completed", "aborted"}) /\ Len(completions') = Len(completions) + 1
  BY <1>1 DEF AgentType
<1>4. completions' # <<>>
  BY <1>3 DEF AgentType
<1> QED
  BY <1>2, <1>3, <1>4, PlatformAssumption

(* The requests that create a session, start a turn, ask or bill.          *)
LEMMA FreshTurn ==
    ASSUME NEW p \in {"seed", "load", "ask", "evaluate"}
    PROVE  [pc |-> p, consumed |-> Agent!Zero, messages |-> <<>>, left |-> 0, own |-> 0]
              \in Agent!TurnState
<1>1. MaxUses \in Nat
  BY PlatformAssumption
<1>2. <<>> \in Seq(Agent!Messages)
  OBVIOUS
<1> QED
  BY <1>1, <1>2, AgentBudget DEF Agent!TurnState

LEMMA AgentCreate ==
    ASSUME AgentInv, NEW d \in Clients, NEW chain \in BOOLEAN, Agent!Create(d, chain)
    PROVE  AgentInv'
<1> USE DEF AgentInv
<1>1. CASE Agent!WithinLimits
  <2>1. PICK r \in Agent!TurnState : r.pc = "seed" /\ turn' = [turn EXCEPT ![d] = r]
    BY <1>1, FreshTurn DEF Agent!Create
  <2>2. PICK s \in Agent!SessionRow : s.status = "running" /\ s.consumed = Agent!Zero /\ session' = s
    BY <1>1, AgentBudget DEF Agent!Create, Agent!SessionRow
  <2>3. /\ UNCHANGED <<linked, transcript, day, completions, actual, returned, unbilled, overlapped, lossy, swept, malformed>>
        /\ session = None /\ turn[d] = None
    BY DEF Agent!Create, Agent!accounts, Agent!ghosts
  <2>4. r # None /\ s # None
    BY PlatformAssumption
  <2>5. AgentType'
    BY <2>1, <2>2, <2>3, TypedTurn DEF AgentType
  <2>6. /\ turn'[d] = r /\ \A e \in Clients \ {d} : turn'[e] = turn[e]
        /\ Agent!Running' = Agent!Running \ {d}
    BY <2>1, TurnChange
  <2>7. ~linked /\ \A e \in Clients : turn[e] # None => turn[e].pc \in {"ask", "evaluate", "bill"}
    BY <2>3 DEF AgentPhase
  <2>8. AgentPhase'
    BY <2>1, <2>2, <2>3, <2>4, <2>6, <2>7 DEF AgentPhase
  <2>9. AgentSole'
    <3>1. Agent!Running' = {} /\ actual' = Agent!Zero /\ completions' = <<>> /\ transcript' = <<>>
      BY <2>6, <2>7, <2>3 DEF Agent!Running, AgentPhase
    <3>2. HeldByRow'
      BY <2>2, <2>4, <3>1, AgentBudget DEF HeldByRow, Healthy, Awaiting
    <3>3. Agent!Undisturbed' => Books'
      BY <2>2, <2>3, <3>1, AgentBudget, AgentMax DEF Books, AgentSole, Agent!Undisturbed
    <3> QED
      BY <3>1, <3>2, <3>3 DEF AgentSole
  <2> QED
    BY <2>5, <2>8, <2>9
<1>2. CASE ~Agent!WithinLimits
  <2>1. UNCHANGED <<session, turn, linked, transcript, day, completions, actual, returned, unbilled, overlapped, lossy, swept, malformed>>
    BY <1>2 DEF Agent!Create, Agent!accounts, Agent!ghosts
  <2>2. AgentType' /\ AgentPhase'
    BY <2>1 DEF AgentType, AgentPhase
  <2>3. AgentSole'
    BY <2>1, SoleIdle DEF Agent!Running
  <2> QED
    BY <2>2, <2>3
<1> QED
  BY <1>1, <1>2

LEMMA AgentSeed ==
    ASSUME AgentInv, NEW d \in Clients, Agent!Seed(d)
    PROVE  AgentInv'
<1> USE DEF AgentInv
<1>1. /\ turn[d] # None /\ turn[d].pc = "seed" /\ turn' = [turn EXCEPT ![d] = None]
      /\ UNCHANGED <<transcript, day, completions, actual, returned, unbilled, overlapped, lossy, swept, malformed>>
      /\ \/ linked' = TRUE /\ session' = session
         \/ session' = None /\ linked' = linked
  BY DEF Agent!Seed, Agent!Stop, Agent!accounts, Agent!ghosts
<1>2. /\ turn'[d] = None /\ \A e \in Clients \ {d} : turn'[e] = turn[e]
      /\ Agent!Running' = Agent!Running \ {d}
  BY <1>1, TurnChange
<1>3. AgentType'
  BY <1>1, TypedTurn DEF AgentType
<1>4. /\ ~linked /\ session # None
      /\ \A e \in Clients \ {d} : turn[e] # None => turn[e].pc \in {"ask", "evaluate", "bill"}
  BY <1>1 DEF AgentPhase
<1>5. AgentPhase'
  BY <1>1, <1>2, <1>4 DEF AgentPhase
<1>6. Agent!Running = {} /\ Agent!Running' = {}
  BY <1>1, <1>2, <1>4 DEF Agent!Running
<1>7. CASE session' = session
  <2>1. AgentSole'
    BY <1>1, <1>6, <1>7, SoleIdle
  <2> QED
    BY <1>3, <1>5, <2>1
<1>8. CASE session' = None
  <2>1. HeldByRow'
    BY <1>8 DEF HeldByRow
  <2>2. Agent!Undisturbed' => Books'
    BY <1>1, <1>8 DEF Books, AgentSole, Agent!Undisturbed
  <2> QED
    BY <1>3, <1>5, <1>6, <2>1, <2>2 DEF AgentSole
<1> QED
  BY <1>1, <1>3, <1>5, <1>7, <1>8

LEMMA AgentSpend ==
    ASSUME AgentInv, NEW d \in Clients, turn[d] = None, NEW p \in {"load", "ask", "evaluate"}, Agent!Spend(d, p),
           p = "load" => linked,
           UNCHANGED <<session, linked, transcript, day, completions, actual, returned, unbilled, overlapped, lossy, swept, malformed>>
    PROVE  AgentInv'
<1> USE DEF AgentInv
<1>1. CASE Agent!WithinLimits
  <2>1. PICK r \in Agent!TurnState : r.pc = p /\ turn' = [turn EXCEPT ![d] = r]
    BY <1>1, FreshTurn DEF Agent!Spend
  <2>2. r # None
    BY PlatformAssumption
  <2>3. /\ turn'[d] = r /\ \A e \in Clients \ {d} : turn'[e] = turn[e]
        /\ Agent!Running' = Agent!Running \ {d} /\ d \notin Agent!Running
    BY <2>1, TurnChange DEF Agent!Running
  <2>4. AgentType'
    BY <2>1, TypedTurn DEF AgentType
  <2>5. AgentPhase'
    BY <2>1, <2>3 DEF AgentPhase
  <2>6. AgentSole'
    BY <2>3, SoleIdle DEF Agent!Running
  <2> QED
    BY <2>4, <2>5, <2>6
<1>2. CASE ~Agent!WithinLimits
  <2>1. turn' = turn
    BY <1>2 DEF Agent!Spend
  <2>2. AgentType' /\ AgentPhase'
    BY <2>1 DEF AgentType, AgentPhase
  <2>3. AgentSole'
    BY <2>1, SoleIdle DEF Agent!Running
  <2> QED
    BY <2>2, <2>3
<1> QED
  BY <1>1, <1>2

LEMMA AgentBegin ==
    ASSUME AgentInv, NEW d \in Clients, Agent!Begin(d)
    PROVE  AgentInv'
BY AgentSpend DEF Agent!Begin, Agent!accounts, Agent!ghosts

LEMMA AgentAsk ==
    ASSUME AgentInv, NEW d \in Clients, Agent!Ask(d)
    PROVE  AgentInv'
BY AgentSpend DEF Agent!Ask, Agent!accounts, Agent!ghosts

LEMMA AgentAnswer ==
    ASSUME AgentInv, NEW d \in Clients, NEW cost \in Tokens, Agent!Answer(d, cost)
    PROVE  AgentInv'
<1> USE DEF AgentInv
<1>1. /\ turn[d] # None /\ turn[d].pc = "ask" /\ turn' = [turn EXCEPT ![d].pc = "bill", ![d].own = cost]
      /\ UNCHANGED <<session, linked, transcript, day, completions, actual, returned, unbilled, overlapped, lossy, swept, malformed>>
  BY DEF Agent!Answer, Agent!accounts, Agent!ghosts
<1>2. turn[d] \in Agent!TurnState /\ cost \in Nat
  BY <1>1, PlatformAssumption DEF AgentType
<1>3. PICK r \in Agent!TurnState : r.pc = "bill" /\ turn' = [turn EXCEPT ![d] = r]
  <2>1. PICK r : r = [turn[d] EXCEPT !.pc = "bill", !.own = cost]
    OBVIOUS
  <2>2. r \in Agent!TurnState /\ r.pc = "bill"
    BY <1>2, <2>1 DEF Agent!TurnState
  <2>3. turn' = [turn EXCEPT ![d] = r]
    BY <1>1, <2>1 DEF AgentType
  <2> QED
    BY <2>2, <2>3
<1>4. /\ turn'[d] = r /\ \A e \in Clients \ {d} : turn'[e] = turn[e]
      /\ Agent!Running' = Agent!Running \ {d} /\ d \notin Agent!Running
  BY <1>1, <1>3, TurnChange DEF Agent!Running
<1>5. AgentType'
  BY <1>1, <1>3, TypedTurn DEF AgentType
<1>6. AgentPhase'
  <2>1. \A e \in Clients : turn'[e] # None /\ turn'[e].pc # "bill" => e # d /\ turn'[e] = turn[e]
    BY <1>3, <1>4
  <2> QED
    BY <1>1, <2>1, ZenonT(60) DEF AgentPhase
<1>7. AgentSole'
  BY <1>1, <1>4, SoleIdle DEF Agent!Running
<1> QED
  BY <1>5, <1>6, <1>7

LEMMA AgentBill ==
    ASSUME AgentInv, NEW d \in Clients, Agent!Bill(d)
    PROVE  AgentInv'
<1> USE DEF AgentInv
<1>1. /\ turn[d] # None /\ turn[d].pc = "bill" /\ turn' = [turn EXCEPT ![d] = None]
      /\ day' = day + Agent!Billed(d) /\ returned' = returned + turn[d].own
      /\ UNCHANGED <<session, linked, transcript, completions, actual, unbilled, overlapped, lossy, swept,
                     malformed>>
  BY DEF Agent!Bill, Agent!Stop, Agent!accounts, Agent!ghosts
<1>2. turn[d] \in Agent!TurnState
  BY <1>1 DEF AgentType
<1>3. Agent!Billed(d) \in Nat /\ turn[d].own \in Nat /\ Agent!Billed(d) >= turn[d].own
  BY <1>2 DEF Agent!Billed, Agent!TurnState, Agent!Counts
<1>4. /\ turn'[d] = None /\ \A e \in Clients \ {d} : turn'[e] = turn[e]
      /\ Agent!Running' = Agent!Running \ {d} /\ d \notin Agent!Running
  BY <1>1, TurnChange DEF Agent!Running
<1>5. AgentType'
  <2>1. day' \in Nat /\ returned' \in Nat /\ day' >= returned' - unbilled'
    BY <1>1, <1>3 DEF AgentType
  <2> QED
    BY <1>1, <2>1, TypedTurn DEF AgentType
<1>6. AgentPhase'
  BY <1>1, <1>4 DEF AgentPhase
<1>7. AgentSole'
  BY <1>1, <1>4, SoleIdle DEF Agent!Running
<1> QED
  BY <1>5, <1>6, <1>7

LEMMA AgentFree ==
    ASSUME AgentInv, NEW cost \in Tokens, Agent!Free(cost)
    PROVE  returned' \in Nat /\ unbilled' \in Nat /\ day >= returned' - unbilled'
BY PlatformAssumption DEF AgentInv, AgentType, Agent!Free

LEMMA AgentEvaluate ==
    ASSUME AgentInv, NEW d \in Clients, Agent!Evaluate(d)
    PROVE  AgentInv'
BY AgentSpend DEF Agent!Evaluate, Agent!accounts, Agent!ghosts

LEMMA AgentRunGoldSet ==
    ASSUME AgentInv, NEW d \in Clients, NEW cost \in Tokens, Agent!RunGoldSet(d, cost)
    PROVE  AgentInv'
<1> USE DEF AgentInv
<1>1. /\ turn[d] # None /\ turn[d].pc = "evaluate" /\ turn' = [turn EXCEPT ![d] = None] /\ Agent!Free(cost)
      /\ UNCHANGED <<session, linked, transcript, day, completions, actual, overlapped, lossy, swept, malformed>>
  BY DEF Agent!RunGoldSet, Agent!Stop, Agent!ghosts
<1>2. /\ turn'[d] = None /\ \A e \in Clients \ {d} : turn'[e] = turn[e]
      /\ Agent!Running' = Agent!Running \ {d} /\ d \notin Agent!Running
  BY <1>1, TurnChange DEF Agent!Running
<1>3. AgentType'
  BY <1>1, AgentFree, TypedTurn DEF AgentType
<1>4. AgentPhase'
  BY <1>1, <1>2 DEF AgentPhase
<1>5. AgentSole'
  BY <1>1, <1>2, SoleIdle DEF Agent!Running
<1> QED
  BY <1>3, <1>4, <1>5

LEMMA AgentReplay ==
    ASSUME AgentInv, NEW cost \in Tokens, Agent!Replay(cost)
    PROVE  AgentInv'
<1>1. /\ Agent!Free(cost)
      /\ UNCHANGED <<session, linked, transcript, turn, day, completions, actual, overlapped, lossy, swept,
                     malformed>>
  BY DEF Agent!Replay, Agent!ghosts
<1>2. AgentType' /\ AgentPhase'
  BY <1>1, AgentFree DEF AgentInv, AgentType, AgentPhase
<1>3. AgentSole'
  BY <1>1, SoleIdle DEF AgentInv, Agent!Running
<1> QED
  BY <1>2, <1>3 DEF AgentInv

LEMMA AgentFail ==
    ASSUME AgentInv, NEW d \in Clients, Agent!Fail(d)
    PROVE  AgentInv'
<1> USE DEF AgentInv
<1>1. /\ turn[d] # None /\ turn' = [turn EXCEPT ![d] = None] /\ lossy' = (lossy \/ d \in Agent!Running)
      /\ turn[d].pc # "seed"
      /\ UNCHANGED <<session, linked, transcript, day, completions, actual, returned, unbilled, overlapped, swept, malformed>>
  BY DEF Agent!Fail, Agent!Stop, Agent!accounts
<1>2. /\ turn'[d] = None /\ \A e \in Clients \ {d} : turn'[e] = turn[e]
      /\ Agent!Running' = Agent!Running \ {d}
  BY <1>1, TurnChange
<1>3. AgentType'
  BY <1>1, TypedTurn DEF AgentType
<1>4. AgentPhase'
  BY <1>1, <1>2 DEF AgentPhase
<1>5. CASE d \in Agent!Running
  <2>1. ~Agent!Undisturbed'
    BY <1>1, <1>5 DEF Agent!Undisturbed
  <2> QED
    BY <1>3, <1>4, <2>1 DEF AgentSole
<1>6. CASE d \notin Agent!Running
  <2>1. lossy' = lossy
    BY <1>1, <1>6 DEF AgentType
  <2>2. AgentSole'
    BY <1>1, <1>2, <1>6, <2>1, SoleIdle DEF Agent!Running
  <2> QED
    BY <1>3, <1>4, <2>2
<1> QED
  BY <1>5, <1>6

(* The turns that run.                                                     *)
LEMMA RunningTurn ==
    ASSUME AgentInv, NEW d \in Clients, turn[d] # None,
           turn[d].pc \in {"expire", "user", "loop", "tools", "end", "finish"}
    PROVE  /\ d \in Agent!Running /\ turn[d] \in Agent!TurnState
           /\ linked /\ session # None /\ session \in Agent!SessionRow
           /\ Agent!Undisturbed => HeldBy(d) /\ Books
BY DEF AgentInv, AgentType, AgentPhase, AgentSole, Agent!Running

LEMMA PhaseLinked ==
    ASSUME AgentType, AgentPhase, linked, linked' = linked, session' # None,
           NEW d \in Clients, NEW r, r = None \/ r.pc # "seed", turn' = [turn EXCEPT ![d] = r]
    PROVE  AgentPhase'
<1>1. turn'[d] = r /\ \A e \in Clients \ {d} : turn'[e] = turn[e]
  BY TurnChange
<1>2. \A e \in Clients : turn'[e] # None => turn'[e].pc # "seed"
  BY <1>1 DEF AgentPhase
<1> QED
  BY <1>2 DEF AgentPhase

(* A turn that runs keeps the account and goes on.                         *)
LEMMA RunsOn ==
    ASSUME AgentInv, NEW d \in Clients, turn[d] # None,
           turn[d].pc \in {"expire", "user", "loop", "tools", "end", "finish"},
           NEW r \in Agent!TurnState, r.pc \in {"expire", "user", "loop", "tools", "end", "finish"},
           turn' = [turn EXCEPT ![d] = r],
           UNCHANGED <<linked, overlapped, lossy, swept, day, returned, unbilled, completions>>,
           session' \in Agent!SessionRow, session'.status = session.status,
           malformed' \in BOOLEAN, transcript' \in Seq(Agent!Messages), actual' \in Agent!Counts,
           Agent!Undisturbed =>
              /\ ~malformed' /\ r.consumed = actual' /\ r.messages = transcript'
              /\ actual'.tokens <= Budget.tokens
              /\ actual'.iterations <= Budget.iterations /\ actual'.tools <= Budget.tools
              /\ Awaiting(transcript', IF r.pc = "tools" THEN r.left ELSE 0)
    PROVE  AgentInv'
<1>0. r # None /\ session' # None
  BY PlatformAssumption
<1>1. AgentType'
  BY TypedTurn DEF AgentInv, AgentType
<1>2. AgentPhase'
  BY <1>0, PhaseLinked, RunningTurn DEF AgentInv
<1>3. /\ turn'[d] = r /\ d \in Agent!Running /\ d \in Agent!Running'
      /\ Agent!Running' \subseteq Agent!Running \cup {d}
  BY <1>0, TurnChange, RunningTurn DEF AgentInv
<1>4. ASSUME Agent!Undisturbed PROVE HeldBy(d)' /\ Books'
  <2>1. HeldBy(d) /\ Books
    BY <1>4, RunningTurn
  <2>2. HeldBy(d)'
    BY <1>3, <1>4, <2>1 DEF HeldBy, Healthy
  <2>3. actual'.tokens <= Budget.tokens + Agent!Max(Tokens)
    <3>1. actual'.tokens \in Nat /\ actual'.tokens <= Budget.tokens
      BY <1>4 DEF Agent!Counts
    <3> QED
      BY <3>1, AgentBudget, AgentMax
  <2>4. session' # None /\ session'.status # "running" => completions' # <<>> \/ swept'
    BY <2>1, RunningTurn DEF Books
  <2> QED
    BY <1>4, <2>1, <2>2, <2>3, <2>4 DEF Books
<1>5. AgentSole'
  BY <1>3, <1>4, SoleGoOn DEF AgentInv
<1> QED
  BY <1>1, <1>2, <1>5 DEF AgentInv

(* A turn that runs closes the session, and ends or goes on to bill.       *)
LEMMA Closes ==
    ASSUME AgentInv, NEW d \in Clients, turn[d] # None,
           turn[d].pc \in {"expire", "user", "loop", "tools", "end", "finish"},
           NEW r \in Agent!TurnState \cup {None}, r = None \/ r.pc = "bill",
           turn' = [turn EXCEPT ![d] = r],
           UNCHANGED <<linked, overlapped, lossy, swept, day, returned, unbilled, transcript>>,
           malformed' \in BOOLEAN, actual' \in Agent!Counts,
           NEW st \in {"completed", "aborted"}, NEW c \in Agent!Counts, Agent!FinishSession(st, c),
           Agent!Undisturbed =>
              /\ ~malformed' /\ c = actual'
              /\ actual'.tokens <= Budget.tokens + Agent!Max(Tokens)
              /\ actual'.iterations <= Budget.iterations /\ actual'.tools <= Budget.tools
    PROVE  AgentInv'
<1>0. /\ session' \in Agent!SessionRow /\ session' # None
      /\ session'.status = st /\ session'.consumed = c
      /\ completions' \in Seq({"completed", "aborted"})
      /\ Len(completions') = Len(completions) + 1 /\ completions' # <<>>
  BY AgentFinish, RunningTurn DEF AgentInv
<1>1. AgentType'
  BY <1>0, TypedTurn DEF AgentInv, AgentType
<1>2. AgentPhase'
  BY <1>0, PhaseLinked, RunningTurn DEF AgentInv
<1>3. d \in Agent!Running /\ Agent!Running' \subseteq Agent!Running \ {d}
  BY TurnChange, RunningTurn DEF AgentInv
<1>4. ASSUME Agent!Undisturbed PROVE HeldByRow' /\ Books'
  <2>1. Len(completions') <= 1
    BY <1>0, <1>4, RunningTurn DEF HeldBy, Healthy
  <2> QED
    BY <1>0, <1>4, <2>1 DEF HeldByRow, Books
<1>5. AgentSole'
  BY <1>3, <1>4, SoleLeave DEF AgentInv
<1> QED
  BY <1>1, <1>2, <1>5 DEF AgentInv

(* What an answer and a tool call cost.                                    *)
LEMMA AddAnswer ==
    ASSUME NEW a \in Agent!Counts, NEW cost \in Nat,
           NEW b, b = [a EXCEPT !.iterations = @ + 1, !.tokens = @ + cost]
    PROVE  /\ b \in Agent!Counts /\ b.iterations = a.iterations + 1
           /\ b.tokens = a.tokens + cost /\ b.tools = a.tools
<1>1. a.iterations \in Nat /\ a.tokens \in Nat
  BY DEF Agent!Counts
<1>2. PICK x, y : x = a.iterations + 1 /\ y = a.tokens + cost
  OBVIOUS
<1>3. b = [a EXCEPT !.iterations = x, !.tokens = y]
  BY <1>2
<1>4. x \in Nat /\ y \in Nat
  BY <1>1, <1>2
<1>5. b \in Agent!Counts /\ b.iterations = x /\ b.tokens = y /\ b.tools = a.tools
  BY <1>3, <1>4 DEF Agent!Counts
<1> QED
  BY <1>2, <1>5

LEMMA AddTool ==
    ASSUME NEW a \in Agent!Counts, NEW b, b = [a EXCEPT !.tools = a.tools + 1]
    PROVE  /\ b \in Agent!Counts /\ b.iterations = a.iterations
           /\ b.tokens = a.tokens /\ b.tools = a.tools + 1
BY DEF Agent!Counts

LEMMA MessageMade ==
    ASSUME NEW role \in {"user", "assistant", "tool"}, NEW uses \in 0..MaxUses,
           NEW m, m = Agent!Message(role, uses)
    PROVE  m \in Agent!Messages /\ m.role = role /\ m.uses = uses
BY DEF Agent!Message, Agent!Messages

(* _record_turn appends the message to the transcript and to the turn.     *)
LEMMA RecordTurn ==
    ASSUME AgentType, NEW d \in Clients, NEW q \in Agent!TurnState, NEW m \in Agent!Messages,
           Agent!Record(d, m, q)
    PROVE  /\ transcript' = Append(transcript, m) /\ transcript' \in Seq(Agent!Messages)
           /\ \E r \in Agent!TurnState :
                 /\ turn' = [turn EXCEPT ![d] = r]
                 /\ r.pc = q.pc /\ r.consumed = q.consumed /\ r.left = q.left
                 /\ r.messages = Append(q.messages, m)
<1>1. transcript' = Append(transcript, m) /\ transcript' \in Seq(Agent!Messages)
  BY DEF Agent!Record, AgentType
<1>2. PICK ms : ms = Append(q.messages, m)
  OBVIOUS
<1>3. ms \in Seq(Agent!Messages)
  BY <1>2 DEF Agent!TurnState
<1>4. PICK r : r = [q EXCEPT !.messages = ms]
  OBVIOUS
<1>5. /\ r \in Agent!TurnState /\ r.pc = q.pc /\ r.consumed = q.consumed /\ r.left = q.left
      /\ r.messages = ms
  BY <1>3, <1>4 DEF Agent!TurnState
<1>6. turn' = [turn EXCEPT ![d] = r]
  BY <1>2, <1>4 DEF Agent!Record
<1> QED
  BY <1>1, <1>2, <1>5, <1>6

LEMMA AgentRecordUser ==
    ASSUME AgentInv, NEW d \in Clients, Agent!RecordUser(d)
    PROVE  AgentInv'
<1>0. PICK m : m = Agent!Message("user", 0)
  OBVIOUS
<1>1. m = Agent!Message("user", 0) /\ m \in Agent!Messages /\ m.uses = 0
  BY <1>0, PlatformAssumption, MessageMade
<1>2. /\ turn[d] # None /\ turn[d].pc = "user"
      /\ UNCHANGED <<session, linked, overlapped, lossy, swept, malformed, day, returned, unbilled, completions, actual>>
  BY DEF Agent!RecordUser, Agent!Record, Agent!accounts, Agent!ghosts
<1>3. turn[d] \in Agent!TurnState /\ session \in Agent!SessionRow
  BY <1>2, RunningTurn
<1>a. PICK q : q = [turn[d] EXCEPT !.pc = "loop"]
  OBVIOUS
<1>4. /\ q = [turn[d] EXCEPT !.pc = "loop"] /\ q \in Agent!TurnState
      /\ q.pc = "loop" /\ q.consumed = turn[d].consumed /\ q.messages = turn[d].messages
  BY <1>3, <1>a DEF Agent!TurnState
<1>5. Agent!Record(d, m, q)
  BY <1>1, <1>4 DEF Agent!RecordUser
<1>6. /\ transcript' = Append(transcript, m) /\ transcript' \in Seq(Agent!Messages)
      /\ \E r \in Agent!TurnState :
            /\ turn' = [turn EXCEPT ![d] = r]
            /\ r.pc = q.pc /\ r.consumed = q.consumed /\ r.left = q.left
            /\ r.messages = Append(q.messages, m)
  <2>1. AgentType
    BY DEF AgentInv
  <2>2. q \in Agent!TurnState /\ m \in Agent!Messages
    BY <1>1, <1>4
  <2> QED
    BY <1>5, <2>1, <2>2, RecordTurn
<1>7. PICK r \in Agent!TurnState :
            /\ turn' = [turn EXCEPT ![d] = r]
            /\ r.pc = "loop" /\ r.consumed = turn[d].consumed
            /\ r.messages = Append(turn[d].messages, m)
  BY <1>4, <1>6
<1>8. ASSUME Agent!Undisturbed
      PROVE  /\ ~malformed' /\ r.consumed = actual' /\ r.messages = transcript'
             /\ actual'.tokens <= Budget.tokens
             /\ actual'.iterations <= Budget.iterations /\ actual'.tools <= Budget.tools
             /\ Awaiting(transcript', 0)
  <2>1. HeldBy(d) /\ Books
    BY <1>2, <1>8, RunningTurn
  <2>2. Awaiting(transcript', 0)
    BY <1>1, <1>2, <1>6, <2>1, AppendAnswer DEF HeldBy, Healthy, AgentInv, AgentType
  <2> QED
    BY <1>2, <1>6, <1>7, <2>1, <2>2 DEF HeldBy, Healthy, Books
<1> QED
  BY <1>2, <1>3, <1>6, <1>7, <1>8, RunsOn DEF AgentInv, AgentType

LEMMA AgentOutOfIterations ==
    ASSUME AgentInv, NEW d \in Clients, Agent!OutOfIterations(d)
    PROVE  AgentInv'
<1>1. /\ turn[d] # None /\ turn[d].pc = "loop" /\ turn' = [turn EXCEPT ![d] = None]
      /\ Agent!FinishSession("aborted", turn[d].consumed)
      /\ UNCHANGED <<linked, overlapped, lossy, swept, malformed, day, returned, unbilled, transcript, actual>>
  BY DEF Agent!OutOfIterations, Agent!Stop, Agent!accounts, Agent!ghosts
<1>2. turn[d] \in Agent!TurnState /\ turn[d].consumed \in Agent!Counts
  BY <1>1, RunningTurn DEF Agent!TurnState
<1>3. ASSUME Agent!Undisturbed
      PROVE  /\ ~malformed' /\ turn[d].consumed = actual'
             /\ actual'.tokens <= Budget.tokens + Agent!Max(Tokens)
             /\ actual'.iterations <= Budget.iterations /\ actual'.tools <= Budget.tools
  BY <1>1, <1>3, RunningTurn DEF HeldBy, Books
<1>4. malformed' \in BOOLEAN /\ actual' \in Agent!Counts
  BY <1>1 DEF AgentInv, AgentType
<1> QED
  BY <1>1, <1>2, <1>3, <1>4, Closes

LEMMA AgentComplete ==
    ASSUME AgentInv, NEW d \in Clients, NEW uses \in 0..MaxUses, NEW cost \in Tokens,
           Agent!Complete(d, uses, cost)
    PROVE  AgentInv'
<1>1. PICK c : c = [turn[d].consumed EXCEPT !.iterations = @ + 1, !.tokens = @ + cost]
  OBVIOUS
<1>2. /\ turn[d] # None /\ turn[d].pc = "loop"
      /\ turn[d].consumed.iterations < Budget.iterations
      /\ actual' = [actual EXCEPT !.iterations = @ + 1, !.tokens = @ + cost]
      /\ malformed' = (malformed \/ ~Agent!Paired(turn[d].messages))
      /\ UNCHANGED <<linked, day, returned, unbilled, overlapped, lossy, swept>>
  BY DEF Agent!Complete
<1>3. turn[d] \in Agent!TurnState /\ session \in Agent!SessionRow
  BY <1>2, RunningTurn
<1>4. cost \in Nat /\ cost <= Agent!Max(Tokens) /\ MaxUses \in Nat
  BY PlatformAssumption, AgentMax
<1>5. /\ c \in Agent!Counts /\ c.tokens = turn[d].consumed.tokens + cost
      /\ turn[d].consumed \in Agent!Counts
  <2>1. turn[d].consumed \in Agent!Counts
    BY <1>3 DEF Agent!TurnState
  <2> QED
    BY <1>1, <1>4, <2>1, AddAnswer
<1>6. /\ actual' \in Agent!Counts /\ actual'.iterations = actual.iterations + 1
      /\ actual'.tokens = actual.tokens + cost /\ actual'.tools = actual.tools
  <2>1. actual \in Agent!Counts
    BY DEF AgentInv, AgentType
  <2>2. PICK b : b = actual'
    OBVIOUS
  <2>3. b = [actual EXCEPT !.iterations = @ + 1, !.tokens = @ + cost]
    BY <1>2, <2>2
  <2>4. /\ b \in Agent!Counts /\ b.iterations = actual.iterations + 1
        /\ b.tokens = actual.tokens + cost /\ b.tools = actual.tools
    BY <1>4, <2>1, <2>3, AddAnswer, ZenonT(60)
  <2> QED
    BY <2>2, <2>4
<1>7. malformed' \in BOOLEAN
  BY <1>2 DEF AgentInv, AgentType
<1>8. ASSUME Agent!Undisturbed
      PROVE  /\ ~malformed' /\ c = actual' /\ Awaiting(transcript, 0)
             /\ actual'.tokens <= Budget.tokens + Agent!Max(Tokens)
             /\ actual'.iterations <= Budget.iterations /\ actual'.tools <= Budget.tools
             /\ turn[d].messages = transcript
  <2>1. HeldBy(d) /\ Books
    BY <1>2, <1>8, RunningTurn
  <2>2. turn[d].consumed = actual /\ turn[d].messages = transcript /\ Awaiting(transcript, 0)
        /\ actual.tokens <= Budget.tokens /\ ~malformed /\ actual.tools <= Budget.tools
    BY <2>1, <1>2 DEF HeldBy, Healthy, Books
  <2>3. Agent!Paired(turn[d].messages)
    BY <2>2, AwaitingNone DEF AgentInv, AgentType
  <2>4. ~malformed'
    BY <1>2, <2>2, <2>3
  <2>5. c = actual'
    BY <1>1, <1>2, <2>2
  <2>6. actual.iterations \in Nat /\ actual.tokens \in Nat /\ actual.iterations < Budget.iterations
    BY <1>2, <2>2 DEF AgentInv, AgentType, Agent!Counts
  <2>7. /\ actual'.tokens <= Budget.tokens + Agent!Max(Tokens)
        /\ actual'.iterations <= Budget.iterations
    BY <1>4, <1>6, <2>2, <2>6, AgentBudget, AgentMax
  <2> QED
    BY <1>6, <2>2, <2>4, <2>5, <2>7
<1>9. CASE c.tokens > Budget.tokens
  <2>1. /\ Agent!FinishSession("aborted", c) /\ turn' = [turn EXCEPT ![d] = None]
        /\ transcript' = transcript
    BY <1>1, <1>9 DEF Agent!Complete, Agent!Stop
  <2> QED
    BY <1>2, <1>5, <1>6, <1>7, <1>8, <2>1, Closes
<1>10. CASE ~(c.tokens > Budget.tokens)
  <2>0. PICK m : m = Agent!Message("assistant", uses)
    OBVIOUS
  <2>1. m = Agent!Message("assistant", uses) /\ m \in Agent!Messages /\ m.uses = uses
    BY <2>0, MessageMade
  <2>2. PICK q : q = [turn[d] EXCEPT !.consumed = c, !.left = uses, !.own = turn[d].own + cost,
                                     !.pc = IF uses = 0 THEN "end" ELSE "tools"]
    OBVIOUS
  <2>3. /\ q \in Agent!TurnState /\ q.pc = IF uses = 0 THEN "end" ELSE "tools"
        /\ q.consumed = c /\ q.left = uses /\ q.messages = turn[d].messages
    <3>1. turn[d].own + cost \in Nat
      BY <1>3, <1>4 DEF Agent!TurnState
    <3>2. (IF uses = 0 THEN "end" ELSE "tools") \in {"end", "tools"}
      OBVIOUS
    <3>3. PICK o, p : o = turn[d].own + cost /\ p = IF uses = 0 THEN "end" ELSE "tools"
      OBVIOUS
    <3>4. q = [turn[d] EXCEPT !.consumed = c, !.left = uses, !.own = o, !.pc = p]
      BY <2>2, <3>3
    <3>5. o \in Nat /\ p \in {"end", "tools"}
      BY <3>1, <3>3
    <3>6. q \in Agent!TurnState /\ q.pc = p /\ q.consumed = c /\ q.left = uses /\ q.messages = turn[d].messages
      BY <1>3, <1>5, <3>4, <3>5 DEF Agent!TurnState
    <3> QED
      BY <3>3, <3>6
  <2>4. Agent!Record(d, m, q) /\ session' = session /\ completions' = completions
    BY <1>1, <1>10, <2>1, <2>2 DEF Agent!Complete
  <2>5. /\ transcript' = Append(transcript, m) /\ transcript' \in Seq(Agent!Messages)
        /\ \E r \in Agent!TurnState :
              /\ turn' = [turn EXCEPT ![d] = r]
              /\ r.pc = q.pc /\ r.consumed = q.consumed /\ r.left = q.left
              /\ r.messages = Append(q.messages, m)
    BY <2>1, <2>3, <2>4, RecordTurn, SMTT(30) DEF AgentInv
  <2>6. PICK r \in Agent!TurnState :
              /\ turn' = [turn EXCEPT ![d] = r]
              /\ r.pc = (IF uses = 0 THEN "end" ELSE "tools") /\ r.consumed = c /\ r.left = uses
              /\ r.messages = Append(turn[d].messages, m)
    BY <2>3, <2>5
  <2>7. ASSUME Agent!Undisturbed
        PROVE  /\ ~malformed' /\ r.consumed = actual' /\ r.messages = transcript'
               /\ actual'.tokens <= Budget.tokens
               /\ actual'.iterations <= Budget.iterations /\ actual'.tools <= Budget.tools
               /\ Awaiting(transcript', IF r.pc = "tools" THEN r.left ELSE 0)
    <3>1. Awaiting(transcript', uses)
      BY <1>8, <2>1, <2>5, <2>7, AppendAnswer DEF AgentInv, AgentType
    <3>2. uses = IF r.pc = "tools" THEN r.left ELSE 0
      BY <2>6
    <3>3. c.tokens <= Budget.tokens
      BY <1>5, <1>10, AgentBudget DEF Agent!Counts
    <3> QED
      BY <1>8, <2>5, <2>6, <2>7, <3>1, <3>2, <3>3
  <2> QED
    BY <1>2, <1>3, <1>6, <1>7, <2>4, <2>5, <2>6, <2>7, RunsOn
<1> QED
  BY <1>9, <1>10

LEMMA AgentTool ==
    ASSUME AgentInv, NEW d \in Clients, Agent!Tool(d)
    PROVE  AgentInv'
<1>2. /\ turn[d] # None /\ turn[d].pc = "tools" /\ turn[d].left > 0
      /\ UNCHANGED <<linked, day, returned, unbilled, overlapped, lossy, swept, malformed>>
  BY DEF Agent!Tool, Agent!accounts, Agent!ghosts
<1>3. /\ turn[d] \in Agent!TurnState /\ session \in Agent!SessionRow
      /\ Agent!Undisturbed => HeldBy(d) /\ Books
  BY <1>2, RunningTurn
<1>4. turn[d].consumed \in Agent!Counts /\ turn[d].left \in 0..MaxUses /\ MaxUses \in Nat
  BY <1>3, PlatformAssumption DEF Agent!TurnState
<1>5. CASE turn[d].consumed.tools >= Budget.tools
  <2>1. /\ Agent!FinishSession("aborted", turn[d].consumed) /\ turn' = [turn EXCEPT ![d] = None]
        /\ transcript' = transcript /\ actual' = actual
    BY <1>5 DEF Agent!Tool, Agent!Stop
  <2>2. ASSUME Agent!Undisturbed
        PROVE  /\ ~malformed' /\ turn[d].consumed = actual'
               /\ actual'.tokens <= Budget.tokens + Agent!Max(Tokens)
               /\ actual'.iterations <= Budget.iterations /\ actual'.tools <= Budget.tools
    BY <1>2, <1>3, <2>1, <2>2 DEF HeldBy, Books
  <2> QED
    BY <1>2, <1>4, <2>1, <2>2, Closes DEF AgentInv, AgentType
<1>6. CASE ~(turn[d].consumed.tools >= Budget.tools)
  <2>0. PICK m : m = Agent!Message("tool", 0)
    OBVIOUS
  <2>1. m = Agent!Message("tool", 0) /\ m \in Agent!Messages /\ m.uses = 0 /\ m.role = "tool"
    BY <1>4, <2>0, MessageMade
  <2>2. PICK q : q = [turn[d] EXCEPT !.consumed.tools = turn[d].consumed.tools + 1,
                                     !.left = turn[d].left - 1]
    OBVIOUS
  <2>3. /\ q \in Agent!TurnState /\ q.pc = "tools" /\ q.left = turn[d].left - 1
        /\ q.consumed = [turn[d].consumed EXCEPT !.tools = turn[d].consumed.tools + 1]
        /\ q.messages = turn[d].messages
    <3>0. PICK c : c = [turn[d].consumed EXCEPT !.tools = turn[d].consumed.tools + 1]
      OBVIOUS
    <3>1. /\ c = [turn[d].consumed EXCEPT !.tools = turn[d].consumed.tools + 1]
          /\ c \in Agent!Counts
      BY <1>4, <3>0, AddTool
    <3>2. q = [turn[d] EXCEPT !.consumed = c, !.left = turn[d].left - 1]
      BY <1>3, <2>2, <3>1 DEF Agent!TurnState
    <3>3. turn[d].left - 1 \in 0..MaxUses
      BY <1>2, <1>4
    <3> QED
      BY <1>2, <1>3, <3>1, <3>2, <3>3 DEF Agent!TurnState
  <2>4. /\ Agent!Record(d, m, q) /\ session' = session /\ completions' = completions
        /\ actual' = [actual EXCEPT !.tools = @ + 1]
    BY <1>6, <2>1, <2>2 DEF Agent!Tool
  <2>5. /\ transcript' = Append(transcript, m) /\ transcript' \in Seq(Agent!Messages)
        /\ \E r \in Agent!TurnState :
              /\ turn' = [turn EXCEPT ![d] = r]
              /\ r.pc = q.pc /\ r.consumed = q.consumed /\ r.left = q.left
              /\ r.messages = Append(q.messages, m)
    BY <2>1, <2>3, <2>4, RecordTurn, SMTT(30) DEF AgentInv
  <2>6. PICK r \in Agent!TurnState :
              /\ turn' = [turn EXCEPT ![d] = r]
              /\ r.pc = "tools" /\ r.left = turn[d].left - 1
              /\ r.consumed = [turn[d].consumed EXCEPT !.tools = turn[d].consumed.tools + 1]
              /\ r.messages = Append(turn[d].messages, m)
    BY <2>3, <2>5
  <2>7. /\ actual' \in Agent!Counts /\ actual'.tools = actual.tools + 1
        /\ actual'.iterations = actual.iterations /\ actual'.tokens = actual.tokens
        /\ actual.tools \in Nat
    BY <2>4 DEF AgentInv, AgentType, Agent!Counts
  <2>8. ASSUME Agent!Undisturbed
        PROVE  /\ ~malformed' /\ r.consumed = actual' /\ r.messages = transcript'
               /\ actual'.tokens <= Budget.tokens
               /\ actual'.iterations <= Budget.iterations /\ actual'.tools <= Budget.tools
               /\ Awaiting(transcript', IF r.pc = "tools" THEN r.left ELSE 0)
    <3>1. /\ turn[d].consumed = actual /\ turn[d].messages = transcript /\ ~malformed
          /\ Awaiting(transcript, turn[d].left)
          /\ actual.tokens <= Budget.tokens /\ actual.iterations <= Budget.iterations
      BY <1>2, <1>3, <2>8 DEF HeldBy, Healthy, Books
    <3>2. Awaiting(transcript', turn[d].left - 1)
      BY <1>2, <1>4, <2>1, <2>5, <3>1, AppendResult DEF AgentInv, AgentType
    <3>3. r.consumed = actual'
      BY <2>4, <2>6, <3>1
    <3>4. actual'.tools <= Budget.tools
      BY <1>6, <2>7, <3>1, AgentBudget
    <3> QED
      BY <1>2, <2>5, <2>6, <2>7, <3>1, <3>2, <3>3, <3>4
  <2>9. malformed' \in BOOLEAN
    BY <1>2 DEF AgentInv, AgentType
  <2> QED
    BY <1>2, <1>3, <2>4, <2>5, <2>6, <2>7, <2>8, <2>9, RunsOn
<1> QED
  BY <1>5, <1>6

LEMMA AgentSave ==
    ASSUME AgentInv, NEW d \in Clients, Agent!Save(d)
    PROVE  AgentInv'
<1>1. /\ turn[d] # None /\ turn[d].pc = "tools" /\ turn[d].left = 0
      /\ session' = [session EXCEPT !.consumed = turn[d].consumed]
      /\ turn' = [turn EXCEPT ![d].pc = "loop"]
      /\ UNCHANGED <<linked, transcript, day, completions, actual, returned, unbilled, overlapped, lossy, swept, malformed>>
  BY DEF Agent!Save, Agent!Go, Agent!accounts, Agent!ghosts
<1>2. /\ turn[d] \in Agent!TurnState /\ session \in Agent!SessionRow
      /\ Agent!Undisturbed => HeldBy(d) /\ Books
  BY <1>1, RunningTurn
<1>3. turn[d].consumed \in Agent!Counts
  BY <1>2 DEF Agent!TurnState
<1>4. session' \in Agent!SessionRow /\ session'.status = session.status
  BY <1>1, <1>2, <1>3 DEF Agent!SessionRow
<1>5. PICK r : r = [turn[d] EXCEPT !.pc = "loop"]
  OBVIOUS
<1>6. /\ r \in Agent!TurnState /\ r.pc = "loop" /\ r.consumed = turn[d].consumed
      /\ r.messages = turn[d].messages
  BY <1>2, <1>5 DEF Agent!TurnState
<1>7. turn' = [turn EXCEPT ![d] = r]
  BY <1>1, <1>5 DEF AgentInv, AgentType
<1>8. ASSUME Agent!Undisturbed
      PROVE  /\ ~malformed' /\ r.consumed = actual' /\ r.messages = transcript'
             /\ actual'.tokens <= Budget.tokens
             /\ actual'.iterations <= Budget.iterations /\ actual'.tools <= Budget.tools
             /\ Awaiting(transcript', 0)
  BY <1>1, <1>2, <1>6, <1>8 DEF HeldBy, Healthy, Books, Awaiting
<1>9. malformed' \in BOOLEAN /\ transcript' \in Seq(Agent!Messages) /\ actual' \in Agent!Counts
  BY <1>1 DEF AgentInv, AgentType
<1> QED
  BY <1>1, <1>4, <1>6, <1>7, <1>8, <1>9, RunsOn

LEMMA AgentEnd ==
    ASSUME AgentInv, NEW d \in Clients, Agent!End(d)
    PROVE  AgentInv'
<1>0. PICK p \in {"finish", "bill"} : p = IF session.chain THEN "finish" ELSE "bill"
  OBVIOUS
<1>1. /\ turn[d] # None /\ turn[d].pc = "end"
      /\ session' = [session EXCEPT !.consumed = turn[d].consumed, !.expired = FALSE]
      /\ turn' = [turn EXCEPT ![d].pc = p]
      /\ UNCHANGED <<linked, transcript, day, completions, actual, returned, unbilled, overlapped, lossy, swept, malformed>>
  BY <1>0 DEF Agent!End, Agent!Go, Agent!accounts, Agent!ghosts
<1>2. /\ turn[d] \in Agent!TurnState /\ session \in Agent!SessionRow /\ d \in Agent!Running
      /\ linked
      /\ Agent!Undisturbed => HeldBy(d) /\ Books
  BY <1>1, RunningTurn
<1>3. turn[d].consumed \in Agent!Counts
  BY <1>2 DEF Agent!TurnState
<1>4. session' \in Agent!SessionRow /\ session'.status = session.status /\ session'.consumed = turn[d].consumed
  BY <1>1, <1>2, <1>3 DEF Agent!SessionRow
<1>5. PICK r : r = [turn[d] EXCEPT !.pc = p]
  OBVIOUS
<1>6. /\ r \in Agent!TurnState /\ r.pc = p /\ r.consumed = turn[d].consumed
      /\ r.messages = turn[d].messages
  BY <1>2, <1>5 DEF Agent!TurnState
<1>7. turn' = [turn EXCEPT ![d] = r]
  BY <1>1, <1>5 DEF AgentInv, AgentType
<1>8. ASSUME Agent!Undisturbed
      PROVE  /\ ~malformed' /\ r.consumed = actual' /\ r.messages = transcript'
             /\ actual'.tokens <= Budget.tokens
             /\ actual'.iterations <= Budget.iterations /\ actual'.tools <= Budget.tools
             /\ Awaiting(transcript', 0)
  BY <1>1, <1>2, <1>6, <1>8 DEF HeldBy, Healthy, Books, Awaiting
<1>9. malformed' \in BOOLEAN /\ transcript' \in Seq(Agent!Messages) /\ actual' \in Agent!Counts
  BY <1>1 DEF AgentInv, AgentType
<1>10. CASE p = "finish"
  <2>1. r.pc = "finish"
    BY <1>6, <1>10
  <2>2. Agent!Undisturbed => Awaiting(transcript', IF r.pc = "tools" THEN r.left ELSE 0)
    BY <1>8, <2>1
  <2> QED
    BY <1>1, <1>4, <1>6, <1>7, <1>8, <1>9, <2>1, <2>2, RunsOn
<1>11. CASE p = "bill"
  <2>0. session' # None
    BY <1>4, PlatformAssumption
  <2>1. AgentType'
    BY <1>1, <1>4, <1>6, <1>7, TypedTurn DEF AgentInv, AgentType
  <2>2. AgentPhase'
    BY <1>1, <1>2, <1>6, <1>7, <1>11, <2>0, PhaseLinked DEF AgentInv
  <2>3. Agent!Running' \subseteq Agent!Running \ {d}
    BY <1>6, <1>7, <1>11, TurnChange DEF AgentInv
  <2>4. ASSUME Agent!Undisturbed PROVE HeldByRow' /\ Books'
    <3>1. completions' = <<>> /\ turn[d].consumed = actual'
      BY <1>1, <1>2, <2>4 DEF HeldBy, Healthy
    <3>2. HeldByRow'
      BY <1>4, <1>8, <2>4, <3>1 DEF HeldByRow, Healthy
    <3>3. Books'
      BY <1>1, <1>2, <1>4, <2>4, RunningTurn DEF Books
    <3> QED
      BY <3>2, <3>3
  <2>5. AgentSole'
    BY <1>1, <1>2, <2>3, <2>4, SoleLeave DEF AgentInv
  <2> QED
    BY <2>1, <2>2, <2>5 DEF AgentInv
<1> QED
  BY <1>10, <1>11

LEMMA AgentFinishChain ==
    ASSUME AgentInv, NEW d \in Clients, Agent!FinishChain(d)
    PROVE  AgentInv'
<1>1. /\ turn[d] # None /\ turn[d].pc = "finish" /\ turn' = [turn EXCEPT ![d].pc = "bill"]
      /\ Agent!FinishSession("completed", turn[d].consumed)
      /\ UNCHANGED <<linked, overlapped, lossy, swept, malformed, day, returned, unbilled, transcript, actual>>
  BY DEF Agent!FinishChain, Agent!Go, Agent!accounts, Agent!ghosts
<1>2. turn[d] \in Agent!TurnState /\ turn[d].consumed \in Agent!Counts
  BY <1>1, RunningTurn DEF Agent!TurnState
<1>3. PICK r : r = [turn[d] EXCEPT !.pc = "bill"]
  OBVIOUS
<1>4. r \in Agent!TurnState /\ r.pc = "bill"
  BY <1>2, <1>3 DEF Agent!TurnState
<1>5. turn' = [turn EXCEPT ![d] = r]
  BY <1>1, <1>3 DEF AgentInv, AgentType
<1>6. ASSUME Agent!Undisturbed
      PROVE  /\ ~malformed' /\ turn[d].consumed = actual'
             /\ actual'.tokens <= Budget.tokens + Agent!Max(Tokens)
             /\ actual'.iterations <= Budget.iterations /\ actual'.tools <= Budget.tools
  BY <1>1, <1>6, RunningTurn DEF HeldBy, Books
<1>7. malformed' \in BOOLEAN /\ actual' \in Agent!Counts
  BY <1>1 DEF AgentInv, AgentType
<1> QED
  BY <1>1, <1>2, <1>4, <1>5, <1>6, <1>7, Closes

LEMMA AgentLoad ==
    ASSUME AgentInv, NEW d \in Clients, Agent!Load(d)
    PROVE  AgentInv'
<1> USE DEF AgentInv
<1>1. /\ turn[d] # None /\ turn[d].pc = "load"
      /\ UNCHANGED <<session, completions, linked, transcript, day, actual, returned, unbilled, lossy, swept, malformed>>
  BY DEF Agent!Load, Agent!accounts
<1>2. /\ turn[d] \in Agent!TurnState /\ session \in Agent!SessionRow /\ session # None /\ linked
      /\ session.consumed \in Agent!Counts /\ d \notin Agent!Running
  BY <1>1 DEF AgentType, AgentPhase, Agent!Running, Agent!SessionRow
<1>3. CASE /\ session.status # "running" /\ turn' = [turn EXCEPT ![d] = None]
           /\ UNCHANGED <<session, completions, overlapped>>
  <2>1. AgentType'
    BY <1>1, <1>3, TypedTurn DEF AgentType
  <2>2. AgentPhase'
    BY <1>1, <1>2, <1>3, PhaseLinked
  <2>3. Agent!Running' = Agent!Running /\ \A e \in Agent!Running : turn'[e] = turn[e]
    BY <1>2, <1>3, TurnChange DEF Agent!Running
  <2>4. AgentSole'
    BY <1>1, <1>3, <2>3, SoleIdle
  <2> QED
    BY <2>1, <2>2, <2>4
<1>4. PICK p \in {"expire", "user"} : p = IF session.expired THEN "expire" ELSE "user"
  OBVIOUS
<1>5. CASE /\ session.status = "running"
           /\ turn' = [turn EXCEPT ![d].pc = p, ![d].consumed = session.consumed,
                                   ![d].messages = transcript]
           /\ overlapped' = (overlapped \/ Agent!Running # {})
           /\ UNCHANGED <<session, completions>>
  <2>1. PICK r : r = [turn[d] EXCEPT !.pc = p, !.consumed = session.consumed, !.messages = transcript]
    OBVIOUS
  <2>2. turn' = [turn EXCEPT ![d] = r]
    BY <1>5, <2>1 DEF AgentType
  <2>3. transcript \in Seq(Agent!Messages)
    BY DEF AgentType
  <2>4. r \in Agent!TurnState /\ r.pc = p /\ r.consumed = session.consumed /\ r.messages = transcript
    BY <1>2, <2>1, <2>3 DEF Agent!TurnState
  <2>5. AgentType'
    BY <1>1, <1>5, <2>2, <2>4, TypedTurn DEF AgentType
  <2>6. AgentPhase'
    BY <1>1, <1>2, <1>5, <2>2, <2>4, PhaseLinked
  <2>7. r # None
    BY <2>4, PlatformAssumption
  <2>8. Agent!Running' = Agent!Running \cup {d} /\ turn'[d] = r
    BY <2>2, <2>4, <2>7, TurnChange
  <2>9. ASSUME Agent!Undisturbed' PROVE Agent!Undisturbed /\ Agent!Running = {}
    BY <1>1, <1>5, <2>9 DEF Agent!Undisturbed, AgentType
  <2>10. ASSUME Agent!Undisturbed' PROVE HeldBy(d)' /\ Books'
    <3>1. HeldByRow /\ Books /\ Healthy(0)
      BY <1>2, <1>5, <2>9, <2>10 DEF AgentSole, HeldByRow
    <3>2. HeldBy(d)'
      BY <1>1, <1>2, <1>5, <2>4, <2>8, <3>1 DEF HeldBy, HeldByRow, Healthy, Awaiting
    <3> QED
      BY <1>1, <1>5, <3>1, <3>2 DEF Books
  <2>11. AgentSole'
    BY <2>8, <2>9, <2>10 DEF AgentSole
  <2> QED
    BY <2>5, <2>6, <2>11
<1> QED
  BY <1>3, <1>4, <1>5 DEF Agent!Load, Agent!Stop

LEMMA AgentAbortExpired ==
    ASSUME AgentInv, NEW d \in Clients, Agent!AbortExpired(d)
    PROVE  AgentInv'
<1>1. /\ turn[d] # None /\ turn[d].pc = "expire" /\ turn' = [turn EXCEPT ![d] = None]
      /\ Agent!FinishSession("aborted", turn[d].consumed)
      /\ UNCHANGED <<linked, transcript, day, actual, returned, unbilled, overlapped, lossy, swept, malformed>>
  BY DEF Agent!AbortExpired, Agent!Stop, Agent!accounts, Agent!ghosts
<1>2. turn[d].consumed \in Agent!Counts
  BY <1>1, RunningTurn DEF Agent!TurnState
<1>3. malformed' \in BOOLEAN /\ actual' \in Agent!Counts
  BY <1>1 DEF AgentInv, AgentType
<1>4. Agent!Undisturbed => /\ ~malformed' /\ turn[d].consumed = actual'
                           /\ actual'.tokens <= Budget.tokens + Agent!Max(Tokens)
                           /\ actual'.iterations <= Budget.iterations /\ actual'.tools <= Budget.tools
  BY <1>1, RunningTurn DEF HeldBy, Books
<1> QED
  BY <1>1, <1>2, <1>3, <1>4, Closes

LEMMA AgentTime ==
    ASSUME AgentInv, Agent!Expire \/ Agent!Sweep
    PROVE  AgentInv'
<1> USE DEF AgentInv
<1>1. /\ session # None
      /\ UNCHANGED <<linked, transcript, turn, day, completions, actual, returned, unbilled, overlapped, lossy, malformed>>
      /\ swept' \in BOOLEAN /\ (swept => swept')
  BY DEF Agent!Expire, Agent!Sweep, Agent!accounts, Agent!ghosts, AgentType
<1>2. session \in Agent!SessionRow
  BY <1>1 DEF AgentType
<1>3. /\ session' \in Agent!SessionRow /\ session'.consumed = session.consumed
      /\ session'.status = session.status \/ (session'.status = "aborted" /\ swept')
  <2>1. CASE Agent!Expire
    BY <1>2, <2>1 DEF Agent!Expire, Agent!SessionRow
  <2>2. CASE Agent!Sweep
    BY <1>2, <2>2 DEF Agent!Sweep, Agent!SessionRow
  <2> QED
    BY <2>1, <2>2
<1>4. session' # None
  BY <1>3, PlatformAssumption
<1>5. AgentType'
  BY <1>1, <1>3 DEF AgentType
<1>6. AgentPhase'
  BY <1>1, <1>3, <1>4 DEF AgentPhase
<1>7. Agent!Running' = Agent!Running /\ (Agent!Undisturbed' = Agent!Undisturbed)
  BY <1>1 DEF Agent!Running, Agent!Undisturbed
<1>8. \A d : HeldBy(d)' <=> HeldBy(d)
  BY <1>1 DEF HeldBy, Healthy, Awaiting
<1>9. HeldByRow => HeldByRow'
  BY <1>1, <1>3, <1>4 DEF HeldByRow, Healthy, Awaiting
<1>10. Books => Books'
  BY <1>1, <1>3, <1>4 DEF Books
<1>11. AgentSole'
  BY <1>7, <1>8, <1>9, <1>10 DEF AgentSole
<1> QED
  BY <1>5, <1>6, <1>11

LEMMA AgentStep ==
    ASSUME AgentInv, [Agent!Next]_Agent!vars
    PROVE  AgentInv'
<1>1. CASE UNCHANGED Agent!vars
  <2>1. AgentType' /\ AgentPhase'
    BY <1>1 DEF Agent!vars, AgentInv, AgentType, AgentPhase
  <2>2. AgentSole'
    BY <1>1, SoleIdle DEF Agent!vars, AgentInv, Agent!Running
  <2> QED
    BY <2>1, <2>2 DEF AgentInv
<1>2. CASE Agent!Next
  BY <1>2, AgentCreate, AgentSeed, AgentBegin, AgentLoad, AgentRecordUser, AgentOutOfIterations,
     AgentComplete, AgentTool, AgentSave, AgentEnd, AgentFinishChain, AgentBill, AgentAsk,
     AgentAnswer, AgentEvaluate, AgentRunGoldSet, AgentReplay, AgentAbortExpired, AgentFail,
     AgentTime DEF Agent!Next
<1> QED
  BY <1>1, <1>2

LEMMA AgentInvSuffices == ASSUME AgentInv PROVE Agent!AgentAccounted
<1>1. Agent!BudgetKept
  <2>1. Agent!Idle => Agent!Running = {}
    BY DEF Agent!Idle, Agent!Running
  <2> QED
    BY <2>1 DEF Agent!BudgetKept, AgentInv, AgentSole, HeldByRow, Books
<1>2. Agent!TranscriptPaired /\ Agent!CompletionAnnounced
  BY DEF Agent!TranscriptPaired, Agent!CompletionAnnounced, AgentInv, AgentSole, Books
<1>3. Agent!SpendCounted
  BY DEF Agent!SpendCounted, AgentInv, AgentType
<1> QED
  BY <1>1, <1>2, <1>3 DEF Agent!AgentAccounted

-----------------------------------------------------------------------------
(* Chains: what is on the topic was granted, a call follows an event that  *)
(* has a level left, and a record that the consumer has still to take in   *)
(* this reading has neither a call nor a session of it.                    *)
ChainEvents == [depth : 0..granted, max : {granted}]
ChainType ==
    /\ granted \in 1..Limit /\ deepest \in 0..granted /\ rereads \in Nat
    /\ topic \in Seq(ChainEvents) /\ next \in Nat \ {0} /\ committed \in Nat \ {0}
    /\ started \subseteq Chain!Reading /\ calls \subseteq Chain!Call
ReadingOf(c) == [pos |-> c.pos, read |-> c.read]
ChainCalls ==
    /\ \A c \in calls : /\ c.pos \in 1..Len(topic) /\ topic[c.pos].depth + 1 <= granted
                        /\ c.read <= rereads
                        /\ c.pc = "create" => ReadingOf(c) \notin started
                        /\ c.read = rereads => IF c.awaited THEN c.pos = next ELSE c.pos < next
    /\ \A c, d \in calls : c.pos = d.pos /\ c.read = d.read => c = d
ChainStarted ==
    \A s \in started : /\ s.read <= rereads
                       /\ s.read = rereads =>
                             \/ s.pos < next
                             \/ s.pos = next /\ \E c \in calls : Chain!InHand(c)
ChainInv == ChainType /\ ChainCalls /\ ChainStarted /\ ~repeated

LEMMA ChainInit == Chain!Init => ChainInv
<1> SUFFICES ASSUME Chain!Init PROVE ChainInv
  OBVIOUS
<1>1. PICK m \in Requested : /\ topic = <<[depth |-> 0, max |-> Chain!Clamp(m)]>>
                             /\ granted = Chain!Clamp(m)
  BY DEF Chain!Init
<1>2. granted \in 1..Limit
  BY <1>1, PlatformAssumption DEF Chain!Clamp
<1>3. [depth |-> 0, max |-> granted] \in ChainEvents
  BY <1>2 DEF ChainEvents
<1>4. ChainType
  BY <1>1, <1>2, <1>3 DEF Chain!Init, ChainType
<1> QED
  BY <1>4 DEF Chain!Init, ChainInv, ChainCalls, ChainStarted

(* A call ends, or is no longer awaited, and the loop takes the next event *)
(* when it was waiting for it.                                             *)
LEMMA ChainLeaves ==
    ASSUME ChainInv, NEW c \in calls, Chain!Done(c),
           NEW rest \in {{}, {[c EXCEPT !.awaited = FALSE]}}, calls' = (calls \ {c}) \cup rest,
           UNCHANGED <<topic, committed, started, repeated, deepest, granted, rereads>>
    PROVE  ChainInv'
<1> USE DEF ChainInv
<1>1. c \in Chain!Call /\ next \in Nat \ {0} /\ rereads \in Nat
  BY DEF ChainType
<1>2. next' \in Nat \ {0} /\ next' >= next /\ (Chain!InHand(c) => next' = next + 1)
      /\ (~Chain!InHand(c) => next' = next)
  BY <1>1 DEF Chain!Done
<1>3. \A d \in rest : /\ d \in Chain!Call /\ d.pos = c.pos /\ d.read = c.read /\ d.pc = c.pc
                      /\ d.awaited = FALSE
  <2>1. PICK x : x = [c EXCEPT !.awaited = FALSE]
    OBVIOUS
  <2>2. x \in Chain!Call /\ x.pos = c.pos /\ x.read = c.read /\ x.pc = c.pc /\ x.awaited = FALSE
    BY <1>1, <2>1 DEF Chain!Call
  <2>3. \A d \in rest : d = x
    BY <2>1
  <2> QED
    BY <2>2, <2>3
<1>4. calls' \subseteq Chain!Call
  BY <1>3 DEF ChainType
<1>5. ChainType'
  BY <1>2, <1>4 DEF ChainType, ChainEvents
<1>6. \A d \in calls \ {c} : /\ d \in Chain!Call
                             /\ d.read = rereads => IF d.awaited THEN d.pos = next' ELSE d.pos < next'
  <2> SUFFICES ASSUME NEW d \in calls \ {c}
               PROVE  /\ d \in Chain!Call
                      /\ d.read = rereads => IF d.awaited THEN d.pos = next' ELSE d.pos < next'
    OBVIOUS
  <2>1. d \in Chain!Call
    BY DEF ChainType
  <2>2. d.awaited /\ d.read = rereads => ~Chain!InHand(c)
    BY DEF ChainCalls, Chain!InHand
  <2>3. d.pos \in Nat
    BY <2>1 DEF Chain!Call
  <2>4. d.read = rereads => IF d.awaited THEN d.pos = next ELSE d.pos < next
    BY DEF ChainCalls
  <2> QED
    BY <1>1, <1>2, <2>1, <2>2, <2>3, <2>4
<1>7. \A d \in rest : d.read = rereads => d.pos < next'
  <2>1. c.read = rereads => c.pos < next'
    <3>1. c.pos \in Nat
      BY <1>1 DEF Chain!Call
    <3>2. CASE Chain!InHand(c)
      BY <1>1, <1>2, <3>2 DEF ChainCalls, Chain!InHand
    <3>3. CASE ~Chain!InHand(c)
      BY <1>1, <1>2, <3>3 DEF ChainCalls, Chain!InHand
    <3> QED
      BY <3>2, <3>3
  <2> QED
    BY <1>3, <2>1
<1>8. ChainCalls'
  <2>1. ASSUME NEW d \in calls'
        PROVE  /\ d.pos \in 1..Len(topic) /\ topic[d.pos].depth + 1 <= granted /\ d.read <= rereads
               /\ d.pc = "create" => ReadingOf(d) \notin started
               /\ d.read = rereads => IF d.awaited THEN d.pos = next' ELSE d.pos < next'
    <3>1. CASE d \in rest
      <4>1. d.pos = c.pos /\ d.read = c.read /\ d.pc = c.pc /\ ReadingOf(d) = ReadingOf(c)
        BY <1>3, <3>1 DEF ReadingOf
      <4> QED
        BY <1>3, <1>7, <3>1, <4>1 DEF ChainCalls
    <3>2. CASE d \in calls \ {c}
      BY <1>6, <3>2 DEF ChainCalls
    <3> QED
      BY <3>1, <3>2
  <2>2. ASSUME NEW d \in calls', NEW e \in calls', d.pos = e.pos, d.read = e.read
        PROVE  d = e
    <3>1. \A x \in rest, y \in rest : x = y
      OBVIOUS
    <3>2. \A x \in calls \ {c}, y \in rest : ~(x.pos = y.pos /\ x.read = y.read)
      BY <1>3 DEF ChainCalls
    <3> QED
      BY <2>2, <3>1, <3>2 DEF ChainCalls
  <2>3. \A d \in calls' : ReadingOf(d)' = ReadingOf(d)
    BY DEF ReadingOf
  <2> QED
    BY <2>1, <2>2, <2>3 DEF ChainCalls, ReadingOf
<1>9. ChainStarted'
  <2> SUFFICES ASSUME NEW s \in started
               PROVE  /\ s.read <= rereads
                      /\ s.read = rereads =>
                            \/ s.pos < next'
                            \/ s.pos = next' /\ \E d \in calls' : Chain!InHand(d)'
    BY DEF ChainStarted
  <2>1. s.pos \in Nat /\ s.read \in Nat
    BY DEF ChainType, Chain!Reading
  <2>2. CASE Chain!InHand(c)
    BY <1>1, <1>2, <2>1, <2>2 DEF ChainStarted
  <2>3. CASE ~Chain!InHand(c)
    <3>1. \A d \in calls : Chain!InHand(d) => d \in calls' /\ Chain!InHand(d)'
      BY <2>3 DEF Chain!InHand
    <3> QED
      BY <1>2, <2>3, <3>1 DEF ChainStarted
  <2> QED
    BY <2>2, <2>3
<1> QED
  BY <1>5, <1>8, <1>9

LEMMA ChainConsume ==
    ASSUME ChainInv, Chain!Consume
    PROVE  ChainInv'
<1> USE DEF ChainInv
<1>1. /\ next <= Len(topic) /\ \A c \in calls : ~Chain!InHand(c)
      /\ UNCHANGED <<topic, committed, started, repeated, deepest, granted, rereads>>
  BY DEF Chain!Consume
<1>2. /\ next \in 1..Len(topic) /\ topic[next] \in ChainEvents /\ next \in Nat /\ rereads \in Nat
      /\ granted \in Nat
  BY <1>1 DEF ChainType
<1>3. \A s \in started : s \in Chain!Reading /\ s.pos \in Nat /\ s.read \in Nat
                         /\ (s.read = rereads => s.pos < next)
  BY <1>1 DEF ChainType, ChainStarted, Chain!Reading
<1>4. \A c \in calls : c.pos \in Nat /\ (c.read = rereads => ~c.awaited /\ c.pos < next)
  BY <1>1 DEF ChainType, ChainCalls, Chain!InHand, Chain!Call
<1>5. CASE Chain!Cutoff(topic[next])
  <2>1. next' = next + 1 /\ calls' = calls
    BY <1>5 DEF Chain!Consume
  <2>2. ChainType'
    BY <1>1, <1>2, <2>1 DEF ChainType, ChainEvents
  <2>3. ChainCalls'
    BY <1>1, <1>2, <1>4, <2>1 DEF ChainCalls, ReadingOf
  <2>4. ChainStarted'
    BY <1>1, <1>2, <1>3, <2>1 DEF ChainStarted
  <2> QED
    BY <1>1, <2>2, <2>3, <2>4
<1>6. CASE ~Chain!Cutoff(topic[next])
  <2>1. PICK c : c = [pos |-> next, read |-> rereads, pc |-> "create", awaited |-> TRUE]
    OBVIOUS
  <2>2. next' = next /\ calls' = calls \cup {c}
    BY <1>6, <2>1 DEF Chain!Consume
  <2>3. /\ c \in Chain!Call /\ c.pos = next /\ c.read = rereads /\ c.awaited /\ c.pc = "create"
        /\ ReadingOf(c) = [pos |-> next, read |-> rereads]
    BY <1>2, <2>1 DEF Chain!Call, ReadingOf
  <2>4. ReadingOf(c) \notin started
    <3>1. ReadingOf(c).pos = next /\ ReadingOf(c).read = rereads
      BY <2>3
    <3> QED
      BY <1>2, <1>3, <3>1
  <2>5. topic[next].depth + 1 <= granted
    BY <1>2, <1>6 DEF Chain!Cutoff, ChainEvents
  <2>6. ChainType'
    BY <1>1, <2>2, <2>3 DEF ChainType, ChainEvents
  <2>7. ChainCalls'
    <3>1. ASSUME NEW d \in calls'
          PROVE  /\ d.pos \in 1..Len(topic) /\ topic[d.pos].depth + 1 <= granted /\ d.read <= rereads
                 /\ d.pc = "create" => ReadingOf(d) \notin started
                 /\ d.read = rereads => IF d.awaited THEN d.pos = next ELSE d.pos < next
      BY <1>2, <2>2, <2>3, <2>4, <2>5 DEF ChainCalls
    <3>2. ASSUME NEW d \in calls', NEW e \in calls', d.pos = e.pos, d.read = e.read
          PROVE  d = e
      BY <1>2, <1>4, <2>2, <2>3, <3>2 DEF ChainCalls
    <3> QED
      BY <1>1, <2>2, <3>1, <3>2 DEF ChainCalls, ReadingOf
  <2>8. ChainStarted'
    BY <1>1, <1>3, <2>2 DEF ChainStarted
  <2> QED
    BY <1>1, <2>6, <2>7, <2>8
<1> QED
  BY <1>5, <1>6

LEMMA ChainCreateSession ==
    ASSUME ChainInv, NEW c \in calls, Chain!CreateSession(c)
    PROVE  ChainInv'
<1> USE DEF ChainInv
<1>1. PICK depth, id : depth = topic[c.pos].depth + 1 /\ id = [pos |-> c.pos, read |-> c.read]
  OBVIOUS
<1>2. c.pc = "create" /\ UNCHANGED <<topic, committed, granted, rereads>>
  BY DEF Chain!CreateSession
<1>3. CASE Chain!Refused(depth, topic[c.pos].max)
  <2>1. calls' = (calls \ {c}) \cup {} /\ Chain!Done(c) /\ UNCHANGED <<started, repeated, deepest>>
    BY <1>1, <1>3 DEF Chain!CreateSession
  <2> QED
    BY <1>2, <2>1, ChainLeaves
<1>4. CASE ~Chain!Refused(depth, topic[c.pos].max)
  <2>1. PICK rest : rest = IF c.awaited THEN {[c EXCEPT !.pc = "turn"]} ELSE {}
    OBVIOUS
  <2>2. /\ calls' = (calls \ {c}) \cup rest /\ started' = started \cup {id}
        /\ repeated' = (repeated \/ id \in started)
        /\ deepest' = IF depth > deepest THEN depth ELSE deepest
        /\ UNCHANGED next
    BY <1>1, <1>4, <2>1 DEF Chain!CreateSession
  <2>3. c \in Chain!Call /\ next \in Nat /\ rereads \in Nat /\ c.read \in Nat /\ c.pos \in Nat
    BY DEF ChainType, Chain!Call
  <2>4. \A d \in rest : /\ d \in Chain!Call /\ d.pos = c.pos /\ d.read = c.read /\ d.pc = "turn"
                        /\ d.awaited = c.awaited
    BY <2>1, <2>3 DEF Chain!Call
  <2>5. id \in Chain!Reading /\ id = ReadingOf(c) /\ id.pos = c.pos /\ id.read = c.read
    BY <1>1, <2>3 DEF Chain!Reading, ReadingOf
  <2>6. id \notin started /\ ~repeated'
    BY <1>2, <2>2, <2>5 DEF ChainCalls
  <2>7. ChainType'
    <3>1. topic[c.pos] \in ChainEvents /\ depth <= granted
      BY <1>1 DEF ChainCalls, ChainType
    <3>2. depth \in Nat /\ deepest' \in 0..granted
      BY <1>1, <2>2, <3>1 DEF ChainType, ChainEvents
    <3>3. calls' \subseteq Chain!Call /\ started' \subseteq Chain!Reading
      BY <2>2, <2>4, <2>5 DEF ChainType
    <3> QED
      BY <1>2, <2>2, <3>2, <3>3 DEF ChainType, ChainEvents
  <2>8. ChainCalls'
    <3>1. ASSUME NEW d \in calls'
          PROVE  /\ d.pos \in 1..Len(topic) /\ topic[d.pos].depth + 1 <= granted /\ d.read <= rereads
                 /\ d.pc = "create" => ReadingOf(d) \notin started'
                 /\ d.read = rereads => IF d.awaited THEN d.pos = next ELSE d.pos < next
      <4>1. CASE d \in rest
        <5>1. d.pos = c.pos /\ d.read = c.read /\ d.pc # "create" /\ d.awaited = c.awaited
          BY <2>4, <4>1
        <5> QED
          BY <5>1 DEF ChainCalls
      <4>2. CASE d \in calls \ {c}
        <5>1. ReadingOf(d) # id
          <6>1. ReadingOf(d).pos = d.pos /\ ReadingOf(d).read = d.read
            BY DEF ReadingOf
          <6>2. ~(d.pos = c.pos /\ d.read = c.read)
            BY <4>2 DEF ChainCalls
          <6> QED
            BY <2>5, <6>1, <6>2
        <5> QED
          BY <2>2, <4>2, <5>1 DEF ChainCalls
      <4> QED
        BY <2>2, <4>1, <4>2
    <3>2. ASSUME NEW d \in calls', NEW e \in calls', d.pos = e.pos, d.read = e.read
          PROVE  d = e
      <4>1. \A x \in rest, y \in rest : x = y
        BY <2>1
      <4>2. \A x \in calls \ {c}, y \in rest : ~(x.pos = y.pos /\ x.read = y.read)
        BY <2>4 DEF ChainCalls
      <4> QED
        BY <2>2, <3>2, <4>1, <4>2 DEF ChainCalls
    <3> QED
      BY <1>2, <2>2, <3>1, <3>2 DEF ChainCalls, ReadingOf
  <2>9. ChainStarted'
    <3>1. \A d \in calls : Chain!InHand(d) => \E e \in calls' : Chain!InHand(e)'
      <4>1. \A d \in calls \ {c} : Chain!InHand(d) => d \in calls' /\ Chain!InHand(d)'
        BY <1>2, <2>2 DEF Chain!InHand
      <4>2. Chain!InHand(c) => \E e \in rest : e \in calls' /\ Chain!InHand(e)'
        BY <1>2, <2>1, <2>2, <2>4 DEF Chain!InHand
      <4> QED
        BY <4>1, <4>2
    <3>2. ASSUME NEW s \in started
          PROVE  /\ s.read <= rereads
                 /\ s.read = rereads => s.pos < next \/ (s.pos = next /\ \E d \in calls' : Chain!InHand(d)')
      BY <3>1 DEF ChainStarted
    <3>3. /\ id.read <= rereads
          /\ id.read = rereads => id.pos < next \/ (id.pos = next /\ \E d \in calls' : Chain!InHand(d)')
      <4>1. c.read <= rereads /\ (c.read = rereads => IF c.awaited THEN c.pos = next ELSE c.pos < next)
        BY DEF ChainCalls
      <4>2. c.read = rereads /\ c.awaited => \E d \in calls' : Chain!InHand(d)'
        BY <3>1 DEF Chain!InHand
      <4> QED
        BY <2>5, <4>1, <4>2
    <3> QED
      BY <1>2, <2>2, <3>2, <3>3 DEF ChainStarted
  <2> QED
    BY <2>6, <2>7, <2>8, <2>9
<1> QED
  BY <1>3, <1>4

(* A record more on the topic leaves the ones before it as they were.      *)
LEMMA ChainAppend ==
    ASSUME ChainType, NEW e \in ChainEvents, topic' = Append(topic, e), granted' = granted
    PROVE  /\ topic' \in Seq(ChainEvents') /\ \A i \in 1..Len(topic) : topic'[i] = topic[i]
           /\ 1..Len(topic) \subseteq 1..Len(topic')
<1>1. topic \in Seq(ChainEvents)
  BY DEF ChainType
<1>2. topic' \in Seq(ChainEvents) /\ Len(topic') = Len(topic) + 1
  BY <1>1
<1>3. ChainEvents' = ChainEvents
  BY DEF ChainEvents
<1> QED
  BY <1>1, <1>2, <1>3

(* The topic grows beside the rest of a step.                              *)
LEMMA ChainGrows ==
    ASSUME ChainInv, NEW e \in ChainEvents, topic' = Append(topic, e),
           UNCHANGED <<next, committed, calls, started, repeated, deepest, granted, rereads>>
    PROVE  ChainInv'
<1>1. /\ topic' \in Seq(ChainEvents') /\ \A i \in 1..Len(topic) : topic'[i] = topic[i]
      /\ 1..Len(topic) \subseteq 1..Len(topic')
  BY ChainAppend DEF ChainInv
<1>2. ChainType'
  BY <1>1 DEF ChainInv, ChainType
<1>3. ChainCalls'
  BY <1>1 DEF ChainInv, ChainCalls, ReadingOf
<1>4. ChainStarted'
  BY DEF ChainInv, ChainStarted, Chain!InHand
<1> QED
  BY <1>2, <1>3, <1>4 DEF ChainInv

LEMMA ChainRunTurn ==
    ASSUME ChainInv, NEW c \in calls, Chain!RunTurn(c)
    PROVE  ChainInv'
<1> USE DEF ChainInv
<1>1. /\ calls' = calls \ {c} /\ Chain!Done(c)
      /\ topic' = Append(topic, [depth |-> topic[c.pos].depth + 1, max |-> topic[c.pos].max])
      /\ UNCHANGED <<committed, started, repeated, deepest, granted, rereads>>
  BY DEF Chain!RunTurn
<1>2. topic[c.pos] \in ChainEvents /\ topic[c.pos].depth + 1 <= granted
  BY DEF ChainCalls, ChainType
<1>3. PICK e \in ChainEvents : topic' = Append(topic, e)
  BY <1>1, <1>2 DEF ChainEvents, ChainType
<1>4. /\ topic' \in Seq(ChainEvents') /\ \A i \in 1..Len(topic) : topic'[i] = topic[i]
      /\ 1..Len(topic) \subseteq 1..Len(topic')
  BY <1>1, <1>3, ChainAppend
<1>5. /\ c \in Chain!Call /\ next \in Nat \ {0} /\ rereads \in Nat
      /\ next' \in Nat \ {0} /\ (Chain!InHand(c) => next' = next + 1) /\ (~Chain!InHand(c) => next' = next)
  BY <1>1 DEF ChainType, Chain!Done
<1>6. ChainType'
  BY <1>1, <1>4, <1>5 DEF ChainType
<1>7. ChainCalls'
  <2>1. ASSUME NEW d \in calls \ {c}
        PROVE  d.read = rereads => IF d.awaited THEN d.pos = next' ELSE d.pos < next'
    <3>1. d \in Chain!Call /\ d.pos \in Nat
      BY DEF ChainType, Chain!Call
    <3>2. d.awaited /\ d.read = rereads => ~Chain!InHand(c)
      BY DEF ChainCalls, Chain!InHand
    <3>3. d.read = rereads => IF d.awaited THEN d.pos = next ELSE d.pos < next
      BY DEF ChainCalls
    <3> QED
      BY <1>5, <3>1, <3>2, <3>3
  <2> QED
    BY <1>1, <1>4, <2>1 DEF ChainCalls, ReadingOf
<1>8. ChainStarted'
  <2> SUFFICES ASSUME NEW s \in started
               PROVE  /\ s.read <= rereads
                      /\ s.read = rereads =>
                            \/ s.pos < next'
                            \/ s.pos = next' /\ \E d \in calls' : Chain!InHand(d)'
    BY <1>1 DEF ChainStarted
  <2>1. s.pos \in Nat /\ s.read \in Nat
    BY DEF ChainType, Chain!Reading
  <2>2. CASE Chain!InHand(c)
    BY <1>5, <2>1, <2>2 DEF ChainStarted
  <2>3. CASE ~Chain!InHand(c)
    <3>1. \A d \in calls : Chain!InHand(d) => d \in calls' /\ Chain!InHand(d)'
      BY <1>1, <2>3 DEF Chain!InHand
    <3> QED
      BY <1>5, <2>3, <3>1 DEF ChainStarted
  <2> QED
    BY <2>2, <2>3
<1> QED
  BY <1>1, <1>6, <1>7, <1>8

LEMMA ChainReread ==
    ASSUME ChainInv, Chain!Reread
    PROVE  ChainInv'
<1> USE DEF ChainInv
<1>1. /\ rereads' = rereads + 1 /\ next' = committed
      /\ UNCHANGED <<topic, committed, started, repeated, deepest, granted>>
  BY DEF Chain!Reread
<1>2. rereads \in Nat /\ committed \in Nat \ {0}
  BY DEF ChainType
<1>3. \A d \in calls' :
         \E c \in calls : d \in Chain!Call /\ d.pos = c.pos /\ d.read = c.read /\ d.pc = c.pc
  <2>1. \A d \in calls' : \E c \in calls : d \in {c, [c EXCEPT !.awaited = FALSE]}
    BY DEF Chain!Reread
  <2>2. \A c \in calls : c \in Chain!Call
    BY DEF ChainType
  <2>3. \A c \in calls : \A d \in {c, [c EXCEPT !.awaited = FALSE]} :
           d \in Chain!Call /\ d.pos = c.pos /\ d.read = c.read /\ d.pc = c.pc
    BY <2>2 DEF Chain!Call
  <2>4. ASSUME NEW d \in calls'
        PROVE  \E c \in calls : d \in Chain!Call /\ d.pos = c.pos /\ d.read = c.read /\ d.pc = c.pc
    <3>1. PICK c \in calls : d \in {c, [c EXCEPT !.awaited = FALSE]}
      BY <2>1
    <3>2. d \in Chain!Call /\ d.pos = c.pos /\ d.read = c.read /\ d.pc = c.pc
      BY <2>3, <3>1
    <3> QED
      BY <3>2
  <2> QED
    BY <2>4
<1>4. ChainType'
  BY <1>1, <1>2, <1>3 DEF ChainType, ChainEvents
<1>5. ChainCalls'
  <2>1. ASSUME NEW d \in calls'
        PROVE  /\ d.pos \in 1..Len(topic) /\ topic[d.pos].depth + 1 <= granted
               /\ d.read < rereads' /\ (d.pc = "create" => ReadingOf(d) \notin started)
    <3>1. PICK c \in calls : d \in Chain!Call /\ d.pos = c.pos /\ d.read = c.read /\ d.pc = c.pc
      BY <1>3
    <3>2. ReadingOf(d) = ReadingOf(c) /\ d.read \in Nat
      BY <3>1 DEF ReadingOf, Chain!Call
    <3>3. d.read < rereads'
      BY <1>1, <1>2, <3>1, <3>2 DEF ChainCalls
    <3> QED
      BY <3>1, <3>2, <3>3 DEF ChainCalls
  <2>2. ASSUME NEW d \in calls', NEW e \in calls', d.pos = e.pos, d.read = e.read
        PROVE  d = e
    <3>1. CASE calls' = calls
      BY <2>2, <3>1 DEF ChainCalls
    <3>2. CASE calls' = {[c EXCEPT !.awaited = FALSE] : c \in calls}
      <4>1. PICK x \in calls, y \in calls : d = [x EXCEPT !.awaited = FALSE] /\ e = [y EXCEPT !.awaited = FALSE]
        BY <3>2
      <4>2. x \in Chain!Call /\ y \in Chain!Call
        BY DEF ChainType
      <4>3. d.pos = x.pos /\ d.read = x.read /\ e.pos = y.pos /\ e.read = y.read
        BY <4>1, <4>2 DEF Chain!Call
      <4> QED
        BY <2>2, <4>1, <4>3 DEF ChainCalls
    <3> QED
      BY <3>1, <3>2 DEF Chain!Reread
  <2>3. \A d \in calls' : d.read \in Nat
    BY <1>3 DEF Chain!Call
  <2> QED
    BY <1>1, <1>2, <2>1, <2>2, <2>3 DEF ChainCalls, ReadingOf
<1>6. ChainStarted'
  <2>1. \A s \in started : s.read \in Nat
    BY DEF ChainType, Chain!Reading
  <2> QED
    BY <1>1, <1>2, <2>1 DEF ChainStarted
<1> QED
  BY <1>1, <1>4, <1>5, <1>6

LEMMA ChainStep ==
    ASSUME ChainInv, [Chain!Next]_Chain!vars
    PROVE  ChainInv'
<1>1. ASSUME NEW c \in calls, Chain!CallFails(c) PROVE ChainInv'
  <2>1. /\ Chain!Done(c) /\ UNCHANGED <<topic, committed, started, repeated, deepest, granted, rereads>>
        /\ \E rest \in {{}, {[c EXCEPT !.awaited = FALSE]}} : calls' = (calls \ {c}) \cup rest
    BY <1>1 DEF Chain!CallFails
  <2> QED
    BY <2>1, ChainLeaves
<1>2. CASE Chain!Redeliver
  <2>1. PICK i \in DOMAIN topic : topic' = Append(topic, topic[i])
    BY <1>2 DEF Chain!Redeliver
  <2>2. topic[i] \in ChainEvents
    BY DEF ChainInv, ChainType
  <2> QED
    BY <1>2, <2>1, <2>2, ChainGrows DEF Chain!Redeliver
<1>3. CASE Chain!SkipPoison
  <2>1. committed' = next /\ UNCHANGED <<topic, next, calls, started, repeated, deepest, granted, rereads>>
    BY <1>3 DEF Chain!SkipPoison
  <2> QED
    BY <2>1 DEF ChainInv, ChainType, ChainCalls, ChainStarted, ChainEvents, ReadingOf, Chain!InHand
<1>4. CASE UNCHANGED Chain!vars
  BY <1>4 DEF Chain!vars, ChainInv, ChainType, ChainCalls, ChainStarted, ChainEvents, ReadingOf, Chain!InHand
<1> QED
  BY <1>1, <1>2, <1>3, <1>4, ChainConsume, ChainCreateSession, ChainRunTurn, ChainReread DEF Chain!Next

LEMMA ChainInvSuffices == ChainInv => Chain!ChainSound
BY DEF ChainInv, ChainType, Chain!ChainSound, Chain!ChainBounded, Chain!OneFollower

(* A session whose turns neither overlap nor die spends within its budget, *)
(* its transcript has every result it asked for and it announces its end   *)
(* once; the day's tokens cover every request that returned but replays    *)
(* and evaluations; a chain is no deeper than granted, and one reading of  *)
(* a completion starts one session at most, over repeated records,         *)
(* restarts and rebalances.                                                *)
THEOREM AgentsAreAccounted == Spec => []AgentsAccounted
<1>1. Init => AgentInv /\ ChainInv
  BY AgentInit, ChainInit DEF Init
<1>2. AgentInv /\ ChainInv /\ [Next]_vars => AgentInv' /\ ChainInv'
  BY ComponentSteps, AgentStep, ChainStep
<1>3. AgentInv /\ ChainInv => AgentsAccounted
  BY AgentInvSuffices, ChainInvSuffices DEF AgentsAccounted
<1> QED
  BY <1>1, <1>2, <1>3, PTL DEF Spec

-----------------------------------------------------------------------------
(* Tool plugins: the rows and the registrations under way.                 *)
ToolsType ==
    /\ plugin \in [Plugins -> {None, "active", "disabled"}]
    /\ registering \in [Clients -> Tools!Request \cup {None}]

(* Without an overlap or an enabling, a registration past its check is the *)
(* only one and finds no other plugin active.                              *)
ToolsOne ==
    ~concurrent /\ ~reenabled =>
       /\ \A p, q \in Tools!Active : p = q
       /\ \A c \in Clients : Tools!At(c, "insert") =>
             /\ Tools!Active \subseteq {registering[c].plugin}
             /\ \A d \in Clients : Tools!At(d, "insert") => c = d

(* A registration goes on only with a name that was free, and the action   *)
(* that takes the name later is on record.                                 *)
ToolsFree ==
    /\ \A c \in Clients : Tools!At(c, "insert") \/ Tools!At(c, "seed") => ~registering[c].taken
    /\ action => \A c \in Clients : registering[c] # None /\ ~registering[c].taken => shadowed
    /\ action /\ Tools!Active # {} => shadowed \/ reenabled

ToolsKept ==
    /\ Tools!RegistrationKept
    /\ \A c \in Clients : Tools!At(c, "seed") =>
          plugin[registering[c].plugin] # None \/ registering[c].plugin \in undone

ToolsInv == ToolsType /\ ToolsOne /\ ToolsFree /\ ToolsKept

LEMMA ToolsInit == Tools!Init => ToolsInv
<1> SUFFICES ASSUME Tools!Init PROVE ToolsInv
  OBVIOUS
<1>1. plugin = [p \in Plugins |-> None] /\ registering = [c \in Clients |-> None] /\ registered = {}
  BY DEF Tools!Init
<1>2. Tools!Active = {} /\ (\A c \in Clients : registering[c] = None) /\ \A p \in Plugins : plugin[p] = None
  BY <1>1, PlatformAssumption DEF Tools!Active
<1> QED
  BY <1>1, <1>2 DEF ToolsInv, ToolsType, ToolsOne, ToolsFree, ToolsKept, Tools!RegistrationKept, Tools!At

(* A registration under way is replaced by r, which may be None.           *)
LEMMA ToolsRequest ==
    ASSUME ToolsType, NEW c \in Clients, NEW r, registering' = [registering EXCEPT ![c] = r]
    PROVE  registering'[c] = r /\ \A d \in Clients \ {c} : registering'[d] = registering[d]
BY DEF ToolsType

LEMMA ToolsGoOn ==
    ASSUME ToolsType, NEW c \in Clients, NEW pc \in {"insert", "seed"}, registering[c] # None, Tools!Step(c, pc)
    PROVE  \E r \in Tools!Request : /\ registering' = [registering EXCEPT ![c] = r] /\ r # None
                                    /\ r.pc = pc /\ r.plugin = registering[c].plugin
                                    /\ r.taken = registering[c].taken
<1>1. registering[c] \in Tools!Request
  BY DEF ToolsType
<1>2. PICK r : r = [registering[c] EXCEPT !.pc = pc]
  OBVIOUS
<1>3. r \in Tools!Request /\ r.pc = pc /\ r.plugin = registering[c].plugin /\ r.taken = registering[c].taken
  BY <1>1, <1>2 DEF Tools!Request
<1>4. registering' = [registering EXCEPT ![c] = r]
  BY <1>2 DEF Tools!Step, ToolsType
<1> QED
  BY <1>3, <1>4, PlatformAssumption

LEMMA ToolsRegister ==
    ASSUME ToolsInv, NEW c \in Clients, NEW p \in Plugins, Tools!Register(c, p), action \in BOOLEAN
    PROVE  ToolsInv'
<1> USE DEF ToolsInv
<1>1. PICK r : r = [plugin |-> p, pc |-> "check", taken |-> action]
  OBVIOUS
<1>2. r \in Tools!Request /\ r.pc = "check" /\ r.taken = action
  BY <1>1 DEF Tools!Request
<1>3. /\ registering[c] = None /\ registering' = [registering EXCEPT ![c] = r]
      /\ UNCHANGED <<tool, plugin, pluginLinked, action, concurrent, reenabled, shadowed, orphaned, undone, registered>>
  BY <1>1 DEF Tools!Register, Tools!ghosts
<1>4. registering'[c] = r /\ \A d \in Clients \ {c} : registering'[d] = registering[d]
  BY <1>3, ToolsRequest
<1>5. ToolsType'
  BY <1>2, <1>3 DEF ToolsType
<1>6. ToolsOne'
  BY <1>2, <1>3, <1>4 DEF ToolsOne, Tools!At, Tools!Active
<1>7. ToolsFree'
  BY <1>2, <1>3, <1>4 DEF ToolsFree, Tools!At, Tools!Active
<1>8. ToolsKept'
  BY <1>2, <1>3, <1>4 DEF ToolsKept, Tools!RegistrationKept, Tools!At
<1> QED
  BY <1>5, <1>6, <1>7, <1>8

LEMMA ToolsCheck ==
    ASSUME ToolsInv, NEW c \in Clients, Tools!Check(c)
    PROVE  ToolsInv'
<1> USE DEF ToolsInv
<1>1. /\ Tools!At(c, "check") /\ concurrent' = (concurrent \/ \E d \in Clients \ {c} : Tools!At(d, "insert"))
      /\ UNCHANGED <<tool, plugin, pluginLinked, action, reenabled, shadowed, orphaned, undone, registered>>
  BY DEF Tools!Check
<1>2. CASE registering' = [registering EXCEPT ![c] = None]
  <2>1. registering'[c] = None /\ \A d \in Clients \ {c} : registering'[d] = registering[d]
    BY <1>2, ToolsRequest
  <2>2. ToolsType'
    BY <1>1, <1>2 DEF ToolsType
  <2>3. ToolsOne'
    BY <1>1, <2>1 DEF ToolsOne, Tools!At, Tools!Active
  <2>4. ToolsFree'
    BY <1>1, <2>1 DEF ToolsFree, Tools!At, Tools!Active
  <2>5. ToolsKept'
    BY <1>1, <2>1 DEF ToolsKept, Tools!RegistrationKept, Tools!At
  <2> QED
    BY <2>2, <2>3, <2>4, <2>5
<1>3. CASE Tools!Step(c, "insert") /\ ~Tools!Conflict(registering[c])
  <2>1. PICK r \in Tools!Request : /\ registering' = [registering EXCEPT ![c] = r] /\ r # None
                                   /\ r.pc = "insert" /\ r.plugin = registering[c].plugin
                                   /\ r.taken = registering[c].taken
    BY <1>1, <1>3, ToolsGoOn DEF Tools!At
  <2>2. registering'[c] = r /\ \A d \in Clients \ {c} : registering'[d] = registering[d]
    BY <2>1, ToolsRequest
  <2>3. ~r.taken /\ Tools!Active \subseteq {r.plugin} /\ Tools!Active' = Tools!Active
    BY <1>1, <1>3, <2>1 DEF Tools!Conflict, Tools!Active
  <2>4. ToolsType'
    BY <1>1, <2>1 DEF ToolsType
  <2>5. ToolsOne'
    <3>1. ASSUME ~concurrent' PROVE ~concurrent /\ \A d \in Clients \ {c} : ~Tools!At(d, "insert")
      BY <1>1, <3>1
    <3>2. \A d \in Clients \ {c} : Tools!At(d, "insert")' => Tools!At(d, "insert")
      BY <2>2 DEF Tools!At
    <3> QED
      BY <1>1, <2>1, <2>2, <2>3, <3>1, <3>2 DEF ToolsOne
  <2>6. ToolsFree'
    BY <1>1, <2>1, <2>2, <2>3 DEF ToolsFree, Tools!At
  <2>7. ToolsKept'
    BY <1>1, <2>1, <2>2 DEF ToolsKept, Tools!RegistrationKept, Tools!At
  <2> QED
    BY <2>4, <2>5, <2>6, <2>7
<1> QED
  BY <1>2, <1>3 DEF Tools!Check, Tools!Done

LEMMA ToolsInsert ==
    ASSUME ToolsInv, NEW c \in Clients, Tools!Insert(c)
    PROVE  ToolsInv'
<1> USE DEF ToolsInv
<1>0. registering[c] # None /\ registering[c] \in Tools!Request /\ registering[c].plugin \in Plugins
      /\ registering[c].pc = "insert"
  BY DEF Tools!Insert, Tools!At, ToolsType, Tools!Request
<1>1. PICK p \in Plugins : p = registering[c].plugin
  BY <1>0
<1>2. /\ Tools!At(c, "insert") /\ plugin' = [plugin EXCEPT ![p] = "active"] /\ undone' = undone \ {p}
      /\ UNCHANGED <<tool, pluginLinked, action, concurrent, reenabled, shadowed, orphaned>>
  BY <1>1 DEF Tools!Insert
<1>3. PICK r \in Tools!Request \cup {None} :
         /\ registering' = [registering EXCEPT ![c] = r]
         /\ r # None => r.pc = "seed" /\ r.plugin = p /\ r.taken = registering[c].taken
         /\ IF tool THEN r # None /\ registered' = registered ELSE registered' = registered \cup {p}
  <2>1. CASE tool
    BY <1>0, <1>1, <2>1, ToolsGoOn DEF Tools!Insert
  <2>2. CASE ~tool
    BY <1>1, <2>2 DEF Tools!Insert, Tools!Done
  <2> QED
    BY <2>1, <2>2
<1>4. registering'[c] = r /\ \A d \in Clients \ {c} : registering'[d] = registering[d]
  BY <1>3, ToolsRequest
<1>5. plugin'[p] = "active" /\ plugin'[p] # None /\ \A q \in Plugins \ {p} : plugin'[q] = plugin[q]
  BY <1>2, PlatformAssumption DEF ToolsType
<1>6. Tools!Active' = Tools!Active \cup {p}
  BY <1>5 DEF Tools!Active
<1>7. ToolsType'
  BY <1>2, <1>3 DEF ToolsType
<1>8. ToolsOne'
  BY <1>1, <1>2, <1>3, <1>4, <1>6 DEF ToolsOne, Tools!At
<1>9. ToolsFree'
  BY <1>2, <1>3, <1>4, <1>6 DEF ToolsFree, Tools!At
<1>10. ToolsKept'
  BY <1>0, <1>2, <1>3, <1>4, <1>5 DEF ToolsKept, Tools!RegistrationKept, Tools!At
<1> QED
  BY <1>7, <1>8, <1>9, <1>10

LEMMA ToolsSeed ==
    ASSUME ToolsInv, NEW c \in Clients, Tools!Seed(c) \/ Tools!SeedFails(c)
    PROVE  ToolsInv'
<1> USE DEF ToolsInv
<1>1. registering[c] # None /\ registering[c].pc = "seed" /\ registering' = [registering EXCEPT ![c] = None]
  BY DEF Tools!Seed, Tools!SeedFails, Tools!At, Tools!Done
<1>2. PICK p \in Plugins : p = registering[c].plugin
  BY <1>1 DEF ToolsType, Tools!Request
<1>3. registering'[c] = None /\ \A d \in Clients \ {c} : registering'[d] = registering[d]
  BY <1>1, ToolsRequest
<1>4. UNCHANGED <<tool, action, concurrent, reenabled, shadowed, orphaned>>
  BY DEF Tools!Seed, Tools!SeedFails
<1>5. CASE /\ pluginLinked' = pluginLinked \cup {p} /\ registered' = registered \cup {p}
           /\ UNCHANGED <<plugin, undone>>
  <2>1. ToolsType' /\ Tools!Active' = Tools!Active
    BY <1>1, <1>5 DEF ToolsType, Tools!Active
  <2>2. ToolsOne'
    BY <1>3, <1>4, <1>5, <2>1 DEF ToolsOne, Tools!At
  <2>3. ToolsFree'
    BY <1>3, <1>4, <1>5, <2>1 DEF ToolsFree, Tools!At
  <2>4. ToolsKept'
    BY <1>1, <1>2, <1>3, <1>4, <1>5 DEF ToolsKept, Tools!RegistrationKept, Tools!At
  <2> QED
    BY <2>1, <2>2, <2>3, <2>4
<1>6. CASE /\ plugin' = [plugin EXCEPT ![p] = None] /\ undone' = undone \cup {p}
           /\ UNCHANGED <<pluginLinked, registered>>
  <2>0. plugin'[p] = None /\ \A q \in Plugins \ {p} : plugin'[q] = plugin[q]
    BY <1>6 DEF ToolsType
  <2>1. ToolsType' /\ Tools!Active' \subseteq Tools!Active
    BY <1>1, <1>6, <2>0, PlatformAssumption DEF ToolsType, Tools!Active
  <2>2. ToolsOne'
    BY <1>3, <1>4, <2>1 DEF ToolsOne, Tools!At
  <2>3. ToolsFree'
    BY <1>3, <1>4, <2>1 DEF ToolsFree, Tools!At
  <2>4. ToolsKept'
    BY <1>1, <1>2, <1>3, <1>4, <1>6, <2>0 DEF ToolsKept, Tools!RegistrationKept, Tools!At
  <2> QED
    BY <2>1, <2>2, <2>3, <2>4
<1> QED
  BY <1>2, <1>5, <1>6 DEF Tools!Seed, Tools!SeedFails

LEMMA ToolsSetStatus ==
    ASSUME ToolsInv, NEW p \in Plugins, Tools!SetStatus(p)
    PROVE  ToolsInv'
<1> USE DEF ToolsInv
<1>1. PICK st \in {"active", "disabled"} :
         /\ plugin[p] # None /\ plugin' = [plugin EXCEPT ![p] = st]
         /\ st = "active" => plugin[p] = "disabled"
         /\ reenabled' = (reenabled \/ plugin[p] = "disabled")
         /\ UNCHANGED <<tool, pluginLinked, action, registering, concurrent, shadowed, orphaned, undone, registered>>
  BY DEF Tools!SetStatus, ToolsType
<1>2. plugin'[p] = st /\ plugin'[p] # None /\ \A q \in Plugins \ {p} : plugin'[q] = plugin[q]
  BY <1>1, PlatformAssumption DEF ToolsType
<1>3. ~reenabled' => ~reenabled /\ Tools!Active' \subseteq Tools!Active
  BY <1>1, <1>2 DEF Tools!Active
<1>4. ToolsType'
  BY <1>1 DEF ToolsType
<1>5. ToolsOne'
  BY <1>1, <1>3 DEF ToolsOne, Tools!At
<1>6. ToolsFree'
  BY <1>1, <1>3 DEF ToolsFree, Tools!At
<1>7. ToolsKept'
  BY <1>1, <1>2 DEF ToolsKept, Tools!RegistrationKept, Tools!At, ToolsType, Tools!Request
<1> QED
  BY <1>4, <1>5, <1>6, <1>7

LEMMA ToolsAction ==
    ASSUME ToolsInv, Tools!CreateAction \/ Tools!DeleteAction
    PROVE  ToolsInv'
<1> USE DEF ToolsInv
<1>1. /\ UNCHANGED <<tool, plugin, pluginLinked, registering, concurrent, reenabled, orphaned, undone, registered>>
      /\ \/ ~action' /\ shadowed' = shadowed
         \/ action' /\ shadowed' = (shadowed \/ Tools!Active # {} \/ \E c \in Clients : registering[c] # None)
  BY DEF Tools!CreateAction, Tools!DeleteAction, Tools!ghosts
<1>2. Tools!Active' = Tools!Active
  BY <1>1 DEF Tools!Active
<1>3. ToolsType' /\ ToolsOne' /\ ToolsKept'
  BY <1>1, <1>2 DEF ToolsType, ToolsOne, ToolsKept, Tools!RegistrationKept, Tools!At
<1>4. ToolsFree'
  BY <1>1, <1>2 DEF ToolsFree, Tools!At
<1> QED
  BY <1>3, <1>4

LEMMA ToolsCrash ==
    ASSUME ToolsInv, Tools!Crash
    PROVE  ToolsInv'
<1> USE DEF ToolsInv
<1>1. /\ orphaned' = orphaned \cup {registering[c].plugin : c \in {d \in Clients : Tools!At(d, "seed")}}
      /\ registering' = [c \in Clients |-> None]
      /\ UNCHANGED <<tool, plugin, pluginLinked, action, concurrent, reenabled, shadowed, undone, registered>>
  BY DEF Tools!Crash
<1>2. Tools!Active' = Tools!Active /\ \A c \in Clients : registering'[c] = None
  BY <1>1 DEF Tools!Active
<1>3. ToolsType' /\ ToolsOne' /\ ToolsFree'
  BY <1>1, <1>2 DEF ToolsType, ToolsOne, ToolsFree, Tools!At
<1>4. ToolsKept'
  BY <1>1, <1>2 DEF ToolsKept, Tools!RegistrationKept, Tools!At
<1> QED
  BY <1>3, <1>4

LEMMA ToolsBoot ==
    ASSUME ToolsInv, NEW failed \in SUBSET Plugins, Tools!Boot(failed)
    PROVE  ToolsInv'
<1> USE DEF ToolsInv
<1>1. /\ pluginLinked \subseteq pluginLinked' /\ orphaned' = orphaned \ pluginLinked'
      /\ UNCHANGED <<tool, plugin, action, registering, concurrent, reenabled, shadowed, undone, registered>>
  BY DEF Tools!Boot
<1>2. ToolsType' /\ ToolsOne' /\ ToolsFree'
  BY <1>1 DEF ToolsType, ToolsOne, ToolsFree, Tools!At, Tools!Active
<1>3. ToolsKept'
  BY <1>1 DEF ToolsKept, Tools!RegistrationKept, Tools!At
<1> QED
  BY <1>2, <1>3

LEMMA ToolsStep ==
    ASSUME ToolsInv, action \in BOOLEAN, [Tools!Next]_Tools!vars
    PROVE  ToolsInv' /\ action' \in BOOLEAN
<1>1. CASE UNCHANGED Tools!vars
  BY <1>1 DEF Tools!vars, ToolsInv, ToolsType, ToolsOne, ToolsFree, ToolsKept,
     Tools!RegistrationKept, Tools!At, Tools!Active
<1>2. CASE Tools!Next
  <2>1. ToolsInv'
    BY <1>2, ToolsRegister, ToolsCheck, ToolsInsert, ToolsSeed, ToolsSetStatus, ToolsAction,
       ToolsCrash, ToolsBoot DEF Tools!Next
  <2>2. action' \in BOOLEAN
    BY <1>2 DEF Tools!Next, Tools!Register, Tools!Check, Tools!Insert, Tools!Seed,
       Tools!SeedFails, Tools!SetStatus, Tools!CreateAction, Tools!DeleteAction, Tools!Crash,
       Tools!Boot
  <2> QED
    BY <2>1, <2>2
<1> QED
  BY <1>1, <1>2

LEMMA ToolsCardinality == \A S : Tools!Cardinality(S) = Cardinality(S)
BY DEF Cardinality, Tools!Cardinality

LEMMA AtMostOne == ASSUME NEW S, \A x, y \in S : x = y PROVE Cardinality(S) \in {0, 1}
<1>1. CASE S = {}
  BY <1>1, FS_EmptySet
<1>2. ASSUME NEW x \in S PROVE Cardinality(S) \in {0, 1}
  <2>1. S = {x}
    OBVIOUS
  <2> QED
    BY <2>1, FS_Singleton
<1> QED
  BY <1>1, <1>2

LEMMA ToolsInvSuffices == ASSUME ToolsInv PROVE Tools!PluginsSound
<1>1. Cardinality(Tools!Active) > 1 => concurrent \/ reenabled
  <2> SUFFICES ASSUME ~concurrent, ~reenabled PROVE ~(Cardinality(Tools!Active) > 1)
    OBVIOUS
  <2>1. Cardinality(Tools!Active) \in {0, 1}
    BY AtMostOne DEF ToolsInv, ToolsOne
  <2> QED
    BY <2>1
<1>2. action /\ Tools!Resolved # {"action"} => shadowed \/ reenabled
  BY DEF Tools!Resolved, ToolsInv, ToolsFree
<1>3. Tools!OneClaim
  BY <1>1, <1>2, ToolsCardinality DEF Tools!OneClaim
<1> QED
  BY <1>3 DEF ToolsInv, ToolsKept, Tools!PluginsSound

-----------------------------------------------------------------------------
(* Models: the row, the artifacts and the requests under way.              *)
ModelsType ==
    /\ model \in Models!ModelRow \cup {None}
    /\ artifact \in [Versions -> Nat \cup {None}]
    /\ modelRequest \in [Clients -> Models!Registration \cup Models!Loading \cup {None}]
    /\ registrations \in Nat

(* What a row, an upsert or a prediction refers to is the artifact of its  *)
(* registration, unless the version was put twice.                         *)
Backed(v, id) == artifact[v] = id \/ v \in reused
ModelsBacked ==
    /\ model # None => Backed(model.version, model.schema)
    /\ \A c \in Clients : /\ Models!At(c, "upsert") => Backed(modelRequest[c].version, modelRequest[c].id)
                          /\ Models!At(c, "load") => Backed(modelRequest[c].version, modelRequest[c].schema)
    /\ Models!PredictionCoherent

(* Without a race one first registration is under way, before any tenant   *)
(* has the model; later the tenant of the row is the only one.             *)
First(c) == Models!Registering(c) /\ modelRequest[c].first
ModelsFirst ==
    ~raced =>
       /\ ~crossed /\ ~lost
       /\ \A c, d \in Clients : First(c) /\ First(d) => c = d
       /\ \A c \in Clients : First(c) =>
             /\ modelLinked = {}
             /\ IF modelRequest[c].pc = "seed"
                THEN model # None /\ model.tenant = c /\ model.schema = modelRequest[c].id
                ELSE model = None
       /\ \A c \in Clients : Models!Registering(c) /\ ~First(c) => c \in modelLinked /\ modelRequest[c].pc # "seed"
       /\ \A t \in modelLinked : model # None /\ model.tenant = t
       /\ model # None => model.tenant \in modelLinked \cup cut \/ (model.tenant \in Clients /\ Models!At(model.tenant, "seed"))
       /\ kept => model # None

ModelsInv == ModelsType /\ ModelsBacked /\ ModelsFirst

LEMMA ModelsInit == Models!Init => ModelsInv
<1> SUFFICES ASSUME Models!Init PROVE ModelsInv
  OBVIOUS
<1>1. /\ model = None /\ modelRequest = [c \in Clients |-> None] /\ predicted = None
      /\ artifact = [v \in Versions |-> None] /\ registrations = 0 /\ modelLinked = {}
      /\ ~crossed /\ ~lost /\ ~kept
  BY DEF Models!Init
<1>2. \A c \in Clients : modelRequest[c] = None
  BY <1>1
<1>3. ModelsType
  BY <1>1 DEF ModelsType
<1>4. ModelsBacked
  BY <1>1, <1>2 DEF ModelsBacked, Models!At, Models!PredictionCoherent
<1>5. ModelsFirst
  BY <1>1, <1>2 DEF ModelsFirst, First, Models!Registering
<1> QED
  BY <1>3, <1>4, <1>5 DEF ModelsInv

LEMMA ModelsRequest ==
    ASSUME ModelsType, NEW c \in Clients, NEW r, modelRequest' = [modelRequest EXCEPT ![c] = r]
    PROVE  modelRequest'[c] = r /\ \A d \in Clients \ {c} : modelRequest'[d] = modelRequest[d]
BY DEF ModelsType

LEMMA ModelsGoOn ==
    ASSUME ModelsType, NEW c \in Clients, Models!At(c, "put") \/ Models!At(c, "upsert"),
           NEW pc \in {"upsert", "seed"}, modelRequest' = [modelRequest EXCEPT ![c].pc = pc]
    PROVE  \E r \in Models!Registration : /\ modelRequest' = [modelRequest EXCEPT ![c] = r] /\ r # None
                                          /\ r.pc = pc /\ r.id = modelRequest[c].id
                                          /\ r.version = modelRequest[c].version
                                          /\ r.first = modelRequest[c].first
<1>1. modelRequest[c] \in Models!Registration
  BY DEF ModelsType, Models!At, Models!Loading
<1>2. PICK r : r = [modelRequest[c] EXCEPT !.pc = pc]
  OBVIOUS
<1>3. /\ r \in Models!Registration /\ r.pc = pc /\ r.id = modelRequest[c].id
      /\ r.version = modelRequest[c].version /\ r.first = modelRequest[c].first
  BY <1>1, <1>2 DEF Models!Registration
<1>4. modelRequest' = [modelRequest EXCEPT ![c] = r]
  BY <1>2 DEF ModelsType
<1> QED
  BY <1>3, <1>4, PlatformAssumption

LEMMA ModelsBegin ==
    ASSUME ModelsInv, NEW c \in Clients, NEW v \in Versions, Models!Begin(c, v)
    PROVE  ModelsInv'
<1> USE DEF ModelsInv
<1>1. PICK r : r = [pc |-> "put", id |-> registrations', version |-> v, first |-> model = None]
  OBVIOUS
<1>2. /\ modelRequest[c] = None /\ registrations' = registrations + 1
      /\ model # None => c \in modelLinked
      /\ modelRequest' = [modelRequest EXCEPT ![c] = r]
      /\ raced' = (raced \/ (model = None /\ \E d \in Clients : First(d)))
      /\ UNCHANGED <<model, artifact, modelLinked, predicted, reused, crossed, cut, kept, lost>>
  BY <1>1 DEF Models!Begin, First
<1>3. registrations' \in Nat
  BY <1>2 DEF ModelsType
<1>4. /\ r \in Models!Registration /\ r.pc = "put" /\ (r.first <=> model = None)
  BY <1>1, <1>3 DEF Models!Registration
<1>5. modelRequest'[c] = r /\ \A d \in Clients \ {c} : modelRequest'[d] = modelRequest[d]
  BY <1>2, ModelsRequest
<1>6. ModelsType'
  BY <1>2, <1>3, <1>4 DEF ModelsType
<1>7. ModelsBacked'
  BY <1>2, <1>4, <1>5 DEF ModelsBacked, Backed, Models!At, Models!PredictionCoherent
<1>8. ModelsFirst'
  <2> SUFFICES ASSUME ~raced' PROVE ModelsFirst'
    BY DEF ModelsFirst
  <2>1. ~raced /\ (model = None => \A d \in Clients : ~First(d))
    BY <1>2
  <2>2. \A d \in Clients \ {c} : /\ First(d)' <=> First(d)
                                 /\ Models!Registering(d)' <=> Models!Registering(d)
                                 /\ \A p : Models!At(d, p)' <=> Models!At(d, p)
    BY <1>5 DEF First, Models!Registering, Models!At
  <2>3. /\ First(c)' => model = None
        /\ Models!Registering(c)' /\ ~First(c)' => model # None
        /\ modelRequest'[c].pc = "put"
    BY <1>4, <1>5 DEF First, Models!Registering
  <2>4. model # None /\ model.tenant = c => ~Models!At(c, "seed")
    BY <1>2 DEF Models!At
  <2>5. model = None => modelLinked = {}
    BY <2>1 DEF ModelsFirst
  <2> QED
    BY <1>2, <1>5, <2>1, <2>2, <2>3, <2>4, <2>5 DEF ModelsFirst
<1> QED
  BY <1>6, <1>7, <1>8

LEMMA ModelsPut ==
    ASSUME ModelsInv, NEW c \in Clients, Models!Put(c)
    PROVE  ModelsInv'
<1> USE DEF ModelsInv
<1>0. Models!At(c, "put") /\ modelRequest[c] \in Models!Registration
  BY DEF Models!Put, ModelsType, Models!At, Models!Loading
<1>1. PICK v \in Versions, id \in Nat : v = modelRequest[c].version /\ id = modelRequest[c].id
  BY <1>0 DEF Models!Registration
<1>2. /\ artifact' = [artifact EXCEPT ![v] = id]
      /\ reused' = IF artifact[v] = None THEN reused ELSE reused \cup {v}
      /\ modelRequest' = [modelRequest EXCEPT ![c].pc = "upsert"]
      /\ UNCHANGED <<model, modelLinked, predicted, raced, crossed, cut, kept, lost, registrations>>
  BY <1>1 DEF Models!Put
<1>3. PICK r \in Models!Registration : /\ modelRequest' = [modelRequest EXCEPT ![c] = r] /\ r # None
                                       /\ r.pc = "upsert" /\ r.id = id
                                       /\ r.version = v /\ r.first = modelRequest[c].first
  BY <1>0, <1>1, <1>2, ModelsGoOn
<1>4. modelRequest'[c] = r /\ \A d \in Clients \ {c} : modelRequest'[d] = modelRequest[d]
  BY <1>3, ModelsRequest
<1>5. ModelsType'
  BY <1>1, <1>2, <1>3 DEF ModelsType
<1>6. \A w \in Versions : \A i \in Nat :
         artifact[w] = i \/ w \in reused => artifact'[w] = i \/ w \in reused'
  BY <1>1, <1>2, PlatformAssumption DEF ModelsType
<1>7. artifact'[v] = id
  BY <1>1, <1>2 DEF ModelsType
<1>8. ModelsBacked'
  <2>1. model' # None => Backed(model.version, model.schema)'
    BY <1>2, <1>6 DEF ModelsBacked, ModelsType, Models!ModelRow, Backed
  <2>2. ASSUME NEW d \in Clients
        PROVE  /\ Models!At(d, "upsert")' => Backed(modelRequest[d].version, modelRequest[d].id)'
               /\ Models!At(d, "load")' => Backed(modelRequest[d].version, modelRequest[d].schema)'
    <3>1. CASE d = c
      BY <1>3, <1>4, <1>7, <3>1 DEF Models!At, Backed
    <3>2. CASE d # c /\ Models!At(d, "upsert")
      <4>1. modelRequest[d] \in Models!Registration
        BY <3>2 DEF ModelsType, Models!At, Models!Loading
      <4>2. modelRequest[d].version \in Versions /\ modelRequest[d].id \in Nat
        BY <4>1 DEF Models!Registration
      <4> QED
        BY <1>4, <1>6, <3>2, <4>2 DEF ModelsBacked, Models!At, Backed
    <3>3. CASE d # c /\ Models!At(d, "load")
      <4>1. modelRequest[d] \in Models!Loading
        BY <3>3 DEF ModelsType, Models!At, Models!Registration
      <4>2. modelRequest[d].version \in Versions /\ modelRequest[d].schema \in Nat
        BY <4>1 DEF Models!Loading
      <4> QED
        BY <1>4, <1>6, <3>3, <4>2 DEF ModelsBacked, Models!At, Backed
    <3>4. CASE d # c /\ ~Models!At(d, "upsert") /\ ~Models!At(d, "load")
      BY <1>4, <3>4 DEF Models!At
    <3> QED
      BY <3>1, <3>2, <3>3, <3>4
  <2>3. Models!PredictionCoherent'
    BY <1>2 DEF Models!PredictionCoherent, ModelsBacked
  <2> QED
    BY <1>2, <2>1, <2>2, <2>3 DEF ModelsBacked
<1>9. ModelsFirst'
  <2> SUFFICES ASSUME ~raced' PROVE ModelsFirst'
    BY DEF ModelsFirst
  <2>1. \A d \in Clients : /\ First(d)' <=> First(d)
                           /\ Models!Registering(d)' <=> Models!Registering(d)
                           /\ Models!At(d, "seed")' <=> Models!At(d, "seed")
    BY <1>0, <1>3, <1>4 DEF First, Models!Registering, Models!At
  <2>2. \A d \in Clients : First(d) => (modelRequest'[d].pc = "seed" <=> modelRequest[d].pc = "seed")
                                       /\ modelRequest'[d].id = modelRequest[d].id
    BY <1>0, <1>1, <1>3, <1>4 DEF Models!At
  <2>3. modelRequest'[c].pc # "seed"
    BY <1>3, <1>4
  <2> QED
    BY <1>2, <1>4, <2>1, <2>2, <2>3 DEF ModelsFirst
<1> QED
  BY <1>5, <1>8, <1>9

LEMMA ModelsUpsert ==
    ASSUME ModelsInv, NEW c \in Clients, Models!Upsert(c)
    PROVE  ModelsInv'
<1> USE DEF ModelsInv
<1>0. Models!At(c, "upsert") /\ modelRequest[c] \in Models!Registration
  BY DEF Models!Upsert, ModelsType, Models!At, Models!Loading
<1>1. PICK v \in Versions, id \in Nat : v = modelRequest[c].version /\ id = modelRequest[c].id
  BY <1>0 DEF Models!Registration
<1>2. PICK m : m = Models!Written(c)
  OBVIOUS
<1>3. m \in Models!ModelRow /\ m.tenant = c /\ m.version = v /\ m.schema = id /\ m # None
  <2>1. m \in Models!ModelRow /\ m.tenant = c /\ m.version = v /\ m.schema = id
    BY <1>1, <1>2 DEF Models!Written, Models!ModelRow
  <2> QED
    BY <2>1, PlatformAssumption
<1>4. /\ model' = m /\ crossed' = (crossed \/ (model # None /\ model.tenant # c))
      /\ UNCHANGED <<artifact, modelLinked, predicted, reused, raced, cut, lost, registrations>>
  BY <1>2 DEF Models!Upsert
<1>5. PICK r \in Models!Registration \cup {None} :
         /\ modelRequest' = [modelRequest EXCEPT ![c] = r]
         /\ IF modelRequest[c].first
            THEN r # None /\ r.pc = "seed" /\ r.id = id /\ r.first /\ kept' = kept
            ELSE r = None /\ kept'
  <2>1. CASE modelRequest[c].first
    <3>1. modelRequest' = [modelRequest EXCEPT ![c].pc = "seed"] /\ kept' = kept
      BY <2>1 DEF Models!Upsert
    <3> QED
      BY <1>0, <1>1, <2>1, <3>1, ModelsGoOn
  <2>2. CASE ~modelRequest[c].first
    BY <2>2 DEF Models!Upsert, Models!Done
  <2> QED
    BY <2>1, <2>2
<1>6. modelRequest'[c] = r /\ \A d \in Clients \ {c} : modelRequest'[d] = modelRequest[d]
  BY <1>5, ModelsRequest
<1>7. ModelsType'
  BY <1>3, <1>4, <1>5 DEF ModelsType
<1>8. ModelsBacked'
  <2>1. artifact'[v] = id \/ v \in reused'
    BY <1>0, <1>1, <1>4 DEF ModelsBacked, Backed
  <2> QED
    BY <1>3, <1>4, <1>5, <1>6, <2>1 DEF ModelsBacked, Backed, Models!At, Models!PredictionCoherent
<1>9. ModelsFirst'
  <2> SUFFICES ASSUME ~raced' PROVE ModelsFirst'
    BY DEF ModelsFirst
  <2>1. \A d \in Clients \ {c} : /\ First(d)' <=> First(d)
                                 /\ Models!Registering(d)' <=> Models!Registering(d)
    BY <1>6 DEF First, Models!Registering
  <2>2. ~raced /\ ModelsFirst
    BY <1>4
  <2>3. Models!Registering(c) /\ (First(c) <=> modelRequest[c].first)
    BY <1>0 DEF First, Models!Registering, Models!At
  <2>4. CASE modelRequest[c].first
    <3>1. First(c) /\ model = None /\ modelLinked = {} /\ ~crossed'
      BY <1>0, <1>4, <2>2, <2>3, <2>4 DEF ModelsFirst, Models!At
    <3>2. First(c)' /\ Models!At(c, "seed")' /\ \A d \in Clients \ {c} : ~First(d)'
      BY <1>5, <1>6, <2>1, <2>2, <2>4, <3>1 DEF ModelsFirst, First, Models!Registering, Models!At
    <3>3. \A d \in Clients \ {c} : ~Models!Registering(d)'
      BY <2>1, <2>2, <3>1, <3>2 DEF ModelsFirst
    <3> QED
      BY <1>3, <1>4, <1>5, <1>6, <2>2, <2>4, <3>1, <3>2, <3>3 DEF ModelsFirst
  <2>5. CASE ~modelRequest[c].first
    <3>1. c \in modelLinked /\ model # None /\ model.tenant = c /\ ~crossed'
      BY <1>4, <2>2, <2>3, <2>5 DEF ModelsFirst
    <3>2. ~Models!Registering(c)' /\ ~First(c)' /\ \A d \in Clients : ~First(d)'
      BY <1>5, <1>6, <2>1, <2>2, <2>5, <3>1 DEF ModelsFirst, First, Models!Registering
    <3>3. \A d \in Clients \ {c} : Models!Registering(d)' => d \in modelLinked' /\ modelRequest'[d].pc # "seed"
      BY <1>4, <1>6, <2>1, <2>2, <3>2 DEF ModelsFirst
    <3>4. \A t \in modelLinked' : model' # None /\ model'.tenant = t
      BY <1>3, <1>4, <2>2, <3>1 DEF ModelsFirst
    <3> QED
      BY <1>3, <1>4, <1>5, <2>2, <2>5, <3>1, <3>2, <3>3, <3>4 DEF ModelsFirst
  <2> QED
    BY <2>4, <2>5
<1> QED
  BY <1>7, <1>8, <1>9

(* A request that ends.                                                    *)
LEMMA ModelsDone ==
    ASSUME ModelsInv, NEW c \in Clients, Models!Done(c), UNCHANGED <<artifact, registrations>>,
           reused' = reused, predicted' = predicted, model' = model \/ model' = None
    PROVE  /\ modelRequest'[c] = None /\ \A d \in Clients \ {c} : modelRequest'[d] = modelRequest[d]
           /\ ModelsType' /\ ModelsBacked'
           /\ \A d \in Clients : /\ First(d)' <=> d # c /\ First(d)
                                 /\ Models!Registering(d)' <=> d # c /\ Models!Registering(d)
                                 /\ Models!At(d, "seed")' <=> d # c /\ Models!At(d, "seed")
<1> USE DEF ModelsInv
<1>1. modelRequest' = [modelRequest EXCEPT ![c] = None]
  BY DEF Models!Done
<1>2. modelRequest'[c] = None /\ \A d \in Clients \ {c} : modelRequest'[d] = modelRequest[d]
  BY <1>1, ModelsRequest
<1>3. ModelsType'
  BY <1>1 DEF ModelsType
<1>4. ModelsBacked'
  BY <1>2 DEF ModelsBacked, Backed, Models!At, Models!PredictionCoherent
<1> QED
  BY <1>2, <1>3, <1>4 DEF First, Models!Registering, Models!At

LEMMA ModelsSeed ==
    ASSUME ModelsInv, NEW c \in Clients, Models!Seed(c)
    PROVE  ModelsInv'
<1> USE DEF ModelsInv
<1>1. /\ Models!At(c, "seed") /\ Models!Done(c) /\ modelLinked' = modelLinked \cup {c} /\ kept'
      /\ UNCHANGED <<model, artifact, predicted, reused, raced, crossed, cut, lost, registrations>>
  BY DEF Models!Seed
<1>2. Models!Registering(c)
  BY <1>1 DEF Models!Registering, Models!At
<1>3. ModelsFirst'
  <2> SUFFICES ASSUME ~raced' PROVE ModelsFirst'
    BY DEF ModelsFirst
  <2>1. First(c) /\ ~raced /\ modelLinked = {} /\ model # None /\ model.tenant = c
    BY <1>1, <1>2 DEF ModelsFirst, Models!At
  <2>2. \A d \in Clients \ {c} : ~Models!Registering(d)
    BY <2>1 DEF ModelsFirst
  <2>3. \A d \in Clients : ~Models!Registering(d)' /\ ~First(d)'
    BY <1>1, <2>2, ModelsDone DEF First
  <2> QED
    BY <1>1, <2>1, <2>3 DEF ModelsFirst
<1> QED
  BY <1>1, <1>3, ModelsDone

LEMMA ModelsSeedFails ==
    ASSUME ModelsInv, NEW c \in Clients, Models!SeedFails(c)
    PROVE  ModelsInv'
<1> USE DEF ModelsInv
<1>1. /\ Models!At(c, "seed") /\ Models!Done(c) /\ model' = None
      /\ lost' = (lost \/ (model # None /\ model.schema # modelRequest[c].id))
      /\ kept' = (kept /\ model # None /\ model.schema # modelRequest[c].id)
      /\ raced' \/ UNCHANGED <<modelLinked, raced>>
      /\ UNCHANGED <<artifact, predicted, reused, crossed, cut, registrations>>
  BY DEF Models!SeedFails
<1>2. Models!Registering(c)
  BY <1>1 DEF Models!Registering, Models!At
<1>3. ModelsFirst'
  <2> SUFFICES ASSUME ~raced' PROVE ModelsFirst'
    BY DEF ModelsFirst
  <2>1. First(c) /\ ~raced /\ modelLinked = {} /\ model # None /\ model.schema = modelRequest[c].id
    BY <1>1, <1>2 DEF ModelsFirst, Models!At
  <2>2. \A d \in Clients \ {c} : ~Models!Registering(d)
    BY <2>1 DEF ModelsFirst
  <2>3. \A d \in Clients : ~Models!Registering(d)' /\ ~First(d)'
    BY <1>1, <2>2, ModelsDone DEF First
  <2>4. ~lost' /\ ~kept' /\ ~crossed'
    BY <1>1, <2>1 DEF ModelsFirst
  <2> QED
    BY <1>1, <2>1, <2>3, <2>4 DEF ModelsFirst
<1> QED
  BY <1>1, <1>3, ModelsDone

LEMMA ModelsCut ==
    ASSUME ModelsInv, NEW c \in Clients, Models!Cut(c)
    PROVE  ModelsInv'
<1> USE DEF ModelsInv
<1>1. /\ Models!Done(c) /\ cut' = IF Models!At(c, "seed") THEN cut \cup {c} ELSE cut
      /\ UNCHANGED <<model, artifact, modelLinked, predicted, reused, raced, crossed, kept, lost, registrations>>
  BY DEF Models!Cut
<1>2. ModelsFirst'
  <2> SUFFICES ASSUME ~raced' PROVE ModelsFirst'
    BY DEF ModelsFirst
  <2>1. ~raced /\ ModelsFirst
    BY <1>1
  <2>2. model # None => model.tenant \in modelLinked' \cup cut' \/ (model.tenant \in Clients /\ Models!At(model.tenant, "seed") /\ model.tenant # c)
    BY <1>1, <2>1 DEF ModelsFirst
  <2>3. /\ \A d \in Clients \ {c} : modelRequest'[d] = modelRequest[d]
        /\ \A d \in Clients : /\ First(d)' <=> d # c /\ First(d)
                              /\ Models!Registering(d)' <=> d # c /\ Models!Registering(d)
                              /\ Models!At(d, "seed")' <=> d # c /\ Models!At(d, "seed")
    BY <1>1, ModelsDone
  <2> QED
    BY <1>1, <2>1, <2>2, <2>3 DEF ModelsFirst
<1> QED
  BY <1>1, <1>2, ModelsDone

LEMMA ModelsSetStatus ==
    ASSUME ModelsInv, NEW c \in Clients, Models!SetStatus(c)
    PROVE  ModelsInv'
<1> USE DEF ModelsInv
<1>1. PICK s \in {"active", "disabled"} : /\ model # None /\ model' = [model EXCEPT !.status = s]
         /\ UNCHANGED <<artifact, modelLinked, modelRequest, predicted, reused, raced, crossed, cut, kept, lost, registrations>>
  BY DEF Models!SetStatus
<1>2. model \in Models!ModelRow
  BY <1>1 DEF ModelsType
<1>3. /\ model' \in Models!ModelRow /\ model'.tenant = model.tenant
      /\ model'.version = model.version /\ model'.schema = model.schema
  BY <1>1, <1>2 DEF Models!ModelRow
<1>4. model' # None
  BY <1>3, PlatformAssumption
<1>5. ModelsType'
  BY <1>1, <1>3 DEF ModelsType
<1>6. ModelsBacked'
  BY <1>1, <1>3 DEF ModelsBacked, Backed, Models!At, Models!PredictionCoherent
<1>7. ModelsFirst'
  BY <1>1, <1>3, <1>4 DEF ModelsFirst, First, Models!Registering, Models!At
<1> QED
  BY <1>5, <1>6, <1>7

LEMMA ModelsAskPrediction ==
    ASSUME ModelsInv, NEW c \in Clients, Models!AskPrediction(c)
    PROVE  ModelsInv'
<1> USE DEF ModelsInv
<1>1. PICK r : r = [pc |-> "load", version |-> model.version, schema |-> model.schema]
  OBVIOUS
<1>2. /\ modelRequest[c] = None /\ model # None /\ modelRequest' = [modelRequest EXCEPT ![c] = r]
      /\ UNCHANGED <<model, artifact, modelLinked, predicted, reused, raced, crossed, cut, kept, lost, registrations>>
  BY <1>1 DEF Models!AskPrediction
<1>3. /\ r \in Models!Loading /\ r.pc = "load" /\ r.version = model.version /\ r.schema = model.schema
  BY <1>1, <1>2 DEF Models!Loading, ModelsType, Models!ModelRow
<1>4. modelRequest'[c] = r /\ \A d \in Clients \ {c} : modelRequest'[d] = modelRequest[d]
  BY <1>2, ModelsRequest
<1>5. ModelsType'
  BY <1>2, <1>3 DEF ModelsType
<1>6. ModelsBacked'
  BY <1>2, <1>3, <1>4 DEF ModelsBacked, Backed, Models!At, Models!PredictionCoherent
<1>7. ModelsFirst'
  <2>1. \A d \in Clients : /\ First(d)' <=> First(d)
                           /\ Models!Registering(d)' <=> Models!Registering(d)
                           /\ Models!At(d, "seed")' <=> Models!At(d, "seed")
    BY <1>2, <1>3, <1>4 DEF First, Models!Registering, Models!At
  <2>2. \A d \in Clients : Models!Registering(d) => modelRequest'[d] = modelRequest[d]
    BY <1>2, <1>4 DEF Models!Registering
  <2> QED
    BY <1>2, <2>1, <2>2 DEF ModelsFirst, First
<1> QED
  BY <1>5, <1>6, <1>7

LEMMA ModelsPredict ==
    ASSUME ModelsInv, NEW c \in Clients, Models!Predict(c)
    PROVE  ModelsInv'
<1> USE DEF ModelsInv
<1>1. /\ Models!At(c, "load") /\ modelRequest' = [modelRequest EXCEPT ![c] = None]
      /\ predicted' = [version |-> modelRequest[c].version, schema |-> modelRequest[c].schema,
                       artifact |-> artifact[modelRequest[c].version]]
      /\ UNCHANGED <<model, artifact, modelLinked, reused, raced, crossed, cut, kept, lost, registrations>>
  BY DEF Models!Predict, Models!Done
<1>2. modelRequest'[c] = None /\ \A d \in Clients \ {c} : modelRequest'[d] = modelRequest[d]
  BY <1>1, ModelsRequest
<1>3. ModelsType'
  BY <1>1 DEF ModelsType
<1>4. Models!PredictionCoherent'
  BY <1>1 DEF ModelsBacked, Backed, Models!PredictionCoherent
<1>5. ModelsBacked'
  BY <1>1, <1>2, <1>4 DEF ModelsBacked, Backed, Models!At
<1>6. ModelsFirst'
  <2>1. \A d \in Clients : /\ First(d)' <=> First(d)
                           /\ Models!Registering(d)' <=> Models!Registering(d)
                           /\ Models!At(d, "seed")' <=> Models!At(d, "seed")
    BY <1>1, <1>2 DEF First, Models!Registering, Models!At
  <2>2. \A d \in Clients : Models!Registering(d) => modelRequest'[d] = modelRequest[d]
    BY <1>1, <1>2 DEF Models!Registering, Models!At
  <2> QED
    BY <1>1, <2>1, <2>2 DEF ModelsFirst, First
<1> QED
  BY <1>3, <1>5, <1>6

LEMMA ModelsStep ==
    ASSUME ModelsInv, [Models!Next]_Models!vars
    PROVE  ModelsInv'
<1>1. CASE UNCHANGED Models!vars
  BY <1>1 DEF Models!vars, ModelsInv, ModelsType, ModelsBacked, Backed, ModelsFirst, First,
     Models!Registering, Models!At, Models!PredictionCoherent
<1>2. CASE Models!Next
  BY <1>2, ModelsBegin, ModelsPut, ModelsUpsert, ModelsSeed, ModelsSeedFails, ModelsSetStatus,
     ModelsAskPrediction, ModelsPredict, ModelsCut DEF Models!Next
<1> QED
  BY <1>1, <1>2

LEMMA ModelsInvSuffices == ASSUME ModelsInv PROVE Models!ModelsSound
<1>1. Models!ModelGoverned
  BY DEF ModelsInv, ModelsFirst, Models!ModelGoverned, Models!At
<1>2. Models!ModelKept
  BY DEF ModelsInv, ModelsFirst, Models!ModelKept
<1> QED
  BY <1>1, <1>2 DEF ModelsInv, ModelsBacked, Models!ModelsSound

-----------------------------------------------------------------------------
(* Applications: the versions and the requests under way.                  *)
AppsType ==
    /\ application \in Seq(Apps!VersionRow) /\ edges \in SUBSET Projects
    /\ edit \in [Clients -> Apps!Edit \cup {None}]
    /\ boot \in {"seed", "link", "up"}

(* What a request has read or found still holds for its next step.         *)
Checked(d) == {"type", IF d = "list" THEN "action" ELSE "tool"}
EditOK(c) ==
    LET r == edit[c] IN
    r # None =>
       /\ boot = "up"
       /\ r.op = "save" => r.pc \in {"validate", "reread", "write", "link"}
       /\ r.op = "promote" => /\ r.pc \in {"validate", "promote"} /\ r.id \in 1..Len(application)
                              /\ \/ application[r.id].definition = r.definition
                                 \/ application[r.id].raced
                              /\ r.pc = "promote" => r.found = Checked(r.definition)
       /\ r.op = "project" => r.pc \in {"edges", "replace", "column"} /\ Len(application) > 0
       /\ r.pc = "validate" => r.found = {} \/ r.found = {"type"}
       /\ r.pc = "write" /\ r.fresh => /\ r.id \in 1..(Len(application) + 1)
                                       /\ r.id > 1 => application[r.id - 1].status = "promoted"
                                       /\ r.id = 1 => r.project = None
       /\ r.pc = "write" /\ ~r.fresh => r.id \in 1..Len(application)
       /\ Len(application) = 0 => r.op = "save" /\ r.created /\ r.pc # "link"
AppsEdits == \A c \in Clients : EditOK(c)

(* The drafts, the promotions and the way to the workspace.                *)
AppsRows ==
    /\ \A v \in 1..Len(application) : v < Len(application) => application[v].status = "promoted"
    /\ \A v \in 1..Len(application) : application[v].status = "promoted" /\ ~application[v].raced =>
          application[v].vouched = Checked(application[v].definition)
AppsReach ==
    /\ boot = "seed" /\ named /\ Len(application) > 0 => severed
    /\ boot = "up" /\ Len(application) > 0 => applicationLinked \/ severed \/ \E c \in Clients : Apps!At(c, "link")

(* Every version has the project the edges show, but between the edges and *)
(* the column of the one change of project under way.                      *)
Changing(c) == edit[c] # None /\ edit[c].op = "project"
AppsProject ==
    ~mixed =>
       /\ \A c, d \in Clients : Changing(c) /\ Changing(d) => c = d
       /\ \A v, w \in 1..Len(application) : application[v].project = application[w].project
       /\ \/ \E c \in Clients : Changing(c) /\ edit[c].pc = "column"
          \/ \A v \in 1..Len(application) : edges = {application[v].project} \ {None}
       /\ Len(application) = 0 => edges = {}
       /\ \A c \in Clients : Changing(c) /\ edit[c].pc = "replace" => edit[c].found = edges
       /\ \A c \in Clients : Changing(c) /\ edit[c].pc = "column" => edges = {edit[c].project} \ {None}

AppsInv == AppsType /\ AppsEdits /\ AppsRows /\ AppsReach /\ AppsProject

LEMMA AppsExists == ASSUME AppsType PROVE /\ Len(application) \in Nat
                                          /\ Apps!Exists <=> Len(application) > 0
                                          /\ ~Apps!Exists <=> Len(application) = 0
BY DEF AppsType, Apps!Exists

LEMMA AppsRow ==
    ASSUME AppsType, NEW v \in 1..Len(application)
    PROVE  application[v] \in Apps!VersionRow
BY DEF AppsType

LEMMA AppsFresh ==
    ASSUME NEW d \in Apps!Definitions, NEW p \in Projects \cup {None}, NEW x, x = Apps!Version(d, p)
    PROVE  /\ x \in Apps!VersionRow /\ x.definition = d /\ x.project = p /\ x.status = "draft"
           /\ ~x.raced /\ x.vouched = {}
BY DEF Apps!Version, Apps!VersionRow

LEMMA AppsInit == Apps!Init => AppsInv
<1> SUFFICES ASSUME Apps!Init PROVE AppsInv
  OBVIOUS
<1>1. /\ edit = [c \in Clients |-> None] /\ edges = {} /\ boot = "seed"
      /\ application = <<>> \/ (application = <<Apps!Version("list", None)>> /\ ~named)
  BY DEF Apps!Init
<1>2. \A c \in Clients : edit[c] = None
  BY <1>1
<1>3. PICK x : x = Apps!Version("list", None)
  OBVIOUS
<1>4. x \in Apps!VersionRow /\ x.definition = "list" /\ x.project = None /\ x.status = "draft"
  BY <1>3, AppsFresh DEF Apps!Definitions
<1>5. application = <<>> \/ (application = <<x>> /\ ~named)
  BY <1>1, <1>3
<1>6. /\ application \in Seq(Apps!VersionRow)
      /\ Len(application) <= 1 /\ \A v \in 1..Len(application) : application[v] = x
  <2>1. CASE application = <<>>
    BY <2>1
  <2>2. CASE application = <<x>>
    <3>1. Len(application) = 1 /\ application[1] = x
      BY <2>2
    <3> QED
      BY <1>4, <2>2, <3>1
  <2> QED
    BY <1>5, <2>1, <2>2
<1>0. AppsType
  BY <1>1, <1>6 DEF AppsType
<1>7. AppsEdits
  BY <1>2 DEF AppsEdits, EditOK
<1>8. AppsRows
  BY <1>4, <1>6 DEF AppsRows
<1>9. AppsReach
  BY <1>1, <1>5 DEF AppsReach
<1>10. AppsProject
  BY <1>1, <1>2, <1>4, <1>6 DEF AppsProject, Changing
<1> QED
  BY <1>0, <1>7, <1>8, <1>9, <1>10 DEF AppsInv

(* The request of c is replaced by r, which may be None.                   *)
LEMMA AppsRequest ==
    ASSUME AppsType, NEW c \in Clients, NEW r, Apps!Keep(c, r)
    PROVE  edit'[c] = r /\ \A d \in Clients \ {c} : edit'[d] = edit[d]
BY DEF AppsType, Apps!Keep

(* The requests that do not move are not disturbed while versions only     *)
(* grow, promotions stand and edits of what is being promoted leave a mark.*)
RowsGrow ==
    /\ Len(application) <= Len(application')
    /\ \A v \in 1..Len(application) :
          /\ application[v].status = "promoted" => application'[v].status = "promoted"
          /\ application[v].raced => application'[v].raced
          /\ \/ application'[v].definition = application[v].definition
             \/ application'[v].raced \/ ~Apps!Promoting(v)

LEMMA EditStays ==
    ASSUME AppsType, AppsType', NEW d \in Clients, EditOK(d), edit'[d] = edit[d], boot' = boot, RowsGrow
    PROVE  EditOK(d)'
<1> SUFFICES ASSUME edit[d] # None PROVE EditOK(d)'
  BY DEF EditOK
<1>1. Len(application) \in Nat /\ Len(application') \in Nat /\ Len(application) <= Len(application')
  BY DEF AppsType, RowsGrow
<1>2. PICK r : r = edit[d]
  OBVIOUS
<1>3. r \in Apps!Edit /\ r.id \in Nat
  BY <1>2 DEF AppsType, Apps!Edit
<1>4. r.op = "promote" =>
        /\ r.pc \in {"validate", "promote"} /\ r.id \in 1..Len(application')
        /\ application'[r.id].definition = r.definition \/ application'[r.id].raced
        /\ r.pc = "promote" => r.found = Checked(r.definition)
  <2> SUFFICES ASSUME r.op = "promote" PROVE
        /\ r.pc \in {"validate", "promote"} /\ r.id \in 1..Len(application')
        /\ application'[r.id].definition = r.definition \/ application'[r.id].raced
        /\ r.pc = "promote" => r.found = Checked(r.definition)
    OBVIOUS
  <2>1. Apps!Promoting(r.id)
    BY <1>2 DEF Apps!Promoting
  <2>2. r.id \in 1..Len(application) /\ r.id \in 1..Len(application')
    BY <1>1, <1>2, <1>3 DEF EditOK
  <2> QED
    BY <1>2, <2>1, <2>2 DEF EditOK, RowsGrow
<1>5. r.pc = "write" /\ r.fresh => /\ r.id \in 1..(Len(application') + 1)
                                   /\ r.id > 1 => application'[r.id - 1].status = "promoted"
                                   /\ r.id = 1 => r.project = None
  BY <1>1, <1>2, <1>3 DEF EditOK, RowsGrow
<1>6. r.pc = "write" /\ ~r.fresh => r.id \in 1..Len(application')
  BY <1>1, <1>2, <1>3 DEF EditOK
<1>7. /\ r.op = "save" => r.pc \in {"validate", "reread", "write", "link"}
      /\ r.op = "project" => r.pc \in {"edges", "replace", "column"} /\ Len(application') > 0
      /\ r.pc = "validate" => r.found = {} \/ r.found = {"type"}
      /\ Len(application') = 0 => r.op = "save" /\ r.created /\ r.pc # "link"
      /\ boot' = "up"
  BY <1>1, <1>2 DEF EditOK
<1> QED
  BY <1>2, <1>4, <1>5, <1>6, <1>7 DEF EditOK

LEMMA EditsStay ==
    ASSUME AppsType, AppsType', AppsEdits, NEW c \in Clients, EditOK(c)', boot' = boot, RowsGrow,
           \A d \in Clients \ {c} : edit'[d] = edit[d]
    PROVE  AppsEdits'
BY EditStays DEF AppsEdits

LEMMA SameRowsGrow == AppsType /\ application' = application => RowsGrow
BY DEF AppsType, RowsGrow

(* Neither the project nor the edges move, nor a change of project.        *)
LEMMA ProjectStays ==
    ASSUME AppsProject, mixed => mixed', edges' = edges, Len(application') = Len(application),
           \A v \in 1..Len(application) : application'[v].project = application[v].project,
           NEW c \in Clients, ~Changing(c), ~Changing(c)', \A d \in Clients \ {c} : edit'[d] = edit[d]
    PROVE  AppsProject'
<1>1. \A d \in Clients : Changing(d)' <=> Changing(d)
  BY DEF Changing
<1>2. \A d \in Clients : Changing(d) => edit'[d] = edit[d]
  OBVIOUS
<1> QED
  BY <1>1, <1>2 DEF AppsProject

(* One request moves and no version does.                                  *)
LEMMA AppsMove ==
    ASSUME AppsInv, NEW c \in Clients, NEW r \in Apps!Edit \cup {None}, Apps!Keep(c, r),
           application' = application, boot' = boot, named' = named, edges' \in SUBSET Projects,
           applicationLinked => applicationLinked', severed => severed',
           Apps!At(c, "link") => applicationLinked' \/ severed' \/ Apps!At(c, "link")',
           EditOK(c)', AppsProject'
    PROVE  AppsInv'
<1> USE DEF AppsInv
<1>1. edit'[c] = r /\ \A d \in Clients \ {c} : edit'[d] = edit[d]
  BY AppsRequest
<1>2. AppsType'
  BY DEF AppsType, Apps!Keep
<1>3. AppsEdits'
  BY <1>1, <1>2, EditsStay, SameRowsGrow
<1>4. AppsRows'
  BY DEF AppsRows
<1>5. AppsReach'
  <2>1. \A d \in Clients : Apps!At(d, "link") => applicationLinked' \/ severed' \/ Apps!At(d, "link")'
    BY <1>1 DEF Apps!At
  <2> QED
    BY <2>1 DEF AppsReach
<1> QED
  BY <1>2, <1>3, <1>4, <1>5

LEMMA AppsBoot ==
    ASSUME AppsInv, Apps!BackfillUrns \/ Apps!SeedEdge \/ Apps!SeedFails
    PROVE  AppsInv'
<1> USE DEF AppsInv
<1>1. boot # "up" /\ UNCHANGED <<application, edges, edit, mixed>> /\ boot' \in {"seed", "link", "up"}
  BY DEF Apps!BackfillUrns, Apps!SeedEdge, Apps!SeedFails, Apps!stored, Apps!ghosts
<1>2. \A c \in Clients : edit[c] = None
  BY <1>1 DEF AppsEdits, EditOK
<1>3. AppsType'
  BY <1>1 DEF AppsType
<1>4. AppsEdits'
  BY <1>1, <1>2 DEF AppsEdits, EditOK
<1>5. AppsRows'
  BY <1>1 DEF AppsRows
<1>6. AppsReach'
  <2>1. CASE Apps!BackfillUrns
    BY <2>1 DEF Apps!BackfillUrns, Apps!ghosts, AppsReach
  <2>2. CASE Apps!SeedEdge
    BY <2>2 DEF Apps!SeedEdge, AppsReach
  <2>3. CASE Apps!SeedFails
    BY <2>3 DEF Apps!SeedFails, AppsReach
  <2> QED
    BY <2>1, <2>2, <2>3
<1>7. AppsProject'
  BY <1>1, <1>2 DEF AppsProject, Changing
<1> QED
  BY <1>3, <1>4, <1>5, <1>6, <1>7

LEMMA AppsSave ==
    ASSUME AppsInv, NEW c \in Clients, NEW d \in Apps!Definitions, Apps!Save(c, d)
    PROVE  AppsInv'
<1> USE DEF AppsInv
<1>1. PICK r : r = [pc |-> "validate", op |-> "save", definition |-> d, found |-> {},
                    created |-> ~Apps!Exists, id |-> 0, fresh |-> FALSE, project |-> None]
  OBVIOUS
<1>2. /\ r \in Apps!Edit /\ r.pc = "validate" /\ r.op = "save" /\ r.found = {}
      /\ r.created <=> ~Apps!Exists
  BY <1>1 DEF Apps!Edit, Apps!Found
<1>3. /\ boot = "up" /\ edit[c] = None /\ Apps!Keep(c, r)
      /\ UNCHANGED <<application, named, applicationLinked, edges, boot, severed, mixed>>
  BY <1>1 DEF Apps!Save, Apps!Begin, Apps!stored, Apps!ghosts
<1>4. edit'[c] = r /\ \A e \in Clients \ {c} : edit'[e] = edit[e]
  BY <1>3, AppsRequest
<1>5. EditOK(c)'
  BY <1>2, <1>3, <1>4, AppsExists DEF EditOK
<1>6. AppsProject'
  <2>1. ~Changing(c) /\ ~Changing(c)'
    BY <1>2, <1>3, <1>4 DEF Changing
  <2> QED
    BY <1>3, <1>4, <2>1, ProjectStays
<1>7. edges' \in SUBSET Projects /\ ~Apps!At(c, "link")
  BY <1>3 DEF AppsType, Apps!At
<1> QED
  BY <1>2, <1>3, <1>5, <1>6, <1>7, AppsMove

LEMMA AppsPromote ==
    ASSUME AppsInv, NEW c \in Clients, Apps!Promote(c)
    PROVE  AppsInv'
<1> USE DEF AppsInv
<1>0. /\ Len(application) \in Nat /\ Len(application) > 0
      /\ Apps!Latest \in Apps!VersionRow /\ Apps!Latest = application[Len(application)]
  BY AppsExists DEF Apps!Promote, Apps!Latest, AppsType
<1>1. PICK r : r = [pc |-> "validate", op |-> "promote", definition |-> Apps!Latest.definition,
                    found |-> {}, created |-> FALSE, id |-> Len(application), fresh |-> FALSE,
                    project |-> None]
  OBVIOUS
<1>2. /\ r \in Apps!Edit /\ r.pc = "validate" /\ r.op = "promote" /\ r.found = {}
      /\ r.id = Len(application) /\ r.definition = application[Len(application)].definition
  BY <1>0, <1>1 DEF Apps!Edit, Apps!Found, Apps!VersionRow
<1>3. /\ boot = "up" /\ edit[c] = None /\ Apps!Keep(c, r)
      /\ UNCHANGED <<application, named, applicationLinked, edges, boot, severed, mixed>>
  BY <1>1 DEF Apps!Promote, Apps!Begin, Apps!stored, Apps!ghosts
<1>4. edit'[c] = r /\ \A e \in Clients \ {c} : edit'[e] = edit[e]
  BY <1>3, AppsRequest
<1>5. EditOK(c)'
  BY <1>0, <1>2, <1>3, <1>4 DEF EditOK
<1>6. AppsProject'
  <2>1. ~Changing(c) /\ ~Changing(c)'
    BY <1>2, <1>3, <1>4 DEF Changing
  <2> QED
    BY <1>3, <1>4, <2>1, ProjectStays
<1>7. edges' \in SUBSET Projects /\ ~Apps!At(c, "link")
  BY <1>3 DEF AppsType, Apps!At
<1> QED
  BY <1>2, <1>3, <1>5, <1>6, <1>7, AppsMove

LEMMA AppsAt ==
    ASSUME AppsInv, NEW c \in Clients, NEW pc, Apps!At(c, pc)
    PROVE  /\ edit[c] # None /\ edit[c] \in Apps!Edit /\ edit[c].pc = pc /\ boot = "up"
           /\ pc \in {"reread", "write", "link"} => edit[c].op = "save"
           /\ pc = "validate" => edit[c].op \in {"save", "promote"}
           /\ pc = "promote" => edit[c].op = "promote"
           /\ pc \in {"edges", "replace", "column"} => edit[c].op = "project"
<1>1. edit[c] # None /\ edit[c] \in Apps!Edit /\ edit[c].pc = pc
  BY DEF AppsInv, AppsType, Apps!At
<1>2. edit[c].op \in {"save", "promote", "project"}
  BY <1>1 DEF Apps!Edit
<1>3. EditOK(c)
  BY DEF AppsInv, AppsEdits
<1> QED
  BY <1>1, <1>2, <1>3 DEF EditOK

LEMMA AppsCardinality == \A S : Apps!Cardinality(S) = Cardinality(S)
BY DEF Cardinality, Apps!Cardinality

(* A reference found is added to the ones before it.                       *)
LEMMA AppsValidate ==
    ASSUME AppsInv, NEW c \in Clients, Apps!Validate(c)
    PROVE  AppsInv'
<1> USE DEF AppsInv
<1>0. Apps!At(c, "validate") /\ UNCHANGED <<application, named, applicationLinked, edges, boot, severed, mixed>>
  BY DEF Apps!Validate, Apps!stored, Apps!ghosts
<1>1. PICK r : r = edit[c]
  OBVIOUS
<1>2. /\ r # None /\ r \in Apps!Edit /\ r.pc = "validate" /\ boot = "up" /\ r.op \in {"save", "promote"}
      /\ r.definition \in {"list", "agent"}
  BY <1>0, <1>1, AppsAt DEF Apps!Edit, Apps!Definitions
<1>3. /\ r.found = {} \/ r.found = {"type"}
      /\ r.op = "promote" => /\ r.id \in 1..Len(application)
                             /\ \/ application[r.id].definition = r.definition
                                \/ application[r.id].raced
      /\ Len(application) = 0 => r.op = "save" /\ r.created
  BY <1>1, <1>2 DEF AppsEdits, EditOK
<1>4. /\ Apps!Cardinality({}) = 0 /\ Apps!Cardinality({"type"}) = 1
      /\ "type" # "action" /\ "type" # "tool"
  BY AppsCardinality, FS_EmptySet, FS_Singleton
<1>5. PICK refs : refs = Apps!References(r.definition)
  OBVIOUS
<1>6. Len(refs) = 2 /\ refs[1] = "type" /\ Checked(r.definition) = {"type", refs[2]} /\ refs[2] \in Apps!Found
  BY <1>2, <1>5 DEF Apps!References, Checked, Apps!Found
<1>7. PICK found, pc : /\ found = r.found \cup {refs[Apps!Cardinality(r.found) + 1]}
                       /\ pc = IF Apps!Cardinality(r.found) + 1 < Len(refs) THEN "validate"
                               ELSE IF r.op = "save" THEN "reread" ELSE "promote"
  OBVIOUS
<1>8. \/ found = {"type"} /\ pc = "validate"
      \/ found = Checked(r.definition) /\ pc = IF r.op = "save" THEN "reread" ELSE "promote"
  <2>1. CASE r.found = {}
    BY <1>4, <1>6, <1>7, <2>1
  <2>2. CASE r.found = {"type"}
    BY <1>4, <1>6, <1>7, <2>2
  <2> QED
    BY <1>3, <2>1, <2>2
<1>9. found \in SUBSET Apps!Found
  BY <1>6, <1>8 DEF Apps!Found
<1>10. PICK n : n = [r EXCEPT !.found = found, !.pc = pc]
  OBVIOUS
<1>11. /\ n \in Apps!Edit /\ n # None /\ n.pc = pc /\ n.found = found /\ n.op = r.op
       /\ n.definition = r.definition /\ n.id = r.id /\ n.created = r.created
  <2>1. pc \in {"validate", "reread", "promote"}
    BY <1>8
  <2>2. n \in Apps!Edit /\ n.pc = pc /\ n.found = found /\ n.op = r.op
        /\ n.definition = r.definition /\ n.id = r.id /\ n.created = r.created
    BY <1>2, <1>9, <1>10, <2>1 DEF Apps!Edit
  <2> QED
    BY <2>2, PlatformAssumption
<1>12. Apps!Keep(c, None) \/ Apps!Keep(c, n)
  BY <1>1, <1>5, <1>7, <1>10 DEF Apps!Validate
<1>13. PICK m \in {None, n} : Apps!Keep(c, m)
  BY <1>12
<1>14. edit'[c] = m /\ \A e \in Clients \ {c} : edit'[e] = edit[e]
  BY <1>13, AppsRequest
<1>15. EditOK(c)'
  <2>1. CASE m = None
    BY <1>14, <2>1 DEF EditOK
  <2>2. CASE m = n
    <3>1. /\ n.op \in {"save", "promote"} /\ n.pc \in {"validate", "reread", "promote"}
          /\ n.pc = "validate" => n.found = {"type"}
          /\ n.pc = "promote" => n.op = "promote" /\ n.found = Checked(n.definition)
          /\ n.pc = "reread" => n.op = "save"
      BY <1>2, <1>8, <1>11
    <3>2. boot' = "up" /\ application' = application /\ edit'[c] = n
      BY <1>0, <1>2, <1>14, <2>2
    <3>3. /\ n.op = "promote" => /\ n.id \in 1..Len(application)
                                 /\ \/ application[n.id].definition = n.definition
                                    \/ application[n.id].raced
          /\ Len(application) = 0 => n.op = "save" /\ n.created
      BY <1>3, <1>11
    <3> QED
      BY <3>1, <3>2, <3>3 DEF EditOK
  <2> QED
    BY <2>1, <2>2
<1>16. AppsProject'
  <2>1. ~Changing(c) /\ ~Changing(c)'
    BY <1>1, <1>2, <1>11, <1>14 DEF Changing
  <2> QED
    BY <1>0, <1>14, <2>1, ProjectStays
<1>17. edges' \in SUBSET Projects /\ ~Apps!At(c, "link") /\ m \in Apps!Edit \cup {None}
  BY <1>0, <1>1, <1>2, <1>11 DEF AppsType, Apps!At
<1> QED
  BY <1>0, <1>13, <1>15, <1>16, <1>17, AppsMove

LEMMA AppsDecide ==
    ASSUME AppsInv, NEW c \in Clients, Apps!Decide(c)
    PROVE  AppsInv'
<1> USE DEF AppsInv
<1>0. Apps!At(c, "reread") /\ UNCHANGED <<application, named, applicationLinked, edges, boot, severed, mixed>>
  BY DEF Apps!Decide, Apps!stored, Apps!ghosts
<1>1. PICK r : r = edit[c]
  OBVIOUS
<1>2. r # None /\ r \in Apps!Edit /\ r.pc = "reread" /\ boot = "up" /\ r.op = "save"
  BY <1>0, <1>1, AppsAt
<1>3. Len(application) = 0 => r.created
  BY <1>1, <1>2 DEF AppsEdits, EditOK
<1>4. PICK n : n = Apps!Reread(r)
  OBVIOUS
<1>5. /\ Len(application) \in Nat
      /\ Apps!Exists <=> Len(application) > 0
      /\ Len(application) > 0 => Apps!Latest \in Apps!VersionRow
      /\ Apps!Latest = application[Len(application)]
  BY AppsExists, AppsRow DEF Apps!Latest
<1>6. PICK fresh, id, project :
        /\ fresh = ~(Apps!Exists /\ Apps!Latest.status = "draft")
        /\ id = IF Apps!Exists /\ Apps!Latest.status = "draft" THEN Len(application) ELSE Len(application) + 1
        /\ project = IF Apps!Exists THEN Apps!Latest.project ELSE None
  OBVIOUS
<1>7. fresh \in BOOLEAN /\ id \in Nat /\ project \in Projects \cup {None}
  BY <1>5, <1>6 DEF Apps!VersionRow
<1>8. /\ n \in Apps!Edit /\ n.pc = "write" /\ n.op = "save" /\ n.created = r.created
      /\ n.fresh = fresh /\ n.id = id /\ n.project = project
  <2>1. n = [r EXCEPT !.pc = "write", !.fresh = fresh, !.id = id, !.project = project]
    BY <1>4, <1>6 DEF Apps!Reread
  <2> QED
    BY <1>2, <1>7, <2>1 DEF Apps!Edit
<1>9. /\ n.fresh => /\ n.id = Len(application) + 1
                    /\ n.id > 1 => application[n.id - 1].status = "promoted"
                    /\ n.id = 1 => n.project = None
      /\ ~n.fresh => n.id \in 1..Len(application)
  <2>1. CASE Apps!Exists /\ Apps!Latest.status = "draft"
    <3>1. n.fresh = FALSE /\ n.id = Len(application)
      BY <1>5, <1>6, <1>8, <2>1
    <3> QED
      BY <1>5, <2>1, <3>1
  <2>2. CASE Apps!Exists /\ Apps!Latest.status = "promoted"
    <3>1. n.fresh = TRUE /\ n.id = Len(application) + 1
      BY <1>5, <1>6, <1>8, <2>2
    <3> QED
      BY <1>5, <2>2, <3>1
  <2>3. CASE ~Apps!Exists
    <3>1. n.fresh = TRUE /\ n.id = Len(application) + 1 /\ n.project = None /\ Len(application) = 0
      <4>1. fresh = TRUE /\ id = Len(application) + 1 /\ project = None
        BY <1>6, <2>3
      <4> QED
        BY <1>5, <1>8, <2>3, <4>1
    <3> QED
      BY <1>5, <2>3, <3>1
  <2>4. Apps!Exists => Apps!Latest.status \in {"draft", "promoted"}
    BY <1>5 DEF Apps!VersionRow
  <2> QED
    BY <2>1, <2>2, <2>3, <2>4
<1>10. Apps!Keep(c, n)
  BY <1>1, <1>4 DEF Apps!Decide
<1>11. edit'[c] = n /\ \A e \in Clients \ {c} : edit'[e] = edit[e]
  BY <1>10, AppsRequest
<1>12. EditOK(c)'
  BY <1>0, <1>2, <1>3, <1>5, <1>8, <1>9, <1>11 DEF EditOK
<1>13. AppsProject'
  <2>1. ~Changing(c) /\ ~Changing(c)'
    BY <1>1, <1>2, <1>8, <1>11 DEF Changing
  <2> QED
    BY <1>0, <1>11, <2>1, ProjectStays
<1>14. edges' \in SUBSET Projects /\ ~Apps!At(c, "link")
  BY <1>0, <1>1, <1>2 DEF AppsType, Apps!At
<1> QED
  BY <1>0, <1>8, <1>10, <1>12, <1>13, <1>14, AppsMove

LEMMA AppsLink ==
    ASSUME AppsInv, NEW c \in Clients, Apps!Link(c)
    PROVE  AppsInv'
<1> USE DEF AppsInv
<1>1. /\ Apps!At(c, "link") /\ applicationLinked' = TRUE /\ Apps!Keep(c, None)
      /\ UNCHANGED <<application, named, edges, boot, severed, mixed>>
  BY DEF Apps!Link, Apps!ghosts
<1>2. edit[c].op = "save"
  BY <1>1, AppsAt
<1>3. edit'[c] = None /\ \A e \in Clients \ {c} : edit'[e] = edit[e]
  BY <1>1, AppsRequest
<1>4. EditOK(c)' /\ ~Changing(c) /\ ~Changing(c)' /\ edges' \in SUBSET Projects
  BY <1>1, <1>2, <1>3 DEF EditOK, Changing, AppsType
<1>5. AppsProject'
  BY <1>1, <1>3, <1>4, ProjectStays
<1> QED
  BY <1>1, <1>4, <1>5, AppsMove

LEMMA AppsCut ==
    ASSUME AppsInv, NEW c \in Clients, Apps!Cut(c)
    PROVE  AppsInv'
<1> USE DEF AppsInv
<1>1. /\ severed' = (severed \/ Apps!At(c, "link")) /\ mixed' = (mixed \/ edit[c].op = "project")
      /\ Apps!Keep(c, None) /\ UNCHANGED <<application, named, applicationLinked, edges, boot>>
  BY DEF Apps!Cut, Apps!stored
<1>2. edit'[c] = None /\ \A e \in Clients \ {c} : edit'[e] = edit[e]
  BY <1>1, AppsRequest
<1>3. EditOK(c)' /\ edges' \in SUBSET Projects
  BY <1>1, <1>2 DEF EditOK, AppsType
<1>4. AppsProject'
  <2>1. CASE Changing(c)
    BY <1>1, <2>1 DEF Changing, AppsProject
  <2>2. CASE ~Changing(c)
    <3>1. ~Changing(c)' /\ (mixed => mixed')
      BY <1>1, <1>2 DEF Changing
    <3> QED
      BY <1>1, <1>2, <2>2, <3>1, ProjectStays
  <2> QED
    BY <2>1, <2>2
<1>5. (severed => severed') /\ (Apps!At(c, "link") => severed')
  BY <1>1
<1> QED
  BY <1>1, <1>3, <1>4, <1>5, AppsMove

LEMMA AppsInsert ==
    ASSUME AppsInv, NEW c \in Clients, Apps!Insert(c)
    PROVE  AppsInv'
<1> USE DEF AppsInv
<1>0. /\ Apps!At(c, "write") /\ edit[c].fresh
      /\ UNCHANGED <<named, applicationLinked, edges, boot, severed>>
  BY DEF Apps!Insert
<1>1. PICK r : r = edit[c]
  OBVIOUS
<1>2. r # None /\ r \in Apps!Edit /\ r.pc = "write" /\ boot = "up" /\ r.op = "save" /\ r.fresh
  BY <1>0, <1>1, AppsAt
<1>3. /\ r.id \in 1..(Len(application) + 1)
      /\ r.id > 1 => application[r.id - 1].status = "promoted"
      /\ r.id = 1 => r.project = None
      /\ Len(application) = 0 => r.created
  BY <1>1, <1>2 DEF AppsEdits, EditOK
<1>4. Len(application) \in Nat /\ (Apps!Exists <=> Len(application) > 0)
  BY AppsExists
<1>5. CASE r.id <= Len(application)
  <2>1. Apps!Keep(c, None) /\ UNCHANGED <<application, mixed>>
    BY <1>1, <1>5 DEF Apps!Insert
  <2>2. edit'[c] = None /\ \A e \in Clients \ {c} : edit'[e] = edit[e]
    BY <2>1, AppsRequest
  <2>3. /\ EditOK(c)' /\ ~Changing(c) /\ ~Changing(c)' /\ edges' \in SUBSET Projects
        /\ ~Apps!At(c, "link")
    BY <1>0, <1>1, <1>2, <2>2 DEF EditOK, Changing, AppsType, Apps!At
  <2>4. AppsProject'
    BY <1>0, <2>1, <2>2, <2>3, ProjectStays
  <2> QED
    BY <1>0, <2>1, <2>3, <2>4, AppsMove
<1>6. CASE ~(r.id <= Len(application))
  <2>0. PICK x : x = Apps!Version(r.definition, r.project)
    OBVIOUS
  <2>1. /\ x \in Apps!VersionRow /\ x.project = r.project /\ x.status = "draft"
    BY <1>2, <2>0, AppsFresh DEF Apps!Edit
  <2>2. /\ application' = Append(application, x)
        /\ mixed' = (mixed \/ Apps!SettingProject \/ (Apps!Exists /\ r.project # Apps!Latest.project))
        /\ Apps!Keep(c, IF r.created THEN [r EXCEPT !.pc = "link"] ELSE None)
    BY <1>1, <1>6, <2>0 DEF Apps!Insert
  <2>3. PICK n : n = IF r.created THEN [r EXCEPT !.pc = "link"] ELSE None
    OBVIOUS
  <2>4. /\ n \in Apps!Edit \cup {None}
        /\ n # None => n.pc = "link" /\ n.op = "save"
        /\ r.created => n # None
    <3>1. PICK k : k = [r EXCEPT !.pc = "link"]
      OBVIOUS
    <3>2. k \in Apps!Edit /\ k.pc = "link" /\ k.op = "save"
      BY <1>2, <3>1 DEF Apps!Edit
    <3> QED
      BY <2>3, <3>1, <3>2, PlatformAssumption
  <2>5. edit'[c] = n /\ \A e \in Clients \ {c} : edit'[e] = edit[e]
    BY <2>2, <2>3, AppsRequest
  <2>6. /\ r.id = Len(application) + 1 /\ Len(application') = Len(application) + 1
        /\ application'[Len(application) + 1] = x
        /\ \A v \in 1..Len(application) : application'[v] = application[v]
        /\ application' \in Seq(Apps!VersionRow)
    BY <1>3, <1>4, <1>6, <2>1, <2>2 DEF AppsType
  <2>7. AppsType'
    BY <1>0, <2>2, <2>3, <2>4, <2>6 DEF AppsType, Apps!Keep
  <2>8. EditOK(c)'
    BY <1>0, <1>2, <1>4, <2>4, <2>5, <2>6 DEF EditOK
  <2>9. RowsGrow
    BY <1>4, <2>6 DEF RowsGrow
  <2>10. AppsEdits'
    BY <1>0, <2>5, <2>7, <2>8, <2>9, EditsStay
  <2>11. AppsRows'
    <3>1. \A v \in 1..Len(application) : application'[v].status = "promoted"
      BY <1>3, <1>4, <2>6 DEF AppsRows
    <3>2. \A v \in 1..Len(application') : v \in 1..Len(application) \/ application'[v] = x
      BY <1>4, <2>6
    <3> QED
      BY <1>4, <2>1, <2>6, <3>1, <3>2 DEF AppsRows
  <2>12. AppsReach'
    <3>1. CASE Len(application) = 0
      <4>1. Apps!At(c, "link")'
        BY <1>3, <2>4, <2>5, <3>1 DEF Apps!At
      <4> QED
        BY <1>0, <1>2, <4>1 DEF AppsReach
    <3>2. CASE Len(application) > 0
      <4>1. \A e \in Clients : Apps!At(e, "link") => Apps!At(e, "link")'
        BY <1>1, <1>2, <2>5 DEF Apps!At
      <4> QED
        BY <1>0, <1>2, <3>2, <4>1 DEF AppsReach
    <3> QED
      BY <1>4, <3>1, <3>2
  <2>13. AppsProject'
    <3> SUFFICES ASSUME ~mixed' PROVE AppsProject'
      BY DEF AppsProject
    <3>1. ~mixed /\ ~Apps!SettingProject /\ (Apps!Exists => r.project = Apps!Latest.project)
      BY <2>2
    <3>2. \A e \in Clients : ~Changing(e) /\ ~Changing(e)'
      BY <2>4, <2>5, <3>1 DEF Changing, Apps!SettingProject
    <3>3. \A v \in 1..Len(application) : edges = {application[v].project} \ {None}
      BY <3>1, <3>2 DEF AppsProject
    <3>4. edges = {r.project} \ {None} /\ \A v \in 1..Len(application) : application[v].project = r.project
      <4>1. CASE Len(application) = 0
        BY <1>3, <2>6, <3>1, <4>1 DEF AppsProject
      <4>2. CASE Len(application) > 0
        BY <1>4, <3>1, <3>3, <4>2 DEF AppsProject, Apps!Latest
      <4> QED
        BY <1>4, <4>1, <4>2
    <3>5. \A v \in 1..Len(application') : application'[v].project = r.project
      <4>1. \A v \in 1..Len(application') : v \in 1..Len(application) \/ application'[v] = x
        BY <1>4, <2>6
      <4> QED
        BY <2>1, <2>6, <3>4, <4>1
    <3> QED
      BY <1>0, <1>4, <2>6, <3>2, <3>4, <3>5 DEF AppsProject
  <2> QED
    BY <2>7, <2>10, <2>11, <2>12, <2>13
<1> QED
  BY <1>5, <1>6

(* A version is rewritten in place: its project stays, a promotion stands  *)
(* and what a promotion under way has checked is marked.                   *)
LEMMA AppsRewrite ==
    ASSUME AppsInv, NEW c \in Clients, NEW r \in Apps!Edit \cup {None}, Apps!Keep(c, r),
           edit[c] # None, edit[c].op \in {"save", "promote"}, edit[c].pc # "link",
           r # None => r.pc = "link" /\ r.op = "save",
           NEW i \in 1..Len(application), NEW x \in Apps!VersionRow,
           application' = [application EXCEPT ![i] = x],
           x.project = application[i].project,
           application[i].status = "promoted" => x.status = "promoted",
           application[i].raced => x.raced,
           x.definition = application[i].definition \/ x.raced \/ ~Apps!Promoting(i),
           x.status = "promoted" /\ ~x.raced => x.vouched = Checked(x.definition),
           UNCHANGED <<named, applicationLinked, edges, boot, severed, mixed>>
    PROVE  AppsInv'
<1> USE DEF AppsInv
<1>1. edit'[c] = r /\ \A e \in Clients \ {c} : edit'[e] = edit[e]
  BY AppsRequest
<1>2. /\ Len(application) \in Nat /\ Len(application') = Len(application) /\ application'[i] = x
      /\ \A v \in 1..Len(application) : v # i => application'[v] = application[v]
      /\ application' \in Seq(Apps!VersionRow)
  BY DEF AppsType
<1>3. AppsType'
  BY <1>2 DEF AppsType, Apps!Keep
<1>4. RowsGrow
  BY <1>2 DEF RowsGrow
<1>5. EditOK(c)'
  BY <1>1, <1>2 DEF EditOK, AppsEdits
<1>6. AppsEdits'
  BY <1>1, <1>3, <1>4, <1>5, EditsStay
<1>7. AppsRows'
  BY <1>2 DEF AppsRows
<1>8. AppsReach'
  <2>1. \A e \in Clients : Apps!At(e, "link") => Apps!At(e, "link")'
    BY <1>1 DEF Apps!At
  <2> QED
    BY <1>2, <2>1 DEF AppsReach
<1>9. AppsProject'
  <2>1. ~Changing(c) /\ ~Changing(c)'
    BY <1>1 DEF Changing
  <2>2. \A v \in 1..Len(application) : application'[v].project = application[v].project
    BY <1>2
  <2> QED
    BY <1>1, <1>2, <2>1, <2>2, ProjectStays
<1> QED
  BY <1>3, <1>6, <1>7, <1>8, <1>9

LEMMA AppsUpdate ==
    ASSUME AppsInv, NEW c \in Clients, Apps!Update(c)
    PROVE  AppsInv'
<1> USE DEF AppsInv
<1>0. /\ Apps!At(c, "write") /\ ~edit[c].fresh
      /\ UNCHANGED <<named, applicationLinked, edges, boot, severed, mixed>>
  BY DEF Apps!Update, Apps!ghosts
<1>1. PICK r : r = edit[c]
  OBVIOUS
<1>2. /\ r # None /\ r \in Apps!Edit /\ r.pc = "write" /\ r.op = "save" /\ ~r.fresh
      /\ r.id \in 1..Len(application) /\ r.definition \in Apps!Definitions
  <2>1. r # None /\ r \in Apps!Edit /\ r.pc = "write" /\ r.op = "save" /\ ~r.fresh
    BY <1>0, <1>1, AppsAt
  <2> QED
    BY <1>1, <2>1 DEF AppsEdits, EditOK, Apps!Edit
<1>3. PICK old \in Apps!VersionRow : old = application[r.id]
  BY <1>2, AppsRow
<1>4. PICK marked : marked = (old.raced \/ Apps!Promoting(r.id) \/ old.status = "promoted")
  OBVIOUS
<1>5. marked \in BOOLEAN
  BY <1>4
<1>6. PICK x : x = [old EXCEPT !.definition = r.definition, !.raced = marked]
  OBVIOUS
<1>7. /\ x \in Apps!VersionRow /\ x.definition = r.definition /\ x.raced = marked
      /\ x.status = old.status /\ x.project = old.project /\ x.vouched = old.vouched
  BY <1>2, <1>3, <1>5, <1>6 DEF Apps!VersionRow
<1>8. application' = [application EXCEPT ![r.id] = x]
  <2>1. application' = [application EXCEPT ![r.id].definition = r.definition,
                                           ![r.id].raced = @ \/ Apps!Promoting(r.id) \/ application[r.id].status = "promoted"]
    BY <1>1 DEF Apps!Update
  <2> QED
    BY <1>2, <1>3, <1>4, <1>6, <2>1 DEF AppsType, Apps!VersionRow
<1>9. PICK n : n = IF r.created THEN [r EXCEPT !.pc = "link"] ELSE None
  OBVIOUS
<1>10. n \in Apps!Edit \cup {None} /\ (n # None => n.pc = "link" /\ n.op = "save")
  BY <1>2, <1>9 DEF Apps!Edit
<1>11. Apps!Keep(c, n)
  BY <1>1, <1>9 DEF Apps!Update
<1>12. /\ old.status = "promoted" => x.status = "promoted"
       /\ old.raced => x.raced
       /\ x.raced \/ ~Apps!Promoting(r.id)
       /\ x.status = "promoted" => x.raced
  BY <1>4, <1>7
<1> QED
  BY <1>0, <1>1, <1>2, <1>3, <1>7, <1>8, <1>10, <1>11, <1>12, AppsRewrite

LEMMA AppsMark ==
    ASSUME AppsInv, NEW c \in Clients, Apps!MarkPromoted(c)
    PROVE  AppsInv'
<1> USE DEF AppsInv
<1>0. /\ Apps!At(c, "promote") /\ Apps!Keep(c, None)
      /\ UNCHANGED <<named, applicationLinked, edges, boot, severed, mixed>>
  BY DEF Apps!MarkPromoted, Apps!ghosts
<1>1. PICK r : r = edit[c]
  OBVIOUS
<1>2. r # None /\ r \in Apps!Edit /\ r.pc = "promote" /\ r.op = "promote"
  BY <1>0, <1>1, AppsAt
<1>3. /\ r.id \in 1..Len(application) /\ r.found = Checked(r.definition) /\ r.found \in SUBSET Apps!Found
      /\ application[r.id].definition = r.definition \/ application[r.id].raced
  BY <1>1, <1>2 DEF AppsEdits, EditOK, Apps!Edit
<1>4. PICK old \in Apps!VersionRow : old = application[r.id]
  BY <1>3, AppsRow
<1>5. PICK x : x = [old EXCEPT !.status = "promoted", !.vouched = r.found]
  OBVIOUS
<1>6. /\ x \in Apps!VersionRow /\ x.definition = old.definition /\ x.raced = old.raced
      /\ x.status = "promoted" /\ x.project = old.project /\ x.vouched = r.found
  BY <1>3, <1>4, <1>5 DEF Apps!VersionRow
<1>7. application' = [application EXCEPT ![r.id] = x]
  <2>1. application' = [application EXCEPT ![r.id].status = "promoted", ![r.id].vouched = r.found]
    BY <1>1 DEF Apps!MarkPromoted
  <2> QED
    BY <1>3, <1>4, <1>5, <2>1 DEF AppsType, Apps!VersionRow
<1>8. ~x.raced => x.vouched = Checked(x.definition)
  BY <1>3, <1>4, <1>6
<1> QED
  BY <1>0, <1>1, <1>2, <1>3, <1>4, <1>6, <1>7, <1>8, AppsRewrite

LEMMA AppsSetProject ==
    ASSUME AppsInv, NEW c \in Clients, NEW p \in Projects \cup {None}, Apps!SetProject(c, p)
    PROVE  AppsInv'
<1> USE DEF AppsInv
<1>1. PICK r : r = [pc |-> "edges", op |-> "project", definition |-> "list", found |-> {},
                    created |-> FALSE, id |-> 0, fresh |-> FALSE, project |-> p]
  OBVIOUS
<1>2. r \in Apps!Edit /\ r.pc = "edges" /\ r.op = "project"
  BY <1>1 DEF Apps!Edit, Apps!Found, Apps!Definitions
<1>3. /\ boot = "up" /\ edit[c] = None /\ Apps!Keep(c, r) /\ Len(application) > 0
      /\ UNCHANGED <<application, named, applicationLinked, edges, boot, severed>>
  BY <1>1, AppsExists DEF Apps!SetProject, Apps!Begin, Apps!stored
<1>4. edit'[c] = r /\ \A e \in Clients \ {c} : edit'[e] = edit[e]
  BY <1>3, AppsRequest
<1>5. EditOK(c)'
  BY <1>2, <1>3, <1>4 DEF EditOK
<1>6. AppsProject'
  <2> SUFFICES ASSUME ~mixed' PROVE AppsProject'
    BY DEF AppsProject
  <2>1. ~mixed /\ ~Apps!SettingProject
    BY DEF Apps!SetProject
  <2>2. \A e \in Clients : ~Changing(e) /\ (Changing(e)' => e = c)
    BY <1>4, <2>1 DEF Changing, Apps!SettingProject
  <2> QED
    BY <1>2, <1>3, <1>4, <2>1, <2>2 DEF AppsProject
<1>7. edges' \in SUBSET Projects /\ ~Apps!At(c, "link")
  BY <1>3 DEF AppsType, Apps!At
<1> QED
  BY <1>2, <1>3, <1>5, <1>6, <1>7, AppsMove

(* The next step of the change of project of c, which is the only one.     *)
LEMMA AppsChange ==
    ASSUME AppsInv, NEW c \in Clients, Apps!ReadEdges(c) \/ Apps!ReplaceEdges(c)
    PROVE  AppsInv'
<1> USE DEF AppsInv
<1>0. PICK r : r = edit[c]
  OBVIOUS
<1>1. /\ r # None /\ r \in Apps!Edit /\ r.pc \in {"edges", "replace"} /\ r.op = "project"
      /\ boot = "up" /\ r.project \in Projects \cup {None} /\ edges \in SUBSET Projects
  <2>1. r # None /\ r \in Apps!Edit /\ r.pc \in {"edges", "replace"} /\ r.op = "project" /\ boot = "up"
    BY <1>0, AppsAt DEF Apps!ReadEdges, Apps!ReplaceEdges
  <2> QED
    BY <2>1 DEF Apps!Edit, AppsType
<1>2. UNCHANGED <<application, named, applicationLinked, boot, severed, mixed>>
  BY DEF Apps!ReadEdges, Apps!ReplaceEdges, Apps!stored, Apps!ghosts
<1>3. Len(application) > 0
  BY <1>0, <1>1 DEF AppsEdits, EditOK
<1>4. \A n : /\ n \in Apps!Edit /\ n.op = "project" /\ n.pc \in {"replace", "column"} /\ Apps!Keep(c, n)
             /\ edges' \in SUBSET Projects
             /\ ~mixed => /\ n.pc = "replace" => n.found = edges' /\ edges' = edges
                          /\ n.pc = "column" => edges' = {n.project} \ {None}
             => AppsInv'
  <2> SUFFICES ASSUME NEW n, n \in Apps!Edit, n.op = "project", n.pc \in {"replace", "column"},
                      Apps!Keep(c, n), edges' \in SUBSET Projects,
                      ~mixed => /\ n.pc = "replace" => n.found = edges' /\ edges' = edges
                                /\ n.pc = "column" => edges' = {n.project} \ {None}
               PROVE  AppsInv'
    OBVIOUS
  <2>1. edit'[c] = n /\ \A e \in Clients \ {c} : edit'[e] = edit[e]
    BY AppsRequest
  <2>2. n # None
    BY PlatformAssumption
  <2>3. EditOK(c)'
    BY <1>1, <1>2, <1>3, <2>1 DEF EditOK
  <2>4. AppsProject'
    <3> SUFFICES ASSUME ~mixed' PROVE AppsProject'
      BY DEF AppsProject
    <3>1. ~mixed /\ Changing(c) /\ Changing(c)'
      BY <1>0, <1>1, <1>2, <2>1, <2>2 DEF Changing
    <3>2. \A e \in Clients : (Changing(e) => e = c) /\ (Changing(e)' => e = c)
      BY <2>1, <3>1 DEF Changing, AppsProject
    <3>3. edit[c].pc # "column"
      BY <1>0, <1>1
    <3>4. \A v \in 1..Len(application) : edges = {application[v].project} \ {None}
      BY <3>1, <3>2, <3>3 DEF AppsProject
    <3> QED
      BY <1>2, <1>3, <2>1, <3>1, <3>2, <3>4 DEF AppsProject
  <2>5. ~Apps!At(c, "link")
    BY <1>0, <1>1 DEF Apps!At
  <2> QED
    BY <1>2, <2>3, <2>4, <2>5, AppsMove
<1>5. CASE Apps!ReadEdges(c)
  <2>1. PICK n : n = [r EXCEPT !.pc = "replace", !.found = edges]
    OBVIOUS
  <2>2. n \in Apps!Edit /\ n.op = "project" /\ n.pc = "replace" /\ n.found = edges
    BY <1>1, <2>1 DEF Apps!Edit, Apps!Found
  <2>3. Apps!Keep(c, n) /\ edges' = edges
    BY <1>0, <1>5, <2>1 DEF Apps!ReadEdges, Apps!stored
  <2> QED
    BY <1>1, <1>4, <2>2, <2>3
<1>6. CASE Apps!ReplaceEdges(c)
  <2>1. PICK n : n = [r EXCEPT !.pc = "column"]
    OBVIOUS
  <2>2. n \in Apps!Edit /\ n.op = "project" /\ n.pc = "column" /\ n.project = r.project
    BY <1>1, <2>1 DEF Apps!Edit
  <2>3. Apps!Keep(c, n) /\ edges' = (edges \ r.found) \cup ({r.project} \ {None})
    BY <1>0, <1>6, <2>1 DEF Apps!ReplaceEdges
  <2>4. ~mixed => r.found = edges
    BY <1>0, <1>1, <1>6 DEF AppsProject, Changing, Apps!ReplaceEdges, Apps!At
  <2>5. edges' \in SUBSET Projects /\ (~mixed => edges' = {n.project} \ {None})
    BY <1>1, <2>2, <2>3, <2>4
  <2> QED
    BY <1>4, <2>2, <2>3, <2>5
<1> QED
  BY <1>5, <1>6

LEMMA AppsSetColumn ==
    ASSUME AppsInv, NEW c \in Clients, Apps!SetColumn(c)
    PROVE  AppsInv'
<1> USE DEF AppsInv
<1>0. PICK r : r = edit[c]
  OBVIOUS
<1>1. /\ Apps!At(c, "column") /\ Apps!Keep(c, None)
      /\ application' = [v \in 1..Len(application) |-> [application[v] EXCEPT !.project = r.project]]
      /\ UNCHANGED <<named, applicationLinked, edges, boot, severed, mixed>>
  BY <1>0 DEF Apps!SetColumn, Apps!ghosts
<1>2. /\ r # None /\ r \in Apps!Edit /\ r.op = "project" /\ r.pc = "column"
      /\ r.project \in Projects \cup {None} /\ boot = "up"
  BY <1>0, <1>1, AppsAt DEF Apps!Edit
<1>3. edit'[c] = None /\ \A e \in Clients \ {c} : edit'[e] = edit[e]
  BY <1>1, AppsRequest
<1>4. Len(application) \in Nat
  BY AppsExists
<1>5. \A v \in 1..Len(application) :
        /\ application'[v] \in Apps!VersionRow /\ application'[v].project = r.project
        /\ application'[v].definition = application[v].definition
        /\ application'[v].status = application[v].status /\ application'[v].raced = application[v].raced
        /\ application'[v].vouched = application[v].vouched
  <2> TAKE v \in 1..Len(application)
  <2>1. PICK x \in Apps!VersionRow : x = application[v]
    BY AppsRow
  <2>2. application'[v] = [x EXCEPT !.project = r.project]
    BY <1>1, <2>1
  <2> QED
    BY <1>2, <2>1, <2>2 DEF Apps!VersionRow
<1>6. application' \in Seq(Apps!VersionRow) /\ Len(application') = Len(application)
  <2>1. application' \in [1..Len(application) -> Apps!VersionRow]
    BY <1>1, <1>5
  <2> QED
    BY <1>4, <2>1
<1>7. AppsType'
  BY <1>1, <1>6 DEF AppsType, Apps!Keep
<1>8. RowsGrow
  BY <1>4, <1>5, <1>6 DEF RowsGrow
<1>9. EditOK(c)'
  BY <1>3 DEF EditOK
<1>10. AppsEdits'
  BY <1>1, <1>3, <1>7, <1>8, <1>9, EditsStay
<1>11. AppsRows'
  BY <1>5, <1>6 DEF AppsRows
<1>12. AppsReach'
  <2>1. \A e \in Clients : Apps!At(e, "link") => Apps!At(e, "link")'
    BY <1>0, <1>2, <1>3 DEF Apps!At
  <2> QED
    BY <1>1, <1>6, <2>1 DEF AppsReach
<1>13. AppsProject'
  <2> SUFFICES ASSUME ~mixed' PROVE AppsProject'
    BY DEF AppsProject
  <2>1. ~mixed /\ Changing(c) /\ edges' = edges /\ edges = {r.project} \ {None}
    BY <1>0, <1>1, <1>2 DEF Changing, AppsProject
  <2>2. \A e \in Clients : ~Changing(e)'
    BY <1>3, <2>1 DEF Changing, AppsProject
  <2>3. Len(application) > 0
    BY <1>0, <1>2 DEF AppsEdits, EditOK
  <2> QED
    BY <1>5, <1>6, <2>1, <2>2, <2>3 DEF AppsProject
<1> QED
  BY <1>7, <1>10, <1>11, <1>12, <1>13

LEMMA AppsStay ==
    ASSUME AppsInv, UNCHANGED <<application, named, applicationLinked, edges, boot, edit, severed, mixed>>
    PROVE  AppsInv'
<1> USE DEF AppsInv
<1>1. AppsType' /\ AppsRows' /\ AppsReach'
  BY DEF AppsType, AppsRows, AppsReach, Apps!At
<1>2. AppsEdits'
  BY DEF AppsEdits, EditOK
<1>3. AppsProject'
  BY DEF AppsProject, Changing
<1> QED
  BY <1>1, <1>2, <1>3

LEMMA AppsStep == AppsInv /\ [Apps!Next]_Apps!vars => AppsInv'
<1> SUFFICES ASSUME AppsInv, [Apps!Next]_Apps!vars PROVE AppsInv'
  OBVIOUS
<1>1. CASE UNCHANGED Apps!vars
  BY <1>1, AppsStay DEF Apps!vars
<1>2. ASSUME NEW x \in {"type", "action", "tool"}, Apps!ChangeKnown(x) PROVE AppsInv'
  BY <1>2, AppsStay DEF Apps!ChangeKnown, Apps!stored, Apps!ghosts
<1>3. ASSUME NEW c \in Clients,
             \/ \E d \in Apps!Definitions : Apps!Save(c, d)
             \/ \E p \in Projects \cup {None} : Apps!SetProject(c, p)
             \/ Apps!Promote(c) \/ Apps!Validate(c) \/ Apps!Decide(c) \/ Apps!Insert(c)
             \/ Apps!Update(c) \/ Apps!Link(c) \/ Apps!MarkPromoted(c) \/ Apps!ReadEdges(c)
             \/ Apps!ReplaceEdges(c) \/ Apps!SetColumn(c) \/ Apps!Cut(c)
      PROVE  AppsInv'
  BY <1>3, AppsSave, AppsSetProject, AppsPromote, AppsValidate, AppsDecide, AppsInsert, AppsUpdate,
     AppsLink, AppsMark, AppsChange, AppsSetColumn, AppsCut
<1> QED
  BY <1>1, <1>2, <1>3, AppsBoot DEF Apps!Next

LEMMA AppsInvSuffices == AppsInv => Apps!ApplicationsSound
<1> SUFFICES ASSUME AppsInv PROVE Apps!ApplicationsSound
  OBVIOUS
<1> USE DEF AppsInv
<1>1. Apps!OnlyLatestIsDraft
  BY DEF AppsRows, Apps!OnlyLatestIsDraft
<1>2. Apps!PromotedWasChecked
  <2> SUFFICES ASSUME NEW v \in 1..Len(application), application[v].status = "promoted", ~application[v].raced
               PROVE  application[v].vouched = {Apps!References(application[v].definition)[i] :
                                                  i \in 1..Len(Apps!References(application[v].definition))}
    BY DEF Apps!PromotedWasChecked
  <2>1. application[v].vouched = Checked(application[v].definition)
    BY DEF AppsRows
  <2>2. PICK refs : refs = Apps!References(application[v].definition)
    OBVIOUS
  <2>3. Len(refs) = 2 /\ Checked(application[v].definition) = {refs[1], refs[2]}
    BY <2>2 DEF Apps!References, Checked
  <2>4. 1..Len(refs) = {1, 2}
    BY <2>3
  <2>5. {refs[i] : i \in 1..Len(refs)} = {refs[1], refs[2]}
    BY <2>4
  <2> QED
    BY <2>1, <2>2, <2>3, <2>5
<1>3. Apps!ApplicationReachable
  BY AppsExists DEF AppsReach, Apps!ApplicationReachable
<1>4. Apps!ProjectMirrored
  BY DEF AppsProject, Changing, Apps!ProjectMirrored, Apps!SettingProject
<1> QED
  BY <1>1, <1>2, <1>3, <1>4 DEF Apps!ApplicationsSound

(***************************************************************************)
(* One tool plugin answers to a name and a taken name is not registered    *)
(* over, a model's row, artifact and predictions belong together and to a  *)
(* tenant that reaches it, and the versions of an application are promoted *)
(* as they were checked and mirrored in SpiceDB: for any number of         *)
(* requests under way, and whatever of the ghosts' overlaps happens.       *)
(***************************************************************************)
THEOREM RegistrationsAreSound == Spec => []RegistrationsSound
<1> DEFINE I == ToolsInv /\ action \in BOOLEAN /\ ModelsInv /\ AppsInv
<1>1. Init => I
  BY ToolsInit, ModelsInit, AppsInit DEF Init, Tools!Init
<1>2. I /\ [Next]_vars => I'
  BY ComponentSteps, ToolsStep, ModelsStep, AppsStep
<1>3. I => RegistrationsSound
  BY ToolsInvSuffices, ModelsInvSuffices, AppsInvSuffices DEF RegistrationsSound
<1> QED
  BY <1>1, <1>2, <1>3, PTL DEF Spec

-----------------------------------------------------------------------------
(* Submissions: the requests under way and what they have left behind.     *)
SubsType ==
    /\ actionType \in Submissions!ActionTypes
    /\ results \in Seq(Seq(Submissions!Outcome))
    /\ submission \in [Clients -> Submissions!RequestState \cup {None}]
    /\ approvals \in SUBSET Submissions!ApprovalRow
    /\ invocations \in SUBSET Submissions!InvocationRow

(* A request has results of its own and an instance at hand.               *)
SubsPlace ==
    /\ \A c \in Clients : submission[c] # None =>
          /\ submission[c].n \in 1..Len(results)
          /\ Len(results[submission[c].n]) < Len(submission[c].batch)
    /\ \A c, d \in Clients : submission[c] # None /\ submission[d] # None /\ submission[c].n = submission[d].n
                             => c = d

(* What validation found of the edits still holds when they are written.   *)
Due(t) == IF t = "reason" THEN "editable" ELSE "value"
Vetted(r) ==
    /\ r.pc = "instance" /\ r.accepted => r.vetted = Due(r.checked) \/ r.checked = "computed"
    /\ r.pc = "decide" => r.vetted = Due(r.checked) \/ r.checked = "computed"
    /\ r.pc = "write" => r.vetted = Due(r.used) \/ r.checked # r.used
SubsVetted ==
    /\ \A c \in Clients : submission[c] # None => Vetted(submission[c])
    /\ Submissions!EditsVetted

(* An instance has one submission that passed validation and is undecided, *)
(* or one approval that waits, or one invocation that stands.              *)
Passed(c, i) == /\ submission[c] # None /\ submission[c].pc \in {"decide", "write"}
                /\ Submissions!Instance(submission[c]) = i
Waits(a, i) == a.instance = i /\ a.status = "pending"
Stands(v, i) == v.instance = i /\ ~v.reverted
OneClaim(i) ==
    /\ \A c, d \in Clients : Passed(c, i) /\ Passed(d, i) => c = d
    /\ \A c \in Clients : Passed(c, i) => /\ \A a \in approvals : ~Waits(a, i)
                                          /\ \A v \in invocations : ~Stands(v, i)
    /\ \A a \in approvals : Waits(a, i) => \A v \in invocations : ~Stands(v, i)
    /\ \A a, b \in approvals : Waits(a, i) /\ Waits(b, i) => a = b
    /\ \A v, w \in invocations : Stands(v, i) /\ Stands(w, i) => v = w
SubsOnce ==
    /\ \A i \in Instances : i \in contended \/ OneClaim(i)
    /\ \A v \in invocations : ~v.reverted => v.instance \in overlay

(* An instance of a batch has left an entry if and only if it was accepted *)
(* or failed after its commit, or if its commit is about to be answered.   *)
Answered(n, k) == /\ n \in 1..Len(results) /\ k \in 1..Len(results[n])
                  /\ results[n][k].ok \/ results[n][k].late
Here(c, n, k) == /\ submission[c] # None /\ n = submission[c].n
                 /\ k = Len(results[submission[c].n]) + 1
Kept(n, k) == Answered(n, k) \/ \E c \in Clients : Here(c, n, k) /\ submission[c].pc = "tail"
Entries == invocations \cup approvals
SubsLeft ==
    \A n, k \in Nat :
       /\ Kept(n, k) <=> \E x \in Entries : x.key = <<n, k>>
       /\ \A x, y \in Entries : x.key = <<n, k>> /\ y.key = <<n, k>> => x = y

SubsInv == SubsType /\ SubsPlace /\ SubsVetted /\ SubsOnce /\ SubsLeft

LEMMA SubsBatch ==
    ASSUME NEW b \in Submissions!Batches
    PROVE  b \in Seq(Instances) /\ Len(b) \in {1, 2}
<1>1. PICK n \in 1..2 : b \in [1..n -> Instances]
  BY DEF Submissions!Batches
<1>2. b \in Seq(Instances)
  BY <1>1
<1>3. Len(b) = n
  BY <1>1, <1>2
<1> QED
  BY <1>2, <1>3

LEMMA SubsRow ==
    ASSUME SubsType, SubsPlace, NEW c \in Clients, submission[c] # None
    PROVE  /\ submission[c] \in Submissions!RequestState
           /\ submission[c].n \in 1..Len(results) /\ submission[c].n \in Nat
           /\ submission[c].batch \in Submissions!Batches
           /\ results[submission[c].n] \in Seq(Submissions!Outcome)
           /\ Len(results[submission[c].n]) \in Nat
           /\ submission[c].batch \in Seq(Instances) /\ Len(submission[c].batch) \in {1, 2}
           /\ Submissions!Instance(submission[c]) \in Instances
<1>1. submission[c] \in Submissions!RequestState /\ submission[c].n \in 1..Len(results)
  BY DEF SubsType, SubsPlace
<1>2. submission[c].batch \in Submissions!Batches /\ submission[c].n \in Nat
  BY <1>1 DEF Submissions!RequestState
<1>3. results[submission[c].n] \in Seq(Submissions!Outcome)
  BY <1>1 DEF SubsType
<1>4. submission[c].batch \in Seq(Instances) /\ Len(submission[c].batch) \in {1, 2}
  BY <1>2, SubsBatch
<1>5. Len(results[submission[c].n]) + 1 \in 1..Len(submission[c].batch)
  BY <1>3, <1>4 DEF SubsPlace
<1>6. Submissions!Instance(submission[c]) \in Instances
  BY <1>4, <1>5 DEF Submissions!Instance, Submissions!Item
<1> QED
  BY <1>1, <1>2, <1>3, <1>4, <1>6

(* The place at hand is one request's, and has no answer yet.              *)
LEMMA SubsHere ==
    ASSUME SubsType, SubsPlace, NEW c \in Clients, NEW n, NEW k, Here(c, n, k)
    PROVE  /\ n \in Nat /\ k \in Nat /\ ~Answered(n, k)
           /\ \A d \in Clients : Here(d, n, k) => c = d
<1>1. n \in Nat /\ k \in Nat /\ ~(k \in 1..Len(results[n]))
  BY SubsRow DEF Here
<1>2. \A d \in Clients : Here(d, n, k) => c = d
  BY DEF SubsPlace, Here
<1> QED
  BY <1>1, <1>2 DEF Answered

(* A request goes on with the instance at hand.                            *)
LEMMA SubsGoOn ==
    ASSUME SubsType, SubsPlace, NEW c \in Clients, submission[c] # None,
           NEW m \in Submissions!RequestState, Submissions!Keep(c, m), results' = results,
           m.n = submission[c].n, m.batch = submission[c].batch
    PROVE  /\ submission'[c] = m /\ m # None /\ \A d \in Clients \ {c} : submission'[d] = submission[d]
           /\ SubsPlace'
           /\ \A d \in Clients \ {c}, i \in Instances : Passed(d, i)' <=> Passed(d, i)
           /\ \A i \in Instances :
                 Passed(c, i)' <=> m.pc \in {"decide", "write"} /\ Submissions!Instance(submission[c]) = i
           /\ \A n, k : Kept(n, k)' <=> IF Here(c, n, k) THEN m.pc = "tail" ELSE Kept(n, k)
<1>1. submission'[c] = m /\ \A d \in Clients \ {c} : submission'[d] = submission[d]
  BY DEF SubsType, Submissions!Keep
<1>2. m # None
  BY PlatformAssumption
<1>3. SubsPlace'
  BY <1>1, SMTT(30) DEF SubsPlace
<1>4. \A d \in Clients \ {c}, i \in Instances : Passed(d, i)' <=> Passed(d, i)
  BY <1>1 DEF Passed, Submissions!Instance, Submissions!Item
<1>5. \A i \in Instances :
         Passed(c, i)' <=> m.pc \in {"decide", "write"} /\ Submissions!Instance(submission[c]) = i
  BY <1>1, <1>2 DEF Passed, Submissions!Instance, Submissions!Item
<1>6. ASSUME NEW n, NEW k
      PROVE  Kept(n, k)' <=> IF Here(c, n, k) THEN m.pc = "tail" ELSE Kept(n, k)
  <2>1. \A d \in Clients : Here(d, n, k)' <=> Here(d, n, k)
    BY <1>1, <1>2 DEF Here
  <2>2. Answered(n, k)' <=> Answered(n, k)
    BY DEF Answered
  <2>3. CASE Here(c, n, k)
    <3>1. ~Answered(n, k) /\ \A d \in Clients : Here(d, n, k) => c = d
      BY <2>3, SubsHere
    <3> QED
      BY <1>1, <2>1, <2>2, <2>3, <3>1 DEF Kept
  <2>4. CASE ~Here(c, n, k)
    BY <1>1, <2>1, <2>2, <2>4 DEF Kept
  <2> QED
    BY <2>3, <2>4
<1> QED
  BY <1>1, <1>2, <1>3, <1>4, <1>5, <1>6

(* A request answers for the instance at hand and turns to the next one.   *)
LEMMA SubsAnswer ==
    ASSUME SubsType, SubsPlace, NEW c \in Clients, submission[c] # None, NEW ok \in BOOLEAN, NEW late \in BOOLEAN,
           Submissions!Answer(c, ok, late)
    PROVE  /\ results' \in Seq(Seq(Submissions!Outcome))
           /\ submission' \in [Clients -> Submissions!RequestState \cup {None}]
           /\ submission'[c] # None => submission'[c].pc = "type"
           /\ \A d \in Clients \ {c} : submission'[d] = submission[d]
           /\ SubsPlace'
           /\ \A d \in Clients, i \in Instances : Passed(d, i)' <=> d # c /\ Passed(d, i)
           /\ \A n, k : Kept(n, k)' <=> IF Here(c, n, k) THEN ok \/ late ELSE Kept(n, k)
<1>1. PICK r : r = submission[c]
  OBVIOUS
<1>2. /\ r # None /\ r \in Submissions!RequestState /\ r.n \in 1..Len(results) /\ r.n \in Nat
      /\ r.batch \in Submissions!Batches /\ results[r.n] \in Seq(Submissions!Outcome)
      /\ Len(results[r.n]) \in Nat /\ Len(r.batch) \in {1, 2} /\ Len(results[r.n]) < Len(r.batch)
  BY <1>1, SubsRow DEF SubsPlace
<1>3. PICK o : o = [ok |-> ok, late |-> late]
  OBVIOUS
<1>4. o \in Submissions!Outcome /\ o.ok = ok /\ o.late = late
  BY <1>3 DEF Submissions!Outcome
<1>5. PICK m : m = IF Len(results[r.n]) + 1 = Len(r.batch) THEN None ELSE Submissions!Request(r.n, r.batch)
  OBVIOUS
<1>6. m # None => /\ m \in Submissions!RequestState /\ m.pc = "type" /\ m.n = r.n /\ m.batch = r.batch
                  /\ Len(results[r.n]) + 1 < Len(r.batch)
  BY <1>2, <1>5 DEF Submissions!Request, Submissions!RequestState, Submissions!Vetting
<1>7. Submissions!Keep(c, m) /\ results' = [results EXCEPT ![r.n] = Append(results[r.n], o)]
  BY <1>1, <1>2, <1>3, <1>5 DEF Submissions!Answer, Submissions!Item, SubsType
<1>8. /\ submission' \in [Clients -> Submissions!RequestState \cup {None}]
      /\ submission'[c] = m /\ \A d \in Clients \ {c} : submission'[d] = submission[d]
  BY <1>6, <1>7 DEF SubsType, Submissions!Keep
<1>9. /\ Append(results[r.n], o) \in Seq(Submissions!Outcome)
      /\ Len(Append(results[r.n], o)) = Len(results[r.n]) + 1
      /\ Append(results[r.n], o)[Len(results[r.n]) + 1] = o
      /\ \A k \in 1..Len(results[r.n]) : Append(results[r.n], o)[k] = results[r.n][k]
  BY <1>2, <1>4
<1>10. /\ results' \in Seq(Seq(Submissions!Outcome)) /\ Len(results') = Len(results)
       /\ results'[r.n] = Append(results[r.n], o)
       /\ \A n \in 1..Len(results) : n # r.n => results'[n] = results[n]
  BY <1>2, <1>7, <1>9 DEF SubsType
<1>11. \A d \in Clients \ {c} : submission[d] # None =>
          submission[d].n \in 1..Len(results) /\ submission[d].n # r.n /\ results'[submission[d].n] = results[submission[d].n]
  BY <1>1, <1>2, <1>10 DEF SubsPlace
<1>12. SubsPlace'
  <2>1. \A d \in Clients : submission'[d] # None => submission[d] # None /\ submission'[d].n = submission[d].n
    BY <1>1, <1>2, <1>6, <1>8
  <2>2. \A d, e \in Clients : submission'[d] # None /\ submission'[e] # None /\ submission'[d].n = submission'[e].n => d = e
    BY <2>1 DEF SubsPlace
  <2>3. \A d \in Clients : submission'[d] # None =>
           submission'[d].n \in 1..Len(results') /\ Len(results'[submission'[d].n]) < Len(submission'[d].batch)
    <3> SUFFICES ASSUME NEW d \in Clients, submission'[d] # None
                 PROVE submission'[d].n \in 1..Len(results') /\ Len(results'[submission'[d].n]) < Len(submission'[d].batch)
      OBVIOUS
    <3>1. CASE d = c
      BY <1>2, <1>6, <1>8, <1>9, <1>10, <3>1, SMTT(30)
    <3>2. CASE d # c
      BY <1>8, <1>10, <1>11, <3>2 DEF SubsPlace
    <3> QED
      BY <3>1, <3>2
  <2> QED
    BY <2>2, <2>3 DEF SubsPlace
<1>13. ASSUME NEW d \in Clients, NEW i \in Instances PROVE Passed(d, i)' <=> d # c /\ Passed(d, i)
  <2>1. CASE d = c
    BY <1>6, <1>8, <2>1 DEF Passed
  <2>2. CASE d # c
    BY <1>8, <1>11, <2>2 DEF Passed, Submissions!Instance, Submissions!Item
  <2> QED
    BY <2>1, <2>2
<1>14. ASSUME NEW n, NEW k PROVE Kept(n, k)' <=> IF Here(c, n, k) THEN ok \/ late ELSE Kept(n, k)
  <2>1. \A d \in Clients \ {c} : Here(d, n, k)' <=> Here(d, n, k)
    BY <1>8, <1>11 DEF Here
  <2>2. ~(Here(c, n, k)' /\ submission'[c].pc = "tail")
    BY <1>6, <1>8 DEF Here
  <2>3. CASE Here(c, n, k)
    <3>1. ~Answered(n, k) /\ \A d \in Clients : Here(d, n, k) => c = d
      BY <2>3, SubsHere
    <3>2. n = r.n /\ k = Len(results[r.n]) + 1
      BY <1>1, <2>3 DEF Here
    <3>3. Answered(n, k)' <=> ok \/ late
      BY <1>2, <1>4, <1>9, <1>10, <3>2 DEF Answered
    <3> QED
      BY <1>8, <2>1, <2>2, <2>3, <3>1, <3>3, Zenon DEF Kept
  <2>4. CASE ~Here(c, n, k)
    <3>1. Answered(n, k)' <=> Answered(n, k)
      <4>1. CASE n = r.n
        <5>1. k # Len(results[r.n]) + 1
          BY <1>1, <1>2, <2>4, <4>1 DEF Here
        <5>2. k \in 1..Len(results'[r.n]) <=> k \in 1..Len(results[r.n])
          BY <1>2, <1>9, <1>10, <5>1
        <5> QED
          BY <1>2, <1>9, <1>10, <4>1, <5>2 DEF Answered
      <4>2. CASE n # r.n
        BY <1>10, <4>2 DEF Answered
      <4> QED
        BY <4>1, <4>2
    <3> QED
      BY <1>8, <2>1, <2>2, <2>4, <3>1 DEF Kept
  <2> QED
    BY <2>3, <2>4
<1>15. submission'[c] # None => submission'[c].pc = "type"
  BY <1>6, <1>8
<1> QED
  BY <1>8, <1>10, <1>12, <1>13, <1>14, <1>15

(* Steps that write no edit and no approval.                               *)
LEMMA SubsOnceStays ==
    ASSUME SubsOnce, UNCHANGED <<approvals, invocations, overlay>>, contended \subseteq contended',
           \A c \in Clients, i \in Instances : Passed(c, i)' /\ i \notin contended' => Passed(c, i)
    PROVE  SubsOnce'
BY DEF SubsOnce, OneClaim, Waits, Stands

LEMMA SubsLeftStays ==
    ASSUME SubsLeft, UNCHANGED <<approvals, invocations>>,
           \A n, k \in Nat : Kept(n, k)' <=> Kept(n, k)
    PROVE  SubsLeft'
BY DEF SubsLeft, Entries

LEMMA SubsInit == Submissions!Init => SubsInv
<1> SUFFICES ASSUME Submissions!Init PROVE SubsInv
  OBVIOUS
<1>1. /\ submission = [c \in Clients |-> None] /\ results = <<>> /\ invocations = {} /\ approvals = {}
      /\ actionType \in Submissions!ActionTypes
  BY DEF Submissions!Init
<1>2. Len(results) = 0 /\ \A c \in Clients : submission[c] = None
  BY <1>1
<1>3. SubsType
  BY <1>1 DEF SubsType
<1>4. SubsPlace /\ SubsVetted
  BY <1>1, <1>2 DEF SubsPlace, SubsVetted, Submissions!EditsVetted
<1>5. SubsOnce
  BY <1>1, <1>2 DEF SubsOnce, OneClaim, Passed
<1>6. SubsLeft
  BY <1>1, <1>2 DEF SubsLeft, Entries, Kept, Answered, Here
<1> QED
  BY <1>3, <1>4, <1>5, <1>6 DEF SubsInv

LEMMA SubsSubmit ==
    ASSUME SubsInv, NEW c \in Clients, NEW batch \in Submissions!Batches, Submissions!Submit(c, batch)
    PROVE  SubsInv'
<1> USE DEF SubsInv
<1>1. PICK m : m = Submissions!Request(Len(results) + 1, batch)
  OBVIOUS
<1>2. /\ submission[c] = None /\ results' = Append(results, <<>>) /\ Submissions!Keep(c, m)
      /\ UNCHANGED <<actionType, overlay, invocations, approvals, contended>>
  BY <1>1 DEF Submissions!Submit, Submissions!ontology
<1>3. Len(results) \in Nat
  BY DEF SubsType
<1>4. m \in Submissions!RequestState /\ m.n = Len(results) + 1 /\ m.pc = "type" /\ m.batch = batch /\ m # None
  <2>1. m \in Submissions!RequestState /\ m.n = Len(results) + 1 /\ m.pc = "type" /\ m.batch = batch
    BY <1>1, <1>3 DEF Submissions!Request, Submissions!RequestState, Submissions!Vetting
  <2> QED
    BY <2>1, PlatformAssumption
<1>5. /\ submission' \in [Clients -> Submissions!RequestState \cup {None}]
      /\ submission'[c] = m /\ \A d \in Clients \ {c} : submission'[d] = submission[d]
  BY <1>2, <1>4 DEF SubsType, Submissions!Keep
<1>6. /\ results' \in Seq(Seq(Submissions!Outcome)) /\ Len(results') = Len(results) + 1
      /\ results'[Len(results) + 1] = <<>> /\ \A n \in 1..Len(results) : results'[n] = results[n]
  BY <1>2 DEF SubsType
<1>7. \A d \in Clients \ {c} : submission[d] # None =>
         submission[d].n \in 1..Len(results) /\ results'[submission[d].n] = results[submission[d].n]
  BY <1>6 DEF SubsPlace
<1>8. SubsType'
  BY <1>2, <1>5, <1>6 DEF SubsType
<1>9. SubsPlace'
  <2>1. \A d \in Clients : submission'[d] # None =>
           submission'[d].n \in 1..Len(results') /\ Len(results'[submission'[d].n]) < Len(submission'[d].batch)
    <3> SUFFICES ASSUME NEW d \in Clients, submission'[d] # None
                 PROVE submission'[d].n \in 1..Len(results') /\ Len(results'[submission'[d].n]) < Len(submission'[d].batch)
      OBVIOUS
    <3>1. CASE d = c
      <4>1. Len(batch) > 0 /\ Len(<<>>) = 0
        BY SubsBatch
      <4>2. submission'[d].n = Len(results) + 1 /\ submission'[d].batch = batch
        BY <1>4, <1>5, <3>1
      <4>3. Len(results) + 1 \in 1..Len(results')
        BY <1>3, <1>6
      <4> QED
        BY <1>6, <4>1, <4>2, <4>3
    <3>2. CASE d # c
      <4>1. submission'[d] = submission[d] /\ submission[d].n \in 1..Len(results)
        BY <1>5, <1>7, <3>2
      <4>2. submission[d].n \in 1..Len(results')
        BY <1>3, <1>6, <4>1
      <4>3. Len(results[submission[d].n]) < Len(submission[d].batch)
        BY <4>1 DEF SubsPlace
      <4> QED
        BY <1>6, <4>1, <4>2, <4>3
    <3> QED
      BY <3>1, <3>2
  <2>2. \A d \in Clients \ {c} : submission[d] # None => submission[d].n # Len(results) + 1
    BY <1>3, <1>7
  <2>3. \A d, e \in Clients : submission'[d] # None /\ submission'[e] # None /\ submission'[d].n = submission'[e].n => d = e
    BY <1>4, <1>5, <2>2 DEF SubsPlace
  <2> QED
    BY <2>1, <2>3 DEF SubsPlace
<1>10. SubsVetted'
  BY <1>2, <1>4, <1>5 DEF SubsVetted, Vetted, Submissions!EditsVetted
<1>11. SubsOnce'
  <2>1. \A d \in Clients, i \in Instances : Passed(d, i)' => Passed(d, i)
    BY <1>4, <1>5, <1>7 DEF Passed, Submissions!Instance, Submissions!Item
  <2> QED
    BY <1>2, <2>1, SubsOnceStays
<1>12. SubsLeft'
  <2>1. ASSUME NEW n \in Nat, NEW k \in Nat PROVE Kept(n, k)' <=> Kept(n, k)
    <3>1. Answered(n, k)' <=> Answered(n, k)
      <4>1. CASE n = Len(results) + 1
        BY <1>3, <1>6, <4>1 DEF Answered
      <4>2. CASE n # Len(results) + 1
        BY <1>3, <1>6, <4>2 DEF Answered
      <4> QED
        BY <4>1, <4>2
    <3>2. \A d \in Clients \ {c} : Here(d, n, k)' <=> Here(d, n, k)
      BY <1>5, <1>7 DEF Here
    <3>3. ~Here(c, n, k) /\ ~(submission'[c].pc = "tail")
      BY <1>2, <1>4, <1>5 DEF Here
    <3> QED
      BY <1>5, <3>1, <3>2, <3>3 DEF Kept
  <2> QED
    BY <1>2, <2>1, SubsLeftStays
<1> QED
  BY <1>8, <1>9, <1>10, <1>11, <1>12

LEMMA SubsAt ==
    ASSUME SubsInv, NEW c \in Clients, NEW pc, Submissions!At(c, pc)
    PROVE  /\ submission[c] # None /\ submission[c].pc = pc /\ Vetted(submission[c])
           /\ submission[c] \in Submissions!RequestState
           /\ \A n, k \in Nat : Here(c, n, k) => (Kept(n, k) <=> pc = "tail")
<1> USE DEF SubsInv
<1>1. submission[c] # None /\ submission[c].pc = pc /\ submission[c] \in Submissions!RequestState
  BY DEF Submissions!At, SubsType
<1>2. Vetted(submission[c])
  BY <1>1 DEF SubsVetted
<1>3. ASSUME NEW n \in Nat, NEW k \in Nat, Here(c, n, k) PROVE Kept(n, k) <=> pc = "tail"
  <2>1. ~Answered(n, k) /\ \A d \in Clients : Here(d, n, k) => c = d
    BY <1>3, SubsHere
  <2> QED
    BY <1>1, <1>3, <2>1 DEF Kept
<1> QED
  BY <1>1, <1>2, <1>3

(* A request goes on and nothing is written.                               *)
LEMMA SubsStep ==
    ASSUME SubsInv, NEW c \in Clients, submission[c] # None, submission[c].pc # "tail",
           NEW m \in Submissions!RequestState, Submissions!Keep(c, m),
           m.n = submission[c].n, m.batch = submission[c].batch, m.pc # "tail", Vetted(m),
           UNCHANGED <<actionType, overlay, results, invocations, approvals>>, contended \subseteq contended',
           m.pc \in {"decide", "write"} =>
              submission[c].pc = "decide" \/ SubsOnce'
    PROVE  SubsInv'
<1> USE DEF SubsInv
<1>1. /\ submission'[c] = m /\ m # None /\ \A d \in Clients \ {c} : submission'[d] = submission[d]
      /\ SubsPlace'
      /\ \A d \in Clients \ {c}, i \in Instances : Passed(d, i)' <=> Passed(d, i)
      /\ \A i \in Instances :
            Passed(c, i)' <=> m.pc \in {"decide", "write"} /\ Submissions!Instance(submission[c]) = i
      /\ \A n, k : Kept(n, k)' <=> IF Here(c, n, k) THEN m.pc = "tail" ELSE Kept(n, k)
  BY SubsGoOn
<1>2. SubsType'
  BY DEF SubsType, Submissions!Keep
<1>3. SubsVetted'
  BY <1>1 DEF SubsVetted, Submissions!EditsVetted
<1>4. SubsOnce'
  <2> SUFFICES ASSUME m.pc \in {"decide", "write"} => submission[c].pc = "decide" PROVE SubsOnce'
    OBVIOUS
  <2>1. \A i \in Instances : Passed(c, i)' => Passed(c, i)
    BY <1>1 DEF Passed
  <2> QED
    BY <1>1, <2>1, SubsOnceStays
<1>5. SubsLeft'
  <2>1. Submissions!At(c, submission[c].pc)
    BY DEF Submissions!At
  <2>2. \A n, k \in Nat : Here(c, n, k) => ~Kept(n, k)
    BY <2>1, SubsAt
  <2>3. \A n, k \in Nat : Kept(n, k)' <=> Kept(n, k)
    BY <1>1, <2>2
  <2> QED
    BY <2>3, SubsLeftStays
<1> QED
  BY <1>1, <1>2, <1>3, <1>4, <1>5

(* An instance is answered for with what it has left so far.               *)
LEMMA SubsOver ==
    ASSUME SubsInv, NEW c \in Clients, submission[c] # None, NEW ok \in BOOLEAN, NEW late \in BOOLEAN,
           Submissions!Answer(c, ok, late), (ok \/ late) <=> submission[c].pc = "tail",
           UNCHANGED <<actionType, overlay, invocations, approvals, contended>>
    PROVE  SubsInv'
<1> USE DEF SubsInv
<1>1. /\ results' \in Seq(Seq(Submissions!Outcome))
      /\ submission' \in [Clients -> Submissions!RequestState \cup {None}]
      /\ submission'[c] # None => submission'[c].pc = "type"
      /\ \A d \in Clients \ {c} : submission'[d] = submission[d]
      /\ SubsPlace'
      /\ \A d \in Clients, i \in Instances : Passed(d, i)' <=> d # c /\ Passed(d, i)
      /\ \A n, k : Kept(n, k)' <=> IF Here(c, n, k) THEN ok \/ late ELSE Kept(n, k)
  BY SubsAnswer
<1>2. SubsType'
  BY <1>1 DEF SubsType
<1>3. SubsVetted'
  BY <1>1 DEF SubsVetted, Vetted, Submissions!EditsVetted
<1>4. SubsOnce'
  BY <1>1, SubsOnceStays
<1>5. SubsLeft'
  <2>1. Submissions!At(c, submission[c].pc)
    BY DEF Submissions!At
  <2>2. \A n, k \in Nat : Here(c, n, k) => (Kept(n, k) <=> submission[c].pc = "tail")
    BY <2>1, SubsAt
  <2>3. \A n, k \in Nat : Kept(n, k)' <=> Kept(n, k)
    BY <1>1, <2>2
  <2> QED
    BY <2>3, SubsLeftStays
<1> QED
  BY <1>1, <1>2, <1>3, <1>4, <1>5

LEMMA SubsReadType ==
    ASSUME SubsInv, NEW c \in Clients, Submissions!ReadType(c)
    PROVE  SubsInv'
<1>1. PICK r : r = submission[c]
  OBVIOUS
<1>2. r # None /\ r.pc = "type" /\ r \in Submissions!RequestState
  BY <1>1, SubsAt DEF Submissions!ReadType
<1>3. PICK m : m = [r EXCEPT !.pc = "rules", !.checked = actionType]
  OBVIOUS
<1>4. m \in Submissions!RequestState /\ m.pc = "rules" /\ m.n = r.n /\ m.batch = r.batch
  <2>1. actionType \in Submissions!ActionTypes
    BY DEF SubsInv, SubsType
  <2> QED
    BY <1>2, <1>3, <2>1 DEF Submissions!RequestState
<1>5. /\ Submissions!Keep(c, m)
      /\ UNCHANGED <<actionType, overlay, results, invocations, approvals, contended>>
  BY <1>1, <1>3 DEF Submissions!ReadType, Submissions!ontology
<1> QED
  BY <1>1, <1>2, <1>4, <1>5, SubsStep DEF Vetted

LEMMA SubsReadRules ==
    ASSUME SubsInv, NEW c \in Clients, Submissions!ReadRules(c)
    PROVE  SubsInv'
<1>1. PICK r : r = submission[c]
  OBVIOUS
<1>2. r # None /\ r.pc = "rules" /\ r \in Submissions!RequestState
  BY <1>1, SubsAt DEF Submissions!ReadRules
<1>3. PICK vetted, accepted : /\ vetted = Submissions!HeldAgainst(r.checked)
                              /\ accepted = Submissions!Passes(r.checked)
  OBVIOUS
<1>4. /\ vetted \in Submissions!Vetting /\ accepted \in BOOLEAN
      /\ accepted => vetted = Due(r.checked) \/ r.checked = "computed"
  BY <1>3 DEF Submissions!HeldAgainst, Submissions!Passes, Submissions!Permits, Submissions!Vetting, Due
<1>5. PICK m : m = [r EXCEPT !.pc = "instance", !.vetted = vetted, !.accepted = accepted]
  OBVIOUS
<1>6. /\ m \in Submissions!RequestState /\ m.pc = "instance" /\ m.n = r.n /\ m.batch = r.batch
      /\ m.checked = r.checked /\ m.vetted = vetted /\ m.accepted = accepted
  BY <1>2, <1>4, <1>5 DEF Submissions!RequestState
<1>7. /\ Submissions!Keep(c, m)
      /\ UNCHANGED <<actionType, overlay, results, invocations, approvals, contended>>
  BY <1>1, <1>3, <1>5 DEF Submissions!ReadRules, Submissions!ontology
<1>8. Vetted(m)
  BY <1>4, <1>6 DEF Vetted
<1> QED
  BY <1>1, <1>2, <1>6, <1>7, <1>8, SubsStep

(* An instance that is open has no invocation, and one that nobody is      *)
(* about to close becomes this request's.                                  *)
LEMMA SubsReadInstance ==
    ASSUME SubsInv, NEW c \in Clients, Submissions!ReadInstance(c)
    PROVE  SubsInv'
<1>1. PICK r : r = submission[c]
  OBVIOUS
<1>2. r # None /\ r.pc = "instance" /\ r \in Submissions!RequestState /\ Vetted(r)
  BY <1>1, SubsAt DEF Submissions!ReadInstance
<1>3. UNCHANGED <<actionType, overlay, invocations, approvals>>
  BY DEF Submissions!ReadInstance, Submissions!ontology
<1>4. PICK i : i = Submissions!Instance(r)
  OBVIOUS
<1>5. CASE i \in stored /\ Submissions!Criteria(i) /\ r.accepted
  <2>1. PICK m : m = [r EXCEPT !.pc = "decide"]
    OBVIOUS
  <2>2. /\ m \in Submissions!RequestState /\ m.pc = "decide" /\ m.n = r.n /\ m.batch = r.batch
        /\ m.checked = r.checked /\ m.vetted = r.vetted
    BY <1>2, <2>1 DEF Submissions!RequestState
  <2>3. /\ Submissions!Keep(c, m) /\ results' = results
        /\ contended' = IF Submissions!Undecided(i) THEN contended \cup {i} ELSE contended
    BY <1>1, <1>4, <1>5, <2>1 DEF Submissions!ReadInstance
  <2>4. Vetted(m)
    BY <1>2, <1>5, <2>2 DEF Vetted
  <2>5. /\ submission'[c] = m /\ m # None /\ \A d \in Clients \ {c} : submission'[d] = submission[d]
        /\ \A d \in Clients \ {c}, j \in Instances : Passed(d, j)' <=> Passed(d, j)
        /\ \A j \in Instances : Passed(c, j)' <=> j = i
    BY <1>1, <1>2, <1>4, <2>2, <2>3, SubsGoOn DEF SubsInv
  <2>6. SubsOnce'
    <3>1. ASSUME NEW j \in Instances, j \notin contended' PROVE OneClaim(j)'
      <4>1. OneClaim(j)
        BY <2>3, <3>1 DEF SubsInv, SubsOnce
      <4>2. CASE j = i
        <5>1. ~Submissions!Undecided(i)
          BY <2>3, <3>1, <4>2
        <5>2. \A d \in Clients : ~Passed(d, i)
          BY <5>1 DEF Submissions!Undecided, Passed
        <5>3. \A a \in approvals : ~Waits(a, i)
          BY <5>1 DEF Submissions!Undecided, Waits
        <5>4. i \notin overlay
          BY <1>5 DEF Submissions!Criteria, Submissions!Seen
        <5>5. \A v \in invocations : ~Stands(v, i)
          BY <5>4 DEF SubsInv, SubsOnce, Stands
        <5>6. \A d \in Clients : Passed(d, j)' => d = c
          BY <2>5, <4>2, <5>2
        <5> QED
          BY <1>3, <4>2, <5>3, <5>5, <5>6 DEF OneClaim, Waits, Stands
      <4>3. CASE j # i
        <5>1. \A d \in Clients : Passed(d, j)' => Passed(d, j)
          BY <2>5, <4>3
        <5> QED
          BY <1>3, <4>1, <5>1 DEF OneClaim, Waits, Stands
      <4> QED
        BY <4>2, <4>3
    <3>2. \A v \in invocations' : ~v.reverted => v.instance \in overlay'
      BY <1>3 DEF SubsInv, SubsOnce
    <3> QED
      BY <3>1, <3>2 DEF SubsOnce
  <2>7. contended \subseteq contended'
    BY <2>3
  <2> QED
    BY <1>1, <1>2, <1>3, <2>2, <2>3, <2>4, <2>6, <2>7, SubsStep
<1>6. CASE ~(i \in stored /\ Submissions!Criteria(i) /\ r.accepted)
  <2>1. Submissions!Answer(c, FALSE, FALSE) /\ contended' = contended
    BY <1>1, <1>4, <1>6 DEF Submissions!ReadInstance
  <2> QED
    BY <1>1, <1>2, <1>3, <2>1, SubsOver
<1> QED
  BY <1>5, <1>6

LEMMA SubsResolve ==
    ASSUME SubsInv, NEW c \in Clients, Submissions!ResolveEdits(c)
    PROVE  SubsInv'
<1>1. PICK r : r = submission[c]
  OBVIOUS
<1>2. r # None /\ r.pc = "decide" /\ r \in Submissions!RequestState /\ Vetted(r)
  BY <1>1, SubsAt DEF Submissions!ResolveEdits
<1>3. UNCHANGED <<actionType, overlay, invocations, approvals, contended>>
  BY DEF Submissions!ResolveEdits, Submissions!ontology
<1>4. CASE Submissions!Resolvable(Submissions!Instance(r))
  <2>1. PICK vetted : vetted = IF actionType = "computed" THEN "value" ELSE r.vetted
    OBVIOUS
  <2>2. PICK m : m = [r EXCEPT !.pc = "write", !.used = actionType, !.vetted = vetted]
    OBVIOUS
  <2>3. /\ m \in Submissions!RequestState /\ m.pc = "write" /\ m.n = r.n /\ m.batch = r.batch
        /\ m.checked = r.checked /\ m.used = actionType /\ m.vetted = vetted
    <3>1. actionType \in Submissions!ActionTypes /\ vetted \in Submissions!Vetting
      BY <1>2, <2>1 DEF SubsInv, SubsType, Submissions!Vetting, Submissions!RequestState
    <3> QED
      BY <1>2, <2>2, <3>1 DEF Submissions!RequestState
  <2>4. Submissions!Keep(c, m) /\ results' = results
    BY <1>1, <1>4, <2>1, <2>2 DEF Submissions!ResolveEdits
  <2>5. Vetted(m)
    BY <1>2, <2>1, <2>3 DEF Vetted, Due
  <2> QED
    BY <1>1, <1>2, <1>3, <2>3, <2>4, <2>5, SubsStep
<1>5. CASE ~Submissions!Resolvable(Submissions!Instance(r))
  <2>1. Submissions!Answer(c, FALSE, FALSE)
    BY <1>1, <1>5 DEF Submissions!ResolveEdits
  <2> QED
    BY <1>1, <1>2, <1>3, <2>1, SubsOver
<1> QED
  BY <1>4, <1>5

LEMMA SubsConclude ==
    ASSUME SubsInv, NEW c \in Clients, Submissions!Conclude(c) \/ Submissions!Fails(c)
    PROVE  SubsInv'
<1>1. UNCHANGED <<actionType, overlay, invocations, approvals, contended>>
  BY DEF Submissions!Conclude, Submissions!Fails, Submissions!ontology
<1>2. CASE Submissions!Conclude(c)
  BY <1>1, <1>2, SubsOver DEF Submissions!Conclude, Submissions!At
<1>3. CASE Submissions!Fails(c)
  <2>1. submission[c] # None /\ Submissions!Answer(c, FALSE, Submissions!At(c, "tail"))
    BY <1>3 DEF Submissions!Fails
  <2>2. Submissions!At(c, "tail") \in BOOLEAN /\ (Submissions!At(c, "tail") <=> submission[c].pc = "tail")
    BY <2>1 DEF Submissions!At
  <2> QED
    BY <1>1, <2>1, <2>2, SubsOver
<1> QED
  BY <1>2, <1>3

(* The instance at hand leaves its one entry.                              *)
LEMMA SubsLeftGrows ==
    ASSUME SubsLeft, NEW x, NEW m \in Nat, NEW j \in Nat, x.key = <<m, j>>, Entries' = Entries \cup {x},
           ~Kept(m, j), \A n, k \in Nat : Kept(n, k)' <=> Kept(n, k) \/ (n = m /\ k = j)
    PROVE  SubsLeft'
<1> SUFFICES ASSUME NEW n \in Nat, NEW k \in Nat
             PROVE  /\ Kept(n, k)' <=> \E y \in Entries' : y.key = <<n, k>>
                    /\ \A y, z \in Entries' : y.key = <<n, k>> /\ z.key = <<n, k>> => y = z
  BY DEF SubsLeft
<1>1. /\ Kept(n, k) <=> \E y \in Entries : y.key = <<n, k>>
      /\ \A y, z \in Entries : y.key = <<n, k>> /\ z.key = <<n, k>> => y = z
  BY DEF SubsLeft
<1>2. x.key = <<n, k>> <=> n = m /\ k = j
  OBVIOUS
<1>3. CASE n = m /\ k = j
  <2>1. \A y \in Entries' : y.key = <<n, k>> <=> y = x
    BY <1>1, <1>2, <1>3
  <2> QED
    BY <1>3, <2>1
<1>4. CASE ~(n = m /\ k = j)
  <2>1. \A y \in Entries' : y.key = <<n, k>> => y \in Entries
    BY <1>2, <1>4
  <2> QED
    BY <1>1, <1>4, <2>1
<1> QED
  BY <1>3, <1>4

(* An approval is asked for or an edit is written: what c had passed is    *)
(* now an entry.                                                           *)
LEMMA SubsEnter ==
    ASSUME SubsInv, NEW c \in Clients, submission[c] # None, submission[c].pc \in {"decide", "write"},
           NEW x, x.key = Submissions!Key(submission[c]), x.instance = Submissions!Instance(submission[c]),
           \/ x.status = "pending" /\ approvals' = approvals \cup {x} /\ UNCHANGED <<invocations, overlay>>
           \/ /\ ~x.reverted /\ invocations' = invocations \cup {x} /\ approvals' = approvals
              /\ overlay' = overlay \cup {x.instance},
           contended' = contended,
           \A d \in Clients, i \in Instances : Passed(d, i)' <=> d # c /\ Passed(d, i),
           \A n, k : Kept(n, k)' <=> (Here(c, n, k) \/ Kept(n, k))
    PROVE  SubsOnce' /\ SubsLeft'
<1> USE DEF SubsInv
<1>1. PICK m, j : m = submission[c].n /\ j = Len(results[submission[c].n]) + 1
  OBVIOUS
<1>2. m \in Nat /\ j \in Nat /\ x.instance \in Instances
  BY <1>1, SubsRow
<1>3. x.key = <<m, j>>
  BY <1>1 DEF Submissions!Key, Submissions!Item
<1>4. \A n, k : Here(c, n, k) <=> n = m /\ k = j
  BY <1>1 DEF Here
<1>5. ~Kept(m, j)
  <2>1. Submissions!At(c, submission[c].pc)
    BY DEF Submissions!At
  <2> QED
    BY <1>2, <1>4, <2>1, SubsAt
<1>6. SubsLeft'
  <2>1. Entries' = Entries \cup {x}
    BY DEF Entries
  <2> QED
    <3>1. \A n, k \in Nat : Kept(n, k)' <=> Kept(n, k) \/ (n = m /\ k = j)
      BY <1>4
    <3> QED
      BY <1>2, <1>3, <1>5, <2>1, <3>1, SubsLeftGrows
<1>7. Passed(c, x.instance)
  BY DEF Passed
<1>8. ASSUME NEW i \in Instances, i \notin contended PROVE OneClaim(i)'
  <2>1. OneClaim(i)
    BY <1>8 DEF SubsOnce
  <2>2. CASE i = x.instance
    <3>1. /\ \A a \in approvals : ~Waits(a, i)
          /\ \A v \in invocations : ~Stands(v, i)
          /\ \A d \in Clients : ~Passed(d, i)'
      BY <1>2, <1>7, <2>1, <2>2 DEF OneClaim
    <3>2. CASE approvals' = approvals
      BY <2>2, <3>1, <3>2 DEF OneClaim, Waits, Stands
    <3>3. CASE approvals' = approvals \cup {x} /\ invocations' = invocations
      BY <2>2, <3>1, <3>3 DEF OneClaim, Waits, Stands
    <3> QED
      BY <3>2, <3>3
  <2>3. CASE i # x.instance
    <3>1. \A d \in Clients : Passed(d, i)' => Passed(d, i)
      OBVIOUS
    <3>2. \A a \in approvals' : Waits(a, i) => a \in approvals
      BY <2>3 DEF Waits
    <3>3. \A v \in invocations' : v.instance = i => v \in invocations
      BY <2>3
    <3> QED
      BY <2>1, <3>1, <3>2, <3>3 DEF OneClaim, Waits, Stands
  <2> QED
    BY <2>2, <2>3
<1>9. SubsOnce'
  BY <1>8 DEF SubsOnce
<1> QED
  BY <1>6, <1>9

LEMMA SubsRequestApproval ==
    ASSUME SubsInv, NEW c \in Clients, Submissions!RequestApproval(c)
    PROVE  SubsInv'
<1>1. PICK r : r = submission[c]
  OBVIOUS
<1>2. r # None /\ r.pc = "decide" /\ r \in Submissions!RequestState
  BY <1>1, SubsAt DEF Submissions!RequestApproval
<1>3. PICK x : x = [key |-> Submissions!Key(r), instance |-> Submissions!Instance(r), status |-> "pending"]
  OBVIOUS
<1>4. /\ x \in Submissions!ApprovalRow /\ x.key = Submissions!Key(r)
      /\ x.instance = Submissions!Instance(r) /\ x.status = "pending"
  <2>1. Submissions!Key(r) \in Nat \X Nat /\ Submissions!Instance(r) \in Instances
    BY <1>1, <1>2, SubsRow DEF SubsInv, Submissions!Key, Submissions!Item
  <2> QED
    BY <1>3, <2>1 DEF Submissions!ApprovalRow
<1>5. /\ approvals' = approvals \cup {x} /\ Submissions!Answer(c, TRUE, FALSE)
      /\ UNCHANGED <<actionType, overlay, invocations, contended>>
  BY <1>1, <1>3 DEF Submissions!RequestApproval, Submissions!ontology
<1>6. /\ results' \in Seq(Seq(Submissions!Outcome))
      /\ submission' \in [Clients -> Submissions!RequestState \cup {None}]
      /\ submission'[c] # None => submission'[c].pc = "type"
      /\ \A d \in Clients \ {c} : submission'[d] = submission[d]
      /\ SubsPlace'
      /\ \A d \in Clients, i \in Instances : Passed(d, i)' <=> d # c /\ Passed(d, i)
      /\ \A n, k : Kept(n, k)' <=> IF Here(c, n, k) THEN TRUE \/ FALSE ELSE Kept(n, k)
  BY <1>1, <1>2, <1>5, SubsAnswer DEF SubsInv
<1>7. SubsOnce' /\ SubsLeft'
  BY <1>1, <1>2, <1>4, <1>5, <1>6, SubsEnter
<1>8. SubsType'
  BY <1>4, <1>5, <1>6 DEF SubsInv, SubsType
<1>9. SubsVetted'
  BY <1>5, <1>6 DEF SubsInv, SubsVetted, Vetted, Submissions!EditsVetted
<1> QED
  BY <1>6, <1>7, <1>8, <1>9 DEF SubsInv

LEMMA SubsWrite ==
    ASSUME SubsInv, NEW c \in Clients, Submissions!Write(c)
    PROVE  SubsInv'
<1>1. PICK r : r = submission[c]
  OBVIOUS
<1>2. r # None /\ r.pc = "write" /\ r \in Submissions!RequestState /\ Vetted(r)
  BY <1>1, SubsAt DEF Submissions!Write
<1>3. PICK x : x = Submissions!Invocation(Submissions!Key(r), Submissions!Instance(r), r.checked, r.used, r.vetted)
  OBVIOUS
<1>4. /\ x \in Submissions!InvocationRow /\ x.key = Submissions!Key(r) /\ x.instance = Submissions!Instance(r)
      /\ x.vetted = Due(x.used) \/ x.checked # x.used
      /\ ~x.reverted
  <2>1. Submissions!Key(r) \in Seq(Nat) /\ Submissions!Instance(r) \in Instances
    BY <1>1, <1>2, SubsRow DEF SubsInv, Submissions!Key, Submissions!Item
  <2>2. /\ x.key = Submissions!Key(r) /\ x.instance = Submissions!Instance(r)
        /\ x.vetted = r.vetted /\ x.checked = r.checked /\ x.used = r.used /\ ~x.reverted
    BY <1>3 DEF Submissions!Invocation
  <2>3. x \in Submissions!InvocationRow
    BY <1>2, <1>3, <2>1 DEF Submissions!Invocation, Submissions!InvocationRow, Submissions!RequestState
  <2> QED
    BY <1>2, <2>2, <2>3 DEF Vetted
<1>5. PICK m : m = [r EXCEPT !.pc = "tail"]
  OBVIOUS
<1>6. m \in Submissions!RequestState /\ m.pc = "tail" /\ m.n = r.n /\ m.batch = r.batch
  BY <1>2, <1>5 DEF Submissions!RequestState
<1>7. /\ overlay' = overlay \cup {x.instance} /\ invocations' = invocations \cup {x}
      /\ Submissions!Keep(c, m)
      /\ UNCHANGED <<actionType, results, approvals, contended>>
  BY <1>1, <1>3, <1>4, <1>5 DEF Submissions!Write, Submissions!ontology
<1>8. /\ submission'[c] = m /\ m # None /\ \A d \in Clients \ {c} : submission'[d] = submission[d]
      /\ SubsPlace'
      /\ \A d \in Clients \ {c}, i \in Instances : Passed(d, i)' <=> Passed(d, i)
      /\ \A i \in Instances :
            Passed(c, i)' <=> m.pc \in {"decide", "write"} /\ Submissions!Instance(submission[c]) = i
      /\ \A n, k : Kept(n, k)' <=> IF Here(c, n, k) THEN m.pc = "tail" ELSE Kept(n, k)
  BY <1>1, <1>2, <1>6, <1>7, SubsGoOn DEF SubsInv
<1>9. \A d \in Clients, i \in Instances : Passed(d, i)' <=> d # c /\ Passed(d, i)
  BY <1>6, <1>8
<1>10. \A n, k : Kept(n, k)' <=> (Here(c, n, k) \/ Kept(n, k))
  BY <1>6, <1>8
<1>11. SubsOnce' /\ SubsLeft'
  BY <1>1, <1>2, <1>4, <1>7, <1>9, <1>10, SubsEnter
<1>12. SubsType'
  BY <1>4, <1>6, <1>7 DEF SubsInv, SubsType, Submissions!Keep
<1>13. SubsVetted'
  BY <1>4, <1>6, <1>7, <1>8 DEF SubsInv, SubsVetted, Vetted, Due, Submissions!EditsVetted
<1> QED
  BY <1>8, <1>11, <1>12, <1>13 DEF SubsInv

(* The key of an invocation that an approval led to is no instance's own.  *)
LEMMA KeysDiffer == ASSUME NEW key, Len(key) = 3, NEW n, NEW k PROVE key # <<n, k>>
<1> SUFFICES ASSUME key = <<n, k>> PROVE FALSE
  OBVIOUS
<1>1. Len(key) = 2
  OBVIOUS
<1>2. 3 = 2
  BY <1>1
<1> QED
  BY <1>2

LEMMA SubsApprove ==
    ASSUME SubsInv, NEW a \in approvals, Submissions!Approve(a)
    PROVE  SubsInv'
<1> USE DEF SubsInv
<1>1. a \in Submissions!ApprovalRow /\ a.status = "pending"
  BY DEF Submissions!Approve, SubsType
<1>2. a.key \in Nat \X Nat /\ a.instance \in Instances
  BY <1>1 DEF Submissions!ApprovalRow
<1>3. PICK b : b = [a EXCEPT !.status = "approved"]
  OBVIOUS
<1>4. b \in Submissions!ApprovalRow /\ b.key = a.key /\ b.instance = a.instance /\ b.status = "approved"
  BY <1>1, <1>3 DEF Submissions!ApprovalRow
<1>5. PICK v : v = Submissions!Invocation(Append(a.key, 0), a.instance, "high", actionType, "value")
  OBVIOUS
<1>6. /\ v.key = Append(a.key, 0) /\ v.instance = a.instance /\ ~v.reverted
      /\ v.vetted = "value" /\ v.checked = "high"
  BY <1>5 DEF Submissions!Invocation
<1>7. PICK n0 \in Nat, k0 \in Nat : a.key = <<n0, k0>>
  BY <1>2
<1>8. v.key \in Seq(Nat) /\ Len(v.key) = 3
  <2>1. <<n0, k0>> \in Seq(Nat) /\ Len(<<n0, k0>>) = 2
    OBVIOUS
  <2> QED
    BY <1>6, <1>7, <2>1
<1>9. v \in Submissions!InvocationRow
  <2>1. Append(a.key, 0) \in Seq(Nat) /\ actionType \in Submissions!ActionTypes
    BY <1>6, <1>8 DEF SubsType
  <2> QED
    BY <1>2, <1>5, <2>1 DEF Submissions!Invocation, Submissions!InvocationRow, Submissions!ActionTypes, Submissions!Vetting
<1>10. /\ approvals' = (approvals \ {a}) \cup {b} /\ overlay' = overlay \cup {a.instance}
       /\ invocations' = invocations \cup {v}
       /\ UNCHANGED <<actionType, submission, results, contended>>
  BY <1>3, <1>5 DEF Submissions!Approve, Submissions!ontology
<1>11. a \notin invocations
  <2>1. DOMAIN a = {"key", "instance", "status"}
    BY <1>1 DEF Submissions!ApprovalRow
  <2>2. \A w \in invocations : "vetted" \in DOMAIN w
    BY DEF SubsType, Submissions!InvocationRow
  <2> QED
    BY <2>1, <2>2
<1>12. SubsType'
  BY <1>4, <1>9, <1>10 DEF SubsType
<1>13. SubsPlace' /\ SubsVetted'
  BY <1>6, <1>10 DEF SubsPlace, SubsVetted, Vetted, Submissions!EditsVetted
<1>14. ASSUME NEW i \in Instances, i \notin contended PROVE OneClaim(i)'
  <2>1. OneClaim(i)
    BY <1>14 DEF SubsOnce
  <2>2. \A c \in Clients : Passed(c, i)' <=> Passed(c, i)
    BY <1>10 DEF Passed, Submissions!Instance, Submissions!Item
  <2>3. CASE i = a.instance
    <3>1. Waits(a, i)
      BY <1>1, <2>3 DEF Waits
    <3>2. /\ \A w \in invocations : ~Stands(w, i)
          /\ \A x \in approvals : Waits(x, i) => x = a
          /\ \A c \in Clients : ~Passed(c, i)
      BY <2>1, <3>1 DEF OneClaim
    <3>3. \A x \in approvals' : ~Waits(x, i)
      BY <1>4, <1>10, <3>2 DEF Waits
    <3>4. \A w \in invocations' : Stands(w, i) => w = v
      BY <1>10, <3>2
    <3> QED
      BY <2>2, <3>2, <3>3, <3>4 DEF OneClaim, Waits, Stands
  <2>4. CASE i # a.instance
    <3>1. \A x \in approvals' : Waits(x, i) => x \in approvals
      BY <1>4, <1>10, <2>4 DEF Waits
    <3>2. \A w \in invocations' : w.instance = i => w \in invocations
      BY <1>6, <1>10, <2>4
    <3> QED
      BY <2>1, <2>2, <3>1, <3>2 DEF OneClaim, Waits, Stands
  <2> QED
    BY <2>3, <2>4
<1>15. SubsOnce'
  BY <1>6, <1>10, <1>14 DEF SubsOnce
<1>16. SubsLeft'
  <2> SUFFICES ASSUME NEW n \in Nat, NEW k \in Nat
               PROVE  /\ Kept(n, k)' <=> \E x \in Entries' : x.key = <<n, k>>
                      /\ \A x, y \in Entries' : x.key = <<n, k>> /\ y.key = <<n, k>> => x = y
    BY DEF SubsLeft
  <2>1. /\ Kept(n, k) <=> \E x \in Entries : x.key = <<n, k>>
        /\ \A x, y \in Entries : x.key = <<n, k>> /\ y.key = <<n, k>> => x = y
    BY DEF SubsLeft
  <2>2. Kept(n, k)' <=> Kept(n, k)
    BY <1>10 DEF Kept, Answered, Here
  <2>3. v.key # <<n, k>>
    BY <1>8, KeysDiffer
  <2>4. Entries' = (Entries \ {a}) \cup {b, v}
    BY <1>10, <1>11 DEF Entries
  <2>5. a \in Entries
    BY DEF Entries
  <2>6. CASE a.key = <<n, k>>
    <3>1. \A x \in Entries' : x.key = <<n, k>> <=> x = b
      BY <1>4, <2>1, <2>3, <2>4, <2>5, <2>6
    <3> QED
      BY <2>1, <2>2, <2>4, <2>5, <2>6, <3>1
  <2>7. CASE a.key # <<n, k>>
    <3>1. \A x : x \in Entries' /\ x.key = <<n, k>> <=> x \in Entries /\ x.key = <<n, k>>
      BY <1>4, <2>3, <2>4, <2>7
    <3> QED
      BY <2>1, <2>2, <3>1
  <2> QED
    BY <2>6, <2>7
<1> QED
  BY <1>12, <1>13, <1>15, <1>16

(* A revert takes the claim of the edit away and keeps its entry.          *)
LEMMA SubsRevert ==
    ASSUME SubsInv, NEW v \in invocations, Submissions!Revert(v)
    PROVE  SubsInv'
<1> USE DEF SubsInv
<1>1. v \in Submissions!InvocationRow /\ ~v.reverted
  BY DEF Submissions!Revert, SubsType
<1>2. PICK w : w = [v EXCEPT !.reverted = TRUE]
  OBVIOUS
<1>3. /\ w \in Submissions!InvocationRow /\ w.key = v.key /\ w.instance = v.instance /\ w.reverted
      /\ w.checked = v.checked /\ w.used = v.used /\ w.vetted = v.vetted
  BY <1>1, <1>2 DEF Submissions!InvocationRow
<1>4. /\ invocations' = (invocations \ {v}) \cup {w}
      /\ overlay' = IF \E u \in invocations \ {v} : u.instance = v.instance /\ ~u.reverted
                    THEN overlay ELSE overlay \ {v.instance}
      /\ UNCHANGED <<actionType, submission, results, approvals, contended>>
  BY <1>2 DEF Submissions!Revert, Submissions!ontology
<1>5. v \notin approvals
  <2>1. "vetted" \in DOMAIN v
    BY <1>1 DEF Submissions!InvocationRow
  <2>2. \A a \in approvals : DOMAIN a = {"key", "instance", "status"}
    BY DEF SubsType, Submissions!ApprovalRow
  <2> QED
    BY <2>1, <2>2
<1>6. SubsType'
  BY <1>3, <1>4 DEF SubsType
<1>7. SubsPlace' /\ SubsVetted'
  BY <1>3, <1>4 DEF SubsPlace, SubsVetted, Vetted, Submissions!EditsVetted
<1>8. \A u \in invocations' : ~u.reverted => u \in invocations \ {v}
  BY <1>3, <1>4
<1>9. SubsOnce'
  <2>1. ASSUME NEW i \in Instances, i \notin contended PROVE OneClaim(i)'
    <3>1. OneClaim(i)
      BY <2>1 DEF SubsOnce
    <3>2. \A c \in Clients : Passed(c, i)' <=> Passed(c, i)
      BY <1>4 DEF Passed, Submissions!Instance, Submissions!Item
    <3>3. \A u \in invocations' : Stands(u, i) => u \in invocations
      BY <1>8 DEF Stands
    <3> QED
      BY <1>4, <3>1, <3>2, <3>3 DEF OneClaim, Waits, Stands
  <2>2. ASSUME NEW u \in invocations', ~u.reverted PROVE u.instance \in overlay'
    BY <1>4, <1>8, <2>2 DEF SubsOnce
  <2> QED
    BY <1>4, <2>1, <2>2 DEF SubsOnce
<1>10. SubsLeft'
  <2> SUFFICES ASSUME NEW n \in Nat, NEW k \in Nat
               PROVE  /\ Kept(n, k)' <=> \E x \in Entries' : x.key = <<n, k>>
                      /\ \A x, y \in Entries' : x.key = <<n, k>> /\ y.key = <<n, k>> => x = y
    BY DEF SubsLeft
  <2>1. /\ Kept(n, k) <=> \E x \in Entries : x.key = <<n, k>>
        /\ \A x, y \in Entries : x.key = <<n, k>> /\ y.key = <<n, k>> => x = y
    BY DEF SubsLeft
  <2>2. Kept(n, k)' <=> Kept(n, k)
    BY <1>4 DEF Kept, Answered, Here
  <2>3. v \in Entries /\ Entries' = (Entries \ {v}) \cup {w}
    BY <1>4, <1>5 DEF Entries
  <2>4. CASE v.key = <<n, k>>
    <3>1. \A x \in Entries' : x.key = <<n, k>> <=> x = w
      BY <1>3, <2>1, <2>3, <2>4
    <3> QED
      BY <2>1, <2>2, <2>3, <2>4, <3>1
  <2>5. CASE v.key # <<n, k>>
    <3>1. \A x : x \in Entries' /\ x.key = <<n, k>> <=> x \in Entries /\ x.key = <<n, k>>
      BY <1>3, <2>3, <2>5
    <3> QED
      BY <2>1, <2>2, <3>1
  <2> QED
    BY <2>4, <2>5
<1> QED
  BY <1>6, <1>7, <1>9, <1>10

LEMMA SubsStay ==
    ASSUME SubsInv, actionType' \in Submissions!ActionTypes,
           UNCHANGED <<overlay, submission, results, invocations, approvals, contended>>
    PROVE  SubsInv'
<1> USE DEF SubsInv
<1>1. SubsType' /\ SubsPlace' /\ SubsVetted'
  BY DEF SubsType, SubsPlace, SubsVetted, Vetted, Submissions!EditsVetted
<1>2. SubsOnce'
  <2>1. \A c \in Clients, i \in Instances : Passed(c, i)' => Passed(c, i)
    BY DEF Passed, Submissions!Instance, Submissions!Item
  <2> QED
    BY <2>1, SubsOnceStays
<1>3. SubsLeft'
  <2>1. \A n, k \in Nat : Kept(n, k)' <=> Kept(n, k)
    BY DEF Kept, Answered, Here
  <2> QED
    BY <2>1, SubsLeftStays
<1> QED
  BY <1>1, <1>2, <1>3

LEMMA SubsNext ==
    ASSUME SubsInv, [Submissions!Next]_Submissions!vars
    PROVE  SubsInv'
<1>1. CASE UNCHANGED Submissions!vars
  BY <1>1, SubsStay DEF Submissions!vars, SubsInv, SubsType
<1>2. CASE Submissions!Change
  <2>1. UNCHANGED <<overlay, submission, results, invocations, approvals, contended>>
    BY <1>2 DEF Submissions!Change
  <2>2. actionType' \in Submissions!ActionTypes
    BY <1>2 DEF Submissions!Change, Submissions!ontology, SubsInv, SubsType
  <2> QED
    BY <2>1, <2>2, SubsStay
<1> QED
  BY <1>1, <1>2, SubsSubmit, SubsReadType, SubsReadRules, SubsReadInstance, SubsRequestApproval,
     SubsResolve, SubsWrite, SubsConclude, SubsApprove, SubsRevert DEF Submissions!Next

LEMMA SubsCardinality == \A S : Submissions!Cardinality(S) = Cardinality(S)
BY DEF Cardinality, Submissions!Cardinality

LEMMA SubsInvSuffices == ASSUME SubsInv PROVE Submissions!SubmissionsSound
<1> USE DEF SubsInv
<1>1. Submissions!AppliedOnce
  <2> SUFFICES ASSUME NEW v \in invocations, NEW w \in invocations, v # w, v.instance = w.instance,
                      ~v.reverted, ~w.reverted
               PROVE  v.instance \in contended
    BY DEF Submissions!AppliedOnce
  <2>1. v.instance \in Instances
    BY DEF SubsType, Submissions!InvocationRow
  <2> QED
    BY <2>1 DEF SubsOnce, OneClaim, Stands
<1>2. Submissions!BatchAccounted
  <2> SUFFICES ASSUME NEW n \in 1..Len(results), NEW k \in 1..Len(results[n])
               PROVE  Cardinality({v \in invocations : v.key = <<n, k>>} \cup {a \in approvals : a.key = <<n, k>>})
                        = IF results[n][k].ok \/ results[n][k].late THEN 1 ELSE 0
    BY SubsCardinality DEF Submissions!BatchAccounted
  <2>1. n \in Nat /\ k \in Nat
    OBVIOUS
  <2>2. Kept(n, k) <=> results[n][k].ok \/ results[n][k].late
    <3>1. \A c \in Clients : Here(c, n, k) => ~Answered(n, k) /\ ~(k \in 1..Len(results[n]))
      BY SubsHere, SubsRow DEF Here
    <3> QED
      BY <3>1 DEF Kept, Answered
  <2>3. PICK left : left = {v \in invocations : v.key = <<n, k>>} \cup {a \in approvals : a.key = <<n, k>>}
    OBVIOUS
  <2>4. left = {x \in Entries : x.key = <<n, k>>}
    BY <2>3 DEF Entries
  <2>5. CASE Kept(n, k)
    <3>1. PICK x \in Entries : x.key = <<n, k>>
      BY <2>1, <2>5 DEF SubsLeft
    <3>2. left = {x}
      BY <2>1, <2>4, <3>1 DEF SubsLeft
    <3>3. Cardinality(left) = 1
      BY <3>2, FS_Singleton
    <3> QED
      BY <2>2, <2>3, <2>5, <3>3
  <2>6. CASE ~Kept(n, k)
    <3>1. left = {}
      BY <2>1, <2>4, <2>6 DEF SubsLeft
    <3>2. Cardinality(left) = 0
      BY <3>1, FS_EmptySet
    <3> QED
      BY <2>2, <2>3, <2>6, <3>2
  <2> QED
    BY <2>5, <2>6
<1> QED
  BY <1>1, <1>2 DEF Submissions!SubmissionsSound, SubsVetted

(***************************************************************************)
(* However requests, approvals and changes of the definition interleave,   *)
(* an action that falsifies its criterion is applied once per instance     *)
(* until it is reverted, unless a submission was validated while another   *)
(* was undecided; what is written was held against the property's rules,   *)
(* of which a reason meets only the first; and each outcome of a batch     *)
(* tells what was left behind: for any number of callers, instances and    *)
(* requests.                                                               *)
(***************************************************************************)
THEOREM SubmissionsAreSound == Spec => []SubmissionsSound
<1>1. Init => SubsInv
  BY SubsInit DEF Init
<1>2. SubsInv /\ [Next]_vars => SubsInv'
  BY ComponentSteps, SubsNext
<1>3. SubsInv => SubmissionsSound
  BY SubsInvSuffices DEF SubmissionsSound
<1> QED
  BY <1>1, <1>2, <1>3, PTL DEF Spec
=============================================================================
