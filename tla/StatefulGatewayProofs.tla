----------------------- MODULE StatefulGatewayProofs ------------------------
(***************************************************************************)
(* Proofs about StatefulGateway, for any number of requests and sessions:  *)
(* the handlers, the idle timers and the drain tasks change the session    *)
(* table only through its operations, and neither a timer nor a drain ever *)
(* takes a session from under a request in service.                        *)
(***************************************************************************)
EXTENDS StatefulGateway, SessionManagerProofs

USE SessionIdsFinite, TasksFinite, LimitsAreNat, NoSessionIsNoId

LEMMA TaskOfRequest ==
  ASSUME NEW r \in Requests, NEW k \in {"http", "timer", "drain"}
  PROVE  <<r, k>> \in Tasks
BY TasksOfRequests

-----------------------------------------------------------------------------
(* Every step of a handler is an operation of the table or leaves it alone *)

LEMMA ProgressUsesTable ==
  ASSUME GwIInv, NEW r \in Requests, Progress(r)
  PROVE  [Next]_vars
<1>. USE TaskOfRequest DEF Next, Http, Goto
<1>1. ASSUME NEW k \in {"http", "timer", "drain"}, InManager(<<r, k>>)
      PROVE  Next
  BY <1>1 DEF InManager
<1>2. CASE \E s \in SessionIds : CreateSession(r, s)
  BY <1>2 DEF CreateSession
<1>3. CASE EnterNew(r)
  <2>1. target[r] \in SessionIds
    BY <1>3 DEF EnterNew, At, GwIInv, GwBookkeeping
  <2>. QED
    BY <1>3, <2>1 DEF EnterNew
<1>4. CASE DropBeforeTimer(r) \/ Release(r)
  BY <1>4 DEF DropBeforeTimer, Release
<1>5. CASE \/ RefuseSession(r) \/ BeginWrite(r) \/ Respond(r) \/ CheckCount(r) \/ ArmTimer(r)
           \/ ClaimStream(r) \/ TakeReceiver(r)
  BY <1>5 DEF RefuseSession, BeginWrite, Respond, CheckCount, ArmTimer, ClaimStream, TakeReceiver
<1>. QED
  BY <1>1, <1>2, <1>3, <1>4, <1>5 DEF Progress

LEMMA HandlersUseTableStep ==
  ASSUME GwIInv, [GwNext]_allVars
  PROVE  [Next]_vars
<1>. USE TaskOfRequest DEF Next, Http, Goto
<1>1. CASE UNCHANGED allVars
  BY <1>1 DEF allVars
<1>2. CASE \E r \in Requests : Progress(r)
  BY <1>2, ProgressUsesTable
<1>3. ASSUME NEW r \in Requests, Arrive(r)
      PROVE  [Next]_vars
  <2>1. CASE SpawnChild(r) \/ EndStream(r) \/ EndWrite(r)
    BY <2>1 DEF SpawnChild, EndStream, EndWrite
  <2>2. CASE \E s \in SessionIds : PostExisting(r, s) \/ GetStream(r, s)
    BY <2>2 DEF PostExisting, GetStream, Enter
  <2>3. CASE \E s \in SessionIds : Delete(r, s)
    BY <2>3 DEF Delete
  <2>. QED
    BY <1>3, <2>1, <2>2, <2>3 DEF Arrive
<1>4. ASSUME NEW r \in Requests, FireTimer(r)
      PROVE  [Next]_vars
  <2>1. target[r] \in SessionIds
    BY <1>4 DEF FireTimer, GwIInv, GwBookkeeping
  <2>2. CASE UNCHANGED vars
    BY <2>2
  <2>3. CASE IdleCheck(<<r, "timer">>, target[r], timer[r])
    <3>1. timer[r] = timeoutGen[target[r]]
      BY <2>3 DEF IdleCheck, IdleAt
    <3>. QED
      BY <2>1, <2>3, <3>1
  <2>. QED
    BY <1>4, <2>2, <2>3 DEF FireTimer
<1>5. ASSUME NEW r \in Requests, DrainPoll(r) \/ DrainTimeout(r)
      PROVE  [Next]_vars
  <2>1. target[r] \in SessionIds
    BY <1>5 DEF DrainPoll, DrainTimeout, GwIInv, GwBookkeeping
  <2>. QED
    BY <1>5, <2>1 DEF DrainPoll, DrainTimeout, ForceClose
<1>. QED
  BY <1>1, <1>2, <1>3, <1>4, <1>5 DEF GwNext
-----------------------------------------------------------------------------
(* The invariant of the handlers.                                          *)

LEMMA GwInitEstablishes == GwInit => GwIInv
<1> SUFFICES ASSUME GwInit PROVE GwIInv
  OBVIOUS
<1>1. IInv
  BY InitEstablishes DEF GwInit
<1>2. GwTypeOK
  <2>1. 0 \in Nat /\ TypeOK
    BY <1>1 DEF IInv
  <2>. QED
    BY <2>1 DEF GwInit, GwTypeOK
<1>3. GwBookkeeping
  BY DEF GwInit, Init, GwBookkeeping, Inside, Streaming
<1>4. StreamsExact
  <2>1. Streaming = {}
    BY DEF GwInit, Streaming
  <2>. QED
    BY <2>1, FS_EmptySet DEF GwInit, StreamsExact
<1>. QED
  BY <1>1, <1>2, <1>3, <1>4 DEF GwIInv

\* The table's part of GwBookkeeping: a session that was made stays made, a
\* guard belongs to one, and no handler clears the table.
LEMMA GuardedIsMade ==
  ASSUME GwIInv, [Next]_vars
  PROVE  \A t \in Tasks : guard'[t] # NoSession => state'[guard'[t]] # "Unused"
<1>0. IInv /\ TypeOK /\ \A t \in Tasks : guard[t] # NoSession => state[guard[t]] # "Unused"
  BY DEF GwIInv, GwBookkeeping, IInv
<1>1. CASE UNCHANGED <<state, guard>>
  BY <1>0, <1>1
<1>2. ASSUME NEW t \in Tasks, NEW s \in SessionIds, AcquireCount(t, s)
      PROVE  \A u \in Tasks : guard'[u] # NoSession => state'[guard'[u]] # "Unused"
  BY <1>0, <1>2 DEF AcquireCount, TypeOK
<1>3. ASSUME NEW t \in Tasks, DropGuard(t)
      PROVE  \A u \in Tasks : guard'[u] # NoSession => state'[guard'[u]] # "Unused"
  BY <1>0, <1>3 DEF DropGuard, TypeOK
<1>4. ASSUME NEW t \in Tasks, NEW s \in SessionIds, Create(t, s) \/ BeginDelete(t, s)
      PROVE  \A u \in Tasks : guard'[u] # NoSession => state'[guard'[u]] # "Unused"
  BY <1>0, <1>4 DEF Create, BeginDelete, TypeOK
<1>5. ASSUME NEW t \in Tasks, NEW S \in SUBSET SessionIds, NEW how, Remove(t, S, how)
      PROVE  \A u \in Tasks : guard'[u] # NoSession => state'[guard'[u]] # "Unused"
  BY <1>0, <1>5 DEF Remove, TypeOK
<1>6. CASE Next
  <2>1. CASE \E t \in Tasks : AcquireBump(t) \/ SubGauge(t) \/ IdleAbandon(t)
    BY <2>1, <1>1 DEF AcquireBump, SubGauge, IdleAbandon
  <2>2. CASE \E t \in Tasks, s \in SessionIds : RunCleanup(t, s) \/ IdleCheck(t, s, timeoutGen[s])
    BY <2>2, <1>1 DEF RunCleanup, IdleCheck
  <2>3. CASE \E t \in Tasks :
               \/ \E s \in SessionIds : CompleteClose(t, s) \/ TryDrainClose(t, s)
               \/ Clear(t)
               \/ IdleClose(t)
    <3>1. PICK t \in Tasks :
               \/ \E s \in SessionIds : CompleteClose(t, s) \/ TryDrainClose(t, s)
               \/ Clear(t)
               \/ IdleClose(t)
      BY <2>3
    <3>2. \E S \in SUBSET SessionIds, how \in Ways : Removal(t, S, how)
      BY <1>0, <3>1, RemovalShape
    <3>. QED
      BY <1>5, <3>2 DEF Removal
  <2>. QED
    BY <1>2, <1>3, <1>4, <1>6, <2>1, <2>2, <2>3 DEF Next, Continue
<1>. QED
  BY <1>1, <1>6 DEF vars
\* No handler clears the table.
LEMMA NeverCleared ==
  ASSUME GwIInv, [GwNext]_allVars
  PROVE  \A s \in SessionIds : closedBy'[s] # "clear"
<1>0. TypeOK /\ \A s \in SessionIds : closedBy[s] # "clear"
  BY DEF GwIInv, GwBookkeeping, IInv
<1>1. CASE UNCHANGED closedBy
  BY <1>0, <1>1
<1>2. ASSUME NEW t, NEW S, NEW how \in {"force", "drain", "idle"}, Remove(t, S, how)
      PROVE  \A s \in SessionIds : closedBy'[s] # "clear"
  BY <1>0, <1>2 DEF Remove, TypeOK
<1>3. ASSUME NEW r \in Requests, Progress(r)
      PROVE  \A s \in SessionIds : closedBy'[s] # "clear"
  <2>1. ASSUME NEW k, InManager(<<r, k>>)
        PROVE  \A s \in SessionIds : closedBy'[s] # "clear"
    BY <1>1, <1>2, <2>1
    DEF InManager, Continue, AcquireBump, SubGauge, RunCleanup, IdleClose, IdleAbandon
  <2>. QED
    BY <1>1, <1>3, <2>1
    DEF Progress, CreateSession, Create, EnterNew, AcquireCount, DropBeforeTimer,
        Release, DropGuard, RefuseSession, BeginWrite, Respond, CheckCount, ArmTimer, ClaimStream,
        TakeReceiver, vars
<1>4. ASSUME NEW r \in Requests, Arrive(r)
      PROVE  UNCHANGED closedBy
  BY <1>4
  DEF Arrive, SpawnChild, EndStream, EndWrite, PostExisting, GetStream, Enter, AcquireCount,
      Delete, BeginDelete, vars
<1>5. ASSUME NEW r \in Requests, FireTimer(r)
      PROVE  UNCHANGED closedBy
  BY <1>5 DEF FireTimer, IdleCheck, vars
<1>6. ASSUME NEW r \in Requests, DrainPoll(r) \/ DrainTimeout(r)
      PROVE  \A s \in SessionIds : closedBy'[s] # "clear"
  BY <1>1, <1>2, <1>6
  DEF DrainPoll, DrainTimeout, ForceClose, TryDrainClose, CompleteClose, vars
<1>. QED
  BY <1>1, <1>3, <1>4, <1>5, <1>6 DEF GwNext, allVars, vars

\* The handler's part of GwBookkeeping, for one request.
Tied(r) ==
  /\ step[r] \in Inside => guard[Http(r)] = target[r]
  /\ step[r] \in {"timer", "arm"} => guard[Http(r)] \in {NoSession, target[r]}
  /\ \/ step[r] \in Inside \cup {"created", "timer", "arm"}
     \/ timer[r] # NoTimer
     \/ drain[r] \in {"first", "polling"}
     => target[r] \in SessionIds

\* A step of one request leaves the others alone.
Frame(r) ==
  \A q \in Requests \ {r} :
    /\ step'[q] = step[q] /\ target'[q] = target[q]
    /\ timer'[q] = timer[q] /\ drain'[q] = drain[q]
    /\ guard'[Http(q)] = guard[Http(q)]

LEMMA ProgressTies ==
  ASSUME GwIInv, NEW r \in Requests, Progress(r)
  PROVE  Tied(r)' /\ Frame(r)
<1>0. /\ TypeOK /\ GwTypeOK /\ Tied(r)
      /\ Http(r) \in Tasks
      /\ \A q \in Requests : q # r => Http(q) \in Tasks /\ Http(q) # Http(r)
  BY TasksOfRequests DEF GwIInv, GwBookkeeping, IInv, Tied, Http
<1>. USE <1>0 DEF Tied, Frame, Goto, At, Inside, TypeOK, GwTypeOK
<1>1. ASSUME NEW k, InManager(<<r, k>>)
      PROVE  Tied(r)' /\ Frame(r)
  <2>1. UNCHANGED guard
    BY <1>1 DEF InManager, Continue, AcquireBump, SubGauge, RunCleanup, IdleClose,
                IdleAbandon, Remove
  <2>. QED
    BY <1>1, <2>1 DEF InManager, gvars, Http
<1>2. CASE \E s \in SessionIds : CreateSession(r, s)
  BY <1>2 DEF CreateSession, Create, Http
<1>3. CASE EnterNew(r)
  <2>1. guard' = [guard EXCEPT ![Http(r)] = target[r]]
    BY <1>3 DEF EnterNew, AcquireCount
  <2>. QED
    BY <1>3, <2>1 DEF EnterNew
<1>4. CASE DropBeforeTimer(r) \/ Release(r)
  <2>1. guard' = [guard EXCEPT ![Http(r)] = NoSession]
    BY <1>4 DEF DropBeforeTimer, Release, DropGuard
  <2>. QED
    BY <1>4, <2>1 DEF DropBeforeTimer, Release
<1>5. CASE RefuseSession(r) \/ BeginWrite(r) \/ Respond(r) \/ ClaimStream(r) \/ TakeReceiver(r)
  BY <1>5 DEF RefuseSession, BeginWrite, Respond, ClaimStream, TakeReceiver, vars, AfterReply, Http
<1>6. CASE CheckCount(r) \/ ArmTimer(r)
  BY <1>6 DEF CheckCount, ArmTimer, Leave, vars, Http
<1>. QED
  BY <1>1, <1>2, <1>3, <1>4, <1>5, <1>6 DEF Progress
LEMMA HandlersTied ==
  ASSUME GwIInv, [GwNext]_allVars
  PROVE  \A q \in Requests : Tied(q)'
<1>0. /\ TypeOK /\ GwTypeOK /\ \A q \in Requests : Tied(q)
      /\ \A q \in Requests : Http(q) \in Tasks
      /\ \A q, r \in Requests : q # r => Http(q) # Http(r)
  BY TasksOfRequests DEF GwIInv, GwBookkeeping, IInv, Tied, Http
<1>1. ASSUME NEW r \in Requests, Tied(r)', Frame(r)
      PROVE  \A q \in Requests : Tied(q)'
  BY <1>0, <1>1 DEF Tied, Frame
<1>. USE DEF Tied, Frame, Goto, At, Inside, TypeOK, GwTypeOK
<1>2. CASE UNCHANGED allVars
  BY <1>0, <1>2 DEF allVars, gvars, vars, Http
<1>3. ASSUME NEW r \in Requests, Arrive(r)
      PROVE  Tied(r)' /\ Frame(r)
  <2>1. CASE SpawnChild(r) \/ EndStream(r) \/ EndWrite(r)
    BY <1>0, <2>1 DEF SpawnChild, EndStream, EndWrite, AfterReply, vars, Http
  <2>2. ASSUME NEW s \in SessionIds, PostExisting(r, s) \/ GetStream(r, s)
        PROVE  Tied(r)' /\ Frame(r)
    <3>1. PICK where \in {"serving", "claim"} :
            /\ target' = [target EXCEPT ![r] = s]
            /\ \/ AcquireCount(Http(r), s) /\ Goto(r, where)
               \/ Goto(r, "done") /\ UNCHANGED vars
            /\ UNCHANGED <<timer, drain>>
      BY <2>2 DEF PostExisting, GetStream, Enter
    <3>2. CASE AcquireCount(Http(r), s) /\ Goto(r, where)
      <4>1. guard' = [guard EXCEPT ![Http(r)] = s]
        BY <3>2 DEF AcquireCount
      <4>. QED
        BY <1>0, <3>1, <3>2, <4>1
    <3>3. CASE Goto(r, "done") /\ UNCHANGED vars
      BY <1>0, <3>1, <3>3 DEF vars
    <3>. QED
      BY <3>1, <3>2, <3>3
  <2>3. ASSUME NEW s \in SessionIds, Delete(r, s)
        PROVE  Tied(r)' /\ Frame(r)
    BY <1>0, <2>3 DEF Delete, BeginDelete, vars
  <2>. QED
    BY <1>3, <2>1, <2>2, <2>3 DEF Arrive
<1>4. ASSUME NEW r \in Requests, FireTimer(r)
      PROVE  Tied(r)' /\ Frame(r)
  BY <1>0, <1>4 DEF FireTimer, IdleCheck, vars, NoTimer
<1>5. ASSUME NEW r \in Requests, DrainPoll(r) \/ DrainTimeout(r)
      PROVE  Tied(r)' /\ Frame(r)
  BY <1>0, <1>5 DEF DrainPoll, DrainTimeout, ForceClose, TryDrainClose,
                    CompleteClose, Remove, vars
<1>. QED
  BY <1>1, <1>2, <1>3, <1>4, <1>5, ProgressTies DEF GwNext

LEMMA StreamingFinite == IsFiniteSet(Requests) /\ IsFiniteSet(Streaming)
<1>. DEFINE f == [r \in Requests |-> <<r, "http">>]
<1>1. f \in Injection(Requests, Tasks)
  BY TasksOfRequests DEF Injection, IsInjective
<1>2. IsFiniteSet(Requests)
  BY <1>1, FS_Injection
<1>. QED
  BY <1>2, FS_Subset DEF Streaming

LEMMA GwTypeStep ==
  ASSUME GwIInv, [GwNext]_allVars, TypeOK'
  PROVE  GwTypeOK'
<1>0. TypeOK /\ GwTypeOK
  BY DEF GwIInv, IInv
<1>. USE <1>0 DEF GwTypeOK, Goto
<1>1. CASE UNCHANGED allVars
  BY <1>1 DEF allVars, gvars
<1>2. ASSUME NEW r \in Requests, Progress(r)
      PROVE  GwTypeOK'
  <2>1. CASE \E k \in {"http", "timer", "drain"} : InManager(<<r, k>>)
    BY <2>1 DEF InManager, gvars
  <2>2. CASE \/ \E s \in SessionIds : CreateSession(r, s)
             \/ RefuseSession(r) \/ EnterNew(r) \/ BeginWrite(r) \/ Respond(r)
             \/ DropBeforeTimer(r) \/ Release(r)
    BY <2>2 DEF CreateSession, RefuseSession, EnterNew, BeginWrite, Respond, AfterReply,
                DropBeforeTimer, Release
  <2>3. CASE CheckCount(r) \/ ArmTimer(r)
    <3>1. CASE CheckCount(r)
      <4>1. target[r] \in SessionIds
        BY <3>1 DEF CheckCount, At, GwIInv, GwBookkeeping
      <4>. QED
        BY <3>1, <4>1 DEF CheckCount, Leave
    <3>2. CASE ArmTimer(r)
      <4>1. target[r] \in SessionIds
        BY <3>2 DEF ArmTimer, At, GwIInv, GwBookkeeping
      <4>2. timeoutGen[target[r]] \in Nat
        BY <4>1 DEF TypeOK
      <4>. QED
        BY <3>2, <4>1, <4>2 DEF ArmTimer, Leave
    <3>. QED
      BY <2>3, <3>1, <3>2
  <2>4. CASE ClaimStream(r) \/ TakeReceiver(r)
    <3>1. CASE ClaimStream(r)
      BY <3>1 DEF ClaimStream
    <3>2. CASE TakeReceiver(r)
      <4>1. clients' \in Nat
        BY <3>2 DEF TakeReceiver
      <4>. QED
        BY <3>2, <4>1 DEF TakeReceiver
    <3>. QED
      BY <2>4, <3>1, <3>2
  <2>. QED
    BY <1>2, <2>1, <2>2, <2>3, <2>4 DEF Progress
<1>3. ASSUME NEW r \in Requests, SpawnChild(r) \/ EndWrite(r)
      PROVE  GwTypeOK'
  BY <1>3 DEF SpawnChild, EndWrite, AfterReply
<1>4. ASSUME NEW r \in Requests, NEW s \in SessionIds,
             PostExisting(r, s) \/ GetStream(r, s)
      PROVE  GwTypeOK'
  BY <1>4 DEF PostExisting, GetStream, Enter
<1>5. ASSUME NEW r \in Requests, NEW s \in SessionIds, Delete(r, s)
      PROVE  GwTypeOK'
  BY <1>5 DEF Delete
<1>6. ASSUME NEW r \in Requests, FireTimer(r) \/ DrainPoll(r) \/ DrainTimeout(r)
      PROVE  GwTypeOK'
  BY <1>6 DEF FireTimer, DrainPoll, DrainTimeout
<1>7. ASSUME NEW r \in Requests, EndStream(r)
      PROVE  GwTypeOK'
  <2>1. r \in Streaming /\ Cardinality(Streaming) # 0
    BY <1>7, StreamingFinite, FS_EmptySet DEF EndStream, At, Streaming
  <2>2. clients' \in Nat
    BY <1>7, <2>1 DEF EndStream, ClientsAfterStream, GwIInv, StreamsExact
  <2>. QED
    BY <1>7, <2>2 DEF EndStream
<1>. QED
  BY <1>1, <1>2, <1>3, <1>4, <1>5, <1>6, <1>7 DEF GwNext, Arrive
\* Streams start when the receiver is taken, which happens once a session, and
\* end one by one.
LEMMA StreamsStep ==
  ASSUME GwIInv, [GwNext]_allVars
  PROVE  StreamsExact' /\ \A r \in Streaming' : rxTaken'[target'[r]]
<1>0. /\ TypeOK /\ GwTypeOK /\ StreamsExact
      /\ \A r \in Streaming : rxTaken[target[r]] /\ target[r] \in SessionIds
  BY DEF GwIInv, IInv, GwBookkeeping, Streaming, Inside
<1>. USE <1>0 DEF GwTypeOK, Goto, At
<1>1. ASSUME UNCHANGED <<clients, rxTaken>>, Streaming' = Streaming,
             \A q \in Streaming : target'[q] = target[q]
      PROVE  StreamsExact' /\ \A r \in Streaming' : rxTaken'[target'[r]]
  BY <1>1 DEF StreamsExact
<1>2. CASE UNCHANGED allVars
  BY <1>1, <1>2 DEF allVars, gvars, Streaming
<1>3. ASSUME NEW r \in Requests,
             \/ \E k \in {"http", "timer", "drain"} : InManager(<<r, k>>)
             \/ FireTimer(r) \/ DrainPoll(r) \/ DrainTimeout(r)
      PROVE  StreamsExact' /\ \A q \in Streaming' : rxTaken'[target'[q]]
  BY <1>1, <1>3 DEF InManager, FireTimer, DrainPoll, DrainTimeout, gvars, Streaming
<1>4. ASSUME NEW r \in Requests,
             \/ SpawnChild(r) \/ RefuseSession(r) \/ EnterNew(r)
             \/ BeginWrite(r) \/ EndWrite(r) \/ Respond(r)
             \/ DropBeforeTimer(r) \/ CheckCount(r) \/ ArmTimer(r)
             \/ ClaimStream(r) \/ Release(r)
      PROVE  StreamsExact' /\ \A q \in Streaming' : rxTaken'[target'[q]]
  <2>1. UNCHANGED <<clients, rxTaken, target>>
    BY <1>4 DEF SpawnChild, RefuseSession, EnterNew, BeginWrite, EndWrite, Respond,
                DropBeforeTimer, CheckCount, ArmTimer, ClaimStream, Release
  <2>2. step[r] # "streaming"
    BY <1>4 DEF SpawnChild, RefuseSession, EnterNew, BeginWrite, EndWrite, Respond,
                DropBeforeTimer, CheckCount, ArmTimer, ClaimStream, Release
  <2>3. PICK where : step' = [step EXCEPT ![r] = where] /\ where # "streaming"
    BY <1>4 DEF SpawnChild, RefuseSession, EnterNew, BeginWrite, EndWrite, Respond,
                DropBeforeTimer, CheckCount, ArmTimer, ClaimStream, Release, Leave, AfterReply
  <2>4. Streaming' = Streaming
    BY <2>2, <2>3 DEF Streaming
  <2>. QED
    BY <1>1, <2>1, <2>4
<1>5. ASSUME NEW r \in Requests, NEW s \in SessionIds,
             CreateSession(r, s) \/ PostExisting(r, s) \/ GetStream(r, s) \/ Delete(r, s)
      PROVE  StreamsExact' /\ \A q \in Streaming' : rxTaken'[target'[q]]
  <2>1. UNCHANGED <<clients, rxTaken>> /\ target' = [target EXCEPT ![r] = s]
    BY <1>5 DEF CreateSession, PostExisting, GetStream, Enter, Delete
  <2>2. step[r] # "streaming"
    BY <1>5 DEF CreateSession, PostExisting, GetStream, Enter, Delete
  <2>3. PICK where : step' = [step EXCEPT ![r] = where] /\ where # "streaming"
    BY <1>5 DEF CreateSession, PostExisting, GetStream, Enter, Delete
  <2>4. Streaming' = Streaming /\ \A q \in Streaming : target'[q] = target[q]
    BY <2>1, <2>2, <2>3 DEF Streaming
  <2>. QED
    BY <1>1, <2>1, <2>4
<1>6. ASSUME NEW r \in Requests, TakeReceiver(r)
      PROVE  StreamsExact' /\ \A q \in Streaming' : rxTaken'[target'[q]]
  <2>1. CASE target[r] \in InMap /\ ~rxTaken[target[r]]
    <3>1. target[r] \in SessionIds
      BY <2>1 DEF InMap
    <3>2. /\ UNCHANGED target
          /\ rxTaken' = [rxTaken EXCEPT ![target[r]] = TRUE]
          /\ clients' = clients + 1
          /\ step' = [step EXCEPT ![r] = "streaming"]
          /\ r \notin Streaming
      BY <1>6, <2>1 DEF TakeReceiver, Streaming
    <3>3. Streaming' = Streaming \cup {r}
      BY <3>2 DEF Streaming
    <3>4. Cardinality(Streaming') = Cardinality(Streaming) + 1
      BY <3>2, <3>3, StreamingFinite, FS_AddElement
    <3>5. \A q \in Streaming : target[q] # target[r]
      BY <2>1
    <3>6. \A q \in Streaming' : rxTaken'[target'[q]]
      BY <3>1, <3>2, <3>3
    <3>7. \A p, q \in Streaming' : target'[p] = target'[q] => p = q
      BY <3>2, <3>3, <3>5 DEF StreamsExact
    <3>. QED
      BY <3>2, <3>4, <3>6, <3>7 DEF StreamsExact
  <2>2. CASE ~(target[r] \in InMap /\ ~rxTaken[target[r]])
    <3>1. /\ UNCHANGED <<clients, rxTaken, target>>
          /\ step' = [step EXCEPT ![r] = "release"]
          /\ r \notin Streaming
      BY <1>6, <2>2 DEF TakeReceiver, Streaming
    <3>2. Streaming' = Streaming
      BY <3>1 DEF Streaming
    <3>. QED
      BY <1>1, <3>1, <3>2
  <2>. QED
    BY <2>1, <2>2
<1>7. ASSUME NEW r \in Requests, EndStream(r)
      PROVE  StreamsExact' /\ \A q \in Streaming' : rxTaken'[target'[q]]
  <2>1. /\ UNCHANGED <<rxTaken, target>>
        /\ clients' = clients - 1
        /\ step' = [step EXCEPT ![r] = "timer"]
        /\ r \in Streaming
    BY <1>7 DEF EndStream, ClientsAfterStream, Streaming
  <2>2. Streaming' = Streaming \ {r}
    BY <2>1 DEF Streaming
  <2>3. Cardinality(Streaming') = Cardinality(Streaming) - 1
    BY <2>1, <2>2, StreamingFinite, FS_RemoveElement
  <2>. QED
    BY <2>1, <2>2, <2>3 DEF StreamsExact
<1>. QED
  BY <1>2, <1>3, <1>4, <1>5, <1>6, <1>7 DEF GwNext, Progress, Arrive

LEMMA GwInvariantStep ==
  ASSUME GwIInv, [GwNext]_allVars
  PROVE  GwIInv' /\ [Next]_vars
<1>1. [Next]_vars
  BY HandlersUseTableStep
<1>2. IInv'
  BY <1>1, InvariantStep DEF GwIInv
<1>3. GwTypeOK'
  BY <1>2, GwTypeStep DEF IInv
<1>4. GwBookkeeping'
  BY <1>1, HandlersTied, GuardedIsMade, NeverCleared, StreamsStep DEF GwBookkeeping, Tied
<1>. QED
  BY <1>1, <1>2, <1>3, <1>4, StreamsStep DEF GwIInv

-----------------------------------------------------------------------------
(* The theorems.                                                           *)

\* The invariant of the table and of the handlers around it.
THEOREM GatewayInvariant == GwSpec => []GwIInv
<1>1. GwIInv /\ [GwNext]_allVars => GwIInv'
  BY GwInvariantStep
<1>. QED
  BY <1>1, GwInitEstablishes, PTL DEF GwSpec

\* The HTTP handlers, timers and drain tasks only ever use the table as its
\* operations allow: whatever holds of Spec holds of the gateway.
THEOREM HandlersUseTable == GwSpec => Spec
<1>1. GwInit => Init
  BY DEF GwInit
<1>2. GwIInv /\ [GwNext]_allVars => [Next]_vars
  BY GwInvariantStep
<1>. QED
  BY <1>1, <1>2, GatewayInvariant, PTL DEF GwSpec, Spec

\* Every variable of the gateway has its type; active_clients is never negative.
THEOREM GatewayTypeCorrect == GwSpec => []GwTypeOK
<1>1. GwIInv => GwTypeOK
  BY DEF GwIInv
<1>. QED
  BY <1>1, GatewayInvariant, PTL

\* One stream per session, and active_clients counts the streams.
THEOREM StreamsCorrect == GwSpec => []StreamsExact
<1>1. GwIInv => StreamsExact
  BY DEF GwIInv
<1>. QED
  BY <1>1, GatewayInvariant, PTL

\* Of any number of requests, timers and deletes, only the deadline of a DELETE
\* takes a session away from a request in service or an open stream.
THEOREM ServiceIsSafe == GwSpec => []InFlightIsSafe
<1>1. ASSUME GwIInv PROVE InFlightIsSafe
  <2>1. SUFFICES ASSUME NEW r \in Requests, step[r] \in {"serving", "writing", "waiting",
                                    "take", "streaming"},
                        target[r] \notin InMap
                 PROVE  closedBy[target[r]] = "force"
    BY DEF InFlightIsSafe
  <2>2. /\ target[r] \in SessionIds
        /\ guard[Http(r)] = target[r]
        /\ Http(r) \in Tasks
    BY <1>1, <2>1, TasksOfRequests DEF GwIInv, GwBookkeeping, Inside, Http
  <2>3. state[target[r]] # "Unused"
    BY <1>1, <2>2 DEF GwIInv, GwBookkeeping
  <2>4. state[target[r]] = "Closed"
    BY <1>1, <2>1, <2>2, <2>3 DEF GwIInv, IInv, TypeOK, InMap
  <2>5. closedBy[target[r]] \in {"force", "drain", "idle"}
    BY <1>1, <2>2, <2>4 DEF GwIInv, GwBookkeeping, IInv, TypeOK, Bookkeeping
  <2>6. Http(r) \in Holders(target[r])
    BY <2>2 DEF Holders
  <2>. QED
    BY <1>1, <2>2, <2>5, <2>6 DEF GwIInv, IInv, RetiredIsQuiet
<1>. QED
  BY <1>1, GatewayInvariant, PTL
=============================================================================
